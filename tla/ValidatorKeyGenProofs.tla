----------------------- MODULE ValidatorKeyGenProofs -----------------------
(***************************************************************************)
(* For any validators, faulty members, groups, losses of state and times:  *)
(*                                                                         *)
(*   PublishedSharesMatch  secret shares are only published for the        *)
(*                         commitment that is onchain                      *)
(*                         (SharesMatchCommitment);                        *)
(*   ValidatorsInStep      validators that lost nothing in their epoch     *)
(*                         agree on all that is public of the ceremony     *)
(*                         (LockStep), if they are on one side of genesis; *)
(*   StagedMembersHoldKeys who followed the staging of a group it is a     *)
(*                         member of holds the key share (KeysHeld).       *)
(*                                                                         *)
(* ShareInv relates three places that change at different times: what the  *)
(* coordinator stores, what every validator remembers of the same group,   *)
(* and the transactions it has queued.                                     *)
(*                                                                         *)
(* LockInv is about two validators at once.  Its handlers are covered by   *)
(* pairs of lemmas: one (...Moves) says where a transition leads in the    *)
(* order of epochs and groups, the other (...Same) that two states that    *)
(* are the same in public still are after it, although the accounts they   *)
(* run as, their secrets and their key shares differ.                      *)
(*                                                                         *)
(* KeysInv follows one key share from the counting of secret shares, over  *)
(* the confirmation that waits in the queue, to the staging.  A lost state *)
(* is no exception: once all have shared nobody counts a share again, so a *)
(* confirmation that outlived its sender's state finds it without a round. *)
(***************************************************************************)
EXTENDS ValidatorKeyGen, FiniteSetTheorems, WellFoundedInduction, TLAPS

\* The fields of a state, of a ceremony, and the kinds of transactions.
Fields ==
    {"phase", "epoch", "members", "own", "commitments", "keys", "shares", "total",
     "unresponded", "confirmations", "status", "deadline", "active", "epochs"}

CeremonyFields == {"committed", "shared", "confirmed", "filed", "answered", "compromised"}

Kinds == {"commit", "share", "complain", "respond", "confirm"}

\* A state of validator v: the members are participants, only members have
\* committed, and who takes part is a member.
ViewOk(v, s) ==
    /\ DOMAIN s = Fields
    /\ s.members \subseteq Participants
    /\ DOMAIN s.commitments \subseteq s.members
    /\ s.own # Observing => v \in s.members

\* t starts without commitments, or keeps those s has of its group.
Follows(s, t) ==
    \/ t.commitments = <<>>
    \/ t.epoch = s.epoch /\ t.members = s.members /\ t.commitments = s.commitments

\* The secret shares among the actions are those of the own commitment, and
\* the setups are the validator's own.
ActsOk(v, r) ==
    /\ \A a \in r.acts :
        /\ a.kind \in Kinds
        /\ a.kind = "share" =>
            /\ a.group = groupId(r.s.epoch, r.s.members)
            /\ v \in DOMAIN r.s.commitments
            /\ a.version = r.s.commitments[v]
    /\ \A e \in r.setup : e[1] = v

StepOk(v, s, r) == ViewOk(v, r.s) /\ Follows(s, r.s) /\ ActsOk(v, r)

----------------------------------------------------------------------------
(* What the transitions do to commitments                                  *)

\* A result has what it is made of.
LEMMA ResultOf ==
  ASSUME NEW s, NEW acts, NEW setup
  PROVE  /\ result(s, acts, setup).s = s
         /\ result(s, acts, setup).acts = acts
         /\ result(s, acts, setup).setup = setup
         /\ stay(s).s = s /\ stay(s).acts = {} /\ stay(s).setup = {}
  BY DEF result, stay

\* Nothing happens.
LEMMA StayOk ==
  ASSUME NEW v, NEW s, ViewOk(v, s)
  PROVE  StepOk(v, s, stay(s))
  BY ResultOf DEF StepOk, Follows, ActsOk

\* A state without a ceremony.
LEMMA IdleOk ==
  ASSUME NEW v, NEW s, NEW phase, NEW epoch
  PROVE  /\ ViewOk(v, idle(s, phase, epoch))
         /\ idle(s, phase, epoch).commitments = <<>>
  BY DEF ViewOk, idle, Fields

\* The members are participants.
LEMMA ParticipantsOk ==
  ASSUME NEW epoch, NEW excluded
  PROVE  /\ activeIn(epoch) \subseteq Participants
         /\ participantsSet(epoch, excluded) \subseteq Participants
         /\ participantsSet(epoch, excluded) \subseteq activeIn(epoch) \ excluded
<1>1. activeIn(epoch) \subseteq Participants
  BY DEF activeIn
<1>2. participantsSet(epoch, excluded) \subseteq activeIn(epoch) \ excluded
  BY DEF participantsSet
<1> QED BY <1>1, <1>2

\* A ceremony starts.
LEMMA StartOk ==
  ASSUME NEW v, NEW s, NEW u, NEW epoch, NEW members \in SUBSET Participants, NEW deadline
  PROVE  StepOk(v, u, startKeyGen(v, s, epoch, members, deadline))
<1>1. PICK r : r = startKeyGen(v, s, epoch, members, deadline)
  OBVIOUS
<1>2. PICK i : i = idle(s, "CollectingCommitments", epoch)
  OBVIOUS
<1>3. DOMAIN i = Fields /\ i.commitments = <<>>
  BY <1>2, IdleOk DEF ViewOk
<1>4. PICK own : own = IF v \in members THEN NoSecrets ELSE Observing
  OBVIOUS
<1>5. PICK t : t = [i EXCEPT !.members = members, !.own = own, !.deadline = deadline]
  OBVIOUS
<1>6. DOMAIN t = Fields /\ t.commitments = <<>> /\ t.members = members /\ t.own = own
  BY <1>3, <1>5 DEF Fields
<1>7. r.s = t /\ r.acts = {} /\ \A e \in r.setup : e[1] = v
  BY <1>1, <1>2, <1>4, <1>5, ResultOf DEF startKeyGen
<1>8. ViewOk(v, t)
  BY <1>4, <1>6 DEF ViewOk
<1> QED BY <1>1, <1>6, <1>7, <1>8 DEF StepOk, Follows, ActsOk

\* The epoch is skipped.
LEMMA FailureOk ==
  ASSUME NEW v, NEW s, NEW u
  PROVE  StepOk(v, u, rolloverFailure(s))
<1>1. PICK i : rolloverFailure(s) = stay(i) /\ ViewOk(v, i) /\ i.commitments = <<>>
  BY IdleOk DEF rolloverFailure
<1>2. PICK r : r = rolloverFailure(s)
  OBVIOUS
<1>3. r.s = i /\ r.acts = {} /\ r.setup = {}
  BY <1>1, <1>2, ResultOf
<1>4. StepOk(v, u, r)
  BY <1>1, <1>3 DEF StepOk, Follows, ActsOk
<1> QED BY <1>2, <1>4

\* The ceremony starts again without some members.
LEMMA RestartOk ==
  ASSUME NEW v, NEW s, NEW u, NEW excluded, NEW deadline
  PROVE  StepOk(v, u, restartKeyGenExcluding(v, s, excluded, deadline))
<1>1. PICK members \in SUBSET Participants :
         members = IF s.epoch = 0 THEN {} ELSE participantsSet(s.epoch, excluded)
  BY ParticipantsOk
<1> QED BY <1>1, FailureOk, StartOk DEF restartKeyGenExcluding

\* Every member has committed, so the validator itself has.
LEMMA AllCommitted ==
  ASSUME NEW v, NEW s, ViewOk(v, s), complete(s, DOMAIN s.commitments)
  PROVE  DOMAIN s.commitments = s.members
<1>1. IsFiniteSet(s.members)
  BY ConfigAssumption, FS_Subset DEF ViewOk
<1> QED BY <1>1, FS_Subset DEF ViewOk, complete

\* The secret shares are published.
LEMMA FinalizeOk ==
  ASSUME NEW v, NEW s, ViewOk(v, s), complete(s, DOMAIN s.commitments), NEW deadline
  PROVE  StepOk(v, s, finalizeKeyGenCommitments(v, s, deadline))
<1>1. CASE ~matchesCommitment(v, s)
  BY <1>1, FailureOk DEF finalizeKeyGenCommitments
<1>2. CASE matchesCommitment(v, s)
  <2>1. PICK t : t = [s EXCEPT !.phase = "CollectingShares", !.deadline = deadline,
                          !.total = [p \in s.members |-> 0],
                          !.unresponded = [p \in s.members |-> 0]]
    OBVIOUS
  <2>2. /\ DOMAIN t = Fields /\ t.commitments = s.commitments
        /\ t.members = s.members /\ t.epoch = s.epoch /\ t.own = s.own
    BY <2>1 DEF ViewOk, Fields
  <2>3. PICK acts : acts = IF s.own = Observing THEN {} ELSE {action("share", s, v, s.own)}
    OBVIOUS
  <2>4. finalizeKeyGenCommitments(v, s, deadline) = result(t, acts, {})
    BY <1>2, <2>1, <2>3 DEF finalizeKeyGenCommitments
  <2>5. ASSUME NEW a \in acts
        PROVE  /\ a.kind \in Kinds
               /\ a.group = groupId(t.epoch, t.members)
               /\ v \in DOMAIN t.commitments
               /\ a.version = t.commitments[v]
    <3>1. s.own # Observing /\ a = action("share", s, v, s.own)
      BY <2>3
    <3>2. v \in DOMAIN s.commitments /\ s.commitments[v] = s.own
      BY <1>2, <3>1, AllCommitted DEF ViewOk, matchesCommitment
    <3> QED BY <2>2, <3>1, <3>2 DEF action, Kinds
  <2>6. ViewOk(v, t) /\ Follows(s, t)
    BY <2>2 DEF ViewOk, Follows
  <2> QED BY <2>4, <2>5, <2>6, ResultOf DEF StepOk, ActsOk
<1> QED BY <1>1, <1>2

\* A state that differs in other fields only.
LEMMA OthersOk ==
  ASSUME NEW v, NEW s, ViewOk(v, s), NEW t, DOMAIN t = DOMAIN s, t.epoch = s.epoch,
         t.members = s.members, t.commitments = s.commitments, t.own = s.own
  PROVE  ViewOk(v, t) /\ Follows(s, t)
  BY DEF ViewOk, Follows

\* The key share is confirmed as soon as it can be made.
LEMMA ConfirmOk ==
  ASSUME NEW v, NEW s, ViewOk(v, s), NEW u, Follows(u, s)
  PROVE  StepOk(v, u, confirmKeyGen(v, s))
<1>1. CASE hasKeyShare(s)
  <2>1. PICK t : t = [s EXCEPT !.status = "Confirmed"]
    OBVIOUS
  <2>2. /\ DOMAIN t = DOMAIN s /\ t.commitments = s.commitments
        /\ t.members = s.members /\ t.epoch = s.epoch /\ t.own = s.own
    BY <2>1 DEF ViewOk, Fields
  <2>3. PICK acts : acts = {action("confirm", s, v, 0)}
    OBVIOUS
  <2>4. \A a \in acts : a.kind = "confirm"
    BY <2>3 DEF action
  <2>5. confirmKeyGen(v, s) = result(t, acts, {})
    BY <1>1, <2>1, <2>3 DEF confirmKeyGen
  <2>6. ViewOk(v, t) /\ Follows(u, t)
    BY <2>2 DEF ViewOk, Follows
  <2> QED BY <2>4, <2>5, <2>6, ResultOf DEF StepOk, ActsOk, Kinds
<1>2. CASE ~hasKeyShare(s)
  BY <1>2, ResultOf DEF confirmKeyGen, StepOk, ActsOk
<1> QED BY <1>1, <1>2

----------------------------------------------------------------------------
(* Events and blocks                                                       *)

\* KeyGen.
LEMMA OnKeyGenOk ==
  ASSUME NEW v, NEW s, ViewOk(v, s), NEW g
  PROVE  StepOk(v, s, onKeyGen(v, s, g))
<1>1. activeIn(0) \in SUBSET Participants
  BY ParticipantsOk
<1> QED BY <1>1, StayOk, StartOk DEF onKeyGen

\* The secrets arrive.
LEMMA OnSetupOk ==
  ASSUME NEW v, NEW s, ViewOk(v, s), NEW g, NEW version
  PROVE  StepOk(v, s, onSetup(v, s, g, version))
<1>1. CASE ~(s.phase = "CollectingCommitments" /\ s.own = NoSecrets /\ inGroup(s, g))
  BY <1>1, StayOk DEF onSetup
<1>2. CASE s.phase = "CollectingCommitments" /\ s.own = NoSecrets /\ inGroup(s, g)
  <2>1. PICK filled : filled = [s EXCEPT !.own = version]
    OBVIOUS
  <2>2. /\ DOMAIN filled = Fields /\ filled.commitments = s.commitments
        /\ filled.members = s.members /\ filled.epoch = s.epoch
    BY <2>1 DEF ViewOk, Fields
  <2>3. v \in s.members
    BY <1>2 DEF ViewOk, NoSecrets, Observing
  <2>4. ViewOk(v, filled) /\ Follows(s, filled)
    BY <2>2, <2>3 DEF ViewOk, Follows
  <2>5. PICK commit : commit = IF publishes(v, s) THEN {action("commit", s, v, version)} ELSE {}
    OBVIOUS
  <2>6. \A a \in commit : a.kind = "commit"
    BY <2>5 DEF action
  <2>7. CASE ~complete(s, DOMAIN s.commitments)
    <3>1. onSetup(v, s, g, version) = result(filled, commit, {})
      BY <1>2, <2>1, <2>5, <2>7 DEF onSetup
    <3> QED BY <2>4, <2>6, <3>1, ResultOf DEF StepOk, ActsOk, Kinds
  <2>8. CASE complete(s, DOMAIN s.commitments)
    <3>1. complete(filled, DOMAIN filled.commitments)
      BY <2>2, <2>8 DEF complete
    <3>2. PICK closed : closed = finalizeKeyGenCommitments(v, filled, pushed(s, s.deadline))
      OBVIOUS
    <3>3. StepOk(v, filled, closed)
      BY <2>4, <3>1, <3>2, FinalizeOk
    <3>4. \E t, acts, setup : closed = result(t, acts, setup)
      BY <3>2 DEF finalizeKeyGenCommitments, rolloverFailure, stay
    <3>5. PICK r : r = [closed EXCEPT !.acts = @ \cup commit]
      OBVIOUS
    <3>6. r.s = closed.s /\ r.acts = closed.acts \cup commit /\ r.setup = closed.setup
      BY <3>4, <3>5 DEF result
    <3>7. onSetup(v, s, g, version) = r
      BY <1>2, <2>1, <2>5, <2>8, <3>2, <3>5 DEF onSetup
    <3>8. Follows(s, closed.s)
      BY <2>2, <3>3 DEF StepOk, Follows
    <3> QED BY <2>6, <3>3, <3>6, <3>7, <3>8 DEF StepOk, ActsOk, Kinds
  <2> QED BY <2>7, <2>8
<1> QED BY <1>1, <1>2

\* A map with one key more.
LEMMA PutIs ==
  ASSUME NEW m, NEW k, NEW x
  PROVE  /\ DOMAIN put(m, k, x) = DOMAIN m \cup {k}
         /\ put(m, k, x)[k] = x
         /\ \A y \in DOMAIN m : y # k => put(m, k, x)[y] = m[y]
  BY DEF put

\* A commitment arrives, which s may count.
Counted(s, p, version) ==
    IF verifyCommitment(version) THEN [s EXCEPT !.commitments = put(@, p, version)] ELSE s

\* Its state is one.
LEMMA CountedOk ==
  ASSUME NEW v, NEW s, ViewOk(v, s), NEW p \in s.members, NEW version
  PROVE  /\ ViewOk(v, Counted(s, p, version))
         /\ \A f \in Fields : f # "commitments" => Counted(s, p, version)[f] = s[f]
         /\ Counted(s, p, version).commitments =
              IF verifyCommitment(version) THEN put(s.commitments, p, version) ELSE s.commitments
<1>1. PICK t : t = Counted(s, p, version)
  OBVIOUS
<1>2. DOMAIN t = Fields /\ \A f \in Fields : f # "commitments" => t[f] = s[f]
  BY <1>1 DEF Counted, ViewOk
<1>3. t.commitments = IF verifyCommitment(version) THEN put(s.commitments, p, version) ELSE s.commitments
  BY <1>1 DEF Counted, ViewOk, Fields
<1>4. t.members = s.members /\ t.own = s.own
  BY <1>2 DEF Fields
<1>5. DOMAIN t.commitments \subseteq s.members
  <2>1. t.commitments = put(s.commitments, p, version) \/ t.commitments = s.commitments
    BY <1>3
  <2>2. DOMAIN put(s.commitments, p, version) = DOMAIN s.commitments \cup {p}
    BY PutIs
  <2> QED BY <2>1, <2>2 DEF ViewOk
<1> QED BY <1>1, <1>2, <1>3, <1>4, <1>5 DEF ViewOk

\* KeyGenCommitted.
LEMMA OnCommittedOk ==
  ASSUME NEW v, NEW s, ViewOk(v, s), NEW b, NEW g, NEW p \in g.members, NEW version
  PROVE  \/ StepOk(v, s, onCommitted(v, s, b, g, p, version))
         \/ inGroup(s, g) /\ StepOk(v, Counted(s, p, version), onCommitted(v, s, b, g, p, version))
<1>1. CASE ~(s.phase = "CollectingCommitments" /\ inGroup(s, g))
  BY <1>1, StayOk DEF onCommitted
<1>2. CASE s.phase = "CollectingCommitments" /\ inGroup(s, g)
  <2>1. p \in s.members
    BY <1>2 DEF inGroup, groupId
  <2>2. PICK t : t = Counted(s, p, version)
    OBVIOUS
  <2>3. ViewOk(v, t)
    BY <2>1, <2>2, CountedOk
  <2>4. onCommitted(v, s, b, g, p, version) =
          IF complete(t, DOMAIN t.commitments) /\ t.own # NoSecrets
          THEN finalizeKeyGenCommitments(v, t, pushed(s, b)) ELSE stay(t)
    BY <1>2, <2>2 DEF onCommitted, Counted
  <2>5. StepOk(v, t, onCommitted(v, s, b, g, p, version))
    BY <2>3, <2>4, StayOk, FinalizeOk
  <2> QED BY <1>2, <2>2, <2>5
<1> QED BY <1>1, <1>2

\* KeyGenSecretShared.
LEMMA OnSecretSharedOk ==
  ASSUME NEW v, NEW s, ViewOk(v, s), NEW b, NEW g, NEW p, NEW valid, NEW bad
  PROVE  StepOk(v, s, onSecretShared(v, s, b, g, p, valid, bad))
<1>1. CASE ~(s.phase = "CollectingShares" /\ inGroup(s, g) /\ valid)
  BY <1>1, StayOk DEF onSecretShared
<1>2. CASE s.phase = "CollectingShares" /\ inGroup(s, g) /\ valid
  <2>1. PICK joins : joins = (s.own # Observing)
    OBVIOUS
  <2>2. PICK t : t = [s EXCEPT !.keys = @ \cup {p},
                        !.shares = IF joins /\ verifyEncryptedShare(v, bad) THEN @ \cup {p} ELSE @]
    OBVIOUS
  <2>3. /\ DOMAIN t = DOMAIN s /\ t.commitments = s.commitments
        /\ t.members = s.members /\ t.epoch = s.epoch /\ t.own = s.own
    BY <2>2 DEF ViewOk, Fields
  <2>4. PICK complaint :
          complaint = IF joins /\ ~verifyEncryptedShare(v, bad) THEN {action("complain", s, p, 0)} ELSE {}
    OBVIOUS
  <2>5. \A a \in complaint : a.kind = "complain"
    BY <2>4 DEF action
  <2>6. PICK w : w = [t EXCEPT !.phase = "CollectingConfirmations",
                               !.status = IF joins THEN "Collecting" ELSE "Observing",
                               !.deadline = pushed(s, b)]
    OBVIOUS
  <2>7. /\ DOMAIN w = DOMAIN s /\ w.commitments = s.commitments
        /\ w.members = s.members /\ w.epoch = s.epoch /\ w.own = s.own
    BY <2>3, <2>6 DEF ViewOk, Fields
  <2>8. /\ ViewOk(v, t) /\ Follows(s, t)
        /\ ViewOk(v, w) /\ Follows(s, w)
    BY <2>3, <2>7, OthersOk
  <2>9. CASE ~complete(t, t.keys)
    <3>1. onSecretShared(v, s, b, g, p, valid, bad) = result(t, complaint, {})
      BY <1>2, <2>1, <2>2, <2>4, <2>9 DEF onSecretShared
    <3> QED BY <2>5, <2>8, <3>1, ResultOf DEF StepOk, ActsOk, Kinds
  <2>10. CASE complete(t, t.keys)
    <3>1. PICK next : next = confirmKeyGen(v, w)
      OBVIOUS
    <3>2. StepOk(v, s, next)
      BY <2>8, <3>1, ConfirmOk
    <3>3. \E x, acts, setup : next = result(x, acts, setup)
      BY <3>1 DEF confirmKeyGen, stay
    <3>4. PICK r : r = [next EXCEPT !.acts = @ \cup complaint]
      OBVIOUS
    <3>5. r.s = next.s /\ r.acts = next.acts \cup complaint /\ r.setup = next.setup
      BY <3>3, <3>4 DEF result
    <3>6. onSecretShared(v, s, b, g, p, valid, bad) = r
      BY <1>2, <2>1, <2>2, <2>4, <2>6, <2>10, <3>1, <3>4 DEF onSecretShared
    <3> QED BY <2>5, <3>2, <3>5, <3>6 DEF StepOk, ActsOk, Kinds
  <2> QED BY <2>9, <2>10
<1> QED BY <1>1, <1>2

\* An idle state in which an epoch may have been kept.
LEMMA FinalizeKeyGenOk ==
  ASSUME NEW v, NEW s, NEW i, ViewOk(v, i)
  PROVE  /\ ViewOk(v, finalizeKeyGen(s, i))
         /\ finalizeKeyGen(s, i).commitments = i.commitments
<1>1. PICK t : t = finalizeKeyGen(s, i)
  OBVIOUS
<1>2. /\ DOMAIN t = DOMAIN i /\ t.commitments = i.commitments
      /\ t.members = i.members /\ t.epoch = i.epoch /\ t.own = i.own
  BY <1>1 DEF finalizeKeyGen, ViewOk, Fields
<1> QED BY <1>1, <1>2, OthersOk

\* KeyGenConfirmed.
LEMMA OnConfirmedOk ==
  ASSUME NEW v, NEW s, ViewOk(v, s), NEW b, NEW g, NEW p
  PROVE  StepOk(v, s, onConfirmed(v, s, b, g, p))
<1>1. PICK t : t = [s EXCEPT !.confirmations = @ \cup {p}]
  OBVIOUS
<1>2. /\ DOMAIN t = DOMAIN s /\ t.commitments = s.commitments
      /\ t.members = s.members /\ t.epoch = s.epoch /\ t.own = s.own
  BY <1>1 DEF ViewOk, Fields
<1>3. StepOk(v, s, stay(t))
  BY <1>2, OthersOk, ResultOf DEF StepOk, ActsOk
<1>4. PICK next : next = nextNumber(b)
  OBVIOUS
<1>5. PICK members \in SUBSET Participants : members = participantsSet(next, {})
  BY ParticipantsOk
<1>6. PICK skipped : skipped = finalizeKeyGen(s, idle(s, "EpochSkipped", next))
  OBVIOUS
<1>7. ViewOk(v, skipped) /\ skipped.commitments = <<>>
  BY <1>6, IdleOk, FinalizeKeyGenOk
<1>8. PICK i : i = idle(s, "SigningRollover", s.epoch)
  OBVIOUS
<1>9. PICK w : w = [i EXCEPT !.members = s.members, !.status = s.status]
  OBVIOUS
<1>10. ViewOk(v, w) /\ w.commitments = <<>>
  <2>1. DOMAIN i = Fields /\ i.commitments = <<>> /\ i.own = Observing
    BY <1>8, IdleOk DEF ViewOk, idle
  <2>2. DOMAIN w = Fields /\ w.commitments = <<>> /\ w.own = Observing /\ w.members = s.members
    BY <1>9, <2>1 DEF Fields
  <2> QED BY <2>2 DEF ViewOk
<1>11. onConfirmed(v, s, b, g, p) =
         IF s.phase # "CollectingConfirmations" \/ ~inGroup(s, g) THEN stay(s)
         ELSE IF ~complete(t, t.confirmations) THEN stay(t)
         ELSE IF s.epoch # 0 THEN stay(w)
         ELSE IF members = {} THEN stay(skipped)
         ELSE startKeyGen(v, skipped, next, members, b + KeyGenTimeout)
  BY <1>1, <1>4, <1>5, <1>6, <1>8, <1>9 DEF onConfirmed
<1>12. StepOk(v, s, stay(w)) /\ StepOk(v, s, stay(skipped))
  BY <1>7, <1>10, ResultOf DEF StepOk, Follows, ActsOk
<1>13. StepOk(v, s, stay(s)) /\ StepOk(v, s, startKeyGen(v, skipped, next, members, b + KeyGenTimeout))
  BY StayOk, StartOk
<1> QED BY <1>3, <1>11, <1>12, <1>13

\* EpochStaged.
LEMMA OnEpochStagedOk ==
  ASSUME NEW v, NEW s, ViewOk(v, s), NEW g
  PROVE  StepOk(v, s, onEpochStaged(s, g))
<1>1. PICK w : w = finalizeKeyGen(s, idle(s, "EpochStaged", s.epoch))
  OBVIOUS
<1>2. PICK i : i = idle(s, "EpochSkipped", g.epoch)
  OBVIOUS
<1>3. ViewOk(v, w) /\ w.commitments = <<>> /\ ViewOk(v, i) /\ i.commitments = <<>>
  BY <1>1, <1>2, IdleOk, FinalizeKeyGenOk
<1>4. StepOk(v, s, stay(w)) /\ StepOk(v, s, stay(i)) /\ StepOk(v, s, stay(s))
  BY <1>3, StayOk, ResultOf DEF StepOk, Follows, ActsOk
<1>5. onEpochStaged(s, g) \in {stay(w), stay(i), stay(s)}
  BY <1>1, <1>2 DEF onEpochStaged
<1> QED BY <1>4, <1>5

\* KeyGenComplained.
LEMMA OnComplainedOk ==
  ASSUME NEW v, NEW s, ViewOk(v, s), NEW b, NEW g, NEW plaintiff, NEW accused
  PROVE  StepOk(v, s, onComplained(v, s, b, g, plaintiff, accused))
<1>1. CASE ~(inGroup(s, g) /\ countsComplaint(s, b))
  BY <1>1, StayOk DEF onComplained
<1>2. CASE inGroup(s, g) /\ countsComplaint(s, b)
  <2>1. PICK t : t = [s EXCEPT !.total[accused] = @ + 1, !.unresponded[accused] = @ + 1]
    OBVIOUS
  <2>2. /\ DOMAIN t = DOMAIN s /\ t.commitments = s.commitments
        /\ t.members = s.members /\ t.epoch = s.epoch /\ t.own = s.own
    BY <2>1 DEF ViewOk, Fields
  <2>3. PICK acts : acts = IF accused = v /\ s.own # Observing
                           THEN {action("respond", s, plaintiff, 0)} ELSE {}
    OBVIOUS
  <2>4. \A a \in acts : a.kind = "respond"
    BY <2>3 DEF action
  <2>5. StepOk(v, s, result(t, acts, {}))
    BY <2>2, <2>4, OthersOk, ResultOf DEF StepOk, ActsOk, Kinds
  <2>6. StepOk(v, s, restartKeyGenExcluding(v, t, alsoExclude(s, {accused}), pushed(s, b)))
    BY RestartOk
  <2>7. \/ onComplained(v, s, b, g, plaintiff, accused) = result(t, acts, {})
        \/ onComplained(v, s, b, g, plaintiff, accused)
             = restartKeyGenExcluding(v, t, alsoExclude(s, {accused}), pushed(s, b))
    BY <1>2, <2>1, <2>3 DEF onComplained
  <2> QED BY <2>5, <2>6, <2>7
<1> QED BY <1>1, <1>2

\* KeyGenComplaintResponded.
LEMMA OnComplaintRespondedOk ==
  ASSUME NEW v, NEW s, ViewOk(v, s), NEW b, NEW g, NEW plaintiff, NEW accused, NEW valid
  PROVE  StepOk(v, s, onComplaintResponded(v, s, b, g, plaintiff, accused, valid))
<1>1. PICK r : r = onComplaintResponded(v, s, b, g, plaintiff, accused, valid)
  OBVIOUS
<1>2. PICK t : t = [s EXCEPT !.unresponded[accused] = @ - 1,
                             !.shares = IF plaintiff = v /\ s.own # Observing
                                        THEN @ \cup {accused} ELSE @]
  OBVIOUS
<1>3. /\ DOMAIN t = DOMAIN s /\ t.commitments = s.commitments
      /\ t.members = s.members /\ t.epoch = s.epoch /\ t.own = s.own
  BY <1>2 DEF ViewOk, Fields
<1>4. ViewOk(v, t) /\ Follows(s, t)
  BY <1>3, OthersOk
<1>5. StepOk(v, s, confirmKeyGen(v, t)) /\ StepOk(v, s, stay(t)) /\ StepOk(v, s, stay(s))
  BY <1>4, ConfirmOk, StayOk, ResultOf DEF StepOk, ActsOk
<1>6. StepOk(v, s, restartKeyGenExcluding(v, s, alsoExclude(s, {accused}), pushed(s, b)))
  BY RestartOk
<1>7. \/ r = stay(s) \/ r = stay(t) \/ r = confirmKeyGen(v, t)
      \/ r = restartKeyGenExcluding(v, s, alsoExclude(s, {accused}), pushed(s, b))
  BY <1>1, <1>2 DEF onComplaintResponded
<1> QED BY <1>1, <1>5, <1>6, <1>7

\* The next epoch is due, or not.
LEMMA RolloverOk ==
  ASSUME NEW v, NEW s, ViewOk(v, s), NEW b
  PROVE  StepOk(v, s, rolloverNewBlock(v, s, b))
<1>1. PICK members \in SUBSET Participants : members = participantsSet(nextNumber(b), {})
  BY ParticipantsOk
<1>2. PICK t : t = [s EXCEPT !.active = activated(s)]
  OBVIOUS
<1>3. PICK i : i = idle(t, "EpochSkipped", nextNumber(b))
  OBVIOUS
<1>4. StepOk(v, s, stay(i))
  <2>1. ViewOk(v, i) /\ i.commitments = <<>>
    BY <1>3, IdleOk
  <2> QED BY <2>1, ResultOf DEF StepOk, Follows, ActsOk
<1>5. rolloverNewBlock(v, s, b) \in
        {stay(s), stay(i), startKeyGen(v, t, nextNumber(b), members, b + KeyGenTimeout)}
  BY <1>1, <1>2, <1>3 DEF rolloverNewBlock
<1> QED BY <1>4, <1>5, StayOk, StartOk

\* What the deadlines can do.
LEMMA TimeoutsAre ==
  ASSUME NEW v, NEW s, NEW b
  PROVE  \/ keyGenTimeouts(v, s, b) \in {stay(s), rolloverFailure(s)}
         \/ \E excluded : keyGenTimeouts(v, s, b)
                            = restartKeyGenExcluding(v, s, excluded, b + KeyGenTimeout)
<1>1. CASE s.phase = "CollectingCommitments"
  BY <1>1 DEF keyGenTimeouts
<1>2. CASE s.phase = "CollectingShares"
  BY <1>2 DEF keyGenTimeouts
<1>3. CASE s.phase = "CollectingConfirmations"
  BY <1>3 DEF keyGenTimeouts
<1>4. CASE s.phase \notin {"CollectingCommitments", "CollectingShares", "CollectingConfirmations"}
  BY <1>4 DEF keyGenTimeouts
<1> QED BY <1>1, <1>2, <1>3, <1>4

\* A round ends, or not.
LEMMA TimeoutsOk ==
  ASSUME NEW v, NEW s, ViewOk(v, s), NEW b
  PROVE  StepOk(v, s, keyGenTimeouts(v, s, b))
  BY TimeoutsAre, StayOk, FailureOk, RestartOk

\* NewBlock.
LEMMA OnNewBlockOk ==
  ASSUME NEW v, NEW s, ViewOk(v, s), NEW b
  PROVE  StepOk(v, s, onNewBlock(v, s, b))
<1>1. PICK x : x = rolloverNewBlock(v, s, b).s
  OBVIOUS
<1>2. ViewOk(v, x) /\ Follows(s, x)
  BY <1>1, RolloverOk DEF StepOk
<1>3. PICK y : y = keyGenTimeouts(v, x, b).s
  OBVIOUS
<1>4. ViewOk(v, y) /\ Follows(x, y)
  BY <1>2, <1>3, TimeoutsOk DEF StepOk
<1>5. PICK z : z = reconciled(y)
  OBVIOUS
<1>6. /\ DOMAIN z = DOMAIN y /\ z.commitments = y.commitments
      /\ z.members = y.members /\ z.epoch = y.epoch /\ z.own = y.own
  BY <1>4, <1>5 DEF reconciled, ViewOk, Fields
<1>7. ViewOk(v, z) /\ Follows(y, z)
  BY <1>4, <1>6, OthersOk
<1>8. Follows(s, z)
  BY <1>2, <1>4, <1>6 DEF Follows
<1>9. /\ onNewBlock(v, s, b).s = z /\ onNewBlock(v, s, b).acts = {}
      /\ onNewBlock(v, s, b).setup = rolloverNewBlock(v, s, b).setup \cup keyGenTimeouts(v, x, b).setup
  BY <1>1, <1>3, <1>5, ResultOf DEF onNewBlock
<1>10. /\ \A e \in rolloverNewBlock(v, s, b).setup : e[1] = v
       /\ \A e \in keyGenTimeouts(v, x, b).setup : e[1] = v
  BY <1>2, RolloverOk, TimeoutsOk DEF StepOk, ActsOk
<1> QED BY <1>7, <1>8, <1>9, <1>10 DEF StepOk, ActsOk

\* The event of a transaction.
LEMMA OnEventOk ==
  ASSUME NEW v, ViewOk(v, view[v]), NEW tx, tx.kind \in Kinds, tx.from \in tx.group.members
  PROVE  \/ StepOk(v, view[v], onEvent(v, tx))
         \/ /\ tx.kind = "commit" /\ inGroup(view[v], tx.group)
            /\ StepOk(v, Counted(view[v], tx.from, tx.version), onEvent(v, tx))
<1>1. CASE tx.kind = "commit"
  BY <1>1, OnCommittedOk DEF onEvent
<1>2. CASE tx.kind = "share"
  BY <1>2, OnSecretSharedOk DEF onEvent
<1>3. CASE tx.kind = "complain"
  BY <1>3, OnComplainedOk DEF onEvent
<1>4. CASE tx.kind = "respond"
  BY <1>4, OnComplaintRespondedOk DEF onEvent
<1>5. CASE tx.kind = "confirm"
  BY <1>5, OnConfirmedOk DEF onEvent
<1> QED BY <1>1, <1>2, <1>3, <1>4, <1>5 DEF Kinds

----------------------------------------------------------------------------
(* Shares are published for the commitment that is onchain                 *)

groupOf(s) == groupId(s.epoch, s.members)

\* In the ceremonies c, member p of g has committed with version k.
Committed(c, g, p, k) ==
    /\ g \in DOMAIN c
    /\ p \in DOMAIN c[g].committed
    /\ c[g].committed[p] = k

\* Ceremonies have commitments of members only.
CeremoniesOk ==
    \A g \in DOMAIN chain :
        DOMAIN chain[g] = CeremonyFields /\ DOMAIN chain[g].committed \subseteq g.members

ViewsOk == \A v \in Honest : ViewOk(v, view[v])

\* What a validator has collected is what the members have committed.
ViewsAgree ==
    \A v \in Honest : \A p \in DOMAIN view[v].commitments :
        Committed(chain, groupOf(view[v]), p, view[v].commitments[p])

\* And what it will publish, too.
QueueAgrees ==
    \A tx \in pool :
        /\ tx.kind \in Kinds
        /\ tx.kind = "share" => Committed(chain, tx.group, tx.from, tx.version)

ShareInv == CeremoniesOk /\ ViewsOk /\ ViewsAgree /\ QueueAgrees

\* The ceremony of a group, opened or not.
LEMMA CeremonyIs ==
  ASSUME CeremoniesOk, NEW g
  PROVE  /\ DOMAIN ceremony(g) = CeremonyFields
         /\ DOMAIN ceremony(g).committed \subseteq g.members
         /\ \A p \in DOMAIN ceremony(g).committed : Committed(chain, g, p, ceremony(g).committed[p])
<1>1. CASE g \in DOMAIN chain
  BY <1>1 DEF ceremony, CeremoniesOk, Committed
<1>2. CASE g \notin DOMAIN chain
  <2>1. ceremony(g) = opened
    BY <1>2 DEF ceremony
  <2>2. DOMAIN opened = CeremonyFields /\ opened.committed = <<>>
    BY DEF opened, CeremonyFields
  <2> QED BY <2>1, <2>2
<1> QED BY <1>1, <1>2

\* A commitment is never replaced.
LEMMA WrittenIs ==
  ASSUME CeremoniesOk, NEW tx, tx.kind \in Kinds, accepts(tx)
  PROVE  LET old == ceremony(tx.group)
             new == written(tx)
         IN  /\ DOMAIN new = CeremonyFields
             /\ DOMAIN new.committed \subseteq tx.group.members
             /\ \A p \in DOMAIN old.committed :
                    p \in DOMAIN new.committed /\ new.committed[p] = old.committed[p]
             /\ tx.kind = "commit" =>
                    tx.from \in DOMAIN new.committed /\ new.committed[tx.from] = tx.version
<1>1. PICK old : old = ceremony(tx.group)
  OBVIOUS
<1>2. PICK new : new = written(tx)
  OBVIOUS
<1>3. DOMAIN old = CeremonyFields /\ DOMAIN old.committed \subseteq tx.group.members
  BY <1>1, CeremonyIs
<1>4. tx.from \in tx.group.members
  BY DEF accepts
<1>5. CASE tx.kind = "commit"
  <2>1. tx.from \notin DOMAIN old.committed
    BY <1>1, <1>5 DEF accepts
  <2>2. PICK m : m = put(old.committed, tx.from, tx.version)
    OBVIOUS
  <2>3. new = [old EXCEPT !.committed = m]
    BY <1>1, <1>2, <1>5, <2>2 DEF written
  <2>4. DOMAIN new = CeremonyFields /\ new.committed = m
    BY <1>3, <2>3 DEF CeremonyFields
  <2>5. /\ DOMAIN m = DOMAIN old.committed \cup {tx.from} /\ m[tx.from] = tx.version
        /\ \A y \in DOMAIN old.committed : y # tx.from => m[y] = old.committed[y]
    BY <2>2 DEF put
  <2> QED BY <1>1, <1>2, <1>3, <1>4, <2>1, <2>4, <2>5
<1>6. CASE tx.kind # "commit"
  <2>1. DOMAIN new = CeremonyFields /\ new.committed = old.committed
    <3>1. CASE tx.kind = "share"
      BY <1>1, <1>2, <1>3, <3>1 DEF written, CeremonyFields
    <3>2. CASE tx.kind = "complain"
      BY <1>1, <1>2, <1>3, <3>2 DEF written, CeremonyFields
    <3>3. CASE tx.kind = "respond"
      BY <1>1, <1>2, <1>3, <3>3 DEF written, CeremonyFields
    <3>4. CASE tx.kind = "confirm"
      BY <1>1, <1>2, <1>3, <3>4 DEF written, CeremonyFields
    <3> QED BY <1>6, <3>1, <3>2, <3>3, <3>4 DEF Kinds
  <2> QED BY <1>1, <1>2, <1>3, <1>6, <2>1
<1> QED BY <1>5, <1>6

\* What the validators have collected still is onchain after a step that
\* forgets no ceremony they follow.
LEMMA ViewsStep ==
  ASSUME ShareInv, ViewsOk', NEW p, NEW k,
         \A v \in Honest :
            \/ Follows(view[v], view'[v])
            \/ /\ p \in view[v].members
               /\ Follows(Counted(view[v], p, k), view'[v])
               /\ Committed(chain', groupOf(view[v]), p, k),
         \A g, q, j : (\E v \in Honest : g = groupOf(view'[v])) /\ Committed(chain, g, q, j)
                        => Committed(chain', g, q, j)
  PROVE  ViewsAgree'
<1>1. SUFFICES ASSUME NEW v \in Honest, NEW q \in DOMAIN view'[v].commitments
               PROVE  Committed(chain', groupOf(view'[v]), q, view'[v].commitments[q])
  BY DEF ViewsAgree
<1>2. PICK t : t = view'[v]
  OBVIOUS
<1>3. PICK s : s = view[v]
  OBVIOUS
<1>4. t.commitments # <<>>
  BY <1>1, <1>2
<1>5. CASE t.epoch = s.epoch /\ t.members = s.members /\ t.commitments = s.commitments
  <2>1. Committed(chain, groupOf(s), q, s.commitments[q])
    BY <1>1, <1>2, <1>3, <1>5 DEF ShareInv, ViewsAgree
  <2>2. groupOf(t) = groupOf(s)
    BY <1>5 DEF groupOf
  <2> QED BY <1>2, <1>5, <2>1, <2>2
<1>6. CASE /\ p \in s.members
           /\ Follows(Counted(s, p, k), t)
           /\ Committed(chain', groupOf(s), p, k)
  <2>1. PICK c : c = Counted(s, p, k)
    OBVIOUS
  <2>2. /\ c.epoch = s.epoch /\ c.members = s.members
        /\ c.commitments = IF verifyCommitment(k) THEN put(s.commitments, p, k) ELSE s.commitments
    BY <1>3, <1>6, <2>1, CountedOk DEF ShareInv, ViewsOk, Fields
  <2>3. t.epoch = s.epoch /\ t.members = s.members /\ t.commitments = c.commitments
    BY <1>4, <1>6, <2>1, <2>2 DEF Follows
  <2>4. groupOf(t) = groupOf(s)
    BY <2>3 DEF groupOf
  <2>5. CASE c.commitments = s.commitments
    <3>1. Committed(chain, groupOf(s), q, s.commitments[q])
      BY <1>1, <1>2, <1>3, <2>3, <2>5 DEF ShareInv, ViewsAgree
    <3> QED BY <1>2, <2>3, <2>4, <2>5, <3>1
  <2>6. CASE c.commitments = put(s.commitments, p, k)
    <3>1. CASE q = p
      <4>0. put(s.commitments, p, k)[p] = k
        BY DEF put
      <4>1. t.commitments[q] = k
        BY <2>3, <2>6, <3>1, <4>0
      <4> QED BY <1>2, <1>6, <2>4, <3>1, <4>1
    <3>2. CASE q # p
      <4>1. DOMAIN put(s.commitments, p, k) = DOMAIN s.commitments \cup {p}
        BY PutIs
      <4>2. q \in DOMAIN s.commitments
        BY <1>1, <1>2, <2>3, <2>6, <3>2, <4>1
      <4>3. put(s.commitments, p, k)[q] = s.commitments[q]
        BY <3>2, <4>2 DEF put
      <4>4. Committed(chain, groupOf(s), q, s.commitments[q])
        BY <1>3, <4>2 DEF ShareInv, ViewsAgree
      <4> QED BY <1>2, <2>3, <2>4, <2>6, <4>3, <4>4
    <3> QED BY <3>1, <3>2
  <2> QED BY <2>2, <2>5, <2>6
<1> QED BY <1>2, <1>3, <1>4, <1>5, <1>6 DEF Follows

\* The transactions that are queued for a transition.
LEMMA QueueStep ==
  ASSUME ViewsAgree', NEW r, NEW of \in SUBSET Honest,
         \A v \in of : view'[v] = r[v].s /\ ActsOk(v, r[v]),
         \A tx \in pool' :
            \/ /\ tx.kind \in Kinds
               /\ tx.kind = "share" => Committed(chain', tx.group, tx.from, tx.version)
            \/ \E v \in of : tx \in encoded(v, r[v].acts)
  PROVE  QueueAgrees'
<1>1. SUFFICES ASSUME NEW v \in of, NEW tx \in encoded(v, r[v].acts)
               PROVE  /\ tx.kind \in Kinds
                      /\ tx.kind = "share" => Committed(chain', tx.group, tx.from, tx.version)
  BY DEF QueueAgrees
<1>2. PICK a \in r[v].acts : /\ tx.from = v /\ tx.kind = a.kind /\ tx.group = a.group
                             /\ tx.version = a.version
  BY <1>1 DEF encoded
<1>3. a.kind \in Kinds
  BY <1>1, <1>2 DEF ActsOk
<1>4. ASSUME a.kind = "share" PROVE Committed(chain', a.group, v, a.version)
  <2>1. /\ a.group = groupOf(view'[v]) /\ v \in DOMAIN view'[v].commitments
        /\ a.version = view'[v].commitments[v]
    BY <1>1, <1>2, <1>4 DEF ActsOk, groupOf
  <2>2. v \in Honest
    BY <1>1
  <2> QED BY <2>1, <2>2 DEF ViewsAgree
<1> QED BY <1>2, <1>3, <1>4

\* A step in which the validators of `of` make the results r.
LEMMA ApplyStep ==
  ASSUME ShareInv, CeremoniesOk', NEW r, NEW of \in SUBSET Honest, NEW b, Apply(of, r, b),
         NEW p, NEW k,
         \A v \in of :
            \/ StepOk(v, view[v], r[v])
            \/ /\ p \in view[v].members
               /\ StepOk(v, Counted(view[v], p, k), r[v])
               /\ Committed(chain', groupOf(view[v]), p, k),
         \A g, q, j : (\E v \in Honest : g = groupOf(view'[v])) /\ Committed(chain, g, q, j)
                        => Committed(chain', g, q, j),
         \A tx \in pool' :
            \/ /\ tx \in pool
               /\ Committed(chain, tx.group, tx.from, tx.version)
                    => Committed(chain', tx.group, tx.from, tx.version)
            \/ \E v \in of : tx \in encoded(v, r[v].acts)
  PROVE  ShareInv'
<1>1. /\ \A v \in of : view'[v] = r[v].s
      /\ \A v \in Honest : v \notin of => view'[v] = view[v]
  BY DEF Apply
<1>2. \A v \in of : ViewOk(v, r[v].s) /\ ActsOk(v, r[v])
  BY DEF StepOk
<1>3. ViewsOk'
  BY <1>1, <1>2 DEF ShareInv, ViewsOk
<1>4. \A v \in Honest :
        \/ Follows(view[v], view'[v])
        \/ /\ p \in view[v].members
           /\ Follows(Counted(view[v], p, k), view'[v])
           /\ Committed(chain', groupOf(view[v]), p, k)
  <2>1. ASSUME NEW v \in Honest, v \notin of PROVE Follows(view[v], view'[v])
    BY <1>1, <2>1 DEF Follows
  <2> QED BY <1>1, <2>1 DEF StepOk
<1>5. ViewsAgree'
  BY <1>3, <1>4, ViewsStep
<1>6. \A tx \in pool' :
        \/ /\ tx.kind \in Kinds
           /\ tx.kind = "share" => Committed(chain', tx.group, tx.from, tx.version)
        \/ \E v \in of : tx \in encoded(v, r[v].acts)
  BY DEF ShareInv, QueueAgrees
<1>7. QueueAgrees'
  BY <1>1, <1>2, <1>5, <1>6, QueueStep
<1> QED BY <1>3, <1>5, <1>7 DEF ShareInv

\* A ceremony is written.
LEMMA PutCommitted ==
  ASSUME CeremoniesOk, NEW g, NEW new, chain' = put(chain, g, new),
         DOMAIN new = CeremonyFields, DOMAIN new.committed \subseteq g.members,
         \A p \in DOMAIN ceremony(g).committed :
            p \in DOMAIN new.committed /\ new.committed[p] = ceremony(g).committed[p]
  PROVE  /\ CeremoniesOk'
         /\ \A h, q, j : Committed(chain, h, q, j) => Committed(chain', h, q, j)
         /\ \A p \in DOMAIN new.committed : Committed(chain', g, p, new.committed[p])
<1>1. DOMAIN chain' = DOMAIN chain \cup {g} /\ chain'[g] = new
  BY DEF put
<1>2. \A h \in DOMAIN chain : h # g => chain'[h] = chain[h]
  BY DEF put
<1>3. CeremoniesOk'
  BY <1>1, <1>2 DEF CeremoniesOk
<1>4. ASSUME NEW h, NEW q, NEW j, Committed(chain, h, q, j) PROVE Committed(chain', h, q, j)
  <2>1. CASE h = g
    <3>1. g \in DOMAIN chain /\ ceremony(g) = chain[g]
      BY <1>4, <2>1 DEF Committed, ceremony
    <3>2. q \in DOMAIN ceremony(g).committed /\ ceremony(g).committed[q] = j
      BY <1>4, <2>1, <3>1 DEF Committed
    <3> QED BY <1>1, <2>1, <3>2 DEF Committed
  <2>2. CASE h # g
    BY <1>1, <1>2, <1>4, <2>2 DEF Committed
  <2> QED BY <2>1, <2>2
<1>5. \A p \in DOMAIN new.committed : Committed(chain', g, p, new.committed[p])
  BY <1>1 DEF Committed
<1> QED BY <1>3, <1>4, <1>5

\* A transaction is executed.
LEMMA ExecuteShare ==
  ASSUME ShareInv, NEW tx, tx.kind \in Kinds, execute(tx)
  PROVE  ShareInv'
<1>1. PICK r : r = [v \in Honest |-> onEvent(v, tx)]
  OBVIOUS
<1>2. /\ accepts(tx) /\ tx.from \in tx.group.members
      /\ chain' = put(chain, tx.group, written(tx))
      /\ Apply(Honest, r, block)
      /\ pool' = (pool \ {tx}) \cup UNION {encoded(v, r[v].acts) : v \in Honest}
  BY <1>1 DEF execute, accepts
<1>3. CeremoniesOk
  BY DEF ShareInv
<1>4. PICK new : new = written(tx)
  OBVIOUS
<1>5. /\ DOMAIN new = CeremonyFields
      /\ DOMAIN new.committed \subseteq tx.group.members
      /\ \A p \in DOMAIN ceremony(tx.group).committed :
            p \in DOMAIN new.committed /\ new.committed[p] = ceremony(tx.group).committed[p]
      /\ tx.kind = "commit" =>
            tx.from \in DOMAIN new.committed /\ new.committed[tx.from] = tx.version
  BY <1>2, <1>3, <1>4, WrittenIs
<1>6. /\ CeremoniesOk'
      /\ \A h, q, j : Committed(chain, h, q, j) => Committed(chain', h, q, j)
      /\ \A p \in DOMAIN new.committed : Committed(chain', tx.group, p, new.committed[p])
  BY <1>2, <1>3, <1>4, <1>5, PutCommitted
<1>7. \A v \in Honest :
        \/ StepOk(v, view[v], r[v])
        \/ /\ tx.from \in view[v].members
           /\ StepOk(v, Counted(view[v], tx.from, tx.version), r[v])
           /\ Committed(chain', groupOf(view[v]), tx.from, tx.version)
  <2>1. SUFFICES ASSUME NEW v \in Honest, ~StepOk(v, view[v], r[v])
                 PROVE  /\ tx.from \in view[v].members
                        /\ StepOk(v, Counted(view[v], tx.from, tx.version), r[v])
                        /\ Committed(chain', groupOf(view[v]), tx.from, tx.version)
    OBVIOUS
  <2>2. ViewOk(v, view[v]) /\ r[v] = onEvent(v, tx)
    BY <1>1 DEF ShareInv, ViewsOk
  <2>3. /\ tx.kind = "commit" /\ inGroup(view[v], tx.group)
        /\ StepOk(v, Counted(view[v], tx.from, tx.version), r[v])
    BY <1>2, <2>1, <2>2, OnEventOk
  <2>4. groupOf(view[v]) = tx.group /\ view[v].members = tx.group.members
    BY <2>3 DEF inGroup, groupOf, groupId
  <2> QED BY <1>2, <1>5, <1>6, <2>3, <2>4
<1>8. \A t \in pool' : t \in pool \/ \E v \in Honest : t \in encoded(v, r[v].acts)
  BY <1>2
<1> QED BY <1>2, <1>6, <1>7, <1>8, ApplyStep

\* A block.
LEMMA NewBlockShare ==
  ASSUME ShareInv, newBlock
  PROVE  ShareInv'
<1>1. PICK r : r = [v \in Honest |-> onNewBlock(v, view[v], block + 1)]
  OBVIOUS
<1>2. /\ Apply(Honest, r, block + 1)
      /\ chain' = [g \in DOMAIN chain \cap held(view') |-> chain[g]]
      /\ pool' = {tx \in pool : tx.group \in held(view')}
  BY <1>1 DEF newBlock
<1>3. \A v \in Honest : StepOk(v, view[v], r[v])
  BY <1>1, OnNewBlockOk DEF ShareInv, ViewsOk
<1>4. CeremoniesOk'
  BY <1>2 DEF ShareInv, CeremoniesOk
<1>5. \A g, q, j : g \in held(view') /\ Committed(chain, g, q, j) => Committed(chain', g, q, j)
  BY <1>2 DEF Committed
<1>6. \A v \in Honest : groupOf(view'[v]) \in held(view')
  BY DEF held, groupOf
<1>7. \A tx \in pool' : /\ tx \in pool
                        /\ Committed(chain, tx.group, tx.from, tx.version)
                             => Committed(chain', tx.group, tx.from, tx.version)
  BY <1>2, <1>5
<1>8. \A g, q, j : (\E v \in Honest : g = groupOf(view'[v])) /\ Committed(chain, g, q, j)
                     => Committed(chain', g, q, j)
  BY <1>5, <1>6
<1> QED BY <1>2, <1>3, <1>4, <1>7, <1>8, ApplyStep

\* Steps that leave the ceremonies alone.
LEMMA QuietShare ==
  ASSUME ShareInv, chain' = chain, NEW r, NEW of \in SUBSET Honest, NEW b, Apply(of, r, b),
         \A v \in of : StepOk(v, view[v], r[v]),
         \A tx \in pool' : tx \in pool \/ \E v \in of : tx \in encoded(v, r[v].acts)
  PROVE  ShareInv'
<1>1. CeremoniesOk'
  BY DEF ShareInv, CeremoniesOk
<1>2. \A g, q, j : Committed(chain, g, q, j) => Committed(chain', g, q, j)
  OBVIOUS
<1> QED BY <1>1, <1>2, ApplyStep

\* The genesis ceremony is opened.
LEMMA GenesisShare ==
  ASSUME ShareInv, keyGenGenesis
  PROVE  ShareInv'
<1>1. PICK g : g = groupId(0, activeIn(0))
  OBVIOUS
<1>2. PICK r : r = [v \in Honest |-> onKeyGen(v, view[v], g)]
  OBVIOUS
<1>3. /\ g \notin DOMAIN chain /\ chain' = put(chain, g, opened)
      /\ Apply(Honest, r, block) /\ pool' = pool
  BY <1>1, <1>2 DEF keyGenGenesis
<1>4. \A v \in Honest : StepOk(v, view[v], r[v])
  BY <1>2, OnKeyGenOk DEF ShareInv, ViewsOk
<1>5. CeremoniesOk /\ ceremony(g) = opened
  BY <1>3 DEF ShareInv, ceremony
<1>6. DOMAIN opened = CeremonyFields /\ opened.committed = <<>>
  BY DEF opened, CeremonyFields
<1>7. /\ CeremoniesOk'
      /\ \A h, q, j : Committed(chain, h, q, j) => Committed(chain', h, q, j)
  BY <1>3, <1>5, <1>6, PutCommitted
<1> QED BY <1>3, <1>4, <1>7, ApplyStep

\* An epoch is staged.
LEMMA StageShare ==
  ASSUME ShareInv, NEW g, stageEpoch(g)
  PROVE  ShareInv'
<1>1. PICK r : r = [v \in Honest |-> onEpochStaged(view[v], g)]
  OBVIOUS
<1>2. Apply(Honest, r, block) /\ chain' = chain /\ pool' = pool
  BY <1>1 DEF stageEpoch
<1>3. \A v \in Honest : StepOk(v, view[v], r[v])
  BY <1>1, OnEpochStagedOk DEF ShareInv, ViewsOk
<1> QED BY <1>2, <1>3, QuietShare

\* The secrets of one validator arrive.
LEMMA SetupShare ==
  ASSUME ShareInv, NEW e, e[1] \in Honest, performSetup(e)
  PROVE  ShareInv'
<1>1. PICK v \in Honest : v = e[1]
  OBVIOUS
<1>2. PICK version : version = storedVersion({f \in store : f[1] = v /\ f[2] = e[2]}, freshSecrets(v, e[2]))
  OBVIOUS
<1>3. PICK r : r = onSetup(v, view[v], e[2], version)
  OBVIOUS
<1>4. PICK rs : rs = [u \in {v} |-> r]
  OBVIOUS
<1>5. Apply({v}, rs, block) /\ chain' = chain /\ pool' = pool \cup encoded(v, r.acts)
  BY <1>1, <1>2, <1>3, <1>4 DEF performSetup
<1>6. StepOk(v, view[v], r)
  BY <1>3, OnSetupOk DEF ShareInv, ViewsOk
<1>7. \A u \in {v} : rs[u] = r
  BY <1>4
<1>8. {v} \in SUBSET Honest /\ \A u \in {v} : StepOk(u, view[u], rs[u])
  BY <1>6, <1>7
<1>9. \A tx \in pool' : tx \in pool \/ \E u \in {v} : tx \in encoded(u, rs[u].acts)
  BY <1>5, <1>7
<1> QED BY <1>5, <1>8, <1>9, QuietShare

\* A validator collects the commitments again.
LEMMA RestartShare ==
  ASSUME ShareInv, NEW v \in Honest, restart(v)
  PROVE  ShareInv'
<1>1. PICK s : s = view[v]
  OBVIOUS
<1>2. PICK g : g = groupOf(s)
  OBVIOUS
<1>3. PICK c : c = ceremony(g).committed
  OBVIOUS
<1>4. PICK m : m = [p \in {q \in DOMAIN c : c[q] # 0} |-> c[p]]
  OBVIOUS
<1>5. PICK i : i = idle(s, "CollectingCommitments", s.epoch)
  OBVIOUS
<1>6. PICK again : again = [i EXCEPT !.members = s.members, !.own = NoSecrets,
                                     !.deadline = began[v].deadline, !.commitments = m]
  OBVIOUS
<1>7. PICK r : r = IF began[v].deadline # NoDeadline /\ block >= began[v].deadline
                   THEN keyGenTimeouts(v, again, block) ELSE stay(again)
  OBVIOUS
<1>8. /\ s.own > NoSecrets /\ Apply({v}, [u \in {v} |-> r], block)
      /\ UNCHANGED <<chain, pool>>
  BY <1>1, <1>2, <1>3, <1>4, <1>5, <1>6, <1>7 DEF restart, groupOf
<1>9. CeremoniesOk /\ ViewOk(v, s)
  BY <1>1 DEF ShareInv, ViewsOk
<1>10. v \in s.members /\ s.members \subseteq Participants
  <2>1. s.own # Observing
    BY <1>8 DEF NoSecrets, Observing
  <2> QED BY <1>9, <2>1 DEF ViewOk
<1>11. /\ DOMAIN again = Fields /\ again.members = s.members /\ again.epoch = s.epoch
       /\ again.commitments = m
  <2>1. DOMAIN i = Fields /\ i.epoch = s.epoch
    BY <1>5, IdleOk DEF ViewOk, idle
  <2> QED BY <1>6, <2>1 DEF Fields
<1>12. /\ DOMAIN m \subseteq s.members
       /\ \A p \in DOMAIN m : Committed(chain, g, p, m[p])
  <2>1. DOMAIN c \subseteq g.members /\ \A p \in DOMAIN c : Committed(chain, g, p, c[p])
    BY <1>3, <1>9, CeremonyIs
  <2>2. g.members = s.members
    BY <1>2 DEF groupOf, groupId
  <2> QED BY <1>4, <2>1, <2>2
<1>13. ViewOk(v, again)
  BY <1>10, <1>11, <1>12 DEF ViewOk
<1>14. StepOk(v, again, r)
  BY <1>7, <1>13, TimeoutsOk, StayOk
<1>15. /\ view'[v] = r.s
       /\ \A u \in Honest : u # v => view'[u] = view[u]
  BY <1>8 DEF Apply
<1>16. ViewsOk'
  BY <1>14, <1>15 DEF ShareInv, ViewsOk, StepOk
<1>17. ViewsAgree'
  <2>1. ASSUME NEW p \in DOMAIN r.s.commitments
        PROVE  Committed(chain, groupOf(r.s), p, r.s.commitments[p])
    <3>1. r.s.commitments # <<>>
      BY <2>1
    <3>2. r.s.epoch = s.epoch /\ r.s.members = s.members /\ r.s.commitments = m
      BY <1>11, <1>14, <3>1 DEF StepOk, Follows
    <3>3. groupOf(r.s) = g
      BY <1>2, <3>2 DEF groupOf
    <3> QED BY <1>12, <2>1, <3>2, <3>3
  <2>2. ASSUME NEW u \in Honest, NEW p \in DOMAIN view'[u].commitments
        PROVE  Committed(chain', groupOf(view'[u]), p, view'[u].commitments[p])
    <3>1. CASE u = v
      BY <1>8, <1>15, <2>1, <2>2, <3>1
    <3>2. CASE u # v
      BY <1>8, <1>15, <2>2, <3>2 DEF ShareInv, ViewsAgree
    <3> QED BY <3>1, <3>2
  <2> QED BY <2>2 DEF ViewsAgree
<1>18. CeremoniesOk' /\ QueueAgrees'
  BY <1>8 DEF ShareInv, CeremoniesOk, QueueAgrees
<1> QED BY <1>16, <1>17, <1>18 DEF ShareInv

\* Nothing is committed at first.
LEMMA InitShare == Init => ShareInv
<1> SUFFICES ASSUME Init PROVE ShareInv
  OBVIOUS
<1>1. \A v \in Honest : view[v] = idle([active |-> 0, epochs |-> {}], "WaitingForGenesis", 0)
  BY DEF Init, initialView
<1>2. ViewsOk /\ ViewsAgree
  <2>1. \A v \in Honest : ViewOk(v, view[v]) /\ view[v].commitments = <<>>
    BY <1>1, IdleOk
  <2> QED BY <2>1 DEF ViewsOk, ViewsAgree
<1> QED BY <1>2 DEF Init, ShareInv, CeremoniesOk, QueueAgrees

\* Setups are those of validators.
SetupsOk == \A e \in setups : e[1] \in Honest

\* They stay so.
LEMMA SetupsStep ==
  ASSUME ShareInv, SetupsOk, NEW r,
         \A v \in Honest : ActsOk(v, r[v]),
         \A e \in setups' : e \in setups \/ e \in UNION {r[v].setup : v \in Honest}
  PROVE  SetupsOk'
<1>1. \A e \in UNION {r[v].setup : v \in Honest} : e[1] \in Honest
  <2>1. SUFFICES ASSUME NEW v \in Honest, NEW e \in r[v].setup PROVE e[1] \in Honest
    OBVIOUS
  <2> QED BY <2>1 DEF ActsOk
<1> QED BY <1>1 DEF SetupsOk

\* A step of a faulty participant is one of its transactions.
LEMMA MisbehaveSends ==
  ASSUME NEW p \in Faulty, misbehave(p)
  PROVE  \E g \in held(view), kind \in Kinds, valid \in BOOLEAN, peer \in Participants,
            bad \in SUBSET Honest : execute(sent(p, kind, g, peer, valid, bad))
<1> DEFINE Valids(kind) == IF kind \in {"complain", "confirm"} THEN {TRUE} ELSE BOOLEAN
           Peers(kind) == IF kind \in {"commit", "confirm", "share"} THEN {p} ELSE Participants
           Bads(kind, valid, g) ==
             IF kind = "share" /\ valid THEN SUBSET (Honest \cap g.members) ELSE {{}}
           Tallied(kind, valid, bad) ==
             LET misdeed == ~valid \/ bad # {} \/ kind = "complain"
             IN  /\ misdeed => troubleLeft
                 /\ misdeeds' = IF misdeed THEN misdeeds + 1 ELSE misdeeds
<1>1. \E g \in held(view), kind \in Kinds : \E valid \in Valids(kind) :
      \E peer \in Peers(kind), bad \in Bads(kind, valid, g) :
        /\ Tallied(kind, valid, bad)
        /\ execute(sent(p, kind, g, peer, valid, bad))
  BY DEF misbehave, Kinds
<1> HIDE DEF Valids, Peers, Bads, Tallied
<1>2. PICK g \in held(view), kind \in Kinds : \E valid \in Valids(kind) :
      \E peer \in Peers(kind), bad \in Bads(kind, valid, g) :
        execute(sent(p, kind, g, peer, valid, bad))
  BY <1>1
<1>3. PICK valid \in Valids(kind) : \E peer \in Peers(kind), bad \in Bads(kind, valid, g) :
        execute(sent(p, kind, g, peer, valid, bad))
  BY <1>2
<1>4. PICK peer \in Peers(kind), bad \in Bads(kind, valid, g) :
        execute(sent(p, kind, g, peer, valid, bad))
  BY <1>3
<1>5. valid \in BOOLEAN
  BY <1>3 DEF Valids
<1>6. peer \in Participants /\ bad \in SUBSET Honest
  BY <1>4 DEF Participants, Peers, Bads
<1> QED BY <1>2, <1>4, <1>5, <1>6

\* Every step keeps the invariant.
LEMMA NextShare == ShareInv /\ SetupsOk /\ [Next]_vars => ShareInv' /\ SetupsOk'
<1> SUFFICES ASSUME ShareInv, SetupsOk, [Next]_vars
             PROVE  ShareInv' /\ SetupsOk'
  OBVIOUS
<1>0. \A v \in Honest : ViewOk(v, view[v])
  BY DEF ShareInv, ViewsOk
<1>1. CASE newBlock
  <2>1. PICK r : r = [v \in Honest |-> onNewBlock(v, view[v], block + 1)]
    OBVIOUS
  <2>2. \A v \in Honest : ActsOk(v, r[v])
    BY <1>0, <2>1, OnNewBlockOk DEF StepOk
  <2>3. \A e \in setups' : e \in setups \/ e \in UNION {r[v].setup : v \in Honest}
    BY <1>1, <2>1 DEF newBlock
  <2>4. SetupsOk'
    BY <2>2, <2>3, SetupsStep
  <2> QED BY <1>1, <2>4, NewBlockShare
<1>2. CASE keyGenGenesis
  <2>1. PICK r : r = [v \in Honest |-> onKeyGen(v, view[v], groupId(0, activeIn(0)))]
    OBVIOUS
  <2>2. \A v \in Honest : ActsOk(v, r[v])
    BY <1>0, <2>1, OnKeyGenOk DEF StepOk
  <2>3. \A e \in setups' : e \in setups \/ e \in UNION {r[v].setup : v \in Honest}
    BY <1>2, <2>1 DEF keyGenGenesis
  <2>4. SetupsOk'
    BY <2>2, <2>3, SetupsStep
  <2> QED BY <1>2, <2>4, GenesisShare
<1>3. ASSUME NEW tx, tx.kind \in Kinds, execute(tx) PROVE ShareInv' /\ SetupsOk'
  <2>1. PICK r : r = [v \in Honest |-> onEvent(v, tx)]
    OBVIOUS
  <2>2. tx.from \in tx.group.members
    BY <1>3 DEF execute, accepts
  <2>3. \A v \in Honest : ActsOk(v, r[v])
    BY <1>0, <1>3, <2>1, <2>2, OnEventOk DEF StepOk
  <2>4. \A e \in setups' : e \in setups \/ e \in UNION {r[v].setup : v \in Honest}
    BY <1>3, <2>1 DEF execute
  <2>5. SetupsOk'
    BY <2>3, <2>4, SetupsStep
  <2> QED BY <1>3, <2>5, ExecuteShare
<1>4. ASSUME NEW tx \in pool, mine(tx) PROVE ShareInv' /\ SetupsOk'
  BY <1>3, <1>4 DEF mine, ShareInv, QueueAgrees
<1>5. ASSUME NEW p \in Faulty, misbehave(p) PROVE ShareInv' /\ SetupsOk'
  <2>1. PICK g \in held(view), kind \in Kinds, valid \in BOOLEAN, peer \in Participants,
             bad \in SUBSET Honest :
          execute(sent(p, kind, g, peer, valid, bad))
    BY <1>5, MisbehaveSends
  <2>2. sent(p, kind, g, peer, valid, bad).kind = kind
    BY DEF sent
  <2> QED BY <1>3, <2>1, <2>2
<1>6. ASSUME NEW g, stageEpoch(g) PROVE ShareInv' /\ SetupsOk'
  <2>1. SetupsOk'
    BY <1>6 DEF stageEpoch, SetupsOk
  <2> QED BY <1>6, <2>1, StageShare
<1>7. ASSUME NEW e \in setups, performSetup(e) PROVE ShareInv' /\ SetupsOk'
  <2>1. e[1] \in Honest
    BY DEF SetupsOk
  <2>2. SetupsOk'
    BY <1>7 DEF performSetup, SetupsOk
  <2> QED BY <1>7, <2>1, <2>2, SetupShare
<1>8. ASSUME NEW e \in setups, failSetup(e) PROVE ShareInv' /\ SetupsOk'
  BY <1>8 DEF failSetup, SetupsOk, ShareInv, CeremoniesOk, ViewsOk, ViewsAgree, QueueAgrees
<1>9. ASSUME NEW v \in Honest, restart(v) PROVE ShareInv' /\ SetupsOk'
  <2>1. SetupsOk'
    <3>1. \A e \in setups' : e \in setups \/ e[1] = v
      BY <1>9 DEF restart
    <3> QED BY <3>1 DEF SetupsOk
  <2> QED BY <1>9, <2>1, RestartShare
<1>10. CASE UNCHANGED vars
  BY <1>10 DEF vars, SetupsOk, ShareInv, CeremoniesOk, ViewsOk, ViewsAgree, QueueAgrees
<1> QED BY <1>1, <1>2, <1>4, <1>5, <1>6, <1>7, <1>8, <1>9, <1>10 DEF Next

\* A validator publishes secret shares only of the secrets its onchain
\* commitment was made with, whatever it replayed, lost or sampled again, with
\* any number of validators, faulty participants, delays and restarts.
THEOREM PublishedSharesMatch == Spec => []SharesMatchCommitment
<1>1. Init => ShareInv /\ SetupsOk
  BY InitShare DEF Init, SetupsOk
<1>2. ShareInv /\ SetupsOk => SharesMatchCommitment
  BY DEF ShareInv, QueueAgrees, Committed, SharesMatchCommitment
<1> QED BY <1>1, <1>2, NextShare, PTL DEF Spec

----------------------------------------------------------------------------
(* The validators stay in step                                             *)

Sound == Honest \ lost

PublicFields ==
    {"phase", "epoch", "members", "commitments", "keys", "total", "unresponded",
     "confirmations", "deadline"}

\* s and t say the same of the ceremony.
Same(s, t) == \A f \in PublicFields : s[f] = t[f]

\* Some member is not in `set`.
Lacks(s, set) == s.members # {} => \E p \in s.members : p \notin set

\* A round ends with the last of the members, and who has committed has the
\* secrets of it.
RoundOpen(v, s) ==
    /\ s.phase = "CollectingCommitments" =>
        /\ Lacks(s, DOMAIN s.commitments)
        /\ s.keys = {} /\ s.confirmations = {}
        /\ \A p \in DOMAIN s.commitments : s.commitments[p] # 0
        /\ v \in DOMAIN s.commitments => s.commitments[v] = s.own
    /\ s.phase = "CollectingShares" =>
        /\ Lacks(s, s.keys)
        /\ s.keys \subseteq s.members /\ s.confirmations = {}
    /\ s.phase = "CollectingConfirmations" =>
        /\ Lacks(s, s.confirmations)
        /\ s.confirmations \subseteq s.members

EpochOk(s) ==
    /\ s.epoch \in Nat
    /\ s.phase \in {"WaitingForGenesis", "Halted"} => s.epoch = 0

InGenesis(s) == s.epoch = 0 /\ s.phase \in Collecting

\* How a transition of s to r, which counts the confirmations of C, goes on in
\* the order of epochs and groups.
Moves(s, r, C) ==
    /\ EpochOk(r.s) /\ s.epoch <= r.s.epoch
    /\ \A a \in r.acts : a.group = groupOf(s)
    /\ s.phase = "WaitingForGenesis" => r.acts = {}
    /\ r.s.phase = "WaitingForGenesis" => s.phase = "WaitingForGenesis"
    /\ s.phase # "WaitingForGenesis" =>
        /\ r.s.epoch = s.epoch => r.s.members \subseteq s.members
        /\ InGenesis(r.s) =>
            /\ InGenesis(s) /\ r.s.members = s.members
            /\ r.s.confirmations \subseteq s.confirmations \cup C

\* t collects the commitments that s does, or those of a later group.
Renews(s, t) ==
    t.phase = "CollectingCommitments" =>
        \/ s.phase = "CollectingCommitments" /\ groupOf(t) = groupOf(s) /\ t.own = s.own
        \/ t.epoch # s.epoch
        \/ t.members # s.members

\* What a sound validator's round becomes.
Goes(v, s, r) ==
    /\ RoundOpen(v, s) => RoundOpen(v, r.s) /\ Renews(s, r.s)
    /\ r.s.epoch # s.epoch => RoundOpen(v, r.s)

\* Nothing happens.
LEMMA StayMoves ==
  ASSUME NEW v, NEW s, EpochOk(s), NEW C
  PROVE  Moves(s, stay(s), C) /\ Goes(v, s, stay(s))
<1>1. stay(s).s = s /\ stay(s).acts = {}
  BY ResultOf
<1>2. s.epoch \in Nat
  BY DEF EpochOk
<1> QED BY <1>1, <1>2 DEF Moves, Goes, Renews

\* The ceremony ends, one way or the other.
LEMMA EndMoves ==
  ASSUME NEW v, NEW s, EpochOk(s), NEW C, NEW r, r.acts = {}, EpochOk(r.s), s.epoch <= r.s.epoch,
         r.s.phase \notin Collecting, r.s.phase # "WaitingForGenesis", r.s.members \subseteq s.members
  PROVE  Moves(s, r, C) /\ Goes(v, s, r)
<1>1. RoundOpen(v, r.s) /\ Renews(s, r.s)
  BY DEF RoundOpen, Renews, Collecting
<1> QED BY <1>1 DEF Moves, Goes, InGenesis

\* An idle state.
LEMMA IdleIs ==
  ASSUME NEW s, NEW phase, NEW epoch
  PROVE  LET i == idle(s, phase, epoch)
         IN  /\ DOMAIN i = Fields
             /\ i.phase = phase /\ i.epoch = epoch /\ i.members = {} /\ i.own = Observing
             /\ i.commitments = <<>> /\ i.keys = {} /\ i.total = <<>> /\ i.unresponded = <<>>
             /\ i.confirmations = {} /\ i.deadline = NoDeadline
  BY DEF idle, Fields

\* The state a ceremony starts with.
LEMMA StartIs ==
  ASSUME NEW v, NEW s, NEW epoch, NEW members, NEW deadline
  PROVE  LET r == startKeyGen(v, s, epoch, members, deadline)
         IN  /\ r.acts = {}
             /\ r.s.phase = "CollectingCommitments" /\ r.s.epoch = epoch /\ r.s.members = members
             /\ r.s.commitments = <<>> /\ r.s.keys = {} /\ r.s.total = <<>>
             /\ r.s.unresponded = <<>> /\ r.s.confirmations = {} /\ r.s.deadline = deadline
<1>1. PICK r : r = startKeyGen(v, s, epoch, members, deadline)
  OBVIOUS
<1>2. PICK i : i = idle(s, "CollectingCommitments", epoch)
  OBVIOUS
<1>3. /\ DOMAIN i = Fields
      /\ i.phase = "CollectingCommitments" /\ i.epoch = epoch /\ i.commitments = <<>>
      /\ i.keys = {} /\ i.total = <<>> /\ i.unresponded = <<>> /\ i.confirmations = {}
  BY <1>2, IdleIs
<1>4. PICK own : own = IF v \in members THEN NoSecrets ELSE Observing
  OBVIOUS
<1>5. PICK t : t = [i EXCEPT !.members = members, !.own = own, !.deadline = deadline]
  OBVIOUS
<1>6. /\ t.phase = "CollectingCommitments" /\ t.epoch = epoch /\ t.commitments = <<>>
      /\ t.keys = {} /\ t.total = <<>> /\ t.unresponded = <<>> /\ t.confirmations = {}
      /\ t.members = members /\ t.deadline = deadline
  BY <1>3, <1>5 DEF Fields
<1>7. r.s = t /\ r.acts = {}
  BY <1>1, <1>2, <1>4, <1>5, ResultOf DEF startKeyGen
<1> QED BY <1>1, <1>6, <1>7

\* A ceremony of a later group starts.
LEMMA StartMoves ==
  ASSUME NEW v, NEW s, EpochOk(s), NEW C, NEW x, NEW epoch \in Nat \ {0}, NEW members, NEW deadline,
         s.epoch < epoch \/ (s.epoch = epoch /\ members \subseteq s.members)
  PROVE  LET r == startKeyGen(v, x, epoch, members, deadline)
         IN  /\ Moves(s, r, C)
             /\ RoundOpen(v, r.s)
             /\ s.epoch < epoch \/ members # s.members => Goes(v, s, r)
<1>1. PICK r : r = startKeyGen(v, x, epoch, members, deadline)
  OBVIOUS
<1>2. /\ r.acts = {}
      /\ r.s.phase = "CollectingCommitments" /\ r.s.epoch = epoch /\ r.s.members = members
      /\ r.s.commitments = <<>> /\ r.s.keys = {} /\ r.s.confirmations = {}
  BY <1>1, StartIs
<1>3. s.epoch \in Nat
  BY DEF EpochOk
<1>4. EpochOk(r.s) /\ ~InGenesis(r.s) /\ s.epoch <= r.s.epoch
  BY <1>2, <1>3 DEF EpochOk, InGenesis
<1>5. Moves(s, r, C)
  <2>1. r.s.epoch = s.epoch => r.s.members \subseteq s.members
    BY <1>2, <1>3
  <2> QED BY <1>2, <1>4, <2>1 DEF Moves
<1>6. RoundOpen(v, r.s)
  <2>1. DOMAIN r.s.commitments = {}
    BY <1>2
  <2> QED BY <1>2, <2>1 DEF RoundOpen, Lacks
<1>7. s.epoch < epoch \/ members # s.members => Renews(s, r.s)
  BY <1>2, <1>3 DEF Renews
<1> QED BY <1>1, <1>5, <1>6, <1>7 DEF Goes

\* The epoch is skipped, or genesis halts.
LEMMA FailureIs ==
  ASSUME NEW s
  PROVE  LET r == rolloverFailure(s)
         IN  /\ r.acts = {}
             /\ r.s.phase = IF s.epoch = 0 THEN "Halted" ELSE "EpochSkipped"
             /\ r.s.epoch = s.epoch /\ r.s.members = {}
             /\ r.s.commitments = <<>> /\ r.s.keys = {} /\ r.s.total = <<>>
             /\ r.s.unresponded = <<>> /\ r.s.confirmations = {} /\ r.s.deadline = NoDeadline
<1>1. PICK phase : phase = IF s.epoch = 0 THEN "Halted" ELSE "EpochSkipped"
  OBVIOUS
<1>2. rolloverFailure(s) = stay(idle(s, phase, s.epoch))
  BY <1>1 DEF rolloverFailure
<1>3. PICK i : i = idle(s, phase, s.epoch)
  OBVIOUS
<1>4. /\ i.phase = phase /\ i.epoch = s.epoch /\ i.members = {}
      /\ i.commitments = <<>> /\ i.keys = {} /\ i.total = <<>>
      /\ i.unresponded = <<>> /\ i.confirmations = {} /\ i.deadline = NoDeadline
  BY <1>3, IdleIs
<1>5. rolloverFailure(s).s = i /\ rolloverFailure(s).acts = {}
  BY <1>2, <1>3, ResultOf
<1> QED BY <1>1, <1>4, <1>5

\* It goes on after that.
LEMMA FailureMoves ==
  ASSUME NEW v, NEW s, EpochOk(s), NEW C, NEW x, x.epoch = s.epoch
  PROVE  Moves(s, rolloverFailure(x), C) /\ Goes(v, s, rolloverFailure(x))
<1>1. PICK r : r = rolloverFailure(x)
  OBVIOUS
<1>2. /\ r.acts = {} /\ r.s.phase = (IF x.epoch = 0 THEN "Halted" ELSE "EpochSkipped")
      /\ r.s.epoch = x.epoch /\ r.s.members = {}
  BY <1>1, FailureIs
<1>3. EpochOk(r.s) /\ s.epoch <= r.s.epoch
  BY <1>2 DEF EpochOk
<1>4. r.s.phase \notin Collecting /\ r.s.phase # "WaitingForGenesis"
  BY <1>2 DEF Collecting
<1> QED BY <1>1, <1>2, <1>3, <1>4, EndMoves

\* The ceremony starts again without the members of `more`.
LEMMA RestartMoves ==
  ASSUME NEW v, NEW s, EpochOk(s), NEW C, NEW x, x.epoch = s.epoch, NEW more, NEW deadline
  PROVE  LET r == restartKeyGenExcluding(v, x, alsoExclude(s, more), deadline)
         IN  /\ Moves(s, r, C)
             /\ Lacks(s, s.members \ more) => Goes(v, s, r)
<1>1. PICK r : r = restartKeyGenExcluding(v, x, alsoExclude(s, more), deadline)
  OBVIOUS
<1>2. PICK members : members = participantsSet(s.epoch, alsoExclude(s, more))
  OBVIOUS
<1>3. members \subseteq s.members \ more
  BY <1>2, ParticipantsOk DEF alsoExclude
<1>4. CASE s.epoch = 0 \/ members = {}
  <2>1. r = rolloverFailure(x)
    BY <1>1, <1>2, <1>4 DEF restartKeyGenExcluding
  <2> QED BY <1>1, <2>1, FailureMoves
<1>5. CASE s.epoch # 0 /\ members # {}
  <2>1. r = startKeyGen(v, x, s.epoch, members, deadline)
    BY <1>1, <1>2, <1>5 DEF restartKeyGenExcluding
  <2>2. s.epoch \in Nat \ {0}
    BY <1>5 DEF EpochOk
  <2>3. Lacks(s, s.members \ more) => members # s.members
    BY <1>3, <1>5 DEF Lacks
  <2> QED BY <1>1, <1>3, <2>1, <2>2, <2>3, StartMoves
<1> QED BY <1>4, <1>5

\* No complaint about anybody.
Unblamed(members) == [p \in members |-> 0]

\* The secrets match, and the shares are collected.
LEMMA FinalizeIs ==
  ASSUME NEW v, NEW s, ViewOk(v, s), matchesCommitment(v, s), NEW deadline,
         NEW r, r = finalizeKeyGenCommitments(v, s, deadline)
  PROVE  /\ r.s.epoch = s.epoch /\ r.s.members = s.members /\ r.s.commitments = s.commitments
         /\ r.s.keys = s.keys /\ r.s.confirmations = s.confirmations
         /\ r.s.phase = "CollectingShares" /\ r.s.deadline = deadline
         /\ r.s.total = Unblamed(s.members) /\ r.s.unresponded = Unblamed(s.members)
         /\ \A a \in r.acts : a.group = groupOf(s) /\ a.kind = "share"
<1>1. PICK t : t = [s EXCEPT !.phase = "CollectingShares", !.deadline = deadline,
                        !.total = [p \in s.members |-> 0],
                        !.unresponded = [p \in s.members |-> 0]]
  OBVIOUS
<1>2. /\ t.epoch = s.epoch /\ t.members = s.members /\ t.commitments = s.commitments
      /\ t.keys = s.keys /\ t.confirmations = s.confirmations
      /\ t.phase = "CollectingShares" /\ t.deadline = deadline
      /\ t.total = Unblamed(s.members) /\ t.unresponded = Unblamed(s.members)
  BY <1>1 DEF ViewOk, Fields, Unblamed
<1>3. PICK acts : acts = IF s.own = Observing THEN {} ELSE {action("share", s, v, s.own)}
  OBVIOUS
<1>4. \A a \in acts : a.group = groupOf(s) /\ a.kind = "share"
  BY <1>3 DEF action, groupOf
<1>5. finalizeKeyGenCommitments(v, s, deadline) = result(t, acts, {})
  BY <1>1, <1>3 DEF finalizeKeyGenCommitments
<1> QED BY <1>2, <1>4, <1>5, ResultOf

\* The last commitment, collected as x, ends the round of s.
LEMMA FinalizeMoves ==
  ASSUME NEW v, NEW s, EpochOk(s), s.phase = "CollectingCommitments", NEW C,
         NEW x, ViewOk(v, x), x.epoch = s.epoch, x.members = s.members,
         x.keys = s.keys, x.confirmations = s.confirmations, NEW deadline
  PROVE  LET r == finalizeKeyGenCommitments(v, x, deadline)
         IN  Moves(s, r, C) /\ Goes(v, s, r)
<1>1. CASE ~matchesCommitment(v, x)
  BY <1>1, FailureMoves DEF finalizeKeyGenCommitments
<1>2. CASE matchesCommitment(v, x)
  <2>1. PICK r : r = finalizeKeyGenCommitments(v, x, deadline)
    OBVIOUS
  <2>2. /\ r.s.epoch = s.epoch /\ r.s.members = s.members /\ r.s.keys = s.keys
        /\ r.s.confirmations = s.confirmations /\ r.s.phase = "CollectingShares"
    BY <1>2, <2>1, FinalizeIs
  <2>3. \A a \in r.acts : a.group = groupOf(s)
    BY <1>2, <2>1, FinalizeIs DEF groupOf
  <2>4. Moves(s, r, C)
    <3>1. EpochOk(r.s) /\ s.epoch <= r.s.epoch
      BY <2>2 DEF EpochOk
    <3> QED BY <2>2, <2>3, <3>1 DEF Moves, InGenesis, Collecting
  <2>5. Goes(v, s, r)
    BY <2>2 DEF Goes, RoundOpen, Renews, Lacks
  <2> QED BY <2>1, <2>4, <2>5
<1> QED BY <1>1, <1>2

\* The setup of a sound validator fills in its secrets, and changes nothing
\* the others know of.
LEMMA SetupSound ==
  ASSUME NEW v, NEW s, ViewOk(v, s), EpochOk(s), RoundOpen(v, s), NEW g, NEW version
  PROVE  LET r == onSetup(v, s, g, version)
         IN  /\ Same(s, r.s) /\ RoundOpen(v, r.s)
             /\ \/ r = stay(s)
                \/ /\ s.phase = "CollectingCommitments" /\ s.own = NoSecrets
                   /\ r.s.own = version
                   /\ \A a \in r.acts : a.version = version
<1>1. CASE ~(s.phase = "CollectingCommitments" /\ s.own = NoSecrets /\ inGroup(s, g))
  BY <1>1, ResultOf DEF onSetup, Same
<1>2. CASE s.phase = "CollectingCommitments" /\ s.own = NoSecrets /\ inGroup(s, g)
  <2>1. PICK r : r = onSetup(v, s, g, version)
    OBVIOUS
  <2>2. PICK filled : filled = [s EXCEPT !.own = version]
    OBVIOUS
  <2>3. PICK commit : commit = IF publishes(v, s) THEN {action("commit", s, v, version)} ELSE {}
    OBVIOUS
  <2>4. (\A f \in Fields \ {"own"} : filled[f] = s[f]) /\ filled.own = version
    BY <2>2 DEF ViewOk, Fields
  <2>5. CASE complete(s, DOMAIN s.commitments)
    <3>1. DOMAIN s.commitments = s.members
      BY <2>5, AllCommitted
    <3>2. s.members = {}
      BY <1>2, <3>1 DEF RoundOpen, Lacks
    <3> QED BY <1>2, <3>2 DEF ViewOk, NoSecrets, Observing
  <2>6. CASE ~complete(s, DOMAIN s.commitments)
    <3>1. r = result(filled, commit, {})
      BY <1>2, <2>1, <2>2, <2>3, <2>6 DEF onSetup
    <3>2. r.s = filled /\ r.acts = commit
      BY <3>1, ResultOf
    <3>3. \A a \in r.acts : a.version = version
      BY <2>3, <3>2 DEF action
    <3>4. Same(s, filled)
      BY <2>4 DEF Same, PublicFields, Fields
    <3>5. v \notin DOMAIN s.commitments
      BY <1>2 DEF RoundOpen, NoSecrets
    <3>6. RoundOpen(v, filled)
      <4>1. /\ filled.phase = s.phase /\ filled.members = s.members
            /\ filled.commitments = s.commitments /\ filled.keys = s.keys
            /\ filled.confirmations = s.confirmations
        BY <2>4 DEF Fields
      <4> QED BY <1>2, <3>5, <4>1 DEF RoundOpen, Lacks
    <3> QED BY <1>2, <2>1, <2>4, <3>2, <3>3, <3>4, <3>6
  <2> QED BY <2>5, <2>6
<1> QED BY <1>1, <1>2

\* Any setup.
LEMMA SetupMoves ==
  ASSUME NEW v, NEW s, ViewOk(v, s), EpochOk(s), NEW g, NEW version
  PROVE  Moves(s, onSetup(v, s, g, version), {})
<1>1. CASE ~(s.phase = "CollectingCommitments" /\ s.own = NoSecrets /\ inGroup(s, g))
  BY <1>1, StayMoves DEF onSetup
<1>2. CASE s.phase = "CollectingCommitments" /\ s.own = NoSecrets /\ inGroup(s, g)
  <2>1. PICK r : r = onSetup(v, s, g, version)
    OBVIOUS
  <2>2. PICK filled : filled = [s EXCEPT !.own = version]
    OBVIOUS
  <2>3. PICK commit : commit = IF publishes(v, s) THEN {action("commit", s, v, version)} ELSE {}
    OBVIOUS
  <2>4. \A a \in commit : a.group = groupOf(s)
    BY <2>3 DEF action, groupOf
  <2>5. /\ DOMAIN filled = Fields
        /\ filled.phase = s.phase /\ filled.members = s.members /\ filled.epoch = s.epoch
        /\ filled.commitments = s.commitments /\ filled.keys = s.keys
        /\ filled.confirmations = s.confirmations
    BY <2>2 DEF ViewOk, Fields
  <2>6. CASE ~complete(s, DOMAIN s.commitments)
    <3>1. r.s = filled /\ r.acts = commit
      BY <1>2, <2>1, <2>2, <2>3, <2>6, ResultOf DEF onSetup
    <3>2. EpochOk(filled) /\ s.epoch <= filled.epoch
      BY <2>5 DEF EpochOk
    <3> QED BY <1>2, <2>1, <2>4, <2>5, <3>1, <3>2 DEF Moves, InGenesis
  <2>7. CASE complete(s, DOMAIN s.commitments)
    <3>1. PICK closed : closed = finalizeKeyGenCommitments(v, filled, pushed(s, s.deadline))
      OBVIOUS
    <3>2. v \in s.members
      BY <1>2 DEF ViewOk, NoSecrets, Observing
    <3>3. ViewOk(v, filled)
      BY <2>5, <3>2 DEF ViewOk
    <3>4. Moves(s, closed, {})
      BY <1>2, <2>5, <3>1, <3>3, FinalizeMoves
    <3>5. r = [closed EXCEPT !.acts = @ \cup commit]
      BY <1>2, <2>1, <2>2, <2>3, <2>7, <3>1 DEF onSetup
    <3>6. DOMAIN closed = {"s", "acts", "setup"}
      <4>1. \E x, a, e : closed = result(x, a, e)
        BY <3>1 DEF finalizeKeyGenCommitments, rolloverFailure, stay
      <4> QED BY <4>1 DEF result
    <3>7. r.s = closed.s /\ r.acts = closed.acts \cup commit
      BY <3>5, <3>6
    <3> QED BY <1>2, <2>1, <2>4, <3>4, <3>7 DEF Moves
  <2> QED BY <2>6, <2>7
<1> QED BY <1>1, <1>2

\* The fields that Same is about, one by one.
LEMMA SameFields ==
  ASSUME NEW s, NEW t
  PROVE  Same(s, t) <=>
           /\ s.phase = t.phase /\ s.epoch = t.epoch /\ s.members = t.members
           /\ s.commitments = t.commitments /\ s.keys = t.keys /\ s.total = t.total
           /\ s.unresponded = t.unresponded /\ s.confirmations = t.confirmations
           /\ s.deadline = t.deadline
  BY DEF Same, PublicFields

\* Nobody is missing only if the set is complete.
LEMMA OpenLacks ==
  ASSUME NEW v, NEW s, ViewOk(v, s), NEW set, set \subseteq s.members, ~complete(s, set)
  PROVE  Lacks(s, set)
  BY DEF Lacks, complete

\* What a commitment makes of a state that counts it.
LEMMA CountedIs ==
  ASSUME NEW v, NEW s, ViewOk(v, s), NEW p \in s.members, NEW version,
         NEW x, x = Counted(s, p, version)
  PROVE  /\ ViewOk(v, x)
         /\ x.phase = s.phase /\ x.epoch = s.epoch /\ x.members = s.members /\ x.own = s.own
         /\ x.keys = s.keys /\ x.total = s.total /\ x.unresponded = s.unresponded
         /\ x.confirmations = s.confirmations /\ x.deadline = s.deadline
         /\ \/ version # 0 /\ x.commitments = put(s.commitments, p, version)
            \/ version = 0 /\ x.commitments = s.commitments
<1>1. /\ ViewOk(v, x)
      /\ \A f \in Fields : f # "commitments" => x[f] = s[f]
      /\ x.commitments =
            IF verifyCommitment(version) THEN put(s.commitments, p, version) ELSE s.commitments
  BY CountedOk
<1>2. /\ x.phase = s.phase /\ x.epoch = s.epoch /\ x.members = s.members /\ x.own = s.own
      /\ x.keys = s.keys /\ x.total = s.total /\ x.unresponded = s.unresponded
      /\ x.confirmations = s.confirmations /\ x.deadline = s.deadline
  BY <1>1 DEF Fields
<1> QED BY <1>1, <1>2 DEF verifyCommitment

\* A sound validator has the secrets of its commitment when the last one
\* arrives.
LEMMA CommittedMatches ==
  ASSUME NEW v, NEW s, ViewOk(v, s), RoundOpen(v, s), s.phase = "CollectingCommitments",
         NEW p \in s.members, NEW version, p = v => version \in {0, s.own},
         NEW x, x = Counted(s, p, version), complete(x, DOMAIN x.commitments)
  PROVE  x.own # NoSecrets /\ matchesCommitment(v, x)
<1>2. /\ ViewOk(v, x) /\ x.members = s.members /\ x.own = s.own
      /\ \/ version # 0 /\ x.commitments = put(s.commitments, p, version)
         \/ version = 0 /\ x.commitments = s.commitments
  BY CountedIs
<1>3. CASE x.own = Observing
  BY <1>3 DEF Observing, NoSecrets, matchesCommitment
<1>4. CASE x.own # Observing
  <2>1. v \in DOMAIN x.commitments
    BY <1>2, <1>4, AllCommitted DEF ViewOk
  <2>2. x.commitments[v] = s.own /\ s.own # 0
    <3>1. CASE v \in DOMAIN s.commitments /\ x.commitments[v] = s.commitments[v]
      BY <3>1 DEF RoundOpen
    <3>2. CASE ~(v \in DOMAIN s.commitments /\ x.commitments[v] = s.commitments[v])
      <4>1. version # 0 /\ x.commitments = put(s.commitments, p, version)
        BY <1>2, <2>1, <3>2
      <4>2. p = v /\ x.commitments[v] = version
        BY <2>1, <3>2, <4>1 DEF put
      <4> QED BY <4>1, <4>2
    <3> QED BY <3>1, <3>2
  <2> QED BY <1>2, <2>2 DEF matchesCommitment, NoSecrets
<1> QED BY <1>3, <1>4

\* KeyGenCommitted.
LEMMA CommittedMoves ==
  ASSUME NEW v, NEW s, ViewOk(v, s), EpochOk(s), NEW b, NEW g, NEW p \in g.members, NEW version,
         NEW C, NEW r, r = onCommitted(v, s, b, g, p, version)
  PROVE  /\ Moves(s, r, C)
         /\ (p = v => version \in {0, s.own}) => Goes(v, s, r)
<1>1. CASE ~(s.phase = "CollectingCommitments" /\ inGroup(s, g))
  BY <1>1, StayMoves DEF onCommitted
<1>2. CASE s.phase = "CollectingCommitments" /\ inGroup(s, g)
  <2>1. p \in s.members
    BY <1>2 DEF inGroup, groupId
  <2>2. PICK x : x = Counted(s, p, version)
    OBVIOUS
  <2>3. /\ ViewOk(v, x)
        /\ x.phase = s.phase /\ x.epoch = s.epoch /\ x.members = s.members /\ x.own = s.own
        /\ x.keys = s.keys /\ x.confirmations = s.confirmations
        /\ \/ version # 0 /\ x.commitments = put(s.commitments, p, version)
           \/ version = 0 /\ x.commitments = s.commitments
    BY <2>1, <2>2, CountedIs
  <2>4. r = IF complete(x, DOMAIN x.commitments) /\ x.own # NoSecrets
            THEN finalizeKeyGenCommitments(v, x, pushed(s, b)) ELSE stay(x)
    BY <1>2, <2>2 DEF onCommitted, Counted
  <2>5. CASE r = finalizeKeyGenCommitments(v, x, pushed(s, b))
    BY <1>2, <2>3, <2>5, FinalizeMoves
  <2>6. CASE r = stay(x)
    <3>1. r.s = x /\ r.acts = {}
      BY <2>6, ResultOf
    <3>2. EpochOk(x) /\ s.epoch <= x.epoch
      BY <2>3 DEF EpochOk
    <3>3. Moves(s, r, C)
      BY <1>2, <2>3, <3>1, <3>2 DEF Moves, InGenesis
    <3>4. ASSUME p = v => version \in {0, s.own}, RoundOpen(v, s)
          PROVE  RoundOpen(v, x) /\ Renews(s, x)
      <4>1. Renews(s, x)
        BY <1>2, <2>3 DEF Renews, groupOf
      <4>2. Lacks(x, DOMAIN x.commitments)
        <5>1. CASE complete(x, DOMAIN x.commitments)
          <6>1. x.own # NoSecrets /\ matchesCommitment(v, x)
            BY <1>2, <2>1, <2>2, <3>4, <5>1, CommittedMatches
          <6>2. finalizeKeyGenCommitments(v, x, pushed(s, b)).s.phase = "CollectingShares"
            BY <2>3, <6>1, FinalizeIs
          <6> QED BY <1>2, <2>3, <2>4, <3>1, <5>1, <6>1, <6>2
        <5>2. CASE ~complete(x, DOMAIN x.commitments)
          BY <2>3, <5>2, OpenLacks DEF ViewOk
        <5> QED BY <5>1, <5>2
      <4>3. /\ \A q \in DOMAIN x.commitments : x.commitments[q] # 0
            /\ v \in DOMAIN x.commitments => x.commitments[v] = x.own
        <5>1. CASE x.commitments = s.commitments
          BY <1>2, <2>3, <3>4, <5>1 DEF RoundOpen
        <5>2. CASE version # 0 /\ x.commitments = put(s.commitments, p, version)
          <6>1. /\ \A q \in DOMAIN s.commitments : s.commitments[q] # 0
                /\ v \in DOMAIN s.commitments => s.commitments[v] = s.own
            BY <1>2, <3>4 DEF RoundOpen
          <6>2. \A q \in DOMAIN x.commitments :
                  \/ q \in DOMAIN s.commitments /\ x.commitments[q] = s.commitments[q]
                  \/ q = p /\ x.commitments[q] = version
            BY <5>2 DEF put
          <6> QED BY <2>3, <3>4, <5>2, <6>1, <6>2
        <5> QED BY <2>3, <5>1, <5>2
      <4> QED BY <1>2, <2>3, <3>4, <4>1, <4>2, <4>3 DEF RoundOpen
    <3> QED BY <2>3, <3>1, <3>3, <3>4 DEF Goes
  <2> QED BY <2>4, <2>5, <2>6
<1> QED BY <1>1, <1>2

\* Sound validators that say the same count the same commitments.
LEMMA CommittedSame ==
  ASSUME NEW u, NEW s, ViewOk(u, s), RoundOpen(u, s), NEW v, NEW t, ViewOk(v, t), RoundOpen(v, t),
         Same(s, t), NEW b, NEW g, NEW p \in g.members, NEW version,
         p = u => version \in {0, s.own}, p = v => version \in {0, t.own}
  PROVE  Same(onCommitted(u, s, b, g, p, version).s, onCommitted(v, t, b, g, p, version).s)
<1>1. /\ s.phase = t.phase /\ s.epoch = t.epoch /\ s.members = t.members
      /\ s.commitments = t.commitments /\ s.keys = t.keys /\ s.total = t.total
      /\ s.unresponded = t.unresponded /\ s.confirmations = t.confirmations
      /\ s.deadline = t.deadline
  BY SameFields
<1>2. inGroup(s, g) <=> inGroup(t, g)
  BY <1>1 DEF inGroup
<1>3. CASE ~(s.phase = "CollectingCommitments" /\ inGroup(s, g))
  <2>1. onCommitted(u, s, b, g, p, version) = stay(s) /\ onCommitted(v, t, b, g, p, version) = stay(t)
    BY <1>1, <1>2, <1>3 DEF onCommitted
  <2> QED BY <2>1, ResultOf
<1>4. CASE s.phase = "CollectingCommitments" /\ inGroup(s, g)
  <2>1. p \in s.members /\ p \in t.members
    BY <1>1, <1>4 DEF inGroup, groupId
  <2>2. PICK x : x = Counted(s, p, version)
    OBVIOUS
  <2>3. PICK y : y = Counted(t, p, version)
    OBVIOUS
  <2>4. /\ ViewOk(u, x)
        /\ x.phase = s.phase /\ x.epoch = s.epoch /\ x.members = s.members /\ x.own = s.own
        /\ x.keys = s.keys /\ x.total = s.total /\ x.unresponded = s.unresponded
        /\ x.confirmations = s.confirmations /\ x.deadline = s.deadline
        /\ \/ version # 0 /\ x.commitments = put(s.commitments, p, version)
           \/ version = 0 /\ x.commitments = s.commitments
    BY <2>1, <2>2, CountedIs
  <2>5. /\ ViewOk(v, y)
        /\ y.phase = t.phase /\ y.epoch = t.epoch /\ y.members = t.members /\ y.own = t.own
        /\ y.keys = t.keys /\ y.total = t.total /\ y.unresponded = t.unresponded
        /\ y.confirmations = t.confirmations /\ y.deadline = t.deadline
        /\ \/ version # 0 /\ y.commitments = put(t.commitments, p, version)
           \/ version = 0 /\ y.commitments = t.commitments
    BY <2>1, <2>3, CountedIs
  <2>6. Same(x, y) /\ x.members = y.members /\ x.commitments = y.commitments
    BY <1>1, <2>4, <2>5, SameFields
  <2>7. complete(x, DOMAIN x.commitments) <=> complete(y, DOMAIN y.commitments)
    BY <2>6 DEF complete
  <2>8. PICK d : d = pushed(s, b)
    OBVIOUS
  <2>9. d = pushed(t, b)
    BY <1>1, <2>8 DEF pushed
  <2>10. onCommitted(u, s, b, g, p, version) =
           IF complete(x, DOMAIN x.commitments) /\ x.own # NoSecrets
           THEN finalizeKeyGenCommitments(u, x, d) ELSE stay(x)
    BY <1>4, <2>2, <2>8 DEF onCommitted, Counted
  <2>11. onCommitted(v, t, b, g, p, version) =
           IF complete(y, DOMAIN y.commitments) /\ y.own # NoSecrets
           THEN finalizeKeyGenCommitments(v, y, d) ELSE stay(y)
    BY <1>1, <1>2, <1>4, <2>3, <2>9 DEF onCommitted, Counted
  <2>12. CASE ~complete(x, DOMAIN x.commitments)
    BY <2>6, <2>7, <2>10, <2>11, <2>12, ResultOf
  <2>13. CASE complete(x, DOMAIN x.commitments)
    <3>1. x.own # NoSecrets /\ matchesCommitment(u, x)
      BY <1>4, <2>1, <2>2, <2>13, CommittedMatches
    <3>2. y.own # NoSecrets /\ matchesCommitment(v, y)
      BY <1>1, <1>4, <2>1, <2>3, <2>7, <2>13, CommittedMatches
    <3>3. PICK q : q = finalizeKeyGenCommitments(u, x, d)
      OBVIOUS
    <3>4. PICK r : r = finalizeKeyGenCommitments(v, y, d)
      OBVIOUS
    <3>5. /\ q.s.epoch = x.epoch /\ q.s.members = x.members /\ q.s.commitments = x.commitments
          /\ q.s.keys = x.keys /\ q.s.confirmations = x.confirmations
          /\ q.s.phase = "CollectingShares" /\ q.s.deadline = d
          /\ q.s.total = Unblamed(x.members) /\ q.s.unresponded = Unblamed(x.members)
      BY <2>4, <3>1, <3>3, FinalizeIs
    <3>6. /\ r.s.epoch = y.epoch /\ r.s.members = y.members /\ r.s.commitments = y.commitments
          /\ r.s.keys = y.keys /\ r.s.confirmations = y.confirmations
          /\ r.s.phase = "CollectingShares" /\ r.s.deadline = d
          /\ r.s.total = Unblamed(y.members) /\ r.s.unresponded = Unblamed(y.members)
      BY <2>5, <3>2, <3>4, FinalizeIs
    <3>7. Same(q.s, r.s)
      BY <1>1, <2>4, <2>5, <2>6, <3>5, <3>6, SameFields
    <3> QED BY <2>7, <2>10, <2>11, <2>13, <3>1, <3>2, <3>3, <3>4, <3>7
  <2> QED BY <2>12, <2>13
<1> QED BY <1>3, <1>4

\* A confirmation of the own key share is no public matter.
LEMMA ConfirmIs ==
  ASSUME NEW v, NEW s, DOMAIN s = Fields, NEW r, r = confirmKeyGen(v, s)
  PROVE  /\ Same(s, r.s)
         /\ \A a \in r.acts : a.group = groupOf(s) /\ a.kind = "confirm"
         /\ DOMAIN r = {"s", "acts", "setup"}
<1>1. CASE hasKeyShare(s)
  <2>1. PICK t : t = [s EXCEPT !.status = "Confirmed"]
    OBVIOUS
  <2>2. Same(s, t)
    BY <2>1 DEF Same, PublicFields, Fields
  <2>3. r = result(t, {action("confirm", s, v, 0)}, {})
    BY <1>1, <2>1 DEF confirmKeyGen
  <2>4. r.s = t /\ r.acts = {action("confirm", s, v, 0)} /\ DOMAIN r = {"s", "acts", "setup"}
    BY <2>3 DEF result
  <2> QED BY <2>2, <2>4 DEF action, groupOf
<1>2. CASE ~hasKeyShare(s)
  <2>1. r = stay(s)
    BY <1>2 DEF confirmKeyGen
  <2>2. r.s = s /\ r.acts = {} /\ DOMAIN r = {"s", "acts", "setup"}
    BY <2>1 DEF stay, result
  <2> QED BY <2>2 DEF Same
<1> QED BY <1>1, <1>2

\* x is the state s in which the share of p has been counted.
AfterShare(s, x, b, p) ==
    /\ x.epoch = s.epoch /\ x.members = s.members /\ x.commitments = s.commitments
    /\ x.keys = s.keys \cup {p} /\ x.confirmations = s.confirmations
    /\ x.total = s.total /\ x.unresponded = s.unresponded
    /\ IF complete(s, s.keys \cup {p})
       THEN x.phase = "CollectingConfirmations" /\ x.deadline = pushed(s, b)
       ELSE x.phase = "CollectingShares" /\ x.deadline = s.deadline

\* The actions are for the group of s.
Actions(s, acts) == \A a \in acts : a.group = groupOf(s) /\ a.kind # "commit"

\* A secret share is counted, whether it is good for this validator or not.
LEMMA SharedIs ==
  ASSUME NEW v, NEW s, ViewOk(v, s), s.phase = "CollectingShares",
         NEW b, NEW g, inGroup(s, g), NEW p, NEW bad
  PROVE  LET r == onSecretShared(v, s, b, g, p, TRUE, bad)
         IN  AfterShare(s, r.s, b, p) /\ Actions(s, r.acts)
<1>0. PICK r : r = onSecretShared(v, s, b, g, p, TRUE, bad)
  OBVIOUS
<1>1. PICK own : own = (s.own # Observing)
  OBVIOUS
<1>2. PICK shares : shares = IF own /\ verifyEncryptedShare(v, bad) THEN s.shares \cup {p} ELSE s.shares
  OBVIOUS
<1>3. PICK t : t = [s EXCEPT !.keys = @ \cup {p}, !.shares = shares]
  OBVIOUS
<1>4. PICK complaint : complaint = IF own /\ ~verifyEncryptedShare(v, bad)
                                   THEN {action("complain", s, p, 0)} ELSE {}
  OBVIOUS
<1>5. PICK status : status = IF own THEN "Collecting" ELSE "Observing"
  OBVIOUS
<1>6. PICK y : y = [t EXCEPT !.phase = "CollectingConfirmations", !.status = status,
                             !.deadline = pushed(s, b)]
  OBVIOUS
<1>7. PICK next : next = confirmKeyGen(v, y)
  OBVIOUS
<1>8. r = IF complete(t, t.keys) THEN [next EXCEPT !.acts = @ \cup complaint]
          ELSE result(t, complaint, {})
  BY <1>0, <1>1, <1>2, <1>3, <1>4, <1>5, <1>6, <1>7 DEF onSecretShared
<1>9. \A a \in complaint : a.group = groupOf(s) /\ a.kind # "commit"
  BY <1>4 DEF action, groupOf
<1>10. /\ DOMAIN t = Fields /\ t.epoch = s.epoch /\ t.members = s.members
       /\ t.commitments = s.commitments /\ t.keys = s.keys \cup {p}
       /\ t.confirmations = s.confirmations /\ t.total = s.total
       /\ t.unresponded = s.unresponded /\ t.phase = s.phase /\ t.deadline = s.deadline
  BY <1>3 DEF ViewOk, Fields
<1>11. complete(t, t.keys) <=> complete(s, s.keys \cup {p})
  BY <1>10 DEF complete
<1>12. CASE ~complete(t, t.keys)
  <2>0. PICK q : q = result(t, complaint, {})
    OBVIOUS
  <2>1. q.s = t /\ q.acts = complaint
    BY <2>0, ResultOf
  <2>2. r = q
    BY <1>8, <1>12, <2>0
  <2>3. AfterShare(s, t, b, p) /\ Actions(s, complaint)
    BY <1>9, <1>10, <1>11, <1>12 DEF AfterShare, Actions
  <2> QED BY <1>0, <2>1, <2>2, <2>3
<1>13. CASE complete(t, t.keys)
  <2>1. /\ DOMAIN y = Fields /\ y.epoch = s.epoch /\ y.members = s.members
        /\ y.commitments = s.commitments /\ y.keys = s.keys \cup {p}
        /\ y.confirmations = s.confirmations /\ y.total = s.total
        /\ y.unresponded = s.unresponded /\ y.phase = "CollectingConfirmations"
        /\ y.deadline = pushed(s, b)
    BY <1>6, <1>10 DEF Fields
  <2>2. /\ Same(y, next.s)
        /\ \A a \in next.acts : a.group = groupOf(y) /\ a.kind = "confirm"
        /\ DOMAIN next = {"s", "acts", "setup"}
    BY <1>7, <2>1, ConfirmIs
  <2>3. r.s = next.s /\ r.acts = next.acts \cup complaint
    BY <1>8, <1>13, <2>2
  <2>4. groupOf(y) = groupOf(s)
    BY <2>1 DEF groupOf
  <2>5. \A a \in r.acts : a.group = groupOf(s) /\ a.kind # "commit"
    BY <1>9, <2>2, <2>3, <2>4
  <2>6. /\ r.s.epoch = s.epoch /\ r.s.members = s.members /\ r.s.commitments = s.commitments
        /\ r.s.keys = s.keys \cup {p} /\ r.s.confirmations = s.confirmations
        /\ r.s.total = s.total /\ r.s.unresponded = s.unresponded
        /\ r.s.phase = "CollectingConfirmations" /\ r.s.deadline = pushed(s, b)
    BY <2>1, <2>2, <2>3, SameFields
  <2>7. AfterShare(s, r.s, b, p) /\ Actions(s, r.acts)
    BY <1>11, <1>13, <2>5, <2>6 DEF AfterShare, Actions
  <2> QED BY <1>0, <2>7
<1> QED BY <1>12, <1>13

\* KeyGenSecretShared.
LEMMA SharedMoves ==
  ASSUME NEW v, NEW s, ViewOk(v, s), EpochOk(s), NEW b, NEW g, NEW p \in g.members,
         NEW valid \in BOOLEAN, NEW bad, NEW C,
         NEW r, r = onSecretShared(v, s, b, g, p, valid, bad)
  PROVE  Moves(s, r, C) /\ Goes(v, s, r)
<1>1. CASE ~(s.phase = "CollectingShares" /\ inGroup(s, g) /\ valid)
  BY <1>1, StayMoves DEF onSecretShared
<1>2. CASE s.phase = "CollectingShares" /\ inGroup(s, g) /\ valid
  <2>1. PICK q : q = onSecretShared(v, s, b, g, p, TRUE, bad)
    OBVIOUS
  <2>2. valid = TRUE
    BY <1>2
  <2>3. r = q
    BY <2>1, <2>2
  <2>4. /\ q.s.epoch = s.epoch /\ q.s.members = s.members
        /\ q.s.keys = s.keys \cup {p} /\ q.s.confirmations = s.confirmations
        /\ IF complete(s, s.keys \cup {p}) THEN q.s.phase = "CollectingConfirmations"
                                           ELSE q.s.phase = "CollectingShares"
        /\ \A a \in q.acts : a.group = groupOf(s)
    <3>1. AfterShare(s, q.s, b, p) /\ Actions(s, q.acts)
      BY <1>2, <2>1, SharedIs
    <3> QED BY <3>1 DEF AfterShare, Actions
  <2>5. EpochOk(q.s) /\ s.epoch <= q.s.epoch
    BY <2>4 DEF EpochOk
  <2>6. Moves(s, q, C)
    <3>1. q.s.phase \in {"CollectingConfirmations", "CollectingShares"}
      BY <2>4
    <3> QED BY <1>2, <2>4, <2>5, <3>1 DEF Moves, InGenesis, Collecting
  <2>7. p \in s.members
    BY <1>2 DEF inGroup, groupId
  <2>8. ASSUME RoundOpen(v, s) PROVE RoundOpen(v, q.s) /\ Renews(s, q.s)
    <3>1. s.keys \subseteq s.members /\ s.confirmations = {}
      BY <1>2, <2>8 DEF RoundOpen
    <3>2. ~complete(s, s.keys \cup {p}) => Lacks(s, s.keys \cup {p})
      BY <2>7, <3>1, OpenLacks
    <3> QED BY <2>4, <2>7, <3>1, <3>2 DEF RoundOpen, Lacks, Renews
  <2> QED BY <2>3, <2>4, <2>6, <2>8 DEF Goes
<1> QED BY <1>1, <1>2

\* The same shares are counted.
LEMMA SharedSame ==
  ASSUME NEW u, NEW s, ViewOk(u, s), NEW v, NEW t, ViewOk(v, t), Same(s, t),
         NEW b, NEW g, NEW p, NEW valid \in BOOLEAN, NEW bad
  PROVE  Same(onSecretShared(u, s, b, g, p, valid, bad).s, onSecretShared(v, t, b, g, p, valid, bad).s)
<1>1. /\ s.phase = t.phase /\ s.epoch = t.epoch /\ s.members = t.members
      /\ s.commitments = t.commitments /\ s.keys = t.keys /\ s.total = t.total
      /\ s.unresponded = t.unresponded /\ s.confirmations = t.confirmations
      /\ s.deadline = t.deadline
  BY SameFields
<1>2. inGroup(s, g) <=> inGroup(t, g)
  BY <1>1 DEF inGroup
<1>3. CASE ~(s.phase = "CollectingShares" /\ inGroup(s, g) /\ valid)
  <2>1. /\ onSecretShared(u, s, b, g, p, valid, bad) = stay(s)
        /\ onSecretShared(v, t, b, g, p, valid, bad) = stay(t)
    BY <1>1, <1>2, <1>3 DEF onSecretShared
  <2> QED BY <2>1, ResultOf
<1>4. CASE s.phase = "CollectingShares" /\ inGroup(s, g) /\ valid
  <2>1. valid = TRUE /\ t.phase = "CollectingShares" /\ inGroup(t, g)
    BY <1>1, <1>2, <1>4
  <2>2. PICK q : q = onSecretShared(u, s, b, g, p, TRUE, bad)
    OBVIOUS
  <2>3. PICK r : r = onSecretShared(v, t, b, g, p, TRUE, bad)
    OBVIOUS
  <2>4. /\ q.s.epoch = s.epoch /\ q.s.members = s.members /\ q.s.commitments = s.commitments
        /\ q.s.keys = s.keys \cup {p} /\ q.s.confirmations = s.confirmations
        /\ q.s.total = s.total /\ q.s.unresponded = s.unresponded
        /\ IF complete(s, s.keys \cup {p})
           THEN q.s.phase = "CollectingConfirmations" /\ q.s.deadline = pushed(s, b)
           ELSE q.s.phase = "CollectingShares" /\ q.s.deadline = s.deadline
    <3>1. AfterShare(s, q.s, b, p)
      BY <1>4, <2>2, SharedIs
    <3> QED BY <3>1 DEF AfterShare
  <2>5. /\ r.s.epoch = t.epoch /\ r.s.members = t.members /\ r.s.commitments = t.commitments
        /\ r.s.keys = t.keys \cup {p} /\ r.s.confirmations = t.confirmations
        /\ r.s.total = t.total /\ r.s.unresponded = t.unresponded
        /\ IF complete(t, t.keys \cup {p})
           THEN r.s.phase = "CollectingConfirmations" /\ r.s.deadline = pushed(t, b)
           ELSE r.s.phase = "CollectingShares" /\ r.s.deadline = t.deadline
    <3>1. AfterShare(t, r.s, b, p)
      BY <2>1, <2>3, SharedIs
    <3> QED BY <3>1 DEF AfterShare
  <2>6. (complete(s, s.keys \cup {p}) <=> complete(t, t.keys \cup {p})) /\ pushed(s, b) = pushed(t, b)
    BY <1>1 DEF complete, pushed
  <2>7. q.s.phase = r.s.phase /\ q.s.deadline = r.s.deadline
    BY <1>1, <2>4, <2>5, <2>6
  <2>8. Same(q.s, r.s)
    BY <1>1, <2>4, <2>5, <2>7, SameFields
  <2> QED BY <2>1, <2>2, <2>3, <2>8
<1> QED BY <1>3, <1>4

----------------------------------------------------------------------------
(* Confirmations                                                           *)

\* An epoch that is kept is no public matter.
LEMMA FinalizeKeyGenIs ==
  ASSUME NEW s, NEW i, DOMAIN i = Fields
  PROVE  Same(i, finalizeKeyGen(s, i)) /\ DOMAIN finalizeKeyGen(s, i) = Fields
<1>1. PICK x : x = finalizeKeyGen(s, i)
  OBVIOUS
<1>2. DOMAIN x = Fields
  BY <1>1 DEF finalizeKeyGen
<1>3. \A f \in Fields \ {"epochs"} : x[f] = i[f]
  BY <1>1 DEF finalizeKeyGen
<1> QED BY <1>1, <1>2, <1>3 DEF Same, PublicFields, Fields

\* The state that an idle one is the same as.
LEMMA SameIdle ==
  ASSUME NEW s, NEW t, NEW phase, NEW epoch
  PROVE  Same(idle(s, phase, epoch), idle(t, phase, epoch))
<1>1. PICK i : i = idle(s, phase, epoch)
  OBVIOUS
<1>2. PICK j : j = idle(t, phase, epoch)
  OBVIOUS
<1>3. /\ i.phase = phase /\ i.epoch = epoch /\ i.members = {}
      /\ i.commitments = <<>> /\ i.keys = {} /\ i.total = <<>> /\ i.unresponded = <<>>
      /\ i.confirmations = {} /\ i.deadline = NoDeadline
  BY <1>1, IdleIs
<1>4. /\ j.phase = phase /\ j.epoch = epoch /\ j.members = {}
      /\ j.commitments = <<>> /\ j.keys = {} /\ j.total = <<>> /\ j.unresponded = <<>>
      /\ j.confirmations = {} /\ j.deadline = NoDeadline
  BY <1>2, IdleIs
<1>5. Same(i, j)
  BY <1>3, <1>4, SameFields
<1> QED BY <1>1, <1>2, <1>5

\* Two validators start alike.
LEMMA SameStart ==
  ASSUME NEW u, NEW s, NEW v, NEW t, NEW epoch, NEW members, NEW deadline
  PROVE  Same(startKeyGen(u, s, epoch, members, deadline).s,
              startKeyGen(v, t, epoch, members, deadline).s)
<1>1. PICK q : q = startKeyGen(u, s, epoch, members, deadline)
  OBVIOUS
<1>2. PICK r : r = startKeyGen(v, t, epoch, members, deadline)
  OBVIOUS
<1>3. /\ q.s.phase = "CollectingCommitments" /\ q.s.epoch = epoch /\ q.s.members = members
      /\ q.s.commitments = <<>> /\ q.s.keys = {} /\ q.s.total = <<>>
      /\ q.s.unresponded = <<>> /\ q.s.confirmations = {} /\ q.s.deadline = deadline
  BY <1>1, StartIs
<1>4. /\ r.s.phase = "CollectingCommitments" /\ r.s.epoch = epoch /\ r.s.members = members
      /\ r.s.commitments = <<>> /\ r.s.keys = {} /\ r.s.total = <<>>
      /\ r.s.unresponded = <<>> /\ r.s.confirmations = {} /\ r.s.deadline = deadline
  BY <1>2, StartIs
<1> QED BY <1>1, <1>2, <1>3, <1>4, SameFields

\* Two validators fail alike.
LEMMA SameFailure ==
  ASSUME NEW s, NEW t, s.epoch = t.epoch
  PROVE  Same(rolloverFailure(s).s, rolloverFailure(t).s)
<1>1. PICK phase : phase = IF s.epoch = 0 THEN "Halted" ELSE "EpochSkipped"
  OBVIOUS
<1>2. rolloverFailure(s) = stay(idle(s, phase, s.epoch))
  BY <1>1 DEF rolloverFailure
<1>3. rolloverFailure(t) = stay(idle(t, phase, s.epoch))
  BY <1>1 DEF rolloverFailure
<1>4. rolloverFailure(s).s = idle(s, phase, s.epoch) /\ rolloverFailure(t).s = idle(t, phase, s.epoch)
  BY <1>2, <1>3, ResultOf
<1> QED BY <1>4, SameIdle

\* Two validators start again alike.
LEMMA SameRestart ==
  ASSUME NEW u, NEW s, NEW v, NEW t, s.epoch = t.epoch, NEW excluded, NEW deadline
  PROVE  Same(restartKeyGenExcluding(u, s, excluded, deadline).s,
              restartKeyGenExcluding(v, t, excluded, deadline).s)
<1>1. PICK members : members = IF s.epoch = 0 THEN {} ELSE participantsSet(s.epoch, excluded)
  OBVIOUS
<1>2. PICK e : e = s.epoch
  OBVIOUS
<1>3. CASE members = {}
  <2>1. /\ restartKeyGenExcluding(u, s, excluded, deadline) = rolloverFailure(s)
        /\ restartKeyGenExcluding(v, t, excluded, deadline) = rolloverFailure(t)
    BY <1>1, <1>3 DEF restartKeyGenExcluding
  <2> QED BY <2>1, SameFailure
<1>4. CASE members # {}
  <2>1. /\ restartKeyGenExcluding(u, s, excluded, deadline) = startKeyGen(u, s, e, members, deadline)
        /\ restartKeyGenExcluding(v, t, excluded, deadline) = startKeyGen(v, t, e, members, deadline)
    BY <1>1, <1>2, <1>4 DEF restartKeyGenExcluding
  <2> QED BY <2>1, SameStart
<1> QED BY <1>3, <1>4

\* The next epoch is a regular one.
LEMMA NextIs ==
  ASSUME NEW b \in Nat
  PROVE  nextNumber(b) \in Nat \ {0}
<1>1. b \div BlocksPerEpoch \in Nat
  BY ConfigAssumption
<1> QED BY <1>1 DEF nextNumber

\* The next epoch after genesis begins, by itself or skipped.
LEMMA PassIs ==
  ASSUME NEW v, NEW s, EpochOk(s), s.epoch = 0, NEW b \in Nat, NEW C,
         NEW r, r = IF participantsSet(nextNumber(b), {}) = {}
                    THEN stay(finalizeKeyGen(s, idle(s, "EpochSkipped", nextNumber(b))))
                    ELSE startKeyGen(v, finalizeKeyGen(s, idle(s, "EpochSkipped", nextNumber(b))),
                                     nextNumber(b), participantsSet(nextNumber(b), {}),
                                     b + KeyGenTimeout)
  PROVE  Moves(s, r, C) /\ Goes(v, s, r) /\ r.s.epoch = nextNumber(b)
<1>1. PICK next : next = nextNumber(b)
  OBVIOUS
<1>2. next \in Nat \ {0}
  BY <1>1, NextIs
<1>3. PICK i : i = idle(s, "EpochSkipped", next)
  OBVIOUS
<1>4. DOMAIN i = Fields /\ i.phase = "EpochSkipped" /\ i.epoch = next /\ i.members = {}
  BY <1>3, IdleIs
<1>5. PICK x : x = finalizeKeyGen(s, i)
  OBVIOUS
<1>6. x.phase = "EpochSkipped" /\ x.epoch = next /\ x.members = {}
  BY <1>4, <1>5, FinalizeKeyGenIs, SameFields
<1>7. PICK members : members = participantsSet(next, {})
  OBVIOUS
<1>8. CASE members = {}
  <2>1. r.s = x /\ r.acts = {}
    BY <1>1, <1>3, <1>5, <1>7, <1>8, ResultOf
  <2>2. EpochOk(x) /\ s.epoch <= x.epoch
    BY <1>2, <1>6 DEF EpochOk
  <2>3. x.phase \notin Collecting /\ x.phase # "WaitingForGenesis"
    BY <1>6 DEF Collecting
  <2> QED BY <1>1, <1>6, <2>1, <2>2, <2>3, EndMoves
<1>9. CASE members # {}
  <2>1. r = startKeyGen(v, x, next, members, b + KeyGenTimeout)
    BY <1>1, <1>3, <1>5, <1>7, <1>9
  <2>2. s.epoch < next
    BY <1>2
  <2>3. Moves(s, r, C) /\ Goes(v, s, r)
    BY <1>2, <2>1, <2>2, StartMoves
  <2>4. r.s.epoch = next
    BY <2>1, StartIs
  <2> QED BY <1>1, <2>3, <2>4
<1> QED BY <1>8, <1>9

\* The state after the last confirmation of genesis.
Passed(v, s, b) ==
    IF participantsSet(nextNumber(b), {}) = {}
    THEN stay(finalizeKeyGen(s, idle(s, "EpochSkipped", nextNumber(b))))
    ELSE startKeyGen(v, finalizeKeyGen(s, idle(s, "EpochSkipped", nextNumber(b))),
                     nextNumber(b), participantsSet(nextNumber(b), {}), b + KeyGenTimeout)

\* It is the same for all.
LEMMA SamePass ==
  ASSUME NEW u, NEW s, NEW v, NEW t, NEW b
  PROVE  Same(Passed(u, s, b).s, Passed(v, t, b).s)
<1>1. PICK next : next = nextNumber(b)
  OBVIOUS
<1>2. PICK i : i = idle(s, "EpochSkipped", next)
  OBVIOUS
<1>3. PICK j : j = idle(t, "EpochSkipped", next)
  OBVIOUS
<1>4. DOMAIN i = Fields /\ DOMAIN j = Fields /\ Same(i, j)
  BY <1>2, <1>3, IdleIs, SameIdle
<1>5. PICK x : x = finalizeKeyGen(s, i)
  OBVIOUS
<1>6. PICK y : y = finalizeKeyGen(t, j)
  OBVIOUS
<1>7. Same(i, x) /\ Same(j, y)
  BY <1>4, <1>5, <1>6, FinalizeKeyGenIs
<1>8. Same(x, y)
  BY <1>4, <1>7 DEF Same
<1>9. PICK members : members = participantsSet(next, {})
  OBVIOUS
<1>10. PICK d : d = b + KeyGenTimeout
  OBVIOUS
<1>11. CASE members = {}
  <2>1. Passed(u, s, b) = stay(x) /\ Passed(v, t, b) = stay(y)
    BY <1>1, <1>2, <1>3, <1>5, <1>6, <1>9, <1>11 DEF Passed
  <2> QED BY <1>8, <2>1, ResultOf
<1>12. CASE members # {}
  <2>1. /\ Passed(u, s, b) = startKeyGen(u, x, next, members, d)
        /\ Passed(v, t, b) = startKeyGen(v, y, next, members, d)
    BY <1>1, <1>2, <1>3, <1>5, <1>6, <1>9, <1>10, <1>12 DEF Passed
  <2> QED BY <2>1, SameStart
<1> QED BY <1>11, <1>12

\* x is the state s that has counted the confirmation of p.
Confirmed(s, p) == [s EXCEPT !.confirmations = @ \cup {p}]

\* The confirmation of p is the last one.
IsLast(s, p) == complete(s, s.confirmations \cup {p})

\* The state that waits for the signature of the rollover.
Signing(s) ==
    [idle(s, "SigningRollover", s.epoch) EXCEPT !.members = s.members, !.status = s.status]

\* What a confirmation leads to.
LEMMA ConfirmedCases ==
  ASSUME NEW v, NEW s, ViewOk(v, s), NEW b, NEW g, NEW p,
         NEW r, r = onConfirmed(v, s, b, g, p)
  PROVE  \/ r = stay(s) /\ ~(s.phase = "CollectingConfirmations" /\ inGroup(s, g))
         \/ /\ s.phase = "CollectingConfirmations" /\ inGroup(s, g)
            /\ \/ r = stay(Confirmed(s, p)) /\ ~IsLast(s, p)
               \/ /\ IsLast(s, p)
                  /\ \/ s.epoch = 0 /\ r = Passed(v, s, b)
                     \/ /\ s.epoch # 0
                        /\ r = stay(Signing(s))
<1>1. PICK t : t = Confirmed(s, p)
  OBVIOUS
<1>2. t.confirmations = s.confirmations \cup {p} /\ t.members = s.members
  BY <1>1 DEF Confirmed, ViewOk, Fields
<1>3. complete(t, t.confirmations) <=> IsLast(s, p)
  BY <1>2 DEF complete, IsLast
<1>4. CASE ~(s.phase = "CollectingConfirmations" /\ inGroup(s, g))
  BY <1>4 DEF onConfirmed
<1>5. CASE s.phase = "CollectingConfirmations" /\ inGroup(s, g) /\ ~complete(t, t.confirmations)
  BY <1>1, <1>3, <1>5 DEF onConfirmed, Confirmed
<1>6. CASE s.phase = "CollectingConfirmations" /\ inGroup(s, g) /\ complete(t, t.confirmations)
  <2>1. CASE s.epoch # 0
    BY <1>1, <1>3, <1>6, <2>1 DEF onConfirmed, Confirmed, Signing
  <2>2. CASE s.epoch = 0
    BY <1>1, <1>3, <1>6, <2>2 DEF onConfirmed, Confirmed, Passed
  <2> QED BY <2>1, <2>2
<1> QED BY <1>4, <1>5, <1>6

\* The rollover is signed.
LEMMA SigningIs ==
  ASSUME NEW s, NEW x, x = Signing(s)
  PROVE  /\ DOMAIN x = Fields /\ x.phase = "SigningRollover" /\ x.epoch = s.epoch /\ x.members = s.members
         /\ x.commitments = <<>> /\ x.keys = {} /\ x.total = <<>> /\ x.unresponded = <<>>
         /\ x.confirmations = {} /\ x.deadline = NoDeadline
<1>1. PICK i : i = idle(s, "SigningRollover", s.epoch)
  OBVIOUS
<1>2. /\ DOMAIN i = Fields
      /\ i.phase = "SigningRollover" /\ i.epoch = s.epoch
      /\ i.commitments = <<>> /\ i.keys = {} /\ i.total = <<>> /\ i.unresponded = <<>>
      /\ i.confirmations = {} /\ i.deadline = NoDeadline
  BY <1>1, IdleIs
<1>3. x = [i EXCEPT !.members = s.members, !.status = s.status]
  BY <1>1 DEF Signing
<1> QED BY <1>2, <1>3 DEF Fields

\* KeyGenConfirmed.
LEMMA ConfirmedMoves ==
  ASSUME NEW v, NEW s, ViewOk(v, s), EpochOk(s), NEW b \in Nat, NEW g, NEW p \in g.members,
         NEW r, r = onConfirmed(v, s, b, g, p)
  PROVE  Moves(s, r, {p}) /\ Goes(v, s, r)
<1>1. CASE r = stay(s)
  BY <1>1, StayMoves
<1>2. CASE /\ s.phase = "CollectingConfirmations" /\ inGroup(s, g)
           /\ r = stay(Confirmed(s, p)) /\ ~IsLast(s, p)
  <2>1. PICK x : x = Confirmed(s, p)
    OBVIOUS
  <2>2. /\ x.phase = s.phase /\ x.epoch = s.epoch /\ x.members = s.members
        /\ x.confirmations = s.confirmations \cup {p}
    BY <2>1 DEF Confirmed, ViewOk, Fields
  <2>3. r.s = x /\ r.acts = {}
    BY <1>2, <2>1, ResultOf
  <2>4. EpochOk(x) /\ s.epoch <= x.epoch
    BY <2>2 DEF EpochOk
  <2>5. Moves(s, r, {p})
    BY <1>2, <2>2, <2>3, <2>4 DEF Moves, InGenesis
  <2>6. p \in s.members
    BY <1>2 DEF inGroup, groupId
  <2>7. ASSUME RoundOpen(v, s) PROVE RoundOpen(v, x) /\ Renews(s, x)
    <3>1. s.confirmations \cup {p} \subseteq s.members
      BY <1>2, <2>6, <2>7 DEF RoundOpen
    <3>2. Lacks(s, s.confirmations \cup {p})
      BY <1>2, <3>1, OpenLacks DEF IsLast
    <3> QED BY <1>2, <2>2, <3>1, <3>2 DEF RoundOpen, Lacks, Renews
  <2> QED BY <2>2, <2>3, <2>5, <2>7 DEF Goes
<1>3. CASE s.epoch = 0 /\ r = Passed(v, s, b)
  BY <1>3, PassIs DEF Passed
<1>4. CASE r = stay(Signing(s)) /\ s.epoch # 0
  <2>1. PICK x : x = Signing(s)
    OBVIOUS
  <2>2. x.phase = "SigningRollover" /\ x.epoch = s.epoch /\ x.members = s.members
    BY <2>1, SigningIs
  <2>3. r.s = x /\ r.acts = {}
    BY <1>4, <2>1, ResultOf
  <2>4. EpochOk(x) /\ s.epoch <= x.epoch
    BY <2>2 DEF EpochOk
  <2>5. x.phase \notin Collecting /\ x.phase # "WaitingForGenesis"
    BY <2>2 DEF Collecting
  <2> QED BY <2>2, <2>3, <2>4, <2>5, EndMoves
<1> QED BY <1>1, <1>2, <1>3, <1>4, ConfirmedCases

\* The same confirmations are counted.
LEMMA ConfirmedSame ==
  ASSUME NEW u, NEW s, ViewOk(u, s), NEW v, NEW t, ViewOk(v, t), Same(s, t),
         NEW b, NEW g, NEW p
  PROVE  Same(onConfirmed(u, s, b, g, p).s, onConfirmed(v, t, b, g, p).s)
<1>1. /\ s.phase = t.phase /\ s.epoch = t.epoch /\ s.members = t.members
      /\ s.commitments = t.commitments /\ s.keys = t.keys /\ s.total = t.total
      /\ s.unresponded = t.unresponded /\ s.confirmations = t.confirmations
      /\ s.deadline = t.deadline
  BY SameFields
<1>2. (inGroup(s, g) <=> inGroup(t, g)) /\ (IsLast(s, p) <=> IsLast(t, p))
  BY <1>1 DEF inGroup, complete, IsLast
<1>3. PICK q : q = onConfirmed(u, s, b, g, p)
  OBVIOUS
<1>4. PICK r : r = onConfirmed(v, t, b, g, p)
  OBVIOUS
<1>5. PICK x : x = Signing(s)
  OBVIOUS
<1>6. PICK y : y = Signing(t)
  OBVIOUS
<1>7. CASE ~(s.phase = "CollectingConfirmations" /\ inGroup(s, g))
  <2>1. q = stay(s) /\ r = stay(t)
    BY <1>1, <1>2, <1>3, <1>4, <1>7, ConfirmedCases
  <2> QED BY <1>3, <1>4, <2>1, ResultOf
<1>8. CASE s.phase = "CollectingConfirmations" /\ inGroup(s, g) /\ ~IsLast(s, p)
  <2>1. q = stay(Confirmed(s, p)) /\ r = stay(Confirmed(t, p))
    BY <1>1, <1>2, <1>3, <1>4, <1>8, ConfirmedCases
  <2>2. PICK i : i = Confirmed(s, p)
    OBVIOUS
  <2>3. PICK j : j = Confirmed(t, p)
    OBVIOUS
  <2>4. /\ i.phase = s.phase /\ i.epoch = s.epoch /\ i.members = s.members
        /\ i.commitments = s.commitments /\ i.keys = s.keys /\ i.total = s.total
        /\ i.unresponded = s.unresponded /\ i.confirmations = s.confirmations \cup {p}
        /\ i.deadline = s.deadline
    BY <2>2 DEF Confirmed, ViewOk, Fields
  <2>5. /\ j.phase = t.phase /\ j.epoch = t.epoch /\ j.members = t.members
        /\ j.commitments = t.commitments /\ j.keys = t.keys /\ j.total = t.total
        /\ j.unresponded = t.unresponded /\ j.confirmations = t.confirmations \cup {p}
        /\ j.deadline = t.deadline
    BY <2>3 DEF Confirmed, ViewOk, Fields
  <2>6. Same(i, j)
    BY <1>1, <2>4, <2>5, SameFields
  <2> QED BY <1>3, <1>4, <2>1, <2>2, <2>3, <2>6, ResultOf
<1>9. CASE s.phase = "CollectingConfirmations" /\ inGroup(s, g) /\ IsLast(s, p)
  <2>1. CASE s.epoch = 0
    <3>1. q = Passed(u, s, b) /\ r = Passed(v, t, b)
      BY <1>1, <1>2, <1>3, <1>4, <1>9, <2>1, ConfirmedCases
    <3> QED BY <1>3, <1>4, <3>1, SamePass
  <2>2. CASE s.epoch # 0
    <3>1. q = stay(x) /\ r = stay(y)
      BY <1>1, <1>2, <1>3, <1>4, <1>5, <1>6, <1>9, <2>2, ConfirmedCases
    <3>2. /\ x.phase = "SigningRollover" /\ x.epoch = s.epoch /\ x.members = s.members
          /\ x.commitments = <<>> /\ x.keys = {} /\ x.total = <<>> /\ x.unresponded = <<>>
          /\ x.confirmations = {} /\ x.deadline = NoDeadline
      BY <1>5, SigningIs
    <3>3. /\ y.phase = "SigningRollover" /\ y.epoch = t.epoch /\ y.members = t.members
          /\ y.commitments = <<>> /\ y.keys = {} /\ y.total = <<>> /\ y.unresponded = <<>>
          /\ y.confirmations = {} /\ y.deadline = NoDeadline
      BY <1>6, SigningIs
    <3>4. Same(x, y)
      BY <1>1, <3>2, <3>3, SameFields
    <3> QED BY <1>3, <1>4, <3>1, <3>4, ResultOf
  <2> QED BY <2>1, <2>2
<1> QED BY <1>7, <1>8, <1>9

\* EpochStaged.
LEMMA StagedMoves ==
  ASSUME NEW v, NEW s, ViewOk(v, s), EpochOk(s), NEW g, g.epoch \in Nat, NEW C,
         NEW r, r = onEpochStaged(s, g)
  PROVE  /\ Moves(s, r, C) /\ Goes(v, s, r)
         /\ s.phase # "WaitingForGenesis" => r.s.epoch = s.epoch
         /\ s.phase = "WaitingForGenesis" => r.s.epoch = g.epoch /\ r.s.phase = "EpochSkipped"
<1>1. CASE s.phase = "SigningRollover" /\ inGroup(s, g)
  <2>1. PICK i : i = idle(s, "EpochStaged", s.epoch)
    OBVIOUS
  <2>2. DOMAIN i = Fields /\ i.phase = "EpochStaged" /\ i.epoch = s.epoch /\ i.members = {}
    BY <2>1, IdleIs
  <2>3. PICK x : x = finalizeKeyGen(s, i)
    OBVIOUS
  <2>4. x.phase = "EpochStaged" /\ x.epoch = s.epoch /\ x.members = {}
    BY <2>2, <2>3, FinalizeKeyGenIs, SameFields
  <2>5. r.s = x /\ r.acts = {}
    BY <1>1, <2>1, <2>3, ResultOf DEF onEpochStaged
  <2>6. EpochOk(x) /\ s.epoch <= x.epoch
    BY <2>4 DEF EpochOk
  <2>7. x.phase \notin Collecting /\ x.phase # "WaitingForGenesis"
    BY <2>4 DEF Collecting
  <2> QED BY <1>1, <2>4, <2>5, <2>6, <2>7, EndMoves
<1>2. CASE s.phase = "WaitingForGenesis"
  <2>1. PICK i : i = idle(s, "EpochSkipped", g.epoch)
    OBVIOUS
  <2>2. i.phase = "EpochSkipped" /\ i.epoch = g.epoch /\ i.members = {}
    BY <2>1, IdleIs
  <2>3. r.s = i /\ r.acts = {}
    BY <1>2, <2>1, ResultOf DEF onEpochStaged
  <2>4. s.epoch = 0
    BY <1>2 DEF EpochOk
  <2>5. EpochOk(i) /\ s.epoch <= i.epoch
    BY <2>2, <2>4 DEF EpochOk
  <2>6. i.phase \notin Collecting /\ i.phase # "WaitingForGenesis"
    BY <2>2 DEF Collecting
  <2> QED BY <1>2, <2>2, <2>3, <2>5, <2>6, EndMoves
<1>3. CASE ~(s.phase = "SigningRollover" /\ inGroup(s, g)) /\ s.phase # "WaitingForGenesis"
  <2>1. r = stay(s)
    BY <1>3 DEF onEpochStaged
  <2>2. r.s = s
    BY <2>1, ResultOf
  <2>3. Moves(s, r, C) /\ Goes(v, s, r)
    BY <2>1, StayMoves
  <2> QED BY <1>3, <2>2, <2>3
<1> QED BY <1>1, <1>2, <1>3

\* All learn of it alike.
LEMMA StagedSame ==
  ASSUME NEW s, NEW t, Same(s, t), NEW g
  PROVE  Same(onEpochStaged(s, g).s, onEpochStaged(t, g).s)
<1>1. s.phase = t.phase /\ s.epoch = t.epoch /\ s.members = t.members
  BY SameFields
<1>2. inGroup(s, g) <=> inGroup(t, g)
  BY <1>1 DEF inGroup
<1>3. CASE s.phase = "SigningRollover" /\ inGroup(s, g)
  <2>1. PICK i : i = idle(s, "EpochStaged", s.epoch)
    OBVIOUS
  <2>2. PICK j : j = idle(t, "EpochStaged", s.epoch)
    OBVIOUS
  <2>3. DOMAIN i = Fields /\ DOMAIN j = Fields /\ Same(i, j)
    BY <2>1, <2>2, IdleIs, SameIdle
  <2>4. PICK x : x = finalizeKeyGen(s, i)
    OBVIOUS
  <2>5. PICK y : y = finalizeKeyGen(t, j)
    OBVIOUS
  <2>6. Same(i, x) /\ Same(j, y)
    BY <2>3, <2>4, <2>5, FinalizeKeyGenIs
  <2>7. Same(x, y)
    BY <2>3, <2>6 DEF Same
  <2>8. onEpochStaged(s, g) = stay(x) /\ onEpochStaged(t, g) = stay(y)
    BY <1>1, <1>2, <1>3, <2>1, <2>2, <2>4, <2>5 DEF onEpochStaged
  <2> QED BY <2>7, <2>8, ResultOf
<1>4. CASE s.phase = "WaitingForGenesis"
  <2>1. PICK i : i = idle(s, "EpochSkipped", g.epoch)
    OBVIOUS
  <2>2. PICK j : j = idle(t, "EpochSkipped", g.epoch)
    OBVIOUS
  <2>3. Same(i, j)
    BY <2>1, <2>2, SameIdle
  <2>4. onEpochStaged(s, g) = stay(i) /\ onEpochStaged(t, g) = stay(j)
    BY <1>1, <1>4, <2>1, <2>2 DEF onEpochStaged
  <2> QED BY <2>3, <2>4, ResultOf
<1>5. CASE ~(s.phase = "SigningRollover" /\ inGroup(s, g)) /\ s.phase # "WaitingForGenesis"
  <2>1. onEpochStaged(s, g) = stay(s) /\ onEpochStaged(t, g) = stay(t)
    BY <1>1, <1>2, <1>5 DEF onEpochStaged
  <2> QED BY <2>1, ResultOf
<1> QED BY <1>3, <1>4, <1>5

----------------------------------------------------------------------------
(* Complaints                                                              *)

\* s with one more complaint about the accused, and with one answered.
Blamed(s, accused) == [s EXCEPT !.total[accused] = @ + 1, !.unresponded[accused] = @ + 1]
AddOne(f, p) == [f EXCEPT ![p] = @ + 1]
TakeOne(f, p) == [f EXCEPT ![p] = @ - 1]

\* One more complaint about the accused is one too many.
TooMany(s, accused) == AddOne(s.total, accused)[accused] >= threshold(s.members)

\* The complaint is for this ceremony, and in time.
Heeds(s, g, b) == inGroup(s, g) /\ countsComplaint(s, b)

\* What the complaint changes.
LEMMA BlamedIs ==
  ASSUME NEW s, DOMAIN s = Fields, NEW accused, NEW x, x = Blamed(s, accused)
  PROVE  /\ DOMAIN x = Fields
         /\ x.phase = s.phase /\ x.epoch = s.epoch /\ x.members = s.members /\ x.own = s.own
         /\ x.commitments = s.commitments /\ x.keys = s.keys
         /\ x.confirmations = s.confirmations /\ x.deadline = s.deadline
         /\ x.total = AddOne(s.total, accused) /\ x.unresponded = AddOne(s.unresponded, accused)
<1>1. PICK a : a = AddOne(s.total, accused)
  OBVIOUS
<1>2. PICK c : c = AddOne(s.unresponded, accused)
  OBVIOUS
<1>3. x = [s EXCEPT !.total = a, !.unresponded = c]
  BY <1>1, <1>2 DEF Blamed, AddOne, Fields
<1> QED BY <1>1, <1>2, <1>3 DEF Fields

\* What a complaint leads to.
LEMMA ComplainedCases ==
  ASSUME NEW v, NEW s, DOMAIN s = Fields, NEW b, NEW g, NEW plaintiff, NEW accused,
         NEW r, r = onComplained(v, s, b, g, plaintiff, accused)
  PROVE  \/ r = stay(s) /\ ~Heeds(s, g, b)
         \/ /\ Heeds(s, g, b)
            /\ TooMany(s, accused)
            /\ r = restartKeyGenExcluding(v, Blamed(s, accused), alsoExclude(s, {accused}), pushed(s, b))
         \/ /\ Heeds(s, g, b)
            /\ ~TooMany(s, accused)
            /\ r.s = Blamed(s, accused)
            /\ Actions(s, r.acts)
<1>1. PICK x : x = Blamed(s, accused)
  OBVIOUS
<1>2. x.total = AddOne(s.total, accused)
  BY <1>1, BlamedIs
<1>3. PICK acts : acts = IF accused = v /\ s.own # Observing
                         THEN {action("respond", s, plaintiff, 0)} ELSE {}
  OBVIOUS
<1>4. Actions(s, acts)
  BY <1>3 DEF Actions, action, groupOf
<1>5. CASE ~Heeds(s, g, b)
  BY <1>5 DEF onComplained, Heeds
<1>6. CASE Heeds(s, g, b) /\ TooMany(s, accused)
  BY <1>1, <1>2, <1>6 DEF onComplained, Blamed, Heeds, TooMany
<1>7. CASE Heeds(s, g, b) /\ ~TooMany(s, accused)
  <2>1. r = result(x, acts, {})
    BY <1>1, <1>2, <1>3, <1>7 DEF onComplained, Blamed, Heeds, TooMany
  <2>2. r.s = x /\ r.acts = acts
    BY <2>1, ResultOf
  <2> QED BY <1>1, <1>2, <1>4, <1>7, <2>2
<1> QED BY <1>5, <1>6, <1>7

\* A state that is the same but for the complaints goes on as before.
LEMMA BlameMoves ==
  ASSUME NEW v, NEW s, EpochOk(s), s.phase # "CollectingCommitments", s.phase # "WaitingForGenesis",
         NEW C, NEW r, Actions(s, r.acts),
         r.s.phase = s.phase, r.s.epoch = s.epoch, r.s.members = s.members,
         r.s.keys = s.keys, r.s.confirmations = s.confirmations
  PROVE  Moves(s, r, C) /\ Goes(v, s, r)
<1>1. EpochOk(r.s) /\ s.epoch <= r.s.epoch
  BY DEF EpochOk
<1>2. Moves(s, r, C)
  BY <1>1 DEF Moves, InGenesis, Actions
<1>3. RoundOpen(v, s) => RoundOpen(v, r.s) /\ Renews(s, r.s)
  BY DEF RoundOpen, Lacks, Renews
<1> QED BY <1>2, <1>3 DEF Goes

\* KeyGenComplained.
LEMMA ComplainedMoves ==
  ASSUME NEW v, NEW s, ViewOk(v, s), EpochOk(s), NEW b, NEW g, NEW plaintiff,
         NEW accused \in g.members, NEW C,
         NEW r, r = onComplained(v, s, b, g, plaintiff, accused)
  PROVE  Moves(s, r, C) /\ Goes(v, s, r)
<1>1. DOMAIN s = Fields
  BY DEF ViewOk
<1>2. PICK x : x = Blamed(s, accused)
  OBVIOUS
<1>3. /\ x.phase = s.phase /\ x.epoch = s.epoch /\ x.members = s.members
      /\ x.keys = s.keys /\ x.confirmations = s.confirmations
  BY <1>1, <1>2, BlamedIs
<1>4. CASE r = stay(s)
  BY <1>4, StayMoves
<1>5. CASE /\ inGroup(s, g)
           /\ r = restartKeyGenExcluding(v, x, alsoExclude(s, {accused}), pushed(s, b))
  <2>1. accused \in s.members
    BY <1>5 DEF inGroup, groupId
  <2>2. Lacks(s, s.members \ {accused})
    BY <2>1 DEF Lacks
  <2> QED BY <1>3, <1>5, <2>2, RestartMoves
<1>6. CASE countsComplaint(s, b) /\ r.s = x /\ Actions(s, r.acts)
  <2>1. s.phase # "CollectingCommitments" /\ s.phase # "WaitingForGenesis"
    BY <1>6 DEF countsComplaint
  <2> QED BY <1>3, <1>6, <2>1, BlameMoves
<1>7. \/ r = stay(s)
      \/ inGroup(s, g) /\ r = restartKeyGenExcluding(v, x, alsoExclude(s, {accused}), pushed(s, b))
      \/ countsComplaint(s, b) /\ r.s = x /\ Actions(s, r.acts)
  BY <1>1, <1>2, ComplainedCases DEF Heeds
<1> QED BY <1>4, <1>5, <1>6, <1>7

\* The epoch stays what it is when a ceremony is restarted.
LEMMA RestartEpoch ==
  ASSUME NEW v, NEW s, NEW excluded, NEW deadline,
         NEW r, r = restartKeyGenExcluding(v, s, excluded, deadline)
  PROVE  r.s.epoch = s.epoch
<1>1. PICK members : members = IF s.epoch = 0 THEN {} ELSE participantsSet(s.epoch, excluded)
  OBVIOUS
<1>2. CASE members = {}
  <2>1. r = rolloverFailure(s)
    BY <1>1, <1>2 DEF restartKeyGenExcluding
  <2> QED BY <2>1, FailureIs
<1>3. CASE members # {}
  <2>1. r = startKeyGen(v, s, s.epoch, members, deadline)
    BY <1>1, <1>3 DEF restartKeyGenExcluding
  <2> QED BY <2>1, StartIs
<1> QED BY <1>2, <1>3

\* The same complaints are counted.
LEMMA ComplainedSame ==
  ASSUME NEW u, NEW s, ViewOk(u, s), NEW v, NEW t, ViewOk(v, t), Same(s, t),
         NEW b, NEW g, NEW plaintiff, NEW accused
  PROVE  Same(onComplained(u, s, b, g, plaintiff, accused).s,
              onComplained(v, t, b, g, plaintiff, accused).s)
<1>1. /\ s.phase = t.phase /\ s.epoch = t.epoch /\ s.members = t.members
      /\ s.commitments = t.commitments /\ s.keys = t.keys /\ s.total = t.total
      /\ s.unresponded = t.unresponded /\ s.confirmations = t.confirmations
      /\ s.deadline = t.deadline
  BY SameFields
<1>2. PICK q : q = onComplained(u, s, b, g, plaintiff, accused)
  OBVIOUS
<1>3. PICK r : r = onComplained(v, t, b, g, plaintiff, accused)
  OBVIOUS
<1>4. PICK x : x = Blamed(s, accused)
  OBVIOUS
<1>5. PICK y : y = Blamed(t, accused)
  OBVIOUS
<1>6. DOMAIN s = Fields /\ DOMAIN t = Fields
  BY DEF ViewOk
<1>7. /\ x.phase = s.phase /\ x.epoch = s.epoch /\ x.members = s.members
      /\ x.commitments = s.commitments /\ x.keys = s.keys
      /\ x.confirmations = s.confirmations /\ x.deadline = s.deadline
      /\ x.total = AddOne(s.total, accused) /\ x.unresponded = AddOne(s.unresponded, accused)
  BY <1>4, <1>6, BlamedIs
<1>8. /\ y.phase = t.phase /\ y.epoch = t.epoch /\ y.members = t.members
      /\ y.commitments = t.commitments /\ y.keys = t.keys
      /\ y.confirmations = t.confirmations /\ y.deadline = t.deadline
      /\ y.total = AddOne(t.total, accused) /\ y.unresponded = AddOne(t.unresponded, accused)
  BY <1>5, <1>6, BlamedIs
<1>9. Same(x, y) /\ x.epoch = y.epoch
  BY <1>1, <1>7, <1>8, SameFields
<1>10. TooMany(s, accused) <=> TooMany(t, accused)
  BY <1>1 DEF TooMany
<1>11. Heeds(s, g, b) <=> Heeds(t, g, b)
  BY <1>1 DEF Heeds, inGroup, countsComplaint
<1>12. PICK d : d = pushed(s, b)
  OBVIOUS
<1>13. PICK out : out = alsoExclude(s, {accused})
  OBVIOUS
<1>14. d = pushed(t, b) /\ out = alsoExclude(t, {accused})
  BY <1>1, <1>12, <1>13 DEF pushed, alsoExclude
<1>15. \/ q = stay(s) /\ ~Heeds(s, g, b)
       \/ Heeds(s, g, b) /\ TooMany(s, accused) /\ q = restartKeyGenExcluding(u, x, out, d)
       \/ Heeds(s, g, b) /\ ~TooMany(s, accused) /\ q.s = x
  BY <1>2, <1>4, <1>6, <1>12, <1>13, ComplainedCases
<1>16. \/ r = stay(t) /\ ~Heeds(t, g, b)
       \/ Heeds(t, g, b) /\ TooMany(t, accused) /\ r = restartKeyGenExcluding(v, y, out, d)
       \/ Heeds(t, g, b) /\ ~TooMany(t, accused) /\ r.s = y
  BY <1>3, <1>5, <1>6, <1>14, ComplainedCases
<1>17. CASE ~Heeds(s, g, b)
  BY <1>2, <1>3, <1>11, <1>15, <1>16, <1>17, ResultOf
<1>18. CASE Heeds(s, g, b) /\ TooMany(s, accused)
  BY <1>2, <1>3, <1>9, <1>10, <1>11, <1>15, <1>16, <1>18, SameRestart
<1>19. CASE Heeds(s, g, b) /\ ~TooMany(s, accused)
  BY <1>2, <1>3, <1>9, <1>10, <1>11, <1>15, <1>16, <1>19
<1> QED BY <1>17, <1>18, <1>19

\* x is the state s with one complaint about the accused less to answer.
AfterAnswer(s, x, accused) ==
    /\ x.phase = s.phase /\ x.epoch = s.epoch /\ x.members = s.members
    /\ x.commitments = s.commitments /\ x.keys = s.keys /\ x.total = s.total
    /\ x.unresponded = TakeOne(s.unresponded, accused)
    /\ x.confirmations = s.confirmations /\ x.deadline = s.deadline

\* The answer is for this ceremony, in time, and to a complaint.
Owed(s, g, b, accused) == inGroup(s, g) /\ countsResponse(s, b) /\ s.unresponded[accused] # 0

\* What an answer leads to.
LEMMA RespondedCases ==
  ASSUME NEW v, NEW s, DOMAIN s = Fields, NEW b, NEW g, NEW plaintiff, NEW accused,
         NEW valid \in BOOLEAN, NEW r, r = onComplaintResponded(v, s, b, g, plaintiff, accused, valid)
  PROVE  \/ r = stay(s) /\ ~Owed(s, g, b, accused)
         \/ /\ Owed(s, g, b, accused) /\ ~valid
            /\ r = restartKeyGenExcluding(v, s, alsoExclude(s, {accused}), pushed(s, b))
         \/ Owed(s, g, b, accused) /\ valid /\ AfterAnswer(s, r.s, accused) /\ Actions(s, r.acts)
<1>1. CASE ~Owed(s, g, b, accused)
  BY <1>1 DEF onComplaintResponded, Owed
<1>2. CASE Owed(s, g, b, accused) /\ ~valid
  BY <1>2 DEF onComplaintResponded, Owed
<1>3. CASE Owed(s, g, b, accused) /\ valid
  <2>1. PICK shares : shares = IF plaintiff = v /\ s.own # Observing
                               THEN s.shares \cup {accused} ELSE s.shares
    OBVIOUS
  <2>2. PICK a : a = TakeOne(s.unresponded, accused)
    OBVIOUS
  <2>3. PICK t : t = [s EXCEPT !.unresponded = a, !.shares = shares]
    OBVIOUS
  <2>4. t = [s EXCEPT !.unresponded[accused] = @ - 1,
                      !.shares = IF plaintiff = v /\ s.own # Observing
                                 THEN @ \cup {accused} ELSE @]
    BY <2>1, <2>2, <2>3 DEF TakeOne, Fields
  <2>5. r = IF t.phase = "CollectingConfirmations" THEN confirmKeyGen(v, t) ELSE stay(t)
    BY <1>3, <2>4 DEF onComplaintResponded, Owed
  <2>6. /\ DOMAIN t = Fields /\ t.phase = s.phase /\ t.epoch = s.epoch /\ t.members = s.members
        /\ t.commitments = s.commitments /\ t.keys = s.keys /\ t.total = s.total
        /\ t.unresponded = a /\ t.confirmations = s.confirmations /\ t.deadline = s.deadline
    BY <2>3 DEF Fields
  <2>7. groupOf(t) = groupOf(s)
    BY <2>6 DEF groupOf
  <2>8. CASE r = confirmKeyGen(v, t)
    <3>1. Same(t, r.s) /\ \A e \in r.acts : e.group = groupOf(t) /\ e.kind = "confirm"
      BY <2>6, <2>8, ConfirmIs
    <3>2. Actions(s, r.acts)
      BY <2>7, <3>1 DEF Actions
    <3>3. /\ t.phase = r.s.phase /\ t.epoch = r.s.epoch /\ t.members = r.s.members
          /\ t.commitments = r.s.commitments /\ t.keys = r.s.keys /\ t.total = r.s.total
          /\ t.unresponded = r.s.unresponded /\ t.confirmations = r.s.confirmations
          /\ t.deadline = r.s.deadline
      BY <3>1, SameFields
    <3>4. AfterAnswer(s, r.s, accused)
      BY <2>2, <2>6, <3>3 DEF AfterAnswer
    <3> QED BY <1>3, <3>2, <3>4
  <2>9. CASE r = stay(t)
    <3>1. r.s = t /\ r.acts = {}
      BY <2>9, ResultOf
    <3> QED BY <1>3, <2>2, <2>6, <3>1 DEF AfterAnswer, Actions
  <2> QED BY <2>5, <2>8, <2>9
<1> QED BY <1>1, <1>2, <1>3

\* KeyGenComplaintResponded.
LEMMA RespondedMoves ==
  ASSUME NEW v, NEW s, ViewOk(v, s), EpochOk(s), NEW b, NEW g, NEW plaintiff,
         NEW accused \in g.members, NEW valid \in BOOLEAN, NEW C,
         NEW r, r = onComplaintResponded(v, s, b, g, plaintiff, accused, valid)
  PROVE  Moves(s, r, C) /\ Goes(v, s, r) /\ r.s.epoch = s.epoch
<1>1. DOMAIN s = Fields
  BY DEF ViewOk
<1>2. CASE r = stay(s)
  <2>1. r.s = s
    BY <1>2, ResultOf
  <2>2. Moves(s, r, C) /\ Goes(v, s, r)
    BY <1>2, StayMoves
  <2> QED BY <2>1, <2>2
<1>3. CASE /\ Owed(s, g, b, accused)
           /\ r = restartKeyGenExcluding(v, s, alsoExclude(s, {accused}), pushed(s, b))
  <2>1. accused \in s.members
    BY <1>3 DEF Owed, inGroup, groupId
  <2>2. Lacks(s, s.members \ {accused})
    BY <2>1 DEF Lacks
  <2>3. Moves(s, r, C) /\ Goes(v, s, r)
    BY <1>3, <2>2, RestartMoves
  <2>4. r.s.epoch = s.epoch
    BY <1>3, RestartEpoch
  <2> QED BY <2>3, <2>4
<1>4. CASE Owed(s, g, b, accused) /\ AfterAnswer(s, r.s, accused) /\ Actions(s, r.acts)
  <2>1. s.phase # "CollectingCommitments" /\ s.phase # "WaitingForGenesis"
    BY <1>4 DEF Owed, countsResponse
  <2>2. /\ r.s.phase = s.phase /\ r.s.epoch = s.epoch /\ r.s.members = s.members
        /\ r.s.keys = s.keys /\ r.s.confirmations = s.confirmations
    BY <1>4 DEF AfterAnswer
  <2> QED BY <1>4, <2>1, <2>2, BlameMoves
<1>5. \/ r = stay(s)
      \/ /\ Owed(s, g, b, accused)
         /\ r = restartKeyGenExcluding(v, s, alsoExclude(s, {accused}), pushed(s, b))
      \/ Owed(s, g, b, accused) /\ AfterAnswer(s, r.s, accused) /\ Actions(s, r.acts)
  BY <1>1, RespondedCases
<1> QED BY <1>2, <1>3, <1>4, <1>5

\* The same answers are counted.
LEMMA RespondedSame ==
  ASSUME NEW u, NEW s, ViewOk(u, s), NEW v, NEW t, ViewOk(v, t), Same(s, t),
         NEW b, NEW g, NEW plaintiff, NEW accused, NEW valid \in BOOLEAN
  PROVE  Same(onComplaintResponded(u, s, b, g, plaintiff, accused, valid).s,
              onComplaintResponded(v, t, b, g, plaintiff, accused, valid).s)
<1>1. /\ s.phase = t.phase /\ s.epoch = t.epoch /\ s.members = t.members
      /\ s.commitments = t.commitments /\ s.keys = t.keys /\ s.total = t.total
      /\ s.unresponded = t.unresponded /\ s.confirmations = t.confirmations
      /\ s.deadline = t.deadline
  BY SameFields
<1>2. PICK q : q = onComplaintResponded(u, s, b, g, plaintiff, accused, valid)
  OBVIOUS
<1>3. PICK r : r = onComplaintResponded(v, t, b, g, plaintiff, accused, valid)
  OBVIOUS
<1>4. DOMAIN s = Fields /\ DOMAIN t = Fields
  BY DEF ViewOk
<1>5. PICK d : d = pushed(s, b)
  OBVIOUS
<1>6. PICK out : out = alsoExclude(s, {accused})
  OBVIOUS
<1>7. d = pushed(t, b) /\ out = alsoExclude(t, {accused})
  BY <1>1, <1>5, <1>6 DEF pushed, alsoExclude
<1>8. Owed(s, g, b, accused) <=> Owed(t, g, b, accused)
  BY <1>1 DEF Owed, inGroup, countsResponse, responseDeadline
<1>9. \/ q = stay(s) /\ ~Owed(s, g, b, accused)
      \/ Owed(s, g, b, accused) /\ ~valid /\ q = restartKeyGenExcluding(u, s, out, d)
      \/ Owed(s, g, b, accused) /\ valid /\ AfterAnswer(s, q.s, accused)
  BY <1>2, <1>4, <1>5, <1>6, RespondedCases
<1>10. \/ r = stay(t) /\ ~Owed(t, g, b, accused)
       \/ Owed(t, g, b, accused) /\ ~valid /\ r = restartKeyGenExcluding(v, t, out, d)
       \/ Owed(t, g, b, accused) /\ valid /\ AfterAnswer(t, r.s, accused)
  BY <1>3, <1>4, <1>7, RespondedCases
<1>11. CASE ~Owed(s, g, b, accused)
  BY <1>2, <1>3, <1>8, <1>9, <1>10, <1>11, ResultOf
<1>12. CASE Owed(s, g, b, accused) /\ ~valid
  BY <1>1, <1>2, <1>3, <1>8, <1>9, <1>10, <1>12, SameRestart
<1>13. CASE Owed(s, g, b, accused) /\ valid
  <2>1. AfterAnswer(s, q.s, accused) /\ AfterAnswer(t, r.s, accused)
    BY <1>8, <1>9, <1>10, <1>13
  <2>2. Same(q.s, r.s)
    BY <1>1, <2>1, SameFields DEF AfterAnswer
  <2> QED BY <1>2, <1>3, <2>2
<1> QED BY <1>11, <1>12, <1>13

----------------------------------------------------------------------------
(* Genesis begins, and new blocks                                          *)

\* KeyGen: the genesis ceremony starts, the same for all.
LEMMA OpenedMoves ==
  ASSUME NEW v, NEW s, EpochOk(s), s.phase = "WaitingForGenesis", NEW C,
         NEW r, r = onKeyGen(v, s, groupId(0, activeIn(0)))
  PROVE  /\ EpochOk(r.s) /\ r.s.epoch = 0 /\ r.s.phase = "CollectingCommitments"
         /\ r.s.members = activeIn(0) /\ r.s.confirmations = {} /\ r.acts = {} /\ RoundOpen(v, r.s)
<1>1. r = startKeyGen(v, s, 0, activeIn(0), NoDeadline)
  BY DEF onKeyGen
<1>2. /\ r.acts = {} /\ r.s.epoch = 0 /\ r.s.phase = "CollectingCommitments"
      /\ r.s.members = activeIn(0) /\ r.s.confirmations = {} /\ r.s.keys = {}
      /\ r.s.commitments = <<>>
  BY <1>1, StartIs
<1>3. DOMAIN r.s.commitments = {}
  BY <1>2
<1>4. RoundOpen(v, r.s)
  BY <1>2, <1>3 DEF RoundOpen, Lacks
<1> QED BY <1>2, <1>4 DEF EpochOk

\* Two validators that wait for genesis open it alike.
LEMMA OpenedSame ==
  ASSUME NEW u, NEW s, s.phase = "WaitingForGenesis", NEW v, NEW t, t.phase = "WaitingForGenesis"
  PROVE  Same(onKeyGen(u, s, groupId(0, activeIn(0))).s, onKeyGen(v, t, groupId(0, activeIn(0))).s)
<1>1. PICK members : members = activeIn(0)
  OBVIOUS
<1>2. /\ onKeyGen(u, s, groupId(0, activeIn(0))) = startKeyGen(u, s, 0, members, NoDeadline)
      /\ onKeyGen(v, t, groupId(0, activeIn(0))) = startKeyGen(v, t, 0, members, NoDeadline)
  BY <1>1 DEF onKeyGen
<1> QED BY <1>2, SameStart

\* What the deadlines lead to.
LEMMA TimeoutCases ==
  ASSUME NEW v, NEW s, NEW b, NEW d, d = b + KeyGenTimeout, NEW r, r = keyGenTimeouts(v, s, b)
  PROVE  \/ r = stay(s)
         \/ /\ s.phase = "CollectingCommitments"
            /\ s.own = NoSecrets /\ complete(s, DOMAIN s.commitments)
            /\ r = rolloverFailure(s)
         \/ /\ s.phase = "CollectingCommitments"
            /\ r = restartKeyGenExcluding(v, s, excludeAllOthers(s, DOMAIN s.commitments), d)
         \/ /\ s.phase = "CollectingShares"
            /\ r = restartKeyGenExcluding(v, s, excludeAllOthers(s, s.keys), d)
         \/ /\ s.phase = "CollectingConfirmations" /\ owing(s) # {}
            /\ r = restartKeyGenExcluding(v, s, alsoExclude(s, owing(s)), d)
         \/ /\ s.phase = "CollectingConfirmations"
            /\ r = restartKeyGenExcluding(v, s, excludeAllOthers(s, s.confirmations), d)
<1>1. CASE s.phase = "CollectingCommitments"
  BY <1>1 DEF keyGenTimeouts
<1>2. CASE s.phase = "CollectingShares"
  BY <1>2 DEF keyGenTimeouts, sharedBy
<1>3. CASE s.phase = "CollectingConfirmations"
  BY <1>3 DEF keyGenTimeouts
<1>4. CASE s.phase \notin {"CollectingCommitments", "CollectingShares", "CollectingConfirmations"}
  BY <1>4 DEF keyGenTimeouts
<1> QED BY <1>1, <1>2, <1>3, <1>4

\* The ceremony goes on without those that `set` lacks.
LEMMA OthersMoves ==
  ASSUME NEW v, NEW s, EpochOk(s), NEW set, RoundOpen(v, s) => Lacks(s, set), NEW C, NEW d,
         NEW r, r = restartKeyGenExcluding(v, s, excludeAllOthers(s, set), d)
  PROVE  Moves(s, r, C) /\ Goes(v, s, r)
<1>1. PICK more : more = s.members \ set
  OBVIOUS
<1>2. r = restartKeyGenExcluding(v, s, alsoExclude(s, more), d)
  BY <1>1 DEF excludeAllOthers
<1>3. Moves(s, r, C) /\ (Lacks(s, s.members \ more) => Goes(v, s, r))
  BY <1>2, RestartMoves
<1>4. CASE RoundOpen(v, s)
  <2>1. Lacks(s, s.members \ more)
    BY <1>1, <1>4 DEF Lacks
  <2> QED BY <1>3, <2>1
<1>5. CASE ~RoundOpen(v, s)
  <2>1. r.s.epoch = s.epoch
    BY <1>2, RestartEpoch
  <2> QED BY <1>3, <1>5, <2>1 DEF Goes
<1> QED BY <1>4, <1>5

\* The deadlines go on.
LEMMA TimeoutMoves ==
  ASSUME NEW v, NEW s, EpochOk(s), NEW b, NEW C, NEW r, r = keyGenTimeouts(v, s, b)
  PROVE  Moves(s, r, C) /\ Goes(v, s, r) /\ r.s.epoch = s.epoch
<1>1. PICK d : d = b + KeyGenTimeout
  OBVIOUS
<1>2. CASE r = stay(s)
  <2>1. r.s = s
    BY <1>2, ResultOf
  <2>2. Moves(s, r, C) /\ Goes(v, s, r)
    BY <1>2, StayMoves
  <2> QED BY <2>1, <2>2
<1>3. CASE r = rolloverFailure(s)
  <2>1. r.s.epoch = s.epoch
    BY <1>3, FailureIs
  <2>2. Moves(s, r, C) /\ Goes(v, s, r)
    BY <1>3, FailureMoves
  <2> QED BY <2>1, <2>2
<1>4. CASE /\ s.phase = "CollectingCommitments"
           /\ r = restartKeyGenExcluding(v, s, excludeAllOthers(s, DOMAIN s.commitments), d)
  <2>1. RoundOpen(v, s) => Lacks(s, DOMAIN s.commitments)
    BY <1>4 DEF RoundOpen
  <2>2. Moves(s, r, C) /\ Goes(v, s, r)
    BY <1>4, <2>1, OthersMoves
  <2> QED BY <1>4, <2>2, RestartEpoch
<1>5. CASE /\ s.phase = "CollectingShares"
           /\ r = restartKeyGenExcluding(v, s, excludeAllOthers(s, s.keys), d)
  <2>1. RoundOpen(v, s) => Lacks(s, s.keys)
    BY <1>5 DEF RoundOpen
  <2>2. Moves(s, r, C) /\ Goes(v, s, r)
    BY <1>5, <2>1, OthersMoves
  <2> QED BY <1>5, <2>2, RestartEpoch
<1>6. CASE /\ s.phase = "CollectingConfirmations" /\ owing(s) # {}
           /\ r = restartKeyGenExcluding(v, s, alsoExclude(s, owing(s)), d)
  <2>1. PICK more : more = owing(s)
    OBVIOUS
  <2>2. Lacks(s, s.members \ more)
    BY <1>6, <2>1 DEF Lacks, owing
  <2>3. Moves(s, r, C) /\ Goes(v, s, r)
    BY <1>6, <2>1, <2>2, RestartMoves
  <2> QED BY <1>6, <2>3, RestartEpoch
<1>7. CASE /\ s.phase = "CollectingConfirmations"
           /\ r = restartKeyGenExcluding(v, s, excludeAllOthers(s, s.confirmations), d)
  <2>1. RoundOpen(v, s) => Lacks(s, s.confirmations)
    BY <1>7 DEF RoundOpen
  <2>2. Moves(s, r, C) /\ Goes(v, s, r)
    BY <1>7, <2>1, OthersMoves
  <2> QED BY <1>7, <2>2, RestartEpoch
<1> QED BY <1>1, <1>2, <1>3, <1>4, <1>5, <1>6, <1>7, TimeoutCases

\* Who excludes the same says the same.
LEMMA SameOthers ==
  ASSUME NEW s, NEW t, s.epoch = t.epoch, s.members = t.members, NEW set
  PROVE  excludeAllOthers(s, set) = excludeAllOthers(t, set) /\ alsoExclude(s, set) = alsoExclude(t, set)
  BY DEF excludeAllOthers, alsoExclude

\* A sound validator never gives up alone.
LEMMA NotAlone ==
  ASSUME NEW v, NEW s, ViewOk(v, s), RoundOpen(v, s), s.phase = "CollectingCommitments"
  PROVE  ~(s.own = NoSecrets /\ complete(s, DOMAIN s.commitments))
<1>1. SUFFICES ASSUME s.own = NoSecrets, complete(s, DOMAIN s.commitments) PROVE FALSE
  OBVIOUS
<1>2. v \in s.members
  BY <1>1 DEF ViewOk, NoSecrets, Observing
<1>3. DOMAIN s.commitments = s.members
  BY <1>1, AllCommitted
<1> QED BY <1>2, <1>3 DEF RoundOpen, Lacks

\* Sound validators that say the same keep the same deadlines.
LEMMA TimeoutSame ==
  ASSUME NEW u, NEW s, ViewOk(u, s), RoundOpen(u, s), NEW v, NEW t, ViewOk(v, t), RoundOpen(v, t),
         Same(s, t), NEW b
  PROVE  Same(keyGenTimeouts(u, s, b).s, keyGenTimeouts(v, t, b).s)
<1>1. /\ s.phase = t.phase /\ s.epoch = t.epoch /\ s.members = t.members
      /\ s.commitments = t.commitments /\ s.keys = t.keys /\ s.total = t.total
      /\ s.unresponded = t.unresponded /\ s.confirmations = t.confirmations
      /\ s.deadline = t.deadline
  BY SameFields
<1>2. PICK d : d = b + KeyGenTimeout
  OBVIOUS
<1>3. \/ keyGenTimeouts(u, s, b) = stay(s) /\ keyGenTimeouts(v, t, b) = stay(t)
      \/ \E out : /\ keyGenTimeouts(u, s, b) = restartKeyGenExcluding(u, s, out, d)
                  /\ keyGenTimeouts(v, t, b) = restartKeyGenExcluding(v, t, out, d)
  <2>1. PICK over : over = (s.deadline # NoDeadline /\ b >= s.deadline)
    OBVIOUS
  <2>2. over = (t.deadline # NoDeadline /\ b >= t.deadline)
    BY <1>1, <2>1
  <2>3. CASE s.phase = "CollectingCommitments"
    <3>1. PICK out : out = excludeAllOthers(s, DOMAIN s.commitments)
      OBVIOUS
    <3>2. out = excludeAllOthers(t, DOMAIN t.commitments)
      BY <1>1, <3>1, SameOthers
    <3>3. keyGenTimeouts(u, s, b) = IF over THEN restartKeyGenExcluding(u, s, out, d) ELSE stay(s)
      BY <1>2, <2>1, <2>3, <3>1, NotAlone DEF keyGenTimeouts
    <3>4. keyGenTimeouts(v, t, b) = IF over THEN restartKeyGenExcluding(v, t, out, d) ELSE stay(t)
      BY <1>1, <1>2, <2>2, <2>3, <3>2, NotAlone DEF keyGenTimeouts
    <3> QED BY <3>3, <3>4
  <2>4. CASE s.phase = "CollectingShares"
    <3>1. PICK out : out = excludeAllOthers(s, s.keys)
      OBVIOUS
    <3>2. out = excludeAllOthers(t, t.keys)
      BY <1>1, <3>1, SameOthers
    <3>3. keyGenTimeouts(u, s, b) = IF over THEN restartKeyGenExcluding(u, s, out, d) ELSE stay(s)
      BY <1>2, <2>1, <2>4, <3>1 DEF keyGenTimeouts, sharedBy
    <3>4. keyGenTimeouts(v, t, b) = IF over THEN restartKeyGenExcluding(v, t, out, d) ELSE stay(t)
      BY <1>1, <1>2, <2>2, <2>4, <3>2 DEF keyGenTimeouts, sharedBy
    <3> QED BY <3>3, <3>4
  <2>5. CASE s.phase = "CollectingConfirmations"
    <3>1. PICK owe : owe = owing(s)
      OBVIOUS
    <3>2. owe = owing(t)
      BY <1>1, <3>1 DEF owing
    <3>3. PICK x : x = alsoExclude(s, owe)
      OBVIOUS
    <3>4. PICK y : y = excludeAllOthers(s, s.confirmations)
      OBVIOUS
    <3>5. x = alsoExclude(t, owe) /\ y = excludeAllOthers(t, t.confirmations)
      BY <1>1, <3>3, <3>4, SameOthers
    <3>6. PICK late : late = (b >= responseDeadline(s))
      OBVIOUS
    <3>7. PICK end : end = confirmTimeout(s, b)
      OBVIOUS
    <3>8. late = (b >= responseDeadline(t)) /\ end = confirmTimeout(t, b)
      BY <1>1, <3>6, <3>7 DEF responseDeadline, confirmTimeout, confirmDeadline
    <3>9. keyGenTimeouts(u, s, b) =
            IF ~over THEN stay(s)
            ELSE IF late /\ owe # {} THEN restartKeyGenExcluding(u, s, x, d)
            ELSE IF end THEN restartKeyGenExcluding(u, s, y, d) ELSE stay(s)
      BY <1>2, <2>1, <2>5, <3>1, <3>3, <3>4, <3>6, <3>7 DEF keyGenTimeouts
    <3>10. keyGenTimeouts(v, t, b) =
            IF ~over THEN stay(t)
            ELSE IF late /\ owe # {} THEN restartKeyGenExcluding(v, t, x, d)
            ELSE IF end THEN restartKeyGenExcluding(v, t, y, d) ELSE stay(t)
      BY <1>1, <1>2, <2>2, <2>5, <3>2, <3>5, <3>8 DEF keyGenTimeouts
    <3> QED BY <3>9, <3>10
  <2>6. CASE s.phase \notin {"CollectingCommitments", "CollectingShares", "CollectingConfirmations"}
    BY <1>1, <2>6 DEF keyGenTimeouts
  <2> QED BY <2>3, <2>4, <2>5, <2>6
<1>4. CASE keyGenTimeouts(u, s, b) = stay(s) /\ keyGenTimeouts(v, t, b) = stay(t)
  BY <1>4, ResultOf
<1>5. ASSUME NEW out, keyGenTimeouts(u, s, b) = restartKeyGenExcluding(u, s, out, d),
             keyGenTimeouts(v, t, b) = restartKeyGenExcluding(v, t, out, d)
      PROVE  Same(keyGenTimeouts(u, s, b).s, keyGenTimeouts(v, t, b).s)
  BY <1>1, <1>5, SameRestart
<1> QED BY <1>3, <1>4, <1>5

\* The epoch after that of s is due.
Due(s, b) == ~(s.phase = "Halted" \/ s.epoch = 0 \/ s.epoch >= nextNumber(b))

\* What is public is all that the order of epochs and groups depends on.
LEMMA LikeMoves ==
  ASSUME NEW v, NEW s, NEW C, NEW q, Moves(s, q, C), Goes(v, s, q),
         NEW r, r.acts = {}, Same(q.s, r.s), q.s.own = r.s.own
  PROVE  Moves(s, r, C) /\ Goes(v, s, r)
<1>1. /\ r.s.phase = q.s.phase /\ r.s.epoch = q.s.epoch /\ r.s.members = q.s.members
      /\ r.s.commitments = q.s.commitments /\ r.s.keys = q.s.keys
      /\ r.s.confirmations = q.s.confirmations /\ r.s.own = q.s.own
  BY SameFields
<1>2. EpochOk(q.s) => EpochOk(r.s)
  BY <1>1 DEF EpochOk
<1>3. InGenesis(q.s) <=> InGenesis(r.s)
  BY <1>1 DEF InGenesis
<1>4. Moves(s, r, C)
  BY <1>1, <1>2, <1>3 DEF Moves
<1>5. RoundOpen(v, q.s) => RoundOpen(v, r.s)
  BY <1>1 DEF RoundOpen, Lacks
<1>6. Renews(s, q.s) => Renews(s, r.s)
  BY <1>1 DEF Renews, groupOf
<1> QED BY <1>1, <1>4, <1>5, <1>6 DEF Goes

\* Reaped epochs are no public matter.
LEMMA ReconciledIs ==
  ASSUME NEW s, DOMAIN s = Fields
  PROVE  Same(s, reconciled(s)) /\ s.own = reconciled(s).own
<1>1. PICK x : x = reconciled(s)
  OBVIOUS
<1>2. \A f \in Fields \ {"epochs"} : x[f] = s[f]
  BY <1>1 DEF reconciled
<1> QED BY <1>1, <1>2 DEF Same, PublicFields, Fields

\* A block on which no epoch is due.
LEMMA UndueIs ==
  ASSUME NEW v, NEW s, ViewOk(v, s), NEW b, ~Due(s, b), NEW r, r = onNewBlock(v, s, b)
  PROVE  LET q == keyGenTimeouts(v, s, b)
         IN  r.acts = {} /\ Same(q.s, r.s) /\ q.s.own = r.s.own
<1>1. PICK q : q = keyGenTimeouts(v, s, b)
  OBVIOUS
<1>2. DOMAIN q.s = Fields
  <2>1. StepOk(v, s, q)
    BY <1>1, TimeoutsOk
  <2> QED BY <2>1 DEF StepOk, ViewOk
<1>3. rolloverNewBlock(v, s, b) = stay(s)
  BY DEF rolloverNewBlock, Due
<1>4. r.s = reconciled(q.s) /\ r.acts = {}
  BY <1>1, <1>3, ResultOf DEF onNewBlock
<1> QED BY <1>1, <1>2, <1>4, ReconciledIs

\* A staged epoch is the active one now.
Rolled(s) == [s EXCEPT !.active = activated(s)]

\* The state that the next epoch is taken up with.
TakenUp(v, s, b) ==
    LET t == Rolled(s)
    IN  IF participantsSet(nextNumber(b), {}) = {} THEN stay(idle(t, "EpochSkipped", nextNumber(b)))
        ELSE startKeyGen(v, t, nextNumber(b), participantsSet(nextNumber(b), {}), b + KeyGenTimeout)

\* A block on which an epoch is due.
LEMMA DueIs ==
  ASSUME NEW v, NEW s, ViewOk(v, s), NEW b \in Nat, Due(s, b), NEW r, r = onNewBlock(v, s, b)
  PROVE  LET q == TakenUp(v, s, b)
         IN  r.acts = {} /\ Same(q.s, r.s) /\ q.s.own = r.s.own
<1>1. PICK q : q = TakenUp(v, s, b)
  OBVIOUS
<1>2. PICK t : t = Rolled(s)
  OBVIOUS
<1>3. PICK next : next = nextNumber(b)
  OBVIOUS
<1>4. PICK members : members = participantsSet(next, {})
  OBVIOUS
<1>5. q = IF members = {} THEN stay(idle(t, "EpochSkipped", next))
          ELSE startKeyGen(v, t, next, members, b + KeyGenTimeout)
  BY <1>1, <1>2, <1>3, <1>4 DEF TakenUp
<1>6. rolloverNewBlock(v, s, b) = q
  BY <1>2, <1>3, <1>4, <1>5 DEF rolloverNewBlock, Due, Rolled
<1>7. keyGenTimeouts(v, q.s, b) = stay(q.s) /\ DOMAIN q.s = Fields
  <2>1. CASE members = {}
    <3>1. q.s = idle(t, "EpochSkipped", next)
      BY <1>5, <2>1, ResultOf
    <3>2. q.s.phase = "EpochSkipped" /\ DOMAIN q.s = Fields
      BY <3>1, IdleIs
    <3> QED BY <3>2 DEF keyGenTimeouts
  <2>2. CASE members # {}
    <3>1. q = startKeyGen(v, t, next, members, b + KeyGenTimeout)
      BY <1>5, <2>2
    <3>2. q.s.phase = "CollectingCommitments" /\ q.s.deadline = b + KeyGenTimeout
      BY <3>1, StartIs
    <3>3. ~(b >= q.s.deadline)
      BY <3>2, ConfigAssumption
    <3>4. DOMAIN q.s = Fields
      <4>1. StepOk(v, s, q)
        BY <1>4, <3>1, ParticipantsOk, StartOk
      <4> QED BY <4>1 DEF StepOk, ViewOk
    <3> QED BY <3>2, <3>3, <3>4 DEF keyGenTimeouts
  <2> QED BY <2>1, <2>2
<1>8. r.s = reconciled(q.s) /\ r.acts = {}
  BY <1>6, <1>7, ResultOf DEF onNewBlock
<1> QED BY <1>1, <1>7, <1>8, ReconciledIs

\* The next epoch is taken up.
LEMMA NextMoves ==
  ASSUME NEW v, NEW s, EpochOk(s), NEW b \in Nat, Due(s, b), NEW C, NEW q, q = TakenUp(v, s, b)
  PROVE  Moves(s, q, C) /\ Goes(v, s, q) /\ q.s.epoch = nextNumber(b)
<1>1. PICK next : next = nextNumber(b)
  OBVIOUS
<1>2. next \in Nat \ {0} /\ s.epoch < next
  BY <1>1, NextIs DEF Due, EpochOk
<1>3. PICK t : t = Rolled(s)
  OBVIOUS
<1>4. PICK members : members = participantsSet(next, {})
  OBVIOUS
<1>5. q = IF members = {} THEN stay(idle(t, "EpochSkipped", next))
          ELSE startKeyGen(v, t, next, members, b + KeyGenTimeout)
  BY <1>1, <1>3, <1>4 DEF TakenUp
<1>6. CASE members = {}
  <2>1. PICK i : i = idle(t, "EpochSkipped", next)
    OBVIOUS
  <2>2. i.phase = "EpochSkipped" /\ i.epoch = next /\ i.members = {}
    BY <2>1, IdleIs
  <2>3. q.s = i /\ q.acts = {}
    BY <1>5, <1>6, <2>1, ResultOf
  <2>4. EpochOk(i) /\ s.epoch <= i.epoch
    BY <1>2, <2>2 DEF EpochOk
  <2>5. i.phase \notin Collecting /\ i.phase # "WaitingForGenesis"
    BY <2>2 DEF Collecting
  <2> QED BY <1>1, <2>2, <2>3, <2>4, <2>5, EndMoves
<1>7. CASE members # {}
  <2>1. q = startKeyGen(v, t, next, members, b + KeyGenTimeout)
    BY <1>5, <1>7
  <2>2. Moves(s, q, C) /\ Goes(v, s, q)
    BY <1>2, <2>1, StartMoves
  <2>3. q.s.epoch = next
    BY <2>1, StartIs
  <2> QED BY <1>1, <2>2, <2>3
<1> QED BY <1>6, <1>7

\* It is the same for all.
LEMMA NextSame ==
  ASSUME NEW u, NEW s, NEW v, NEW t, NEW b
  PROVE  Same(TakenUp(u, s, b).s, TakenUp(v, t, b).s)
<1>1. PICK next : next = nextNumber(b)
  OBVIOUS
<1>2. PICK members : members = participantsSet(next, {})
  OBVIOUS
<1>3. PICK x : x = Rolled(s)
  OBVIOUS
<1>4. PICK y : y = Rolled(t)
  OBVIOUS
<1>5. PICK d : d = b + KeyGenTimeout
  OBVIOUS
<1>6. CASE members = {}
  <2>1. PICK i : i = idle(x, "EpochSkipped", next)
    OBVIOUS
  <2>2. PICK j : j = idle(y, "EpochSkipped", next)
    OBVIOUS
  <2>3. Same(i, j)
    BY <2>1, <2>2, SameIdle
  <2>4. TakenUp(u, s, b) = stay(i) /\ TakenUp(v, t, b) = stay(j)
    BY <1>1, <1>2, <1>3, <1>4, <1>6, <2>1, <2>2 DEF TakenUp
  <2> QED BY <2>3, <2>4, ResultOf
<1>7. CASE members # {}
  <2>1. /\ TakenUp(u, s, b) = startKeyGen(u, x, next, members, d)
        /\ TakenUp(v, t, b) = startKeyGen(v, y, next, members, d)
    BY <1>1, <1>2, <1>3, <1>4, <1>5, <1>7 DEF TakenUp
  <2> QED BY <2>1, SameStart
<1> QED BY <1>6, <1>7

\* NewBlock.
LEMMA BlockMoves ==
  ASSUME NEW v, NEW s, ViewOk(v, s), EpochOk(s), NEW b \in Nat, NEW C,
         NEW r, r = onNewBlock(v, s, b)
  PROVE  /\ Moves(s, r, C) /\ Goes(v, s, r) /\ r.acts = {}
         /\ Due(s, b) => r.s.epoch = nextNumber(b)
         /\ ~Due(s, b) => r.s.epoch = s.epoch
<1>1. CASE Due(s, b)
  <2>1. PICK q : q = TakenUp(v, s, b)
    OBVIOUS
  <2>2. r.acts = {} /\ Same(q.s, r.s) /\ q.s.own = r.s.own
    BY <1>1, <2>1, DueIs
  <2>3. Moves(s, q, C) /\ Goes(v, s, q) /\ q.s.epoch = nextNumber(b)
    BY <1>1, <2>1, NextMoves
  <2>4. r.s.epoch = q.s.epoch
    BY <2>2, SameFields
  <2> QED BY <1>1, <2>2, <2>3, <2>4, LikeMoves
<1>2. CASE ~Due(s, b)
  <2>1. PICK q : q = keyGenTimeouts(v, s, b)
    OBVIOUS
  <2>2. r.acts = {} /\ Same(q.s, r.s) /\ q.s.own = r.s.own
    BY <1>2, <2>1, UndueIs
  <2>3. Moves(s, q, C) /\ Goes(v, s, q) /\ q.s.epoch = s.epoch
    BY <2>1, TimeoutMoves
  <2>4. r.s.epoch = q.s.epoch
    BY <2>2, SameFields
  <2> QED BY <1>2, <2>2, <2>3, <2>4, LikeMoves
<1> QED BY <1>1, <1>2

\* Being the same is an equivalence.
LEMMA SameChain ==
  ASSUME NEW s, NEW t, NEW x, NEW y, Same(s, x), Same(t, y), Same(s, t)
  PROVE  Same(x, y)
  BY DEF Same

\* Those that take up an epoch do so alike.
LEMMA DueSame ==
  ASSUME NEW u, NEW s, ViewOk(u, s), NEW v, NEW t, ViewOk(v, t), NEW b \in Nat, Due(s, b), Due(t, b)
  PROVE  Same(onNewBlock(u, s, b).s, onNewBlock(v, t, b).s)
<1>1. PICK q : q = onNewBlock(u, s, b)
  OBVIOUS
<1>2. PICK r : r = onNewBlock(v, t, b)
  OBVIOUS
<1>3. PICK i : i = TakenUp(u, s, b)
  OBVIOUS
<1>4. PICK j : j = TakenUp(v, t, b)
  OBVIOUS
<1>5. Same(i.s, q.s)
  BY <1>1, <1>3, DueIs
<1>6. Same(j.s, r.s)
  BY <1>2, <1>4, DueIs
<1>7. Same(i.s, j.s)
  BY <1>3, <1>4, NextSame
<1>8. Same(q.s, r.s)
  BY <1>5, <1>6, <1>7, SameChain
<1> QED BY <1>1, <1>2, <1>8

\* Sound validators that say the same handle a block alike.
LEMMA BlockSame ==
  ASSUME NEW u, NEW s, ViewOk(u, s), RoundOpen(u, s), NEW v, NEW t, ViewOk(v, t), RoundOpen(v, t),
         Same(s, t), NEW b \in Nat
  PROVE  Same(onNewBlock(u, s, b).s, onNewBlock(v, t, b).s)
<1>1. s.phase = t.phase /\ s.epoch = t.epoch
  BY SameFields
<1>2. Due(s, b) <=> Due(t, b)
  BY <1>1 DEF Due
<1>3. CASE Due(s, b)
  BY <1>2, <1>3, DueSame
<1>4. CASE ~Due(s, b)
  <2>1. PICK q : q = onNewBlock(u, s, b)
    OBVIOUS
  <2>2. PICK r : r = onNewBlock(v, t, b)
    OBVIOUS
  <2>3. PICK i : i = keyGenTimeouts(u, s, b)
    OBVIOUS
  <2>4. PICK j : j = keyGenTimeouts(v, t, b)
    OBVIOUS
  <2>5. Same(i.s, q.s)
    BY <1>4, <2>1, <2>3, UndueIs
  <2>6. Same(j.s, r.s)
    BY <1>2, <1>4, <2>2, <2>4, UndueIs
  <2>7. Same(i.s, j.s)
    BY <2>3, <2>4, TimeoutSame
  <2>8. Same(q.s, r.s)
    BY <2>5, <2>6, <2>7, SameChain
  <2> QED BY <2>1, <2>2, <2>8
<1> QED BY <1>3, <1>4

----------------------------------------------------------------------------
(* The invariant                                                           *)

RoundsOpen == \A v \in Sound : RoundOpen(v, view[v])

\* All validators that have passed genesis are in the same epoch.
EpochsAlike ==
    /\ \A u, v \in Honest : view[u].epoch # 0 /\ view[v].epoch # 0 => view[u].epoch = view[v].epoch
    /\ \A u, v \in Honest :
        view[u].phase = "WaitingForGenesis" => view[v].phase = "WaitingForGenesis"

G0 == groupId(0, activeIn(0))

\* Nobody passes genesis before the last confirmation is onchain, after which
\* there are no others.
GenesisOk ==
    /\ \A g \in DOMAIN chain : chain[g].confirmed \subseteq g.members
    /\ \A v \in Honest : InGenesis(view[v]) =>
        /\ view[v].members = activeIn(0)
        /\ G0 \in DOMAIN chain
        /\ view[v].confirmations \subseteq chain[G0].confirmed
        /\ \A u \in Honest : view[u].epoch # 0 => chain[G0].confirmed = activeIn(0)

\* A transaction is for the present group of its sender or an earlier one.
Belongs(tx) ==
    /\ tx.from \in Honest /\ tx.valid \in BOOLEAN
    /\ tx.group.epoch \in Nat /\ tx.group.epoch <= view[tx.from].epoch
    /\ view[tx.from].phase # "WaitingForGenesis"
    /\ tx.from \in Sound /\ tx.group.epoch = view[tx.from].epoch =>
        view[tx.from].members \subseteq tx.group.members

QueuedOk == \A tx \in pool : Belongs(tx)

\* Who has queued a commitment has the secrets of it.
OwnCommit(v, s, tx) ==
    tx.kind = "commit" /\ inGroup(s, tx.group) /\ s.phase = "CollectingCommitments" =>
        tx.version \in {0, s.own}

CommitsOwn == \A tx \in pool : tx.from \in Sound => OwnCommit(tx.from, view[tx.from], tx)

Alike == \A u, v \in Sound : view[u].epoch = view[v].epoch => Same(view[u], view[v])

LockInv ==
    /\ block \in Nat
    /\ \A v \in Honest : EpochOk(view[v])
    /\ RoundsOpen /\ EpochsAlike /\ GenesisOk /\ QueuedOk /\ CommitsOwn /\ Alike

\* s goes on to r.
Onward(s, r) ==
    /\ EpochOk(r.s) /\ s.epoch <= r.s.epoch
    /\ \A a \in r.acts : a.group = groupOf(s)
    /\ s.phase = "WaitingForGenesis" => r.acts = {}
    /\ r.s.phase = "WaitingForGenesis" => s.phase = "WaitingForGenesis"
    /\ s.phase # "WaitingForGenesis" /\ r.s.epoch = s.epoch => r.s.members \subseteq s.members

\* Every transition does.
LEMMA MovesOnward ==
  ASSUME NEW s, NEW r, NEW C, Moves(s, r, C)
  PROVE  Onward(s, r)
  BY DEF Moves, Onward

\* Queued transactions still belong to their senders after a step.
LEMMA QueueForward ==
  ASSUME \A v \in Honest : EpochOk(view[v]), QueuedOk, NEW r,
         \A v \in Honest : view'[v] = r[v].s /\ Onward(view[v], r[v]),
         \A v \in Sound' : view'[v].epoch = view[v].epoch => v \in Sound,
         \A tx \in pool' : tx \in pool \/ \E v \in Honest : tx \in encoded(v, r[v].acts)
  PROVE  QueuedOk'
<1>1. SUFFICES ASSUME NEW tx \in pool' PROVE Belongs(tx)'
  BY DEF QueuedOk
<1>2. CASE tx \in pool
  <2>1. PICK v \in Honest : v = tx.from
    BY <1>2 DEF QueuedOk, Belongs
  <2>2. PICK s : s = view[v]
    OBVIOUS
  <2>3. /\ tx.valid \in BOOLEAN /\ tx.group.epoch \in Nat /\ tx.group.epoch <= s.epoch
        /\ s.phase # "WaitingForGenesis"
        /\ v \in Sound /\ tx.group.epoch = s.epoch => s.members \subseteq tx.group.members
    BY <1>2, <2>1, <2>2 DEF QueuedOk, Belongs
  <2>4. PICK t : t = view'[v]
    OBVIOUS
  <2>5. /\ EpochOk(t) /\ s.epoch <= t.epoch /\ s.epoch \in Nat /\ t.epoch \in Nat
        /\ t.phase = "WaitingForGenesis" => s.phase = "WaitingForGenesis"
        /\ t.epoch = s.epoch => t.members \subseteq s.members
    BY <2>2, <2>3, <2>4 DEF Onward, EpochOk
  <2>6. ASSUME v \in Sound', tx.group.epoch = t.epoch PROVE t.members \subseteq tx.group.members
    <3>1. s.epoch = t.epoch
      BY <2>3, <2>5, <2>6
    <3>2. v \in Sound
      BY <2>2, <2>4, <2>6, <3>1
    <3> QED BY <2>3, <2>5, <2>6, <3>1, <3>2
  <2> QED BY <2>1, <2>3, <2>4, <2>5, <2>6 DEF Belongs
<1>3. ASSUME NEW v \in Honest, tx \in encoded(v, r[v].acts) PROVE Belongs(tx)'
  <2>1. PICK a \in r[v].acts : tx.from = v /\ tx.group = a.group /\ tx.valid = TRUE
    BY <1>3 DEF encoded
  <2>2. PICK s : s = view[v]
    OBVIOUS
  <2>3. PICK t : t = view'[v]
    OBVIOUS
  <2>4. /\ EpochOk(t) /\ s.epoch <= t.epoch /\ s.epoch \in Nat
        /\ a.group = groupOf(s) /\ s.phase # "WaitingForGenesis"
        /\ t.phase = "WaitingForGenesis" => s.phase = "WaitingForGenesis"
        /\ s.phase # "WaitingForGenesis" /\ t.epoch = s.epoch => t.members \subseteq s.members
    BY <2>1, <2>2, <2>3 DEF Onward, EpochOk
  <2>5. tx.group.epoch = s.epoch /\ tx.group.members = s.members
    BY <2>1, <2>4 DEF groupOf, groupId
  <2> QED BY <2>1, <2>3, <2>4, <2>5 DEF Belongs
<1> QED BY <1>2, <1>3

\* The senders of queued commitments still have the secrets of them.
LEMMA CommitsForward ==
  ASSUME \A v \in Honest : EpochOk(view[v]), QueuedOk, CommitsOwn, NEW r,
         \A v \in Honest : view'[v] = r[v].s /\ Onward(view[v], r[v]),
         \A v \in Sound : RoundOpen(v, view[v]) /\ Goes(v, view[v], r[v]),
         \A v \in Sound' : view'[v].epoch = view[v].epoch => v \in Sound,
         \A tx \in pool' : \/ tx \in pool
                           \/ \E v \in Honest : tx \in encoded(v, r[v].acts) /\ tx.kind # "commit"
  PROVE  CommitsOwn'
<1>1. SUFFICES ASSUME NEW tx \in pool', tx.from \in Sound', tx.kind = "commit",
                      inGroup(view'[tx.from], tx.group),
                      view'[tx.from].phase = "CollectingCommitments"
               PROVE  tx.version \in {0, view'[tx.from].own}
  BY DEF CommitsOwn, OwnCommit
<1>2. tx \in pool
  BY <1>1
<1>3. PICK v \in Honest : v = tx.from
  BY <1>2 DEF QueuedOk, Belongs
<1>4. PICK s : s = view[v]
  OBVIOUS
<1>5. PICK t : t = view'[v]
  OBVIOUS
<1>6. tx.group.epoch = t.epoch /\ tx.group.members = t.members /\ groupOf(t) = tx.group
  BY <1>1, <1>3, <1>5 DEF inGroup, groupId, groupOf
<1>7. /\ tx.group.epoch <= s.epoch /\ s.phase # "WaitingForGenesis"
      /\ v \in Sound /\ tx.group.epoch = s.epoch => s.members \subseteq tx.group.members
  BY <1>2, <1>3, <1>4 DEF QueuedOk, Belongs
<1>8. /\ s.epoch <= t.epoch /\ s.epoch \in Nat /\ t.epoch \in Nat
      /\ t.epoch = s.epoch => t.members \subseteq s.members
  BY <1>4, <1>5, <1>7 DEF Onward, EpochOk
<1>9. s.epoch = t.epoch
  BY <1>6, <1>7, <1>8
<1>10. v \in Sound
  BY <1>1, <1>3, <1>4, <1>5, <1>9
<1>11. s.members = t.members
  BY <1>6, <1>7, <1>8, <1>9, <1>10
<1>12. Renews(s, t)
  BY <1>4, <1>5, <1>10 DEF Goes
<1>13. s.phase = "CollectingCommitments" /\ groupOf(t) = groupOf(s) /\ t.own = s.own
  BY <1>1, <1>3, <1>5, <1>9, <1>11, <1>12 DEF Renews
<1>14. inGroup(s, tx.group)
  BY <1>6, <1>13 DEF inGroup, groupOf
<1>15. tx.version \in {0, s.own}
  BY <1>1, <1>2, <1>3, <1>4, <1>10, <1>13, <1>14 DEF CommitsOwn, OwnCommit
<1> QED BY <1>3, <1>5, <1>13, <1>15

\* The rounds of the validators that lost nothing stay open.
LEMMA RoundsForward ==
  ASSUME RoundsOpen, NEW r, \A v \in Honest : view'[v] = r[v].s,
         \A v \in Sound : Goes(v, view[v], r[v]),
         \A v \in Sound' : v \in Sound \/ RoundOpen(v, r[v].s)
  PROVE  RoundsOpen'
<1>1. SUFFICES ASSUME NEW v \in Sound' PROVE RoundOpen(v, view'[v])
  BY DEF RoundsOpen, RoundOpen, Lacks
<1>2. v \in Honest
  BY DEF Sound
<1>3. CASE v \in Sound
  BY <1>2, <1>3 DEF RoundsOpen, Goes
<1>4. CASE RoundOpen(v, r[v].s)
  BY <1>2, <1>4
<1> QED BY <1>3, <1>4

\* What is known of genesis holds on.
LEMMA GenesisForward ==
  ASSUME GenesisOk,
         \A g \in DOMAIN chain' : chain'[g].confirmed \subseteq g.members,
         \A v \in Honest : InGenesis(view'[v]) =>
            /\ InGenesis(view[v]) /\ view'[v].members = view[v].members
            /\ \A p \in view'[v].confirmations :
                  p \in view[v].confirmations \/ p \in chain'[G0].confirmed,
         \A v \in Honest : InGenesis(view'[v]) /\ G0 \in DOMAIN chain =>
            G0 \in DOMAIN chain' /\ chain[G0].confirmed \subseteq chain'[G0].confirmed,
         \A u \in Honest : view[u].epoch = 0 /\ view'[u].epoch # 0 => chain'[G0].confirmed = activeIn(0)
  PROVE  GenesisOk'
<1>1. SUFFICES ASSUME NEW v \in Honest, InGenesis(view'[v])
               PROVE  /\ view'[v].members = activeIn(0)
                      /\ G0 \in DOMAIN chain'
                      /\ view'[v].confirmations \subseteq chain'[G0].confirmed
                      /\ \A u \in Honest : view'[u].epoch # 0 => chain'[G0].confirmed = activeIn(0)
  BY DEF GenesisOk, InGenesis, G0
<1>2. /\ view[v].members = activeIn(0) /\ G0 \in DOMAIN chain
      /\ view[v].confirmations \subseteq chain[G0].confirmed
      /\ \A u \in Honest : view[u].epoch # 0 => chain[G0].confirmed = activeIn(0)
  BY <1>1 DEF GenesisOk
<1>3. G0 \in DOMAIN chain' /\ chain[G0].confirmed \subseteq chain'[G0].confirmed
  BY <1>1, <1>2
<1>4. chain'[G0].confirmed \subseteq activeIn(0)
  <2>1. G0.members = activeIn(0)
    BY DEF G0, groupId
  <2> QED BY <1>3, <2>1
<1>5. view'[v].confirmations \subseteq chain'[G0].confirmed
  BY <1>1, <1>2, <1>3
<1>6. ASSUME NEW u \in Honest, view'[u].epoch # 0 PROVE chain'[G0].confirmed = activeIn(0)
  <2>1. CASE view[u].epoch = 0
    BY <1>6, <2>1
  <2>2. CASE view[u].epoch # 0
    BY <1>2, <1>3, <1>4, <2>2
  <2> QED BY <2>1, <2>2
<1> QED BY <1>1, <1>2, <1>3, <1>5, <1>6

----------------------------------------------------------------------------
(* Events                                                                  *)

\* Nobody commits on an event.
NoCommit(r) == \A a \in r.acts : a.kind # "commit"

\* The last commitment.
LEMMA FinalizeKinds ==
  ASSUME NEW v, NEW s, ViewOk(v, s), NEW d, NEW r, r = finalizeKeyGenCommitments(v, s, d)
  PROVE  r.s.epoch = s.epoch /\ NoCommit(r)
<1>1. CASE matchesCommitment(v, s)
  BY <1>1, FinalizeIs DEF NoCommit
<1>2. CASE ~matchesCommitment(v, s)
  <2>1. r = rolloverFailure(s)
    BY <1>2 DEF finalizeKeyGenCommitments
  <2> QED BY <2>1, FailureIs DEF NoCommit
<1> QED BY <1>1, <1>2

\* Nothing.
LEMMA StayKinds ==
  ASSUME NEW s
  PROVE  stay(s).s = s /\ stay(s).acts = {} /\ NoCommit(stay(s))
  BY ResultOf DEF NoCommit

\* A restart.
LEMMA RestartKinds ==
  ASSUME NEW v, NEW s, NEW excluded, NEW d, NEW r, r = restartKeyGenExcluding(v, s, excluded, d)
  PROVE  r.s.epoch = s.epoch /\ NoCommit(r)
<1>1. PICK members : members = IF s.epoch = 0 THEN {} ELSE participantsSet(s.epoch, excluded)
  OBVIOUS
<1>2. CASE members = {}
  <2>1. r = rolloverFailure(s)
    BY <1>1, <1>2 DEF restartKeyGenExcluding
  <2> QED BY <2>1, FailureIs DEF NoCommit
<1>3. CASE members # {}
  <2>1. r = startKeyGen(v, s, s.epoch, members, d)
    BY <1>1, <1>3 DEF restartKeyGenExcluding
  <2> QED BY <2>1, StartIs DEF NoCommit
<1> QED BY <1>2, <1>3

\* KeyGenCommitted.
LEMMA CommittedKinds ==
  ASSUME NEW v, NEW s, ViewOk(v, s), NEW b, NEW g, NEW p \in g.members, NEW version,
         NEW r, r = onCommitted(v, s, b, g, p, version)
  PROVE  r.s.epoch = s.epoch /\ NoCommit(r)
<1>1. CASE ~(s.phase = "CollectingCommitments" /\ inGroup(s, g))
  <2>1. r = stay(s)
    BY <1>1 DEF onCommitted
  <2> QED BY <2>1, StayKinds
<1>2. CASE s.phase = "CollectingCommitments" /\ inGroup(s, g)
  <2>1. p \in s.members
    BY <1>2 DEF inGroup, groupId
  <2>2. PICK x : x = Counted(s, p, version)
    OBVIOUS
  <2>3. ViewOk(v, x) /\ x.epoch = s.epoch
    BY <2>1, <2>2, CountedIs
  <2>4. r = IF complete(x, DOMAIN x.commitments) /\ x.own # NoSecrets
            THEN finalizeKeyGenCommitments(v, x, pushed(s, b)) ELSE stay(x)
    BY <1>2, <2>2 DEF onCommitted, Counted
  <2>5. CASE r = stay(x)
    BY <2>3, <2>5, StayKinds
  <2>6. CASE r = finalizeKeyGenCommitments(v, x, pushed(s, b))
    BY <2>3, <2>6, FinalizeKinds
  <2> QED BY <2>4, <2>5, <2>6
<1> QED BY <1>1, <1>2

\* KeyGenSecretShared.
LEMMA SharedKinds ==
  ASSUME NEW v, NEW s, ViewOk(v, s), NEW b, NEW g, NEW p, NEW valid \in BOOLEAN, NEW bad,
         NEW r, r = onSecretShared(v, s, b, g, p, valid, bad)
  PROVE  r.s.epoch = s.epoch /\ NoCommit(r)
<1>1. CASE ~(s.phase = "CollectingShares" /\ inGroup(s, g) /\ valid)
  <2>1. r = stay(s)
    BY <1>1 DEF onSecretShared
  <2> QED BY <2>1, StayKinds
<1>2. CASE s.phase = "CollectingShares" /\ inGroup(s, g) /\ valid
  <2>1. PICK q : q = onSecretShared(v, s, b, g, p, TRUE, bad)
    OBVIOUS
  <2>2. valid = TRUE
    BY <1>2
  <2>3. r = q
    BY <2>1, <2>2
  <2>4. AfterShare(s, q.s, b, p) /\ Actions(s, q.acts)
    BY <1>2, <2>1, SharedIs
  <2> QED BY <2>3, <2>4 DEF AfterShare, Actions, NoCommit
<1> QED BY <1>1, <1>2

\* KeyGenComplained.
LEMMA ComplainedKinds ==
  ASSUME NEW v, NEW s, ViewOk(v, s), NEW b, NEW g, NEW plaintiff, NEW accused,
         NEW r, r = onComplained(v, s, b, g, plaintiff, accused)
  PROVE  r.s.epoch = s.epoch /\ NoCommit(r)
<1>1. DOMAIN s = Fields
  BY DEF ViewOk
<1>2. PICK x : x = Blamed(s, accused)
  OBVIOUS
<1>3. x.epoch = s.epoch
  BY <1>1, <1>2, BlamedIs
<1>4. \/ r = stay(s)
      \/ r = restartKeyGenExcluding(v, x, alsoExclude(s, {accused}), pushed(s, b))
      \/ r.s = x /\ Actions(s, r.acts)
  BY <1>1, <1>2, ComplainedCases
<1>5. CASE r = stay(s)
  BY <1>5, StayKinds
<1>6. CASE r = restartKeyGenExcluding(v, x, alsoExclude(s, {accused}), pushed(s, b))
  BY <1>3, <1>6, RestartKinds
<1>7. CASE r.s = x /\ Actions(s, r.acts)
  BY <1>3, <1>7 DEF Actions, NoCommit
<1> QED BY <1>4, <1>5, <1>6, <1>7

\* KeyGenComplaintResponded.
LEMMA RespondedKinds ==
  ASSUME NEW v, NEW s, ViewOk(v, s), NEW b, NEW g, NEW plaintiff, NEW accused, NEW valid \in BOOLEAN,
         NEW r, r = onComplaintResponded(v, s, b, g, plaintiff, accused, valid)
  PROVE  r.s.epoch = s.epoch /\ NoCommit(r)
<1>1. DOMAIN s = Fields
  BY DEF ViewOk
<1>2. \/ r = stay(s)
      \/ r = restartKeyGenExcluding(v, s, alsoExclude(s, {accused}), pushed(s, b))
      \/ AfterAnswer(s, r.s, accused) /\ Actions(s, r.acts)
  BY <1>1, RespondedCases
<1>3. CASE r = stay(s)
  BY <1>3, StayKinds
<1>4. CASE r = restartKeyGenExcluding(v, s, alsoExclude(s, {accused}), pushed(s, b))
  BY <1>4, RestartKinds
<1>5. CASE AfterAnswer(s, r.s, accused) /\ Actions(s, r.acts)
  BY <1>5 DEF AfterAnswer, Actions, NoCommit
<1> QED BY <1>2, <1>3, <1>4, <1>5

\* v passes genesis with the confirmation tx.
Passes(v, s, tx, r) ==
    /\ tx.kind = "confirm" /\ s.epoch = 0 /\ s.phase = "CollectingConfirmations"
    /\ inGroup(s, tx.group) /\ IsLast(s, tx.from) /\ r = Passed(v, s, block)

\* KeyGenConfirmed.
LEMMA ConfirmedKinds ==
  ASSUME NEW v, NEW s, ViewOk(v, s), NEW tx, tx.kind = "confirm",
         NEW r, r = onConfirmed(v, s, block, tx.group, tx.from)
  PROVE  (r.s.epoch = s.epoch \/ Passes(v, s, tx, r)) /\ NoCommit(r)
<1>1. PICK g : g = tx.group
  OBVIOUS
<1>2. PICK p : p = tx.from
  OBVIOUS
<1>3. \/ r = stay(s)
      \/ r = stay(Confirmed(s, p))
      \/ /\ s.phase = "CollectingConfirmations" /\ inGroup(s, g) /\ IsLast(s, p)
         /\ s.epoch = 0 /\ r = Passed(v, s, block)
      \/ r = stay(Signing(s))
  BY <1>1, <1>2, ConfirmedCases
<1>4. CASE r = stay(s)
  BY <1>4, StayKinds
<1>5. CASE r = stay(Confirmed(s, p))
  <2>1. PICK x : x = Confirmed(s, p)
    OBVIOUS
  <2>2. x.epoch = s.epoch
    BY <2>1 DEF Confirmed, ViewOk, Fields
  <2> QED BY <1>5, <2>1, <2>2, StayKinds
<1>6. CASE /\ s.phase = "CollectingConfirmations" /\ inGroup(s, g) /\ IsLast(s, p)
           /\ s.epoch = 0 /\ r = Passed(v, s, block)
  <2>1. NoCommit(r)
    <3>1. r.acts = {}
      <4>1. PICK x : x = finalizeKeyGen(s, idle(s, "EpochSkipped", nextNumber(block)))
        OBVIOUS
      <4>2. PICK next : next = nextNumber(block)
        OBVIOUS
      <4>3. PICK members : members = participantsSet(next, {})
        OBVIOUS
      <4>4. PICK d : d = block + KeyGenTimeout
        OBVIOUS
      <4>5. r = stay(x) \/ r = startKeyGen(v, x, next, members, d)
        BY <1>6, <4>1, <4>2, <4>3, <4>4 DEF Passed
      <4> QED BY <4>5, StartIs, ResultOf
    <3> QED BY <3>1 DEF NoCommit
  <2> QED BY <1>1, <1>2, <1>6, <2>1 DEF Passes
<1>7. CASE r = stay(Signing(s))
  <2>1. PICK x : x = Signing(s)
    OBVIOUS
  <2>2. x.epoch = s.epoch
    BY <2>1, SigningIs
  <2> QED BY <1>7, <2>1, <2>2, StayKinds
<1> QED BY <1>3, <1>4, <1>5, <1>6, <1>7

\* A transaction the contract accepts.
Sent(tx) ==
    /\ tx.kind \in Kinds /\ tx.valid \in BOOLEAN /\ tx.from \in tx.group.members
    /\ tx.kind = "complain" => tx.peer \in tx.group.members

\* What the event of a transaction does to the state s.
LEMMA EventMoves ==
  ASSUME NEW v, NEW s, s = view[v], ViewOk(v, s), EpochOk(s), block \in Nat, NEW tx, Sent(tx),
         NEW r, r = onEvent(v, tx)
  PROVE  /\ Moves(s, r, {}) \/ (tx.kind = "confirm" /\ inGroup(s, tx.group) /\ Moves(s, r, {tx.from}))
         /\ (tx.from = v => OwnCommit(v, s, tx)) => Goes(v, s, r)
         /\ r.s.epoch = s.epoch \/ Passes(v, s, tx, r)
         /\ NoCommit(r)
<1>0. /\ tx.valid \in BOOLEAN /\ tx.from \in tx.group.members
      /\ tx.kind \in {"commit", "share", "complain", "respond", "confirm"}
  BY DEF Sent, Kinds
<1>1. CASE tx.kind = "commit"
  <2>1. r = onCommitted(v, s, block, tx.group, tx.from, tx.version)
    BY <1>1 DEF onEvent
  <2>2. r.s.epoch = s.epoch /\ NoCommit(r)
    BY <1>0, <2>1, CommittedKinds
  <2>3. CASE s.phase = "CollectingCommitments" /\ inGroup(s, tx.group)
    <3>1. /\ Moves(s, r, {})
          /\ (tx.from = v => tx.version \in {0, s.own}) => Goes(v, s, r)
      BY <1>0, <2>1, CommittedMoves
    <3> QED BY <1>1, <2>2, <2>3, <3>1 DEF OwnCommit
  <2>4. CASE ~(s.phase = "CollectingCommitments" /\ inGroup(s, tx.group))
    <3>1. r = stay(s)
      BY <2>1, <2>4 DEF onCommitted
    <3>2. Moves(s, r, {}) /\ Goes(v, s, r)
      BY <3>1, StayMoves
    <3> QED BY <2>2, <3>2
  <2> QED BY <2>3, <2>4
<1>2. CASE tx.kind = "share"
  <2>1. r = onSecretShared(v, s, block, tx.group, tx.from, tx.valid, tx.bad)
    BY <1>2 DEF onEvent
  <2>2. r.s.epoch = s.epoch /\ NoCommit(r)
    BY <1>0, <2>1, SharedKinds
  <2>3. Moves(s, r, {}) /\ Goes(v, s, r)
    BY <1>0, <2>1, SharedMoves
  <2> QED BY <2>2, <2>3
<1>3. CASE tx.kind = "complain"
  <2>1. r = onComplained(v, s, block, tx.group, tx.from, tx.peer)
    BY <1>3 DEF onEvent
  <2>2. r.s.epoch = s.epoch /\ NoCommit(r)
    BY <2>1, ComplainedKinds
  <2>3. tx.peer \in tx.group.members
    BY <1>3 DEF Sent
  <2>4. Moves(s, r, {}) /\ Goes(v, s, r)
    BY <2>1, <2>3, ComplainedMoves
  <2> QED BY <2>2, <2>4
<1>4. CASE tx.kind = "respond"
  <2>1. r = onComplaintResponded(v, s, block, tx.group, tx.peer, tx.from, tx.valid)
    BY <1>4 DEF onEvent
  <2>2. r.s.epoch = s.epoch /\ NoCommit(r)
    BY <1>0, <2>1, RespondedKinds
  <2>3. Moves(s, r, {}) /\ Goes(v, s, r)
    BY <1>0, <2>1, RespondedMoves
  <2> QED BY <2>2, <2>3
<1>5. CASE tx.kind = "confirm"
  <2>1. r = onConfirmed(v, s, block, tx.group, tx.from)
    BY <1>5 DEF onEvent
  <2>2. (r.s.epoch = s.epoch \/ Passes(v, s, tx, r)) /\ NoCommit(r)
    BY <1>5, <2>1, ConfirmedKinds
  <2>3. CASE inGroup(s, tx.group)
    <3>1. Moves(s, r, {tx.from}) /\ Goes(v, s, r)
      BY <1>0, <2>1, ConfirmedMoves
    <3> QED BY <1>5, <2>2, <2>3, <3>1
  <2>4. CASE ~inGroup(s, tx.group)
    <3>1. r = stay(s)
      BY <2>1, <2>4 DEF onConfirmed
    <3>2. Moves(s, r, {}) /\ Goes(v, s, r)
      BY <3>1, StayMoves
    <3> QED BY <2>2, <3>2
  <2> QED BY <2>3, <2>4
<1> QED BY <1>0, <1>1, <1>2, <1>3, <1>4, <1>5

\* Before genesis nothing counts.
LEMMA EventWaits ==
  ASSUME NEW v, view[v].phase = "WaitingForGenesis", NEW tx, tx.kind \in Kinds
  PROVE  onEvent(v, tx) = stay(view[v])
<1>1. CASE tx.kind = "commit"
  BY <1>1 DEF onEvent, onCommitted
<1>2. CASE tx.kind = "share"
  BY <1>2 DEF onEvent, onSecretShared
<1>3. CASE tx.kind = "complain"
  BY <1>3 DEF onEvent, onComplained, countsComplaint
<1>4. CASE tx.kind = "respond"
  BY <1>4 DEF onEvent, onComplaintResponded, countsResponse
<1>5. CASE tx.kind = "confirm"
  BY <1>5 DEF onEvent, onConfirmed
<1> QED BY <1>1, <1>2, <1>3, <1>4, <1>5 DEF Kinds

\* Sound validators that say the same handle an event alike.
LEMMA EventSame ==
  ASSUME NEW u, NEW s, s = view[u], ViewOk(u, s), RoundOpen(u, s),
         NEW v, NEW t, t = view[v], ViewOk(v, t), RoundOpen(v, t),
         Same(s, t), NEW tx, Sent(tx),
         tx.from = u => OwnCommit(u, s, tx), tx.from = v => OwnCommit(v, t, tx)
  PROVE  Same(onEvent(u, tx).s, onEvent(v, tx).s)
<1>0. /\ tx.valid \in BOOLEAN /\ tx.from \in tx.group.members
      /\ tx.kind \in {"commit", "share", "complain", "respond", "confirm"}
  BY DEF Sent, Kinds
<1>1. CASE tx.kind = "commit"
  <2>1. /\ onEvent(u, tx) = onCommitted(u, s, block, tx.group, tx.from, tx.version)
        /\ onEvent(v, tx) = onCommitted(v, t, block, tx.group, tx.from, tx.version)
    BY <1>1 DEF onEvent
  <2>2. s.phase = t.phase /\ (inGroup(s, tx.group) <=> inGroup(t, tx.group))
    BY SameFields DEF inGroup
  <2>3. CASE s.phase = "CollectingCommitments" /\ inGroup(s, tx.group)
    <3>1. tx.from = u => tx.version \in {0, s.own}
      BY <1>1, <2>3 DEF OwnCommit
    <3>2. tx.from = v => tx.version \in {0, t.own}
      BY <1>1, <2>2, <2>3 DEF OwnCommit
    <3> QED BY <1>0, <2>1, <3>1, <3>2, CommittedSame
  <2>4. CASE ~(s.phase = "CollectingCommitments" /\ inGroup(s, tx.group))
    <3>1. onEvent(u, tx) = stay(s) /\ onEvent(v, tx) = stay(t)
      BY <2>1, <2>2, <2>4 DEF onCommitted
    <3> QED BY <3>1, ResultOf
  <2> QED BY <2>3, <2>4
<1>2. CASE tx.kind = "share"
  <2>1. /\ onEvent(u, tx) = onSecretShared(u, s, block, tx.group, tx.from, tx.valid, tx.bad)
        /\ onEvent(v, tx) = onSecretShared(v, t, block, tx.group, tx.from, tx.valid, tx.bad)
    BY <1>2 DEF onEvent
  <2> QED BY <1>0, <2>1, SharedSame
<1>3. CASE tx.kind = "complain"
  <2>1. /\ onEvent(u, tx) = onComplained(u, s, block, tx.group, tx.from, tx.peer)
        /\ onEvent(v, tx) = onComplained(v, t, block, tx.group, tx.from, tx.peer)
    BY <1>3 DEF onEvent
  <2> QED BY <2>1, ComplainedSame
<1>4. CASE tx.kind = "respond"
  <2>1. /\ onEvent(u, tx) = onComplaintResponded(u, s, block, tx.group, tx.peer, tx.from, tx.valid)
        /\ onEvent(v, tx) = onComplaintResponded(v, t, block, tx.group, tx.peer, tx.from, tx.valid)
    BY <1>4 DEF onEvent
  <2> QED BY <1>0, <2>1, RespondedSame
<1>5. CASE tx.kind = "confirm"
  <2>1. /\ onEvent(u, tx) = onConfirmed(u, s, block, tx.group, tx.from)
        /\ onEvent(v, tx) = onConfirmed(v, t, block, tx.group, tx.from)
    BY <1>5 DEF onEvent
  <2> QED BY <2>1, ConfirmedSame
<1> QED BY <1>0, <1>1, <1>2, <1>3, <1>4, <1>5

\* Confirmations are those of members, and are kept.
LEMMA ConfirmsKept ==
  ASSUME ShareInv, GenesisOk, NEW tx, tx.kind \in Kinds, accepts(tx),
         chain' = put(chain, tx.group, written(tx))
  PROVE  /\ \A g \in DOMAIN chain' : chain'[g].confirmed \subseteq g.members
         /\ \A g \in DOMAIN chain : g \in DOMAIN chain' /\ chain[g].confirmed \subseteq chain'[g].confirmed
         /\ tx.kind = "confirm" => tx.from \in chain'[tx.group].confirmed
<1>1. PICK old : old = ceremony(tx.group)
  OBVIOUS
<1>2. PICK new : new = written(tx)
  OBVIOUS
<1>3. DOMAIN old = CeremonyFields
  BY <1>1, CeremonyIs DEF ShareInv
<1>4. tx.from \in tx.group.members
  BY DEF accepts
<1>5. old.confirmed \subseteq tx.group.members /\ (tx.group \in DOMAIN chain => old = chain[tx.group])
  BY <1>1 DEF ceremony, GenesisOk, opened
<1>6. new.confirmed = IF tx.kind = "confirm" THEN old.confirmed \cup {tx.from} ELSE old.confirmed
  <2>1. CASE tx.kind = "commit"
    BY <1>1, <1>2, <1>3, <2>1 DEF written, CeremonyFields
  <2>2. CASE tx.kind = "share"
    BY <1>1, <1>2, <1>3, <2>2 DEF written, CeremonyFields
  <2>3. CASE tx.kind = "complain"
    BY <1>1, <1>2, <1>3, <2>3 DEF written, CeremonyFields
  <2>4. CASE tx.kind = "respond"
    BY <1>1, <1>2, <1>3, <2>4 DEF written, CeremonyFields
  <2>5. CASE tx.kind = "confirm"
    BY <1>1, <1>2, <1>3, <2>5 DEF written, CeremonyFields
  <2> QED BY <2>1, <2>2, <2>3, <2>4, <2>5 DEF Kinds
<1>7. new.confirmed \subseteq tx.group.members /\ old.confirmed \subseteq new.confirmed
  BY <1>4, <1>5, <1>6
<1>8. DOMAIN chain' = DOMAIN chain \cup {tx.group} /\ chain'[tx.group] = new
  BY <1>2 DEF put
<1>9. \A h \in DOMAIN chain : h # tx.group => chain'[h] = chain[h]
  BY DEF put
<1>10. \A g \in DOMAIN chain' : chain'[g].confirmed \subseteq g.members
  BY <1>7, <1>8, <1>9 DEF GenesisOk
<1>11. \A g \in DOMAIN chain : g \in DOMAIN chain' /\ chain[g].confirmed \subseteq chain'[g].confirmed
  BY <1>5, <1>7, <1>8, <1>9
<1>12. tx.kind = "confirm" => tx.from \in chain'[tx.group].confirmed
  BY <1>6, <1>8
<1> QED BY <1>10, <1>11, <1>12

\* Who passes genesis has the last confirmation, and is not preceded.
LEMMA PassingIs ==
  ASSUME ShareInv, LockInv, NEW tx, Sent(tx), accepts(tx),
         chain' = put(chain, tx.group, written(tx)),
         NEW u \in Honest, NEW r, Passes(u, view[u], tx, r)
  PROVE  /\ chain'[G0].confirmed = activeIn(0)
         /\ \A w \in Honest : view[w].epoch = 0
<1>1. tx.kind = "confirm" /\ tx.kind \in Kinds
  BY DEF Passes, Kinds
<1>2. GenesisOk
  BY DEF LockInv
<1>3. InGenesis(view[u])
  BY DEF Passes, InGenesis, Collecting
<1>4. /\ view[u].members = activeIn(0) /\ G0 \in DOMAIN chain
      /\ view[u].confirmations \subseteq chain[G0].confirmed
      /\ \A w \in Honest : view[w].epoch # 0 => chain[G0].confirmed = activeIn(0)
  BY <1>2, <1>3 DEF GenesisOk
<1>5. tx.group = G0 /\ G0.members = activeIn(0)
  BY <1>3, <1>4 DEF Passes, inGroup, G0, groupId, InGenesis
<1>6. chain[G0].confirmed # activeIn(0)
  BY <1>1, <1>4, <1>5 DEF accepts, ceremony
<1>7. /\ chain'[G0].confirmed \subseteq activeIn(0)
      /\ chain[G0].confirmed \subseteq chain'[G0].confirmed
      /\ tx.from \in chain'[G0].confirmed
  <2>1. /\ \A g \in DOMAIN chain' : chain'[g].confirmed \subseteq g.members
        /\ \A g \in DOMAIN chain : g \in DOMAIN chain' /\ chain[g].confirmed \subseteq chain'[g].confirmed
        /\ tx.from \in chain'[tx.group].confirmed
    BY <1>1, <1>2, ConfirmsKept
  <2> QED BY <1>4, <1>5, <2>1
<1>8. PICK all : all = view[u].confirmations \cup {tx.from}
  OBVIOUS
<1>9. all \subseteq chain'[G0].confirmed
  BY <1>4, <1>7, <1>8
<1>10. Cardinality(all) = Cardinality(activeIn(0))
  BY <1>4, <1>8 DEF Passes, IsLast, complete
<1>11. IsFiniteSet(activeIn(0))
  BY ConfigAssumption, FS_Subset, ParticipantsOk
<1>12. all = activeIn(0)
  <2>1. all \subseteq activeIn(0)
    BY <1>7, <1>9
  <2> QED BY <1>10, <1>11, <2>1, FS_Subset
<1>13. chain'[G0].confirmed = activeIn(0)
  BY <1>7, <1>9, <1>12
<1> QED BY <1>4, <1>6, <1>13

\* A transaction is executed.
LEMMA ExecuteLock ==
  ASSUME ShareInv, LockInv, NEW tx, tx.kind \in Kinds, tx.valid \in BOOLEAN, execute(tx),
         tx.from \in Sound => OwnCommit(tx.from, view[tx.from], tx)
  PROVE  LockInv'
<1>1. PICK r : r = [v \in Honest |-> onEvent(v, tx)]
  OBVIOUS
<1>2. /\ accepts(tx)
      /\ chain' = put(chain, tx.group, written(tx))
      /\ Apply(Honest, r, block)
      /\ pool' = (pool \ {tx}) \cup UNION {encoded(v, r[v].acts) : v \in Honest}
      /\ lost' = {v \in lost : view'[v].epoch = view[v].epoch}
      /\ block' = block
  BY <1>1 DEF execute
<1>3. Sent(tx)
  BY <1>2 DEF Sent, accepts
<1>4. /\ block \in Nat /\ \A v \in Honest : EpochOk(view[v])
      /\ RoundsOpen /\ EpochsAlike /\ GenesisOk /\ QueuedOk /\ CommitsOwn /\ Alike
  BY DEF LockInv
<1>5. \A v \in Honest : ViewOk(v, view[v])
  BY DEF ShareInv, ViewsOk
<1>6. \A v \in Honest : view'[v] = r[v].s /\ r[v] = onEvent(v, tx)
  BY <1>1, <1>2 DEF Apply
<1>7. \A v \in Honest :
        /\ \/ Moves(view[v], r[v], {})
           \/ tx.kind = "confirm" /\ inGroup(view[v], tx.group) /\ Moves(view[v], r[v], {tx.from})
        /\ (tx.from = v => OwnCommit(v, view[v], tx)) => Goes(v, view[v], r[v])
        /\ r[v].s.epoch = view[v].epoch \/ Passes(v, view[v], tx, r[v])
        /\ NoCommit(r[v])
  BY <1>3, <1>4, <1>5, <1>6, EventMoves
<1>8. \A v \in Honest : Onward(view[v], r[v])
  BY <1>7, MovesOnward
<1>9. \A v \in Sound' : v \in Honest /\ (view'[v].epoch = view[v].epoch => v \in Sound)
  BY <1>2 DEF Sound
<1>10. \A v \in Sound : v \in Honest /\ Goes(v, view[v], r[v]) /\ RoundOpen(v, view[v])
  BY <1>4, <1>7 DEF Sound, RoundsOpen
<1>11. ASSUME NEW u \in Honest, NEW w \in Honest, r[u].s.epoch # view[u].epoch
       PROVE  /\ chain'[G0].confirmed = activeIn(0) /\ view[u].epoch = 0 /\ view[w].epoch = 0
              /\ r[u] = Passed(u, view[u], block)
              /\ r[w].s.epoch = 0 \/ r[w] = Passed(w, view[w], block)
  <2>1. Passes(u, view[u], tx, r[u])
    BY <1>7, <1>11
  <2>2. chain'[G0].confirmed = activeIn(0) /\ \A v \in Honest : view[v].epoch = 0
    BY <1>2, <1>3, <2>1, PassingIs
  <2>3. r[u] = Passed(u, view[u], block)
    BY <2>1 DEF Passes
  <2>4. r[w].s.epoch = 0 \/ r[w] = Passed(w, view[w], block)
    BY <1>7, <2>2 DEF Passes
  <2> QED BY <2>2, <2>3, <2>4
<1>12. \A v \in Honest : EpochOk(view'[v])
  BY <1>6, <1>8 DEF Onward
<1>13. RoundsOpen'
  <2>1. ASSUME NEW v \in Sound', v \notin Sound PROVE RoundOpen(v, r[v].s)
    <3>1. v \in Honest /\ r[v].s.epoch # view[v].epoch
      BY <1>6, <1>9, <2>1
    <3>2. Passes(v, view[v], tx, r[v])
      BY <1>7, <3>1
    <3>3. Goes(v, view[v], r[v])
      <4>1. tx.kind # "commit"
        BY <3>2 DEF Passes
      <4>2. OwnCommit(v, view[v], tx)
        BY <4>1 DEF OwnCommit
      <4> QED BY <1>7, <3>1, <4>2
    <3> QED BY <3>1, <3>3 DEF Goes
  <2> QED BY <1>4, <1>6, <1>10, <2>1, RoundsForward
<1>14. EpochsAlike'
  <2>1. ASSUME NEW u \in Honest, NEW v \in Honest, view'[u].epoch # 0, view'[v].epoch # 0
        PROVE  view'[u].epoch = view'[v].epoch
    <3>1. CASE r[u].s.epoch # view[u].epoch
      <4>1. r[u] = Passed(u, view[u], block) /\ r[v] = Passed(v, view[v], block)
        BY <1>6, <1>11, <2>1, <3>1
      <4>2. Same(r[u].s, r[v].s)
        BY <4>1, SamePass
      <4> QED BY <1>6, <4>2, SameFields
    <3>2. CASE r[v].s.epoch # view[v].epoch
      <4>1. r[u] = Passed(u, view[u], block) /\ r[v] = Passed(v, view[v], block)
        BY <1>6, <1>11, <2>1, <3>2
      <4>2. Same(r[u].s, r[v].s)
        BY <4>1, SamePass
      <4> QED BY <1>6, <4>2, SameFields
    <3>3. CASE r[u].s.epoch = view[u].epoch /\ r[v].s.epoch = view[v].epoch
      BY <1>4, <1>6, <2>1, <3>3 DEF EpochsAlike
    <3> QED BY <3>1, <3>2, <3>3
  <2>2. ASSUME NEW u \in Honest, NEW v \in Honest, view'[u].phase = "WaitingForGenesis"
        PROVE  view'[v].phase = "WaitingForGenesis"
    <3>1. view[u].phase = "WaitingForGenesis"
      BY <1>6, <1>8, <2>2 DEF Onward
    <3>2. view[v].phase = "WaitingForGenesis"
      BY <1>4, <3>1 DEF EpochsAlike
    <3>3. r[v] = stay(view[v])
      BY <1>6, <3>2, EventWaits
    <3> QED BY <1>6, <3>2, <3>3, ResultOf
  <2> QED BY <2>1, <2>2 DEF EpochsAlike
<1>15. GenesisOk'
  <2>1. /\ \A g \in DOMAIN chain' : chain'[g].confirmed \subseteq g.members
        /\ \A g \in DOMAIN chain : g \in DOMAIN chain' /\ chain[g].confirmed \subseteq chain'[g].confirmed
        /\ tx.kind = "confirm" => tx.from \in chain'[tx.group].confirmed
    BY <1>2, <1>4, ConfirmsKept
  <2>2. ASSUME NEW v \in Honest, InGenesis(view'[v])
        PROVE  /\ InGenesis(view[v]) /\ view'[v].members = view[v].members
               /\ \A p \in view'[v].confirmations :
                     p \in view[v].confirmations \/ p \in chain'[G0].confirmed
    <3>1. view[v].phase # "WaitingForGenesis"
      <4>1. SUFFICES ASSUME view[v].phase = "WaitingForGenesis" PROVE FALSE
        OBVIOUS
      <4>2. view'[v] = view[v]
        BY <1>6, <4>1, EventWaits, ResultOf
      <4> QED BY <2>2, <4>1, <4>2 DEF InGenesis, Collecting
    <3>2. CASE Moves(view[v], r[v], {})
      BY <1>6, <2>2, <3>1, <3>2 DEF Moves
    <3>3. CASE tx.kind = "confirm" /\ inGroup(view[v], tx.group) /\ Moves(view[v], r[v], {tx.from})
      <4>1. /\ InGenesis(view[v]) /\ view'[v].members = view[v].members
            /\ view'[v].confirmations \subseteq view[v].confirmations \cup {tx.from}
        BY <1>6, <2>2, <3>1, <3>3 DEF Moves
      <4>2. view[v].members = activeIn(0)
        BY <1>4, <4>1 DEF GenesisOk
      <4>3. tx.group = G0
        BY <3>3, <4>1, <4>2 DEF inGroup, G0, InGenesis
      <4> QED BY <2>1, <3>3, <4>1, <4>3
    <3> QED BY <1>7, <3>2, <3>3
  <2>3. \A u \in Honest : view[u].epoch = 0 /\ view'[u].epoch # 0 => chain'[G0].confirmed = activeIn(0)
    BY <1>6, <1>11
  <2> QED BY <1>4, <2>1, <2>2, <2>3, GenesisForward
<1>16. QueuedOk'
  <2>1. \A t \in pool' : t \in pool \/ \E v \in Honest : t \in encoded(v, r[v].acts)
    BY <1>2
  <2> QED BY <1>4, <1>6, <1>8, <1>9, <2>1, QueueForward
<1>17. CommitsOwn'
  <2>1. \A t \in pool' : t \in pool \/ \E v \in Honest : t \in encoded(v, r[v].acts) /\ t.kind # "commit"
    <3>1. \A v \in Honest : \A t \in encoded(v, r[v].acts) : t.kind # "commit"
      <4>1. SUFFICES ASSUME NEW v \in Honest, NEW t \in encoded(v, r[v].acts) PROVE t.kind # "commit"
        OBVIOUS
      <4>2. PICK a \in r[v].acts : t.kind = a.kind
        BY DEF encoded
      <4> QED BY <1>7, <4>2 DEF NoCommit
    <3> QED BY <1>2, <3>1
  <2> QED BY <1>4, <1>6, <1>8, <1>9, <1>10, <2>1, CommitsForward
<1>18. Alike'
  <2>1. SUFFICES ASSUME NEW u \in Sound', NEW v \in Sound', view'[u].epoch = view'[v].epoch
                 PROVE  Same(view'[u], view'[v])
    BY DEF Alike, Same
  <2>2. u \in Honest /\ v \in Honest
    BY <1>9
  <2>3. CASE r[u].s.epoch = view[u].epoch /\ r[v].s.epoch = view[v].epoch
    <3>1. u \in Sound /\ v \in Sound
      BY <1>6, <1>9, <2>2, <2>3
    <3>2. Same(view[u], view[v])
      BY <1>4, <1>6, <2>1, <2>2, <2>3, <3>1 DEF Alike
    <3>3. RoundOpen(u, view[u]) /\ RoundOpen(v, view[v])
      BY <1>10, <3>1
    <3>4. (tx.from = u => OwnCommit(u, view[u], tx)) /\ (tx.from = v => OwnCommit(v, view[v], tx))
      BY <3>1
    <3>5. Same(onEvent(u, tx).s, onEvent(v, tx).s)
      BY <1>3, <1>5, <2>2, <3>2, <3>3, <3>4, EventSame
    <3> QED BY <1>6, <2>2, <3>5
  <2>4. CASE r[u].s.epoch # view[u].epoch \/ r[v].s.epoch # view[v].epoch
    <3>1. r[u] = Passed(u, view[u], block) /\ r[v] = Passed(v, view[v], block)
      BY <1>6, <1>11, <2>1, <2>2, <2>4
    <3> QED BY <1>6, <2>2, <3>1, SamePass
  <2> QED BY <2>3, <2>4
<1> QED BY <1>2, <1>4, <1>12, <1>13, <1>14, <1>15, <1>16, <1>17, <1>18 DEF LockInv, EpochOk

\* A block.
LEMMA NewBlockLock ==
  ASSUME ShareInv, LockInv, newBlock
  PROVE  LockInv'
<1>1. PICK b \in Nat : b = block + 1
  BY DEF LockInv
<1>2. PICK r : r = [v \in Honest |-> onNewBlock(v, view[v], b)]
  OBVIOUS
<1>3. /\ Apply(Honest, r, b)
      /\ chain' = [g \in DOMAIN chain \cap held(view') |-> chain[g]]
      /\ pool' = {tx \in pool : tx.group \in held(view')}
      /\ lost' = {v \in lost : view'[v].epoch = view[v].epoch}
      /\ block' = b
  BY <1>1, <1>2 DEF newBlock
<1>4. /\ block \in Nat /\ \A v \in Honest : EpochOk(view[v])
      /\ RoundsOpen /\ EpochsAlike /\ GenesisOk /\ QueuedOk /\ CommitsOwn /\ Alike
  BY DEF LockInv
<1>5. \A v \in Honest : ViewOk(v, view[v])
  BY DEF ShareInv, ViewsOk
<1>6. \A v \in Honest : view'[v] = r[v].s /\ r[v] = onNewBlock(v, view[v], b)
  BY <1>2, <1>3 DEF Apply
<1>7. \A v \in Honest :
        /\ Moves(view[v], r[v], {}) /\ Goes(v, view[v], r[v]) /\ r[v].acts = {}
        /\ Due(view[v], b) => r[v].s.epoch = nextNumber(b)
        /\ ~Due(view[v], b) => r[v].s.epoch = view[v].epoch
  BY <1>4, <1>5, <1>6, BlockMoves
<1>8. \A v \in Honest : Onward(view[v], r[v])
  BY <1>7, MovesOnward
<1>9. \A v \in Sound' : v \in Honest /\ (view'[v].epoch = view[v].epoch => v \in Sound)
  BY <1>3 DEF Sound
<1>10. \A v \in Sound : v \in Honest /\ Goes(v, view[v], r[v]) /\ RoundOpen(v, view[v])
  BY <1>4, <1>7 DEF Sound, RoundsOpen
<1>11. ASSUME NEW u \in Honest, NEW v \in Honest, Due(view[u], b), view[v].epoch # 0
       PROVE  Due(view[v], b)
  <2>1. view[u].epoch # 0 /\ ~(view[u].epoch >= nextNumber(b))
    BY <1>11 DEF Due
  <2>2. view[v].epoch = view[u].epoch
    BY <1>4, <1>11, <2>1 DEF EpochsAlike
  <2>3. view[v].phase # "Halted"
    BY <1>4, <1>11 DEF EpochOk
  <2> QED BY <1>11, <2>1, <2>2, <2>3 DEF Due
<1>12. \A v \in Honest : EpochOk(view'[v])
  BY <1>6, <1>8 DEF Onward
<1>13. RoundsOpen'
  <2>1. ASSUME NEW v \in Sound', v \notin Sound PROVE RoundOpen(v, r[v].s)
    <3>1. v \in Honest /\ r[v].s.epoch # view[v].epoch
      BY <1>6, <1>9, <2>1
    <3> QED BY <1>7, <3>1 DEF Goes
  <2> QED BY <1>4, <1>6, <1>10, <2>1, RoundsForward
<1>14. \A v \in Honest : view'[v].epoch # 0 => view[v].epoch # 0
  BY <1>6, <1>7 DEF Due
<1>15. EpochsAlike'
  <2>1. ASSUME NEW u \in Honest, NEW v \in Honest, view'[u].epoch # 0, view'[v].epoch # 0
        PROVE  view'[u].epoch = view'[v].epoch
    <3>1. view[u].epoch # 0 /\ view[v].epoch # 0 /\ view[u].epoch = view[v].epoch
      BY <1>4, <1>14, <2>1 DEF EpochsAlike
    <3>2. Due(view[u], b) <=> Due(view[v], b)
      BY <1>11, <3>1
    <3> QED BY <1>6, <1>7, <3>1, <3>2
  <2>2. ASSUME NEW u \in Honest, NEW v \in Honest, view'[u].phase = "WaitingForGenesis"
        PROVE  view'[v].phase = "WaitingForGenesis"
    <3>1. view[u].phase = "WaitingForGenesis"
      BY <1>6, <1>8, <2>2 DEF Onward
    <3>2. view[v].phase = "WaitingForGenesis" /\ view[v].epoch = 0
      BY <1>4, <3>1 DEF EpochsAlike, EpochOk
    <3>3. ~Due(view[v], b)
      BY <3>2 DEF Due
    <3>4. PICK q : q = keyGenTimeouts(v, view[v], b)
      OBVIOUS
    <3>5. q = stay(view[v])
      BY <3>2, <3>4 DEF keyGenTimeouts
    <3>6. Same(q.s, r[v].s)
      BY <1>5, <1>6, <3>3, <3>4, UndueIs
    <3>7. q.s.phase = r[v].s.phase
      BY <3>6, SameFields
    <3> QED BY <1>6, <3>2, <3>5, <3>7, ResultOf
  <2> QED BY <2>1, <2>2 DEF EpochsAlike
<1>16. GenesisOk'
  <2>1. \A g \in DOMAIN chain' : chain'[g].confirmed \subseteq g.members
    BY <1>3, <1>4 DEF GenesisOk
  <2>2. ASSUME NEW v \in Honest, InGenesis(view'[v])
        PROVE  /\ InGenesis(view[v]) /\ view'[v].members = view[v].members
               /\ \A p \in view'[v].confirmations :
                     p \in view[v].confirmations \/ p \in chain'[G0].confirmed
    <3>1. view[v].phase # "WaitingForGenesis"
      <4>1. SUFFICES ASSUME view[v].phase = "WaitingForGenesis" PROVE FALSE
        OBVIOUS
      <4>2. view[v].epoch = 0
        BY <1>4, <4>1 DEF EpochOk
      <4>3. ~Due(view[v], b)
        BY <4>2 DEF Due
      <4>4. PICK q : q = keyGenTimeouts(v, view[v], b)
        OBVIOUS
      <4>5. q = stay(view[v])
        BY <4>1, <4>4 DEF keyGenTimeouts
      <4>6. Same(q.s, r[v].s)
        BY <1>5, <1>6, <4>3, <4>4, UndueIs
      <4>7. q.s.phase = r[v].s.phase
        BY <4>6, SameFields
      <4>8. view'[v].phase = "WaitingForGenesis"
        BY <1>6, <4>1, <4>5, <4>7, ResultOf
      <4> QED BY <2>2, <4>8 DEF InGenesis, Collecting
    <3> QED BY <1>6, <1>7, <2>2, <3>1 DEF Moves
  <2>3. ASSUME NEW v \in Honest, InGenesis(view'[v]), G0 \in DOMAIN chain
        PROVE  G0 \in DOMAIN chain' /\ chain[G0].confirmed \subseteq chain'[G0].confirmed
    <3>1. view'[v].members = activeIn(0)
      BY <1>4, <2>2, <2>3 DEF GenesisOk
    <3>2. groupId(view'[v].epoch, view'[v].members) = G0
      BY <2>3, <3>1 DEF InGenesis, G0
    <3>3. G0 \in held(view')
      BY <3>2 DEF held
    <3> QED BY <1>3, <2>3, <3>3
  <2> QED BY <1>4, <1>14, <2>1, <2>2, <2>3, GenesisForward
<1>17. QueuedOk'
  <2>1. \A t \in pool' : t \in pool \/ \E v \in Honest : t \in encoded(v, r[v].acts)
    BY <1>3
  <2> QED BY <1>4, <1>6, <1>8, <1>9, <2>1, QueueForward
<1>18. CommitsOwn'
  <2>1. \A t \in pool' : t \in pool \/ \E v \in Honest : t \in encoded(v, r[v].acts) /\ t.kind # "commit"
    BY <1>3
  <2> QED BY <1>4, <1>6, <1>8, <1>9, <1>10, <2>1, CommitsForward
<1>19. Alike'
  <2>1. SUFFICES ASSUME NEW u \in Sound', NEW v \in Sound', view'[u].epoch = view'[v].epoch
                 PROVE  Same(view'[u], view'[v])
    BY DEF Alike, Same
  <2>2. u \in Honest /\ v \in Honest
    BY <1>9
  <2>3. CASE r[u].s.epoch = view[u].epoch /\ r[v].s.epoch = view[v].epoch
    <3>1. u \in Sound /\ v \in Sound
      BY <1>6, <1>9, <2>2, <2>3
    <3>2. Same(view[u], view[v])
      BY <1>4, <1>6, <2>1, <2>2, <2>3, <3>1 DEF Alike
    <3>3. RoundOpen(u, view[u]) /\ RoundOpen(v, view[v])
      BY <1>10, <3>1
    <3>4. Same(onNewBlock(u, view[u], b).s, onNewBlock(v, view[v], b).s)
      BY <1>5, <2>2, <3>2, <3>3, BlockSame
    <3> QED BY <1>6, <2>2, <3>4
  <2>4. CASE r[u].s.epoch # view[u].epoch \/ r[v].s.epoch # view[v].epoch
    <3>1. Due(view[u], b) \/ Due(view[v], b)
      BY <1>7, <2>2, <2>4
    <3>2. view'[u].epoch # 0 /\ view'[v].epoch # 0
      BY <1>6, <1>7, <2>1, <2>2, <3>1, NextIs
    <3>3. Due(view[u], b) /\ Due(view[v], b)
      BY <1>11, <1>14, <2>2, <3>1, <3>2
    <3>4. Same(onNewBlock(u, view[u], b).s, onNewBlock(v, view[v], b).s)
      BY <1>5, <2>2, <3>3, DueSame
    <3> QED BY <1>6, <2>2, <3>4
  <2> QED BY <2>3, <2>4
<1> QED BY <1>3, <1>12, <1>13, <1>15, <1>16, <1>17, <1>18, <1>19 DEF LockInv, EpochOk

\* Genesis is opened.
LEMMA GenesisLock ==
  ASSUME ShareInv, LockInv, keyGenGenesis
  PROVE  LockInv'
<1>1. PICK r : r = [v \in Honest |-> onKeyGen(v, view[v], G0)]
  OBVIOUS
<1>2. /\ \A v \in Honest : view[v].phase = "WaitingForGenesis"
      /\ G0 \notin DOMAIN chain /\ chain' = put(chain, G0, opened)
      /\ Apply(Honest, r, block) /\ UNCHANGED <<block, pool, lost>>
  BY <1>1 DEF keyGenGenesis, G0
<1>3. /\ block \in Nat /\ \A v \in Honest : EpochOk(view[v])
      /\ GenesisOk /\ QueuedOk
  BY DEF LockInv
<1>4. \A v \in Honest : view'[v] = r[v].s /\ r[v] = onKeyGen(v, view[v], groupId(0, activeIn(0)))
  BY <1>1, <1>2 DEF Apply, G0
<1>5. \A v \in Honest :
        /\ EpochOk(view'[v]) /\ view'[v].epoch = 0 /\ view'[v].phase = "CollectingCommitments"
        /\ view'[v].members = activeIn(0) /\ view'[v].confirmations = {} /\ RoundOpen(v, view'[v])
  BY <1>2, <1>3, <1>4, OpenedMoves
<1>6. RoundsOpen'
  <2>1. \A v \in Sound' : v \in Honest
    BY DEF Sound
  <2> QED BY <1>5, <2>1 DEF RoundsOpen
<1>7. EpochsAlike'
  BY <1>5 DEF EpochsAlike
<1>8. GenesisOk'
  <2>1. DOMAIN chain' = DOMAIN chain \cup {G0} /\ chain'[G0] = opened
    BY <1>2 DEF put
  <2>2. \A h \in DOMAIN chain : chain'[h] = chain[h]
    BY <1>2 DEF put
  <2>3. opened.confirmed = {}
    BY DEF opened
  <2>4. \A g \in DOMAIN chain' : chain'[g].confirmed \subseteq g.members
    BY <1>3, <2>1, <2>2, <2>3 DEF GenesisOk
  <2> QED BY <1>5, <2>1, <2>4 DEF GenesisOk, G0
<1>9. pool = {}
  BY <1>2, <1>3 DEF QueuedOk, Belongs
<1>10. QueuedOk' /\ CommitsOwn'
  BY <1>2, <1>9 DEF QueuedOk, CommitsOwn
<1>11. Alike'
  <2>1. SUFFICES ASSUME NEW u \in Sound', NEW v \in Sound' PROVE Same(view'[u], view'[v])
    BY DEF Alike, Same
  <2>2. u \in Honest /\ v \in Honest
    BY DEF Sound
  <2>3. Same(onKeyGen(u, view[u], groupId(0, activeIn(0))).s, onKeyGen(v, view[v], groupId(0, activeIn(0))).s)
    BY <1>2, <2>2, OpenedSame
  <2> QED BY <1>4, <2>2, <2>3
<1> QED BY <1>2, <1>3, <1>5, <1>6, <1>7, <1>8, <1>10, <1>11 DEF LockInv, EpochOk

\* An epoch is staged.
LEMMA StageLock ==
  ASSUME ShareInv, LockInv, NEW g \in held(view), stageEpoch(g)
  PROVE  LockInv'
<1>1. PICK r : r = [v \in Honest |-> onEpochStaged(view[v], g)]
  OBVIOUS
<1>2. Apply(Honest, r, block) /\ UNCHANGED <<block, chain, pool, lost>>
  BY <1>1 DEF stageEpoch
<1>3. /\ block \in Nat /\ \A v \in Honest : EpochOk(view[v])
      /\ RoundsOpen /\ EpochsAlike /\ GenesisOk /\ QueuedOk /\ CommitsOwn /\ Alike
  BY DEF LockInv
<1>4. PICK w \in Honest : g.epoch = view[w].epoch
  BY DEF held, groupId
<1>5. g.epoch \in Nat
  BY <1>3, <1>4 DEF EpochOk
<1>6. \A v \in Honest : view'[v] = r[v].s /\ r[v] = onEpochStaged(view[v], g) /\ ViewOk(v, view[v])
  BY <1>1, <1>2 DEF Apply, ShareInv, ViewsOk
<1>7. \A v \in Honest :
        /\ Moves(view[v], r[v], {}) /\ Goes(v, view[v], r[v])
        /\ view[v].phase # "WaitingForGenesis" => r[v].s.epoch = view[v].epoch
        /\ view[v].phase = "WaitingForGenesis" => r[v].s.epoch = g.epoch /\ r[v].s.phase = "EpochSkipped"
  BY <1>3, <1>5, <1>6, StagedMoves
<1>8. \A v \in Honest : Onward(view[v], r[v])
  BY <1>7, MovesOnward
<1>9. \A v \in Honest : view'[v].epoch = view[v].epoch
  <2>1. ASSUME NEW v \in Honest, view[v].phase = "WaitingForGenesis" PROVE g.epoch = view[v].epoch
    <3>1. view[w].phase = "WaitingForGenesis"
      BY <1>3, <1>4, <2>1 DEF EpochsAlike
    <3> QED BY <1>3, <1>4, <2>1, <3>1 DEF EpochOk
  <2> QED BY <1>6, <1>7, <2>1
<1>10. \A v \in Honest : view'[v].phase # "WaitingForGenesis"
  BY <1>6, <1>7, <1>8 DEF Onward
<1>11. Sound' = Sound /\ \A v \in Sound : v \in Honest
  BY <1>2 DEF Sound
<1>12. \A v \in Sound : Goes(v, view[v], r[v]) /\ RoundOpen(v, view[v])
  BY <1>3, <1>7, <1>11 DEF RoundsOpen
<1>13. RoundsOpen'
  BY <1>3, <1>6, <1>11, <1>12, RoundsForward
<1>14. EpochsAlike'
  BY <1>3, <1>9, <1>10 DEF EpochsAlike
<1>15. GenesisOk'
  <2>1. ASSUME NEW v \in Honest, InGenesis(view'[v])
        PROVE  /\ InGenesis(view[v]) /\ view'[v].members = view[v].members
               /\ \A p \in view'[v].confirmations :
                     p \in view[v].confirmations \/ p \in chain'[G0].confirmed
    <3>1. view[v].phase # "WaitingForGenesis"
      BY <1>6, <1>7, <2>1 DEF InGenesis, Collecting
    <3> QED BY <1>6, <1>7, <2>1, <3>1 DEF Moves
  <2>2. \A h \in DOMAIN chain' : chain'[h].confirmed \subseteq h.members
    BY <1>2, <1>3 DEF GenesisOk
  <2>3. \A v \in Honest : InGenesis(view'[v]) /\ G0 \in DOMAIN chain =>
            G0 \in DOMAIN chain' /\ chain[G0].confirmed \subseteq chain'[G0].confirmed
    BY <1>2
  <2> QED BY <1>3, <1>9, <2>1, <2>2, <2>3, GenesisForward
<1>16. QueuedOk'
  BY <1>2, <1>3, <1>6, <1>8, <1>11, QueueForward
<1>17. CommitsOwn'
  BY <1>2, <1>3, <1>6, <1>8, <1>11, <1>12, CommitsForward
<1>18. Alike'
  <2>1. SUFFICES ASSUME NEW u \in Sound, NEW v \in Sound, view'[u].epoch = view'[v].epoch
                 PROVE  Same(view'[u], view'[v])
    BY <1>11 DEF Alike, Same
  <2>2. u \in Honest /\ v \in Honest
    BY <1>11
  <2>3. Same(view[u], view[v])
    BY <1>3, <1>9, <2>1, <2>2 DEF Alike
  <2>4. Same(onEpochStaged(view[u], g).s, onEpochStaged(view[v], g).s)
    BY <2>3, StagedSame
  <2> QED BY <1>6, <2>2, <2>4
<1>19. \A v \in Honest : EpochOk(view'[v])
  BY <1>6, <1>8 DEF Onward
<1> QED BY <1>2, <1>3, <1>13, <1>14, <1>15, <1>16, <1>17, <1>18, <1>19 DEF LockInv, EpochOk

\* The epoch of a setup.
LEMMA SetupEpoch ==
  ASSUME NEW v, NEW s, ViewOk(v, s), NEW g, NEW version, NEW r, r = onSetup(v, s, g, version)
  PROVE  r.s.epoch = s.epoch /\ (s.phase # "CollectingCommitments" => r = stay(s))
<1>1. CASE ~(s.phase = "CollectingCommitments" /\ s.own = NoSecrets /\ inGroup(s, g))
  BY <1>1, ResultOf DEF onSetup
<1>2. CASE s.phase = "CollectingCommitments" /\ s.own = NoSecrets /\ inGroup(s, g)
  <2>2. PICK filled : filled = [s EXCEPT !.own = version]
    OBVIOUS
  <2>3. PICK commit : commit = IF publishes(v, s) THEN {action("commit", s, v, version)} ELSE {}
    OBVIOUS
  <2>4. v \in s.members
    BY <1>2 DEF ViewOk, NoSecrets, Observing
  <2>5. filled.epoch = s.epoch /\ ViewOk(v, filled)
    BY <2>2, <2>4 DEF ViewOk, Fields
  <2>6. CASE ~complete(s, DOMAIN s.commitments)
    <3>1. r = result(filled, commit, {})
      BY <1>2, <2>2, <2>3, <2>6 DEF onSetup
    <3> QED BY <1>2, <2>5, <3>1, ResultOf
  <2>7. CASE complete(s, DOMAIN s.commitments)
    <3>1. PICK closed : closed = finalizeKeyGenCommitments(v, filled, pushed(s, s.deadline))
      OBVIOUS
    <3>2. closed.s.epoch = filled.epoch
      BY <2>5, <3>1, FinalizeKinds
    <3>3. r = [closed EXCEPT !.acts = @ \cup commit]
      BY <1>2, <2>2, <2>3, <2>7, <3>1 DEF onSetup
    <3>4. DOMAIN closed = {"s", "acts", "setup"}
      <4>1. \E x, a, e : closed = result(x, a, e)
        BY <3>1 DEF finalizeKeyGenCommitments, rolloverFailure, stay
      <4> QED BY <4>1 DEF result
    <3>5. r.s = closed.s
      BY <3>3, <3>4
    <3> QED BY <1>2, <2>5, <3>2, <3>5
  <2> QED BY <2>6, <2>7
<1> QED BY <1>1, <1>2

\* A step of one validator, in its epoch.
LEMMA SoloForward ==
  ASSUME LockInv, NEW v \in Honest, NEW r, Apply({v}, [u \in {v} |-> r], block),
         block' = block, chain' = chain, Moves(view[v], r, {}), r.s.epoch = view[v].epoch,
         view[v].phase = "WaitingForGenesis" => r = stay(view[v]),
         \A u \in Sound' : u \in Sound,
         \A tx \in pool' : tx \in pool \/ tx \in encoded(v, r.acts)
  PROVE  /\ block' \in Nat /\ \A u \in Honest : EpochOk(view'[u])
         /\ view'[v] = r.s /\ \A u \in Honest : u # v => view'[u] = view[u]
         /\ EpochsAlike' /\ GenesisOk' /\ QueuedOk'
<1>1. PICK q : q = [u \in Honest |-> IF u = v THEN r ELSE stay(view[u])]
  OBVIOUS
<1>2. view'[v] = r.s /\ \A u \in Honest : u # v => view'[u] = view[u]
  BY DEF Apply
<1>3. /\ block \in Nat /\ \A u \in Honest : EpochOk(view[u])
      /\ EpochsAlike /\ GenesisOk /\ QueuedOk
  BY DEF LockInv
<1>4. q[v] = r /\ \A u \in Honest : u # v => q[u] = stay(view[u])
  BY <1>1
<1>5. \A u \in Honest : u # v => q[u].s = view[u] /\ q[u].acts = {}
  <2>1. ASSUME NEW u \in Honest, u # v PROVE q[u].s = view[u] /\ q[u].acts = {}
    <3>1. q[u] = stay(view[u])
      BY <1>4, <2>1
    <3> QED BY <3>1, ResultOf
  <2> QED BY <2>1
<1>6. \A u \in Honest : view'[u] = q[u].s
  BY <1>2, <1>4, <1>5
<1>7. \A u \in Honest : Moves(view[u], q[u], {})
  BY <1>3, <1>4, StayMoves
<1>8. \A u \in Honest : Onward(view[u], q[u])
  BY <1>7, MovesOnward
<1>9. \A u \in Honest : EpochOk(view'[u]) /\ view'[u].epoch = view[u].epoch
  BY <1>2, <1>6, <1>8 DEF Onward
<1>10. \A u \in Honest : view'[u].phase = "WaitingForGenesis" <=> view[u].phase = "WaitingForGenesis"
  <2>1. view[v].phase = "WaitingForGenesis" => r.s = view[v]
    BY ResultOf
  <2> QED BY <1>2, <1>6, <1>8, <2>1 DEF Onward
<1>11. EpochsAlike'
  BY <1>3, <1>9, <1>10 DEF EpochsAlike
<1>12. GenesisOk'
  <2>1. ASSUME NEW u \in Honest, InGenesis(view'[u])
        PROVE  /\ InGenesis(view[u]) /\ view'[u].members = view[u].members
               /\ \A p \in view'[u].confirmations :
                     p \in view[u].confirmations \/ p \in chain'[G0].confirmed
    <3>1. view[u].phase # "WaitingForGenesis"
      BY <1>10, <2>1 DEF InGenesis, Collecting
    <3> QED BY <1>6, <1>7, <2>1, <3>1 DEF Moves
  <2>2. \A h \in DOMAIN chain' : chain'[h].confirmed \subseteq h.members
    BY <1>3 DEF GenesisOk
  <2>3. \A u \in Honest : InGenesis(view'[u]) /\ G0 \in DOMAIN chain =>
            G0 \in DOMAIN chain' /\ chain[G0].confirmed \subseteq chain'[G0].confirmed
    OBVIOUS
  <2> QED BY <1>3, <1>9, <2>1, <2>2, <2>3, GenesisForward
<1>13. QueuedOk'
  <2>1. \A tx \in pool' : tx \in pool \/ \E u \in Honest : tx \in encoded(u, q[u].acts)
    BY <1>4
  <2> QED BY <1>3, <1>6, <1>8, <2>1, QueueForward
<1> QED BY <1>2, <1>3, <1>9, <1>11, <1>12, <1>13

\* The secrets of one validator arrive.
LEMMA SetupLock ==
  ASSUME ShareInv, LockInv, NEW e, e[1] \in Honest, performSetup(e)
  PROVE  LockInv'
<1>1. PICK v \in Honest : v = e[1]
  OBVIOUS
<1>2. PICK g : g = e[2]
  OBVIOUS
<1>3. PICK s : s = view[v]
  OBVIOUS
<1>4. PICK version : version = storedVersion({f \in store : f[1] = v /\ f[2] = g}, freshSecrets(v, g))
  OBVIOUS
<1>5. PICK r : r = onSetup(v, s, g, version)
  OBVIOUS
<1>6. /\ Apply({v}, [u \in {v} |-> r], block) /\ pool' = pool \cup encoded(v, r.acts)
      /\ UNCHANGED <<block, chain, lost>>
  BY <1>1, <1>2, <1>3, <1>4, <1>5 DEF performSetup
<1>7. /\ block \in Nat /\ \A u \in Honest : EpochOk(view[u])
      /\ RoundsOpen /\ QueuedOk /\ CommitsOwn /\ Alike
  BY DEF LockInv
<1>8. ViewOk(v, s) /\ EpochOk(s)
  BY <1>3, <1>7 DEF ShareInv, ViewsOk
<1>9. Moves(s, r, {})
  BY <1>5, <1>8, SetupMoves
<1>10. r.s.epoch = s.epoch /\ (s.phase # "CollectingCommitments" => r = stay(s))
  BY <1>5, <1>8, SetupEpoch
<1>11. Sound' = Sound /\ \A u \in Sound : u \in Honest
  BY <1>6 DEF Sound
<1>12. /\ block' \in Nat /\ \A u \in Honest : EpochOk(view'[u])
       /\ view'[v] = r.s /\ \A u \in Honest : u # v => view'[u] = view[u]
       /\ EpochsAlike' /\ GenesisOk' /\ QueuedOk'
  BY <1>3, <1>6, <1>9, <1>10, <1>11, SoloForward
<1>13. ASSUME v \in Sound
       PROVE  /\ Same(s, r.s) /\ RoundOpen(v, r.s)
              /\ \/ r = stay(s)
                 \/ /\ s.phase = "CollectingCommitments" /\ s.own = NoSecrets
                    /\ r.s.own = version
                    /\ \A a \in r.acts : a.version = version
  <2>1. RoundOpen(v, s)
    BY <1>3, <1>7, <1>13 DEF RoundsOpen
  <2> QED BY <1>5, <1>8, <2>1, SetupSound
<1>14. RoundsOpen'
  BY <1>7, <1>11, <1>12, <1>13 DEF RoundsOpen
<1>15. Alike'
  <2>1. \A u \in Sound : Same(view[u], view'[u])
    BY <1>3, <1>11, <1>12, <1>13 DEF Same
  <2>2. \A u \in Sound : view[u].epoch = view'[u].epoch
    BY <2>1, SameFields
  <2> QED BY <1>7, <1>11, <2>1, <2>2, SameChain DEF Alike
<1>16. CommitsOwn'
  <2>1. SUFFICES ASSUME NEW tx \in pool', tx.from \in Sound
                 PROVE  OwnCommit(tx.from, view'[tx.from], tx)
    BY <1>11 DEF CommitsOwn, OwnCommit
  <2>2. CASE tx \in pool /\ tx.from # v
    BY <1>7, <1>11, <1>12, <2>1, <2>2 DEF CommitsOwn
  <2>3. CASE tx \in pool /\ tx.from = v
    <3>1. OwnCommit(v, s, tx)
      BY <1>3, <1>7, <2>1, <2>3 DEF CommitsOwn
    <3>2. CASE r = stay(s)
      BY <1>12, <2>3, <3>1, <3>2, ResultOf
    <3>3. CASE s.phase = "CollectingCommitments" /\ s.own = NoSecrets
      <4>1. s.epoch = r.s.epoch /\ s.members = r.s.members
        BY <1>13, <2>1, <2>3, SameFields
      <4>2. inGroup(r.s, tx.group) => inGroup(s, tx.group)
        BY <4>1 DEF inGroup
      <4> QED BY <1>12, <2>3, <3>1, <3>3, <4>2 DEF OwnCommit, NoSecrets
    <3> QED BY <1>13, <2>1, <2>3, <3>2, <3>3
  <2>4. CASE tx \in encoded(v, r.acts)
    <3>1. PICK a \in r.acts : tx.from = v /\ tx.version = a.version
      BY <2>4 DEF encoded
    <3>2. tx.version = r.s.own
      BY <1>13, <2>1, <3>1, ResultOf
    <3> QED BY <1>12, <3>1, <3>2 DEF OwnCommit
  <2> QED BY <1>6, <2>1, <2>2, <2>3, <2>4
<1> QED BY <1>12, <1>14, <1>15, <1>16 DEF LockInv, EpochOk

\* A setup fails, and nobody knows.
LEMMA FailSetupLock ==
  ASSUME LockInv, NEW e, failSetup(e)
  PROVE  LockInv'
<1>1. UNCHANGED <<block, chain, view, pool>> /\ lost' = lost \cup {e[1]}
  BY DEF failSetup
<1>2. \A v \in Sound' : v \in Sound
  BY <1>1 DEF Sound
<1>3. block' \in Nat /\ \A v \in Honest : EpochOk(view'[v])
  BY <1>1 DEF LockInv
<1>4. RoundsOpen' /\ CommitsOwn' /\ Alike'
  BY <1>1, <1>2 DEF LockInv, RoundsOpen, CommitsOwn, Alike
<1>5. EpochsAlike' /\ GenesisOk'
  BY <1>1 DEF LockInv, EpochsAlike, GenesisOk
<1>6. QueuedOk'
  BY <1>1, <1>2 DEF LockInv, QueuedOk, Belongs
<1> QED BY <1>3, <1>4, <1>5, <1>6 DEF LockInv, EpochOk

\* A validator collects the commitments again, without secrets.
LEMMA RestartLock ==
  ASSUME ShareInv, LockInv, NEW v \in Honest, restart(v)
  PROVE  LockInv'
<1>1. PICK s : s = view[v]
  OBVIOUS
<1>0. PICK g : g = groupOf(s)
  OBVIOUS
<1>2. PICK c : c = ceremony(g).committed
  OBVIOUS
<1>3. PICK m : m = [p \in {q \in DOMAIN c : c[q] # 0} |-> c[p]]
  BY Zenon
<1>4. PICK i : i = idle(s, "CollectingCommitments", s.epoch)
  OBVIOUS
<1>5. PICK again : again = [i EXCEPT !.members = s.members, !.own = NoSecrets,
                                     !.deadline = began[v].deadline, !.commitments = m]
  OBVIOUS
<1>6. PICK r : r = IF began[v].deadline # NoDeadline /\ block >= began[v].deadline
                   THEN keyGenTimeouts(v, again, block) ELSE stay(again)
  OBVIOUS
<1>7. /\ s.phase \in Collecting /\ Apply({v}, [u \in {v} |-> r], block)
      /\ UNCHANGED <<block, chain, pool>> /\ lost' = lost \cup {v}
  BY <1>0, <1>1, <1>2, <1>3, <1>4, <1>5, <1>6 DEF restart, groupOf, Collecting
<1>8. /\ block \in Nat /\ \A u \in Honest : EpochOk(view[u])
      /\ RoundsOpen /\ QueuedOk /\ CommitsOwn /\ Alike
  BY DEF LockInv
<1>9. /\ again.phase = "CollectingCommitments" /\ again.epoch = s.epoch
      /\ again.members = s.members /\ again.confirmations = {}
  <2>1. DOMAIN i = Fields /\ i.phase = "CollectingCommitments" /\ i.epoch = s.epoch /\ i.confirmations = {}
    BY <1>4, IdleIs
  <2> QED BY <1>5, <2>1 DEF Fields
<1>10. EpochOk(s) /\ EpochOk(again)
  BY <1>1, <1>8, <1>9 DEF EpochOk
<1>11. Moves(again, r, {}) /\ r.s.epoch = again.epoch
  <2>1. Moves(again, stay(again), {}) /\ stay(again).s = again
    BY <1>10, StayMoves, ResultOf
  <2>2. Moves(again, keyGenTimeouts(v, again, block), {}) /\ keyGenTimeouts(v, again, block).s.epoch = again.epoch
    BY <1>10, TimeoutMoves
  <2> QED BY <1>6, <2>1, <2>2
<1>12. Moves(s, r, {})
  <2>1. s.phase # "WaitingForGenesis" /\ again.phase # "WaitingForGenesis"
    BY <1>7, <1>9 DEF Collecting
  <2>2. groupOf(again) = groupOf(s)
    BY <1>9 DEF groupOf
  <2>3. InGenesis(again) => InGenesis(s)
    BY <1>7, <1>9 DEF InGenesis
  <2> QED BY <1>9, <1>10, <1>11, <2>1, <2>2, <2>3 DEF Moves
<1>13. \A u \in Sound' : u \in Sound /\ u \in Honest /\ u # v
  BY <1>7 DEF Sound
<1>14. /\ block' \in Nat /\ \A u \in Honest : EpochOk(view'[u])
       /\ view'[v] = r.s /\ \A u \in Honest : u # v => view'[u] = view[u]
       /\ EpochsAlike' /\ GenesisOk' /\ QueuedOk'
  <2>1. view[v].phase # "WaitingForGenesis"
    BY <1>1, <1>7 DEF Collecting
  <2> QED BY <1>1, <1>7, <1>9, <1>11, <1>12, <1>13, <2>1, SoloForward
<1>15. RoundsOpen' /\ CommitsOwn' /\ Alike'
  BY <1>7, <1>8, <1>13, <1>14 DEF RoundsOpen, CommitsOwn, Alike
<1> QED BY <1>14, <1>15 DEF LockInv, EpochOk

\* Nothing has happened at first.
LEMMA InitLock == Init => LockInv
<1> SUFFICES ASSUME Init PROVE LockInv
  OBVIOUS
<1>1. PICK i : i = initialView
  OBVIOUS
<1>2. block = 0 /\ DOMAIN chain = {} /\ pool = {} /\ \A v \in Honest : view[v] = i
  BY <1>1 DEF Init
<1>3. i.phase = "WaitingForGenesis" /\ i.epoch = 0
  BY <1>1 DEF initialView, idle
<1>4. EpochOk(i) /\ \A v \in Honest : RoundOpen(v, i)
  BY <1>3 DEF EpochOk, RoundOpen
<1>5. RoundsOpen /\ EpochsAlike
  BY <1>2, <1>3, <1>4 DEF RoundsOpen, EpochsAlike, Sound
<1>6. GenesisOk
  BY <1>2, <1>3 DEF GenesisOk, InGenesis, Collecting
<1>7. QueuedOk /\ CommitsOwn
  BY <1>2 DEF QueuedOk, CommitsOwn
<1>8. Alike
  BY <1>2 DEF Alike, Sound, Same
<1> QED BY <1>2, <1>4, <1>5, <1>6, <1>7, <1>8 DEF LockInv

\* Every step keeps the invariant.
LEMMA NextLock == ShareInv /\ SetupsOk /\ LockInv /\ [Next]_vars => LockInv'
<1> SUFFICES ASSUME ShareInv, SetupsOk, LockInv, [Next]_vars PROVE LockInv'
  OBVIOUS
<1>1. CASE newBlock
  BY <1>1, NewBlockLock
<1>2. CASE keyGenGenesis
  BY <1>2, GenesisLock
<1>3. CASE \E tx \in pool : mine(tx)
  <2>1. PICK tx \in pool : execute(tx)
    BY <1>3 DEF mine
  <2>2. tx.kind \in Kinds
    BY DEF ShareInv, QueueAgrees
  <2>3. tx.valid \in BOOLEAN
    BY DEF LockInv, QueuedOk, Belongs
  <2>4. tx.from \in Sound => OwnCommit(tx.from, view[tx.from], tx)
    BY DEF LockInv, CommitsOwn
  <2> QED BY <2>1, <2>2, <2>3, <2>4, ExecuteLock
<1>4. CASE \E p \in Faulty : misbehave(p)
  <2>0. PICK p \in Faulty : misbehave(p)
    BY <1>4
  <2>1. PICK g \in held(view), kind \in Kinds, valid \in BOOLEAN, peer \in Participants,
             bad \in SUBSET Honest :
          execute(sent(p, kind, g, peer, valid, bad))
    BY <2>0, MisbehaveSends
  <2>2. PICK tx : tx = sent(p, kind, g, peer, valid, bad)
    OBVIOUS
  <2>3. tx.kind = kind /\ tx.from = p /\ tx.valid = valid
    BY <2>2 DEF sent
  <2>4. p \notin Sound
    BY ConfigAssumption DEF Sound
  <2> QED BY <2>1, <2>2, <2>3, <2>4, ExecuteLock
<1>5. CASE \E g \in held(view) : stageEpoch(g)
  BY <1>5, StageLock
<1>6. CASE \E e \in setups : performSetup(e)
  <2>1. PICK e \in setups : performSetup(e)
    BY <1>6
  <2>2. e[1] \in Honest
    BY DEF SetupsOk
  <2> QED BY <2>1, <2>2, SetupLock
<1>7. CASE \E e \in setups : failSetup(e)
  BY <1>7, FailSetupLock
<1>8. CASE \E v \in Honest : restart(v)
  BY <1>8, RestartLock
<1>9. CASE UNCHANGED vars
  BY <1>9 DEF vars, LockInv, EpochOk, RoundsOpen, EpochsAlike, GenesisOk, QueuedOk, Belongs,
              CommitsOwn, Alike, Sound
<1> QED BY <1>1, <1>2, <1>3, <1>4, <1>5, <1>6, <1>7, <1>8, <1>9 DEF Next

\* Either all validators that lost nothing are past genesis, or none is.
GenesisTogether == \A u, v \in Honest \ lost : view[u].epoch = 0 <=> view[v].epoch = 0

\* Validators never exchange a word about the ceremony, yet those that lost
\* nothing in this epoch agree on all that is public of it, with any number of
\* validators, faulty participants, delays and restarts, whenever they are on
\* the same side of genesis.  (Who lost its state in genesis may miss a
\* complaint and pass genesis while the others halt for good.)
THEOREM ValidatorsInStep == Spec => [](GenesisTogether => LockStep)
<1>1. Init => ShareInv /\ SetupsOk /\ LockInv
  BY InitShare, InitLock DEF Init, SetupsOk
<1>2. ShareInv /\ SetupsOk /\ LockInv /\ [Next]_vars => ShareInv' /\ SetupsOk' /\ LockInv'
  BY NextShare, NextLock
<1>3. LockInv => (GenesisTogether => LockStep)
  <2>1. SUFFICES ASSUME LockInv, GenesisTogether, NEW u \in Sound, NEW v \in Sound
                 PROVE  public(view[u]) = public(view[v])
    BY DEF LockStep, Sound
  <2>2. view[u].epoch = view[v].epoch
    BY <2>1 DEF LockInv, EpochsAlike, GenesisTogether, Sound
  <2>3. Same(view[u], view[v])
    BY <2>1, <2>2 DEF LockInv, Alike
  <2> QED BY <2>3, SameFields DEF public
<1> QED BY <1>1, <1>2, <1>3, PTL DEF Spec

----------------------------------------------------------------------------
(* Members of a staged group hold its key                                  *)

\* Who has published secret shares in the ceremony of g; all members of it.
sharedIn(c, g) == IF g \in DOMAIN c THEN c[g].shared ELSE {}
AllShared(c, g) == g.members \subseteq sharedIn(c, g)

\* The active epoch is not above the one that is worked on.
ActiveOk(s) == s.active \in Nat /\ s.active <= s.epoch

\* What the state s of validator v says of the ceremony in which `shared` have
\* published their secret shares: only those are counted, confirmations come
\* after all of them, and one's own confirmation comes with the key.
KeyOk(v, s, shared) ==
    /\ s.phase = "CollectingCommitments" => s.keys = {} /\ s.confirmations = {}
    /\ s.phase = "CollectingShares" => s.confirmations = {} /\ s.keys \subseteq shared
    /\ s.phase = "CollectingConfirmations" =>
        /\ s.confirmations \subseteq s.members
        /\ s.members \subseteq shared
        /\ v \in s.confirmations => s.status = "Confirmed"
    /\ s.phase = "SigningRollover" /\ v \in s.members => s.status = "Confirmed"
    /\ ActiveOk(s)

SharedOk == \A g \in DOMAIN chain : chain[g].shared \subseteq g.members

ViewKeysOk == \A v \in Honest : KeyOk(v, view[v], sharedIn(chain, groupOf(view[v])))

\* A queued confirmation is of a validator that has the key, for a ceremony in
\* which nobody will share any more.
Keyed(tx, c, s) ==
    tx.kind = "confirm" =>
        /\ AllShared(c, tx.group)
        /\ inGroup(s, tx.group) /\ s.phase = "CollectingConfirmations" => s.status = "Confirmed"

ConfirmsOk == \A tx \in pool : Keyed(tx, chain, view[tx.from])

\* Epochs are staged once.
EpochsOk ==
    /\ groupId(0, activeIn(0)) \in epochs
    /\ \A g \in epochs : g.epoch \in Nat
    /\ \A g, h \in epochs : g.epoch = h.epoch => g = h

\* E has an epoch n whose group, if v is a member of it, is among those of s.
HoldsOf(E, v, s, n) == \E g \in E : g.epoch = n /\ (v \in g.members => g \in s.epochs)

\* Who knows of the staging holds the key, and past genesis that of the active
\* epoch.
HoldsKey(E, v, s) ==
    /\ s.phase = "EpochStaged" => HoldsOf(E, v, s, s.epoch)
    /\ s.epoch # 0 => HoldsOf(E, v, s, s.active)

StagedOk == \A v \in Honest : HoldsKey(epochs, v, view[v])

\* The validators wait for genesis together.
BeforeGenesis(s) == s.phase = "WaitingForGenesis"
WaitOk == (\E v \in Honest : BeforeGenesis(view[v])) => \A v \in Honest : BeforeGenesis(view[v])

KeysInv == SharedOk /\ ViewKeysOk /\ ConfirmsOk /\ EpochsOk /\ StagedOk /\ WaitOk

----------------------------------------------------------------------------
(* How a state goes on.                                                    *)

\* t says the same of keys and confirmations as s; epochs that are over may be
\* forgotten.
Keeps(s, t) ==
    /\ t.phase = s.phase /\ t.epoch = s.epoch /\ t.members = s.members /\ t.keys = s.keys
    /\ t.confirmations = s.confirmations /\ t.status = s.status /\ t.active = s.active
    /\ \A g \in s.epochs : g.epoch >= s.active => g \in t.epochs

\* The epoch that is active in t is that of s or the one staged in s, and no
\* group of it or of a later one is forgotten; genesis is not left.
Carries(s, t) ==
    /\ t.active = s.active \/ (s.phase = "EpochStaged" /\ t.active = s.epoch)
    /\ \A g \in s.epochs : g.epoch >= t.active => g \in t.epochs
    /\ s.epoch = 0 => t.epoch = 0

\* t begins a ceremony, or there is none.
Begins(s, t) ==
    /\ t.phase \in {"CollectingCommitments", "Halted", "EpochSkipped"}
    /\ t.keys = {} /\ t.confirmations = {}
    /\ ActiveOk(s) => ActiveOk(t)

Fresh(s, t) == Begins(s, t) /\ Carries(s, t)

\* t collects the secret shares.
Opens(s, t) ==
    /\ s.phase = "CollectingCommitments"
    /\ t.phase = "CollectingShares" /\ t.epoch = s.epoch /\ t.members = s.members
    /\ t.keys = s.keys /\ t.confirmations = s.confirmations /\ t.active = s.active
    /\ t.epochs = s.epochs

\* No confirmation is queued.
Quiet(r) == \A a \in r.acts : a.kind # "confirm"

Turns(s, r) == Quiet(r) /\ (Keeps(s, r.s) \/ Fresh(s, r.s) \/ Opens(s, r.s))

\* Nothing happens.
LEMMA StayTurns ==
  ASSUME NEW s
  PROVE  Turns(s, stay(s))
  BY ResultOf DEF Turns, Quiet, Keeps

\* A state without a ceremony keeps the active epoch and the groups.
LEMMA IdleKeeps ==
  ASSUME NEW s, NEW phase, NEW epoch, NEW i, i = idle(s, phase, epoch)
  PROVE  /\ DOMAIN i = Fields /\ i.phase = phase /\ i.epoch = epoch /\ i.members = {} /\ i.own = Observing
         /\ i.keys = {} /\ i.confirmations = {} /\ i.active = s.active /\ i.epochs = s.epochs
  BY DEF idle, Fields

\* A ceremony starts.
LEMMA StartKeeps ==
  ASSUME NEW v, NEW s, NEW epoch, NEW members, NEW deadline,
         NEW r, r = startKeyGen(v, s, epoch, members, deadline)
  PROVE  /\ r.acts = {} /\ r.s.phase = "CollectingCommitments" /\ r.s.epoch = epoch
         /\ r.s.keys = {} /\ r.s.confirmations = {} /\ r.s.active = s.active
         /\ r.s.epochs = s.epochs
<1>1. PICK i : i = idle(s, "CollectingCommitments", epoch)
  OBVIOUS
<1>2. DOMAIN i = Fields /\ i.active = s.active /\ i.epochs = s.epochs
  BY <1>1, IdleKeeps
<1>3. PICK own : own = IF v \in members THEN NoSecrets ELSE Observing
  OBVIOUS
<1>4. PICK t : t = [i EXCEPT !.members = members, !.own = own, !.deadline = deadline]
  OBVIOUS
<1>5. t.active = s.active /\ t.epochs = s.epochs
  BY <1>2, <1>4 DEF Fields
<1>6. r.s = t
  BY <1>1, <1>3, <1>4, ResultOf DEF startKeyGen
<1> QED BY <1>5, <1>6, StartIs

\* The epoch is given up.
LEMMA FailureTurns ==
  ASSUME NEW s, s.epoch \in Nat
  PROVE  Fresh(s, rolloverFailure(s).s) /\ rolloverFailure(s).acts = {}
<1>1. PICK phase : phase = IF s.epoch = 0 THEN "Halted" ELSE "EpochSkipped"
  OBVIOUS
<1>2. PICK i : i = idle(s, phase, s.epoch)
  OBVIOUS
<1>3. rolloverFailure(s).s = i /\ rolloverFailure(s).acts = {}
  BY <1>1, <1>2, ResultOf DEF rolloverFailure
<1>4. /\ i.phase = phase /\ i.keys = {} /\ i.confirmations = {} /\ i.active = s.active
      /\ i.epoch = s.epoch /\ i.epochs = s.epochs
  BY <1>2, IdleKeeps
<1> QED BY <1>1, <1>3, <1>4 DEF Fresh, Begins, Carries, ActiveOk

\* The ceremony starts again.
LEMMA RestartTurns ==
  ASSUME NEW v, NEW s, s.epoch \in Nat, NEW excluded, NEW deadline,
         NEW r, r = restartKeyGenExcluding(v, s, excluded, deadline)
  PROVE  Fresh(s, r.s) /\ r.acts = {}
<1>1. PICK members : members = IF s.epoch = 0 THEN {} ELSE participantsSet(s.epoch, excluded)
  OBVIOUS
<1>2. CASE members = {}
  BY <1>1, <1>2, FailureTurns DEF restartKeyGenExcluding
<1>3. CASE members # {}
  <2>1. r = startKeyGen(v, s, s.epoch, members, deadline)
    BY <1>1, <1>3 DEF restartKeyGenExcluding
  <2>2. /\ r.acts = {} /\ r.s.phase = "CollectingCommitments" /\ r.s.epoch = s.epoch
        /\ r.s.keys = {} /\ r.s.confirmations = {} /\ r.s.active = s.active
        /\ r.s.epochs = s.epochs
    BY <2>1, StartKeeps
  <2> QED BY <2>2 DEF Fresh, Begins, Carries, ActiveOk
<1> QED BY <1>2, <1>3

\* The commitments are complete.
LEMMA FinalizeTurns ==
  ASSUME NEW v, NEW s, ViewOk(v, s), s.epoch \in Nat, s.phase = "CollectingCommitments", NEW deadline,
         NEW r, r = finalizeKeyGenCommitments(v, s, deadline)
  PROVE  Quiet(r) /\ (Fresh(s, r.s) \/ Opens(s, r.s))
<1>1. CASE ~matchesCommitment(v, s)
  <2>1. r = rolloverFailure(s)
    BY <1>1 DEF finalizeKeyGenCommitments
  <2> QED BY <2>1, FailureTurns DEF Quiet
<1>2. CASE matchesCommitment(v, s)
  <2>1. PICK t : t = [s EXCEPT !.phase = "CollectingShares", !.deadline = deadline,
                        !.total = [p \in s.members |-> 0],
                        !.unresponded = [p \in s.members |-> 0]]
    OBVIOUS
  <2>2. PICK acts : acts = IF s.own = Observing THEN {} ELSE {action("share", s, v, s.own)}
    OBVIOUS
  <2>3. r = result(t, acts, {})
    BY <1>2, <2>1, <2>2 DEF finalizeKeyGenCommitments
  <2>4. r.s = t
    BY <2>3, ResultOf
  <2>5. /\ t.phase = "CollectingShares" /\ t.epoch = s.epoch /\ t.members = s.members
        /\ t.keys = s.keys /\ t.confirmations = s.confirmations /\ t.active = s.active
        /\ t.epochs = s.epochs
    BY <2>1 DEF ViewOk, Fields
  <2>6. \A a \in r.acts : a.kind = "share"
    BY <1>2, FinalizeIs
  <2> QED BY <2>4, <2>5, <2>6 DEF Opens, Quiet
<1> QED BY <1>1, <1>2

\* KeyGenCommitted.
LEMMA CommittedTurns ==
  ASSUME NEW v, NEW s, ViewOk(v, s), s.epoch \in Nat, NEW b, NEW g, NEW p \in g.members, NEW version,
         NEW r, r = onCommitted(v, s, b, g, p, version)
  PROVE  Turns(s, r)
<1>1. CASE ~(s.phase = "CollectingCommitments" /\ inGroup(s, g))
  BY <1>1, StayTurns DEF onCommitted
<1>2. CASE s.phase = "CollectingCommitments" /\ inGroup(s, g)
  <2>1. PICK t : t = Counted(s, p, version)
    OBVIOUS
  <2>2. p \in s.members
    BY <1>2 DEF inGroup, groupId
  <2>3. ViewOk(v, t)
    BY <2>1, <2>2, CountedOk
  <2>4. /\ t.phase = s.phase /\ t.epoch = s.epoch /\ t.members = s.members /\ t.keys = s.keys
        /\ t.confirmations = s.confirmations /\ t.status = s.status /\ t.active = s.active
        /\ t.epochs = s.epochs
    BY <2>1 DEF Counted, ViewOk, Fields
  <2>5. \/ r = finalizeKeyGenCommitments(v, t, pushed(s, b))
        \/ r = stay(t)
    BY <1>2, <2>1 DEF onCommitted, Counted
  <2>6. CASE r = stay(t)
    <3>1. r.s = t /\ r.acts = {}
      BY <2>6, ResultOf
    <3> QED BY <2>4, <3>1 DEF Turns, Quiet, Keeps
  <2>7. CASE r = finalizeKeyGenCommitments(v, t, pushed(s, b))
    <3>1. Quiet(r) /\ (Fresh(t, r.s) \/ Opens(t, r.s))
      BY <1>2, <2>3, <2>4, <2>7, FinalizeTurns
    <3>2. Fresh(s, r.s) \/ Opens(s, r.s)
      BY <2>4, <3>1 DEF Fresh, Begins, Carries, Opens, ActiveOk
    <3> QED BY <3>1, <3>2 DEF Turns
  <2> QED BY <2>5, <2>6, <2>7
<1> QED BY <1>1, <1>2

\* The secrets arrive.
LEMMA SetupTurns ==
  ASSUME NEW v, NEW s, ViewOk(v, s), s.epoch \in Nat, NEW g, NEW version,
         NEW r, r = onSetup(v, s, g, version)
  PROVE  Turns(s, r)
<1>1. CASE ~(s.phase = "CollectingCommitments" /\ s.own = NoSecrets /\ inGroup(s, g))
  BY <1>1, StayTurns DEF onSetup
<1>2. CASE s.phase = "CollectingCommitments" /\ s.own = NoSecrets /\ inGroup(s, g)
  <2>1. PICK t : t = [s EXCEPT !.own = version]
    OBVIOUS
  <2>2. v \in s.members
    BY <1>2 DEF ViewOk, NoSecrets, Observing
  <2>3. /\ DOMAIN t = Fields /\ t.commitments = s.commitments
        /\ t.phase = s.phase /\ t.epoch = s.epoch /\ t.members = s.members /\ t.keys = s.keys
        /\ t.confirmations = s.confirmations /\ t.status = s.status /\ t.active = s.active
        /\ t.epochs = s.epochs
    BY <2>1 DEF ViewOk, Fields
  <2>4. ViewOk(v, t)
    BY <2>2, <2>3 DEF ViewOk
  <2>5. PICK commit : commit = IF publishes(v, s) THEN {action("commit", s, v, version)} ELSE {}
    OBVIOUS
  <2>6. \A a \in commit : a.kind # "confirm"
    BY <2>5 DEF action
  <2>7. PICK closed : closed = finalizeKeyGenCommitments(v, t, pushed(s, s.deadline))
    OBVIOUS
  <2>8. r = IF ~complete(s, DOMAIN s.commitments) THEN result(t, commit, {})
            ELSE [closed EXCEPT !.acts = @ \cup commit]
    BY <1>2, <2>1, <2>5, <2>7 DEF onSetup
  <2>9. CASE r = result(t, commit, {})
    <3>1. r.s = t /\ r.acts = commit
      BY <2>9, ResultOf
    <3> QED BY <2>3, <2>6, <3>1 DEF Turns, Quiet, Keeps
  <2>10. CASE r = [closed EXCEPT !.acts = @ \cup commit]
    <3>1. Quiet(closed) /\ (Fresh(t, closed.s) \/ Opens(t, closed.s))
      BY <1>2, <2>3, <2>4, <2>7, FinalizeTurns
    <3>2. Fresh(s, closed.s) \/ Opens(s, closed.s)
      BY <2>3, <3>1 DEF Fresh, Begins, Carries, Opens, ActiveOk
    <3>3. DOMAIN closed = {"s", "acts", "setup"}
      BY <2>7 DEF finalizeKeyGenCommitments, rolloverFailure, stay, result
    <3>4. r.s = closed.s /\ r.acts = closed.acts \cup commit
      BY <2>10, <3>3
    <3> QED BY <2>6, <3>1, <3>2, <3>4 DEF Turns, Quiet
  <2> QED BY <2>8, <2>9, <2>10
<1> QED BY <1>1, <1>2

\* KeyGenComplained.
LEMMA ComplainedTurns ==
  ASSUME NEW v, NEW s, ViewOk(v, s), s.epoch \in Nat, NEW b, NEW g, NEW plaintiff, NEW accused,
         NEW r, r = onComplained(v, s, b, g, plaintiff, accused)
  PROVE  Turns(s, r)
<1>1. PICK x : x = Blamed(s, accused)
  OBVIOUS
<1>2. /\ x.phase = s.phase /\ x.epoch = s.epoch /\ x.members = s.members /\ x.keys = s.keys
      /\ x.confirmations = s.confirmations /\ x.status = s.status /\ x.active = s.active
      /\ x.epochs = s.epochs
  BY <1>1 DEF Blamed, ViewOk, Fields
<1>3. CASE ~Heeds(s, g, b)
  BY <1>3, StayTurns DEF onComplained, Heeds
<1>4. CASE Heeds(s, g, b)
  <2>1. PICK acts : acts = IF accused = v /\ s.own # Observing
                           THEN {action("respond", s, plaintiff, 0)} ELSE {}
    OBVIOUS
  <2>2. \/ r = restartKeyGenExcluding(v, x, alsoExclude(s, {accused}), pushed(s, b))
        \/ r = result(x, acts, {})
    BY <1>1, <1>4, <2>1 DEF onComplained, Blamed, Heeds
  <2>3. CASE r = restartKeyGenExcluding(v, x, alsoExclude(s, {accused}), pushed(s, b))
    <3>1. Fresh(x, r.s) /\ r.acts = {}
      BY <1>2, <2>3, RestartTurns
    <3> QED BY <1>2, <3>1 DEF Turns, Quiet, Fresh, Begins, Carries, ActiveOk
  <2>4. CASE r = result(x, acts, {})
    <3>1. r.s = x /\ r.acts = acts
      BY <2>4, ResultOf
    <3>2. Quiet(r)
      BY <2>1, <3>1 DEF action, Quiet
    <3> QED BY <1>2, <3>1, <3>2 DEF Turns, Keeps
  <2> QED BY <2>2, <2>3, <2>4
<1> QED BY <1>3, <1>4

\* The key is made: t is the state s with it, and the confirmation is queued.
Gains(s, r) ==
    /\ s.phase = "CollectingConfirmations"
    /\ r.s.phase = s.phase /\ r.s.epoch = s.epoch /\ r.s.members = s.members
    /\ r.s.confirmations = s.confirmations /\ r.s.active = s.active
    /\ r.s.epochs = s.epochs /\ r.s.status = "Confirmed"
    /\ \A a \in r.acts : a.kind = "confirm" /\ a.group = groupOf(s)

\* The key is made when all shares are there.
LEMMA ConfirmGains ==
  ASSUME NEW v, NEW s, DOMAIN s = Fields, s.phase = "CollectingConfirmations",
         NEW r, r = confirmKeyGen(v, s)
  PROVE  r = stay(s) \/ Gains(s, r)
<1>1. CASE ~hasKeyShare(s)
  BY <1>1 DEF confirmKeyGen
<1>2. CASE hasKeyShare(s)
  <2>1. PICK t : t = [s EXCEPT !.status = "Confirmed"]
    OBVIOUS
  <2>2. r.s = t
    BY <1>2, <2>1, ResultOf DEF confirmKeyGen
  <2>3. /\ t.phase = s.phase /\ t.epoch = s.epoch /\ t.members = s.members
        /\ t.confirmations = s.confirmations /\ t.active = s.active
        /\ t.epochs = s.epochs /\ t.status = "Confirmed"
    BY <2>1 DEF Fields
  <2>4. \A a \in r.acts : a.group = groupOf(s) /\ a.kind = "confirm"
    BY ConfirmIs
  <2> QED BY <2>2, <2>3, <2>4 DEF Gains
<1> QED BY <1>1, <1>2

\* KeyGenComplaintResponded.
LEMMA RespondedTurns ==
  ASSUME NEW v, NEW s, ViewOk(v, s), s.epoch \in Nat, NEW b, NEW g, NEW plaintiff, NEW accused,
         NEW valid \in BOOLEAN, NEW r, r = onComplaintResponded(v, s, b, g, plaintiff, accused, valid)
  PROVE  Turns(s, r) \/ Gains(s, r)
<1>1. CASE ~Owed(s, g, b, accused)
  BY <1>1, StayTurns DEF onComplaintResponded, Owed
<1>2. CASE Owed(s, g, b, accused) /\ ~valid
  <2>1. r = restartKeyGenExcluding(v, s, alsoExclude(s, {accused}), pushed(s, b))
    BY <1>2 DEF onComplaintResponded, Owed
  <2>2. Fresh(s, r.s) /\ r.acts = {}
    BY <2>1, RestartTurns
  <2> QED BY <2>2 DEF Turns, Quiet
<1>3. CASE Owed(s, g, b, accused) /\ valid
  <2>1. PICK shares : shares = IF plaintiff = v /\ s.own # Observing
                               THEN s.shares \cup {accused} ELSE s.shares
    OBVIOUS
  <2>2. PICK a : a = TakeOne(s.unresponded, accused)
    OBVIOUS
  <2>3. PICK t : t = [s EXCEPT !.unresponded = a, !.shares = shares]
    OBVIOUS
  <2>4. t = [s EXCEPT !.unresponded[accused] = @ - 1,
                      !.shares = IF plaintiff = v /\ s.own # Observing
                                 THEN @ \cup {accused} ELSE @]
    BY <2>1, <2>2, <2>3 DEF TakeOne, ViewOk, Fields
  <2>5. r = IF t.phase = "CollectingConfirmations" THEN confirmKeyGen(v, t) ELSE stay(t)
    BY <1>3, <2>4 DEF onComplaintResponded, Owed
  <2>6. /\ DOMAIN t = Fields /\ t.phase = s.phase /\ t.epoch = s.epoch /\ t.members = s.members
        /\ t.keys = s.keys /\ t.confirmations = s.confirmations /\ t.status = s.status
        /\ t.active = s.active /\ t.epochs = s.epochs
    BY <2>3 DEF ViewOk, Fields
  <2>7. groupOf(t) = groupOf(s)
    BY <2>6 DEF groupOf
  <2>8. r = stay(t) \/ Gains(t, r)
    BY <2>5, <2>6, ConfirmGains
  <2>9. CASE r = stay(t)
    <3>1. r.s = t /\ r.acts = {}
      BY <2>9, ResultOf
    <3> QED BY <2>6, <3>1 DEF Turns, Quiet, Keeps
  <2>10. CASE Gains(t, r)
    BY <2>6, <2>7, <2>10 DEF Gains
  <2> QED BY <2>8, <2>9, <2>10
<1> QED BY <1>1, <1>2, <1>3

\* The secret share of p is counted; with the last one the confirmations begin,
\* and who has a confirmation to queue has the key.
Counts(s, r, p) ==
    /\ s.phase = "CollectingShares"
    /\ r.s.epoch = s.epoch /\ r.s.members = s.members /\ r.s.active = s.active
    /\ r.s.confirmations = s.confirmations /\ r.s.epochs = s.epochs
    /\ \/ Quiet(r) /\ r.s.phase = "CollectingShares" /\ r.s.keys = s.keys \cup {p}
       \/ /\ r.s.phase = "CollectingConfirmations" /\ complete(s, s.keys \cup {p})
          /\ \A a \in r.acts : a.kind = "confirm" => a.group = groupOf(s) /\ r.s.status = "Confirmed"

\* KeyGenSecretShared.
LEMMA SharedTurns ==
  ASSUME NEW v, NEW s, ViewOk(v, s), NEW b, NEW g, NEW p, NEW valid \in BOOLEAN, NEW bad,
         NEW r, r = onSecretShared(v, s, b, g, p, valid, bad)
  PROVE  Turns(s, r) \/ (inGroup(s, g) /\ Counts(s, r, p))
<1>1. CASE ~(s.phase = "CollectingShares" /\ inGroup(s, g) /\ valid)
  BY <1>1, StayTurns DEF onSecretShared
<1>2. CASE s.phase = "CollectingShares" /\ inGroup(s, g) /\ valid
  <2>1. PICK own : own = (s.own # Observing)
    OBVIOUS
  <2>2. PICK shares : shares = IF own /\ verifyEncryptedShare(v, bad) THEN s.shares \cup {p} ELSE s.shares
    OBVIOUS
  <2>3. PICK t : t = [s EXCEPT !.keys = @ \cup {p}, !.shares = shares]
    OBVIOUS
  <2>4. PICK complaint : complaint = IF own /\ ~verifyEncryptedShare(v, bad)
                                     THEN {action("complain", s, p, 0)} ELSE {}
    OBVIOUS
  <2>5. PICK status : status = IF own THEN "Collecting" ELSE "Observing"
    OBVIOUS
  <2>6. PICK y : y = [t EXCEPT !.phase = "CollectingConfirmations", !.status = status,
                               !.deadline = pushed(s, b)]
    OBVIOUS
  <2>7. PICK next : next = confirmKeyGen(v, y)
    OBVIOUS
  <2>8. r = IF complete(t, t.keys) THEN [next EXCEPT !.acts = @ \cup complaint]
            ELSE result(t, complaint, {})
    BY <1>2, <2>1, <2>2, <2>3, <2>4, <2>5, <2>6, <2>7 DEF onSecretShared
  <2>9. \A a \in complaint : a.kind # "confirm"
    BY <2>4 DEF action
  <2>10. /\ DOMAIN t = Fields /\ t.epoch = s.epoch /\ t.members = s.members /\ t.phase = s.phase
         /\ t.keys = s.keys \cup {p} /\ t.confirmations = s.confirmations /\ t.active = s.active
         /\ t.epochs = s.epochs
    BY <2>3 DEF ViewOk, Fields
  <2>11. CASE ~complete(t, t.keys)
    <3>1. r = result(t, complaint, {})
      BY <2>8, <2>11
    <3>2. r.s = t /\ r.acts = complaint
      BY <3>1, ResultOf
    <3>3. Quiet(r)
      BY <2>9, <3>2 DEF Quiet
    <3> QED BY <1>2, <2>10, <3>2, <3>3 DEF Counts
  <2>12. CASE complete(t, t.keys)
    <3>1. /\ DOMAIN y = Fields /\ y.epoch = s.epoch /\ y.members = s.members
          /\ y.confirmations = s.confirmations /\ y.active = s.active /\ y.epochs = s.epochs
          /\ y.phase = "CollectingConfirmations"
      BY <2>6, <2>10 DEF Fields
    <3>2. next = stay(y) \/ Gains(y, next)
      BY <2>7, <3>1, ConfirmGains
    <3>3. DOMAIN next = {"s", "acts", "setup"}
      BY <2>7, <3>1, ConfirmIs
    <3>4. r.s = next.s /\ r.acts = next.acts \cup complaint
      BY <2>8, <2>12, <3>3
    <3>5. complete(s, s.keys \cup {p}) /\ groupOf(y) = groupOf(s)
      BY <2>10, <2>12, <3>1 DEF complete, groupOf
    <3>6. CASE next = stay(y)
      <4>1. next.s = y /\ next.acts = {}
        BY <3>6, ResultOf
      <4> QED BY <1>2, <2>9, <3>1, <3>4, <3>5, <4>1 DEF Counts
    <3>7. CASE Gains(y, next)
      <4>1. /\ next.s.phase = y.phase /\ next.s.epoch = y.epoch /\ next.s.members = y.members
            /\ next.s.confirmations = y.confirmations /\ next.s.active = y.active
            /\ next.s.epochs = y.epochs /\ next.s.status = "Confirmed"
            /\ \A a \in next.acts : a.kind = "confirm" /\ a.group = groupOf(y)
        BY <3>7 DEF Gains
      <4> QED BY <1>2, <2>9, <3>1, <3>4, <3>5, <4>1 DEF Counts
    <3> QED BY <3>2, <3>6, <3>7
  <2> QED BY <2>11, <2>12
<1> QED BY <1>1, <1>2

\* The confirmation of p is counted; after the last one the rollover is signed.
Concludes(s, r, p) ==
    /\ s.phase = "CollectingConfirmations" /\ Quiet(r)
    /\ r.s.epoch = s.epoch /\ r.s.members = s.members /\ r.s.active = s.active
    /\ r.s.status = s.status /\ r.s.epochs = s.epochs
    /\ \/ r.s.phase = "CollectingConfirmations" /\ r.s.confirmations = s.confirmations \cup {p}
       \/ r.s.phase = "SigningRollover" /\ complete(s, s.confirmations \cup {p})

\* The last confirmation of genesis is counted: who has the key keeps it.
Leaves(s, r, p) ==
    /\ s.epoch = 0 /\ s.phase = "CollectingConfirmations" /\ Quiet(r)
    /\ complete(s, s.confirmations \cup {p})
    /\ Begins(s, r.s) /\ r.s.active = s.active
    /\ s.status = "Confirmed" => groupOf(s) \in r.s.epochs

\* KeyGenConfirmed.
LEMMA ConfirmedTurns ==
  ASSUME NEW v, NEW s, ViewOk(v, s), NEW b \in Nat, NEW g, NEW p,
         NEW r, r = onConfirmed(v, s, b, g, p)
  PROVE  Turns(s, r) \/ (inGroup(s, g) /\ (Concludes(s, r, p) \/ Leaves(s, r, p)))
<1>1. CASE r = stay(s)
  BY <1>1, StayTurns
<1>2. CASE /\ s.phase = "CollectingConfirmations" /\ inGroup(s, g) /\ r = stay(Confirmed(s, p))
  <2>1. PICK t : t = Confirmed(s, p)
    OBVIOUS
  <2>2. /\ t.phase = s.phase /\ t.epoch = s.epoch /\ t.members = s.members /\ t.active = s.active
        /\ t.status = s.status /\ t.confirmations = s.confirmations \cup {p} /\ t.epochs = s.epochs
    BY <2>1 DEF Confirmed, ViewOk, Fields
  <2>3. r.s = t /\ r.acts = {}
    BY <1>2, <2>1, ResultOf
  <2> QED BY <1>2, <2>2, <2>3 DEF Concludes, Quiet
<1>3. CASE /\ s.phase = "CollectingConfirmations" /\ inGroup(s, g) /\ IsLast(s, p) /\ r = stay(Signing(s))
  <2>1. PICK t : t = Signing(s)
    OBVIOUS
  <2>2. PICK i : i = idle(s, "SigningRollover", s.epoch)
    OBVIOUS
  <2>3. /\ DOMAIN i = Fields /\ i.phase = "SigningRollover" /\ i.epoch = s.epoch /\ i.active = s.active
        /\ i.epochs = s.epochs
    BY <2>2, IdleKeeps
  <2>4. t = [i EXCEPT !.members = s.members, !.status = s.status]
    BY <2>1, <2>2 DEF Signing
  <2>5. /\ t.phase = "SigningRollover" /\ t.epoch = s.epoch /\ t.members = s.members
        /\ t.active = s.active /\ t.status = s.status /\ t.epochs = s.epochs
    BY <2>3, <2>4 DEF Fields
  <2>6. r.s = t /\ r.acts = {}
    BY <1>3, <2>1, ResultOf
  <2> QED BY <1>3, <2>5, <2>6 DEF Concludes, Quiet, IsLast
<1>4. CASE /\ s.phase = "CollectingConfirmations" /\ inGroup(s, g) /\ IsLast(s, p)
           /\ s.epoch = 0 /\ r = Passed(v, s, b)
  <2>1. PICK next : next = nextNumber(b)
    OBVIOUS
  <2>2. next \in Nat
    BY <2>1, NextIs
  <2>3. PICK i : i = idle(s, "EpochSkipped", next)
    OBVIOUS
  <2>4. PICK x : x = finalizeKeyGen(s, i)
    OBVIOUS
  <2>5. /\ DOMAIN i = Fields /\ i.phase = "EpochSkipped" /\ i.epoch = next /\ i.keys = {}
        /\ i.confirmations = {} /\ i.active = s.active
    BY <2>3, IdleKeeps
  <2>10. PICK kept : kept = IF s.status = "Confirmed" THEN i.epochs \cup {groupOf(s)} ELSE i.epochs
    OBVIOUS
  <2>11. x = [i EXCEPT !.epochs = kept]
    BY <2>4, <2>5, <2>10 DEF finalizeKeyGen, Fields, groupOf
  <2>6. /\ x.phase = "EpochSkipped" /\ x.epoch = next /\ x.keys = {}
        /\ x.confirmations = {} /\ x.active = s.active /\ x.epochs = kept
    BY <2>5, <2>11 DEF Fields
  <2>7. \/ r = stay(x)
        \/ r = startKeyGen(v, x, next, participantsSet(next, {}), b + KeyGenTimeout)
    BY <1>4, <2>1, <2>3, <2>4 DEF Passed
  <2>8. /\ r.acts = {} /\ r.s.phase \in {"EpochSkipped", "CollectingCommitments"} /\ r.s.epoch = next
        /\ r.s.keys = {} /\ r.s.confirmations = {} /\ r.s.active = s.active /\ r.s.epochs = kept
    <3>1. CASE r = stay(x)
      <4>1. r.s = x /\ r.acts = {}
        BY <3>1, ResultOf
      <4> QED BY <2>6, <4>1
    <3>2. CASE r = startKeyGen(v, x, next, participantsSet(next, {}), b + KeyGenTimeout)
      BY <2>6, <3>2, StartKeeps
    <3> QED BY <2>7, <3>1, <3>2
  <2>9. ActiveOk(s) => ActiveOk(r.s)
    BY <1>4, <2>2, <2>8 DEF ActiveOk
  <2> QED BY <1>4, <2>8, <2>9, <2>10 DEF Leaves, Begins, Quiet, IsLast
<1> QED BY <1>1, <1>2, <1>3, <1>4, ConfirmedCases

\* What the event of a transaction does to the state s.
EventTurns(s, r, tx) ==
    \/ Turns(s, r)
    \/ tx.kind = "share" /\ inGroup(s, tx.group) /\ Counts(s, r, tx.from)
    \/ tx.kind = "respond" /\ Gains(s, r)
    \/ tx.kind = "confirm" /\ inGroup(s, tx.group) /\ (Concludes(s, r, tx.from) \/ Leaves(s, r, tx.from))

\* Every event is one of these.
LEMMA EventTurning ==
  ASSUME NEW v, NEW s, s = view[v], ViewOk(v, s), s.epoch \in Nat, block \in Nat, NEW tx, Sent(tx),
         NEW r, r = onEvent(v, tx)
  PROVE  EventTurns(s, r, tx)
<1>0. /\ tx.valid \in BOOLEAN /\ tx.from \in tx.group.members
      /\ tx.kind \in {"commit", "share", "complain", "respond", "confirm"}
  BY DEF Sent, Kinds
<1>1. CASE tx.kind = "commit"
  <2>1. r = onCommitted(v, s, block, tx.group, tx.from, tx.version)
    BY <1>1 DEF onEvent
  <2> QED BY <1>0, <2>1, CommittedTurns DEF EventTurns
<1>2. CASE tx.kind = "share"
  <2>1. r = onSecretShared(v, s, block, tx.group, tx.from, tx.valid, tx.bad)
    BY <1>2 DEF onEvent
  <2> QED BY <1>0, <1>2, <2>1, SharedTurns DEF EventTurns
<1>3. CASE tx.kind = "complain"
  <2>1. r = onComplained(v, s, block, tx.group, tx.from, tx.peer)
    BY <1>3 DEF onEvent
  <2> QED BY <2>1, ComplainedTurns DEF EventTurns
<1>4. CASE tx.kind = "respond"
  <2>1. r = onComplaintResponded(v, s, block, tx.group, tx.peer, tx.from, tx.valid)
    BY <1>4 DEF onEvent
  <2> QED BY <1>0, <1>4, <2>1, RespondedTurns DEF EventTurns
<1>5. CASE tx.kind = "confirm"
  <2>1. r = onConfirmed(v, s, block, tx.group, tx.from)
    BY <1>5 DEF onEvent
  <2> QED BY <1>5, <2>1, ConfirmedTurns DEF EventTurns
<1> QED BY <1>0, <1>1, <1>2, <1>3, <1>4, <1>5

----------------------------------------------------------------------------
(* What follows for keys and confirmations.                                *)

\* Members as many as the group has are all of them.
LEMMA FullSet ==
  ASSUME NEW S, NEW T, S \subseteq T, T \subseteq Participants, Cardinality(S) = Cardinality(T)
  PROVE  S = T
<1>1. IsFiniteSet(T)
  BY ConfigAssumption, FS_Subset
<1> QED BY <1>1, FS_Subset

\* A state that turns keeps what is known of the ceremony.
LEMMA TurnsKeyOk ==
  ASSUME NEW v, NEW s, NEW shared, KeyOk(v, s, shared), s.epoch \in Nat,
         NEW r, Turns(s, r), r.s.epoch \in Nat,
         NEW more, groupOf(r.s) = groupOf(s) => shared \subseteq more
  PROVE  KeyOk(v, r.s, more)
<1>1. PICK t : t = r.s
  OBVIOUS
<1>2. CASE Keeps(s, t)
  <2>1. /\ t.phase = s.phase /\ t.epoch = s.epoch /\ t.members = s.members /\ t.keys = s.keys
        /\ t.confirmations = s.confirmations /\ t.status = s.status /\ t.active = s.active
    BY <1>2 DEF Keeps
  <2>2. shared \subseteq more
    BY <1>1, <2>1 DEF groupOf
  <2>3. KeyOk(v, t, more)
    BY <2>1, <2>2 DEF KeyOk, ActiveOk
  <2> QED BY <1>1, <2>3
<1>3. CASE Fresh(s, t)
  <2>1. KeyOk(v, t, more)
    BY <1>3 DEF KeyOk, Fresh, Begins
  <2> QED BY <1>1, <2>1
<1>4. CASE Opens(s, t)
  <2>1. s.keys = {} /\ s.confirmations = {} /\ ActiveOk(s)
    BY <1>4 DEF KeyOk, Opens
  <2>2. KeyOk(v, t, more)
    BY <1>4, <2>1 DEF KeyOk, Opens, ActiveOk
  <2> QED BY <1>1, <2>2
<1> QED BY <1>1, <1>2, <1>3, <1>4 DEF Turns

\* So does the count of a secret share, the last one of which makes the set of
\* those who have shared complete.
LEMMA CountsKeyOk ==
  ASSUME NEW v, NEW s, NEW shared, KeyOk(v, s, shared), s.members \subseteq Participants,
         NEW p, NEW r, Counts(s, r, p), NEW more, shared \cup {p} \subseteq more, more \subseteq s.members
  PROVE  KeyOk(v, r.s, more)
<1>1. PICK t : t = r.s
  OBVIOUS
<1>2. /\ s.phase = "CollectingShares"
      /\ t.epoch = s.epoch /\ t.members = s.members /\ t.active = s.active
      /\ t.confirmations = s.confirmations
      /\ \/ t.phase = "CollectingShares" /\ t.keys = s.keys \cup {p}
         \/ t.phase = "CollectingConfirmations" /\ complete(s, s.keys \cup {p})
  BY <1>1 DEF Counts
<1>3. /\ s.confirmations = {} /\ s.keys \subseteq shared
      /\ ActiveOk(s)
  BY <1>2 DEF KeyOk
<1>4. CASE t.phase = "CollectingShares" /\ t.keys = s.keys \cup {p}
  <2>1. KeyOk(v, t, more)
    BY <1>2, <1>3, <1>4 DEF KeyOk, ActiveOk
  <2> QED BY <1>1, <2>1
<1>5. CASE t.phase = "CollectingConfirmations" /\ complete(s, s.keys \cup {p})
  <2>1. s.keys \cup {p} \subseteq s.members
    BY <1>3
  <2>2. s.keys \cup {p} = s.members
    BY <1>5, <2>1, FullSet DEF complete
  <2>3. t.members \subseteq more
    BY <1>2, <1>3, <2>2
  <2>4. KeyOk(v, t, more)
    BY <1>2, <1>3, <1>5, <2>3 DEF KeyOk, ActiveOk
  <2> QED BY <1>1, <2>4
<1> QED BY <1>2, <1>4, <1>5

\* The making of the key.
LEMMA GainsKeyOk ==
  ASSUME NEW v, NEW s, NEW shared, KeyOk(v, s, shared), NEW r, Gains(s, r)
  PROVE  KeyOk(v, r.s, shared)
<1>1. PICK t : t = r.s
  OBVIOUS
<1>2. /\ s.phase = "CollectingConfirmations"
      /\ t.phase = s.phase /\ t.epoch = s.epoch /\ t.members = s.members
      /\ t.confirmations = s.confirmations /\ t.active = s.active
      /\ t.status = "Confirmed"
  BY <1>1 DEF Gains
<1>3. KeyOk(v, t, shared)
  BY <1>2 DEF KeyOk, ActiveOk
<1> QED BY <1>1, <1>3

\* The count of a confirmation, if who confirms has the key.
LEMMA ConcludesKeyOk ==
  ASSUME NEW v, NEW s, NEW shared, KeyOk(v, s, shared), s.members \subseteq Participants,
         NEW p \in s.members, p = v => s.status = "Confirmed", NEW r, Concludes(s, r, p)
  PROVE  KeyOk(v, r.s, shared)
<1>1. PICK t : t = r.s
  OBVIOUS
<1>2. /\ s.phase = "CollectingConfirmations"
      /\ t.epoch = s.epoch /\ t.members = s.members /\ t.active = s.active /\ t.status = s.status
      /\ \/ t.phase = "CollectingConfirmations" /\ t.confirmations = s.confirmations \cup {p}
         \/ t.phase = "SigningRollover" /\ complete(s, s.confirmations \cup {p})
  BY <1>1 DEF Concludes
<1>3. /\ s.confirmations \subseteq s.members /\ s.members \subseteq shared
      /\ v \in s.confirmations => s.status = "Confirmed"
      /\ ActiveOk(s)
  BY <1>2 DEF KeyOk
<1>4. CASE t.phase = "CollectingConfirmations" /\ t.confirmations = s.confirmations \cup {p}
  <2>1. KeyOk(v, t, shared)
    BY <1>2, <1>3, <1>4 DEF KeyOk, ActiveOk
  <2> QED BY <1>1, <2>1
<1>5. CASE t.phase = "SigningRollover" /\ complete(s, s.confirmations \cup {p})
  <2>1. s.confirmations \cup {p} \subseteq s.members
    BY <1>3
  <2>2. s.confirmations \cup {p} = s.members
    BY <1>5, <2>1, FullSet DEF complete
  <2>3. v \in t.members => t.status = "Confirmed"
    BY <1>2, <1>3, <2>2
  <2>4. KeyOk(v, t, shared)
    BY <1>2, <1>3, <1>5, <2>3 DEF KeyOk, ActiveOk
  <2> QED BY <1>1, <2>4
<1> QED BY <1>2, <1>4, <1>5

\* Queued confirmations, of a state that turns.
LEMMA TurnsKeyed ==
  ASSUME NEW s, NEW r, Turns(s, r), NEW c, NEW d, NEW tx, Keyed(tx, c, s),
         tx.kind = "confirm" /\ AllShared(c, tx.group) => AllShared(d, tx.group)
  PROVE  Keyed(tx, d, r.s)
<1>1. PICK t : t = r.s
  OBVIOUS
<1>2. t.phase = "CollectingConfirmations" => Keeps(s, t)
  BY <1>1 DEF Turns, Fresh, Begins, Opens
<1>3. Keeps(s, t) => t.phase = s.phase /\ t.epoch = s.epoch /\ t.members = s.members /\ t.status = s.status
  BY DEF Keeps
<1>4. Keyed(tx, d, t)
  BY <1>2, <1>3 DEF Keyed, inGroup
<1> QED BY <1>1, <1>4

\* A state that turns carries its groups on.
LEMMA TurnsCarry ==
  ASSUME NEW s, NEW r, Turns(s, r)
  PROVE  Carries(s, r.s)
<1>1. PICK t : t = r.s
  OBVIOUS
<1>2. Keeps(s, t) => Carries(s, t)
  BY DEF Keeps, Carries
<1>3. Opens(s, t) => Carries(s, t)
  BY DEF Opens, Carries
<1> QED BY <1>1, <1>2, <1>3 DEF Turns, Fresh

\* Who holds the key of the active epoch goes on holding it.
LEMMA CarriesHolds ==
  ASSUME NEW E, NEW F, E \subseteq F, NEW v, NEW s, HoldsKey(E, v, s), ActiveOk(s), s.epoch \in Nat,
         NEW t, Carries(s, t), t.epoch # 0
  PROVE  HoldsOf(F, v, t, t.active)
<1>1. PICK g \in E : g.epoch = t.active /\ (v \in g.members => g \in s.epochs)
  BY DEF Carries, HoldsKey, HoldsOf
<1>2. t.active \in Nat
  BY DEF Carries, ActiveOk
<1>3. g \in s.epochs => g \in t.epochs
  BY <1>1, <1>2 DEF Carries
<1> QED BY <1>1, <1>3 DEF HoldsOf

\* The groups that are staged, for a state that turns.
LEMMA TurnsHolds ==
  ASSUME NEW E, NEW F, E \subseteq F,
         NEW v, NEW s, HoldsKey(E, v, s), NEW shared, KeyOk(v, s, shared), s.epoch \in Nat,
         NEW r, Turns(s, r)
  PROVE  HoldsKey(F, v, r.s)
<1>1. ASSUME r.s.phase = "EpochStaged"
      PROVE  HoldsOf(F, v, r.s, r.s.epoch)
  <2>2. Keeps(s, r.s)
    BY <1>1 DEF Turns, Fresh, Begins, Opens
  <2>3. /\ s.phase = "EpochStaged" /\ r.s.epoch = s.epoch
        /\ \A g \in s.epochs : g.epoch >= s.active => g \in r.s.epochs
    BY <1>1, <2>2 DEF Keeps
  <2>4. PICK g \in E : g.epoch = s.epoch /\ (v \in g.members => g \in s.epochs)
    BY <2>3 DEF HoldsKey, HoldsOf
  <2>5. g.epoch >= s.active
    BY <2>4 DEF KeyOk, ActiveOk
  <2> QED BY <2>3, <2>4, <2>5 DEF HoldsOf
<1>2. ASSUME r.s.epoch # 0
      PROVE  HoldsOf(F, v, r.s, r.s.active)
  BY <1>2, TurnsCarry, CarriesHolds DEF KeyOk
<1> QED BY <1>1, <1>2 DEF HoldsKey

\* A round is over, or not.
LEMMA TimeoutTurns ==
  ASSUME NEW v, NEW s, s.epoch \in Nat, NEW b, NEW r, r = keyGenTimeouts(v, s, b)
  PROVE  r = stay(s) \/ (Fresh(s, r.s) /\ r.acts = {})
<1>1. PICK d : d = b + KeyGenTimeout
  OBVIOUS
<1>2. \/ r = stay(s) \/ r = rolloverFailure(s)
      \/ \E excluded : r = restartKeyGenExcluding(v, s, excluded, d)
  BY <1>1, TimeoutCases
<1> QED BY <1>2, FailureTurns, RestartTurns

\* Epochs that are over are reaped.
LEMMA ReapedIs ==
  ASSUME NEW s, DOMAIN s = Fields, NEW t, t = reconciled(s)
  PROVE  /\ t.phase = s.phase /\ t.epoch = s.epoch /\ t.members = s.members /\ t.keys = s.keys
         /\ t.confirmations = s.confirmations /\ t.status = s.status /\ t.active = s.active
         /\ \A g \in s.epochs : g.epoch >= s.active => g \in t.epochs
<1>1. PICK kept : kept = {g \in s.epochs : g.epoch >= s.active}
  OBVIOUS
<1>2. t = [s EXCEPT !.epochs = kept]
  BY <1>1 DEF reconciled
<1>3. /\ t.phase = s.phase /\ t.epoch = s.epoch /\ t.members = s.members /\ t.keys = s.keys
      /\ t.confirmations = s.confirmations /\ t.status = s.status /\ t.active = s.active
      /\ t.epochs = kept
  BY <1>2 DEF Fields
<1> QED BY <1>1, <1>3

\* A block.
LEMMA BlockTurns ==
  ASSUME NEW v, NEW s, ViewOk(v, s), s.epoch \in Nat, NEW b \in Nat, NEW r, r = onNewBlock(v, s, b)
  PROVE  Turns(s, r) /\ r.acts = {}
<1>1. PICK next : next = nextNumber(b)
  OBVIOUS
<1>2. next \in Nat
  BY <1>1, NextIs
<1>3. PICK rolled : rolled = rolloverNewBlock(v, s, b)
  OBVIOUS
<1>4. PICK timed : timed = keyGenTimeouts(v, rolled.s, b)
  OBVIOUS
<1>5. r.s = reconciled(timed.s) /\ r.acts = {}
  BY <1>3, <1>4, ResultOf DEF onNewBlock
<1>6. rolled = stay(s) \/ (Fresh(s, rolled.s) /\ rolled.s.epoch \in Nat /\ ViewOk(v, rolled.s))
  <2>1. CASE ~Due(s, b)
    BY <1>3, <2>1 DEF rolloverNewBlock, Due
  <2>2. CASE Due(s, b)
    <3>1. PICK t : t = Rolled(s)
      OBVIOUS
    <3>2. /\ t.active = s.active \/ (s.phase = "EpochStaged" /\ t.active = s.epoch)
          /\ t.epochs = s.epochs
      BY <3>1 DEF Rolled, activated, ViewOk, Fields
    <3>3. ActiveOk(s) => t.active \in Nat /\ t.active <= next
      <4>1. s.epoch <= next
        BY <1>1, <1>2, <2>2 DEF Due
      <4> QED BY <1>2, <3>2, <4>1 DEF ActiveOk
    <3>4. PICK members : members = participantsSet(next, {})
      OBVIOUS
    <3>5. rolled = IF members = {} THEN stay(idle(t, "EpochSkipped", next))
                   ELSE startKeyGen(v, t, next, members, b + KeyGenTimeout)
      BY <1>1, <1>3, <2>2, <3>1, <3>4 DEF rolloverNewBlock, Due, Rolled
    <3>6. CASE members = {}
      <4>1. PICK i : i = idle(t, "EpochSkipped", next)
        OBVIOUS
      <4>2. rolled.s = i
        BY <3>5, <3>6, <4>1, ResultOf
      <4>3. /\ i.phase = "EpochSkipped" /\ i.epoch = next /\ i.keys = {} /\ i.confirmations = {}
            /\ i.active = t.active /\ i.epochs = t.epochs /\ ViewOk(v, i)
        BY <4>1, IdleKeeps, IdleOk
      <4> QED BY <1>2, <2>2, <3>2, <3>3, <4>2, <4>3 DEF Fresh, Begins, Carries, ActiveOk, Due
    <3>7. CASE members # {}
      <4>1. rolled = startKeyGen(v, t, next, members, b + KeyGenTimeout)
        BY <3>5, <3>7
      <4>2. /\ rolled.s.phase = "CollectingCommitments" /\ rolled.s.epoch = next
            /\ rolled.s.keys = {} /\ rolled.s.confirmations = {} /\ rolled.s.active = t.active
            /\ rolled.s.epochs = t.epochs
        BY <4>1, StartKeeps
      <4>3. StepOk(v, s, rolled)
        BY <3>4, <4>1, ParticipantsOk, StartOk
      <4>4. ViewOk(v, rolled.s)
        BY <4>3 DEF StepOk
      <4> QED BY <1>2, <2>2, <3>2, <3>3, <4>2, <4>4 DEF Fresh, Begins, Carries, ActiveOk, Due
    <3> QED BY <3>6, <3>7
  <2> QED BY <2>1, <2>2
<1>7. PICK x : x = rolled.s
  OBVIOUS
<1>8. (x = s \/ Fresh(s, x)) /\ x.epoch \in Nat /\ ViewOk(v, x)
  BY <1>6, <1>7, ResultOf
<1>9. PICK y : y = timed.s
  OBVIOUS
<1>10. y = s \/ Fresh(s, y)
  <2>1. timed = stay(x) \/ Fresh(x, timed.s)
    BY <1>4, <1>7, <1>8, TimeoutTurns
  <2>2. y = x \/ Fresh(x, y)
    BY <1>9, <2>1, ResultOf
  <2>3. Fresh(s, x) /\ Fresh(x, y) => Fresh(s, y)
    BY DEF Fresh, Begins, Carries
  <2> QED BY <1>8, <2>2, <2>3
<1>11. StepOk(v, x, timed)
  BY <1>4, <1>7, <1>8, TimeoutsOk
<1>12. DOMAIN y = Fields
  BY <1>9, <1>11 DEF StepOk, ViewOk
<1>13. PICK t : t = r.s
  OBVIOUS
<1>14. /\ t.phase = y.phase /\ t.epoch = y.epoch /\ t.members = y.members /\ t.keys = y.keys
       /\ t.confirmations = y.confirmations /\ t.status = y.status /\ t.active = y.active
       /\ \A g \in y.epochs : g.epoch >= y.active => g \in t.epochs
  BY <1>5, <1>9, <1>12, <1>13, ReapedIs
<1>15. CASE y = s
  BY <1>5, <1>13, <1>14, <1>15 DEF Turns, Quiet, Keeps
<1>16. CASE Fresh(s, y)
  <2>1. Fresh(s, t)
    BY <1>14, <1>16 DEF Fresh, Begins, Carries, ActiveOk
  <2> QED BY <1>5, <1>13, <2>1 DEF Turns, Quiet
<1> QED BY <1>10, <1>15, <1>16

----------------------------------------------------------------------------
(* Steps.                                                                  *)

\* A step in which every validator turns and no epoch is staged.
LEMMA TurnsStep ==
  ASSUME KeysInv, LockInv, LockInv', NEW r,
         \A v \in Honest : view'[v] = r[v].s /\ Turns(view[v], r[v]),
         \A v \in Honest : groupOf(view'[v]) = groupOf(view[v]) =>
            sharedIn(chain, groupOf(view[v])) \subseteq sharedIn(chain', groupOf(view[v])),
         \A tx \in pool' :
            \/ tx \in pool /\ (AllShared(chain, tx.group) => AllShared(chain', tx.group))
            \/ \E v \in Honest : tx \in encoded(v, r[v].acts),
         SharedOk', WaitOk', epochs' = epochs
  PROVE  KeysInv'
<1>1. \A v \in Honest : view[v].epoch \in Nat /\ view'[v].epoch \in Nat
  BY DEF LockInv, EpochOk
<1>2. ASSUME NEW v \in Honest
      PROVE  KeyOk(v, view'[v], sharedIn(chain', groupOf(view'[v])))
  <2>1. KeyOk(v, view[v], sharedIn(chain, groupOf(view[v])))
    BY DEF KeysInv, ViewKeysOk
  <2>2. groupOf(r[v].s) = groupOf(view[v]) =>
            sharedIn(chain, groupOf(view[v])) \subseteq sharedIn(chain', groupOf(r[v].s))
    BY <1>2
  <2>3. KeyOk(v, r[v].s, sharedIn(chain', groupOf(r[v].s)))
    BY <1>1, <2>1, <2>2, TurnsKeyOk
  <2> QED BY <2>3
<1>3. ViewKeysOk'
  BY <1>2 DEF ViewKeysOk
<1>4. ASSUME NEW tx \in pool' PROVE Keyed(tx, chain', view'[tx.from])
  <2>1. CASE tx \in pool /\ (AllShared(chain, tx.group) => AllShared(chain', tx.group))
    <3>1. tx.from \in Honest
      BY <2>1 DEF LockInv, QueuedOk, Belongs
    <3>2. Keyed(tx, chain, view[tx.from])
      BY <2>1 DEF KeysInv, ConfirmsOk
    <3>3. Keyed(tx, chain', r[tx.from].s)
      BY <2>1, <3>1, <3>2, TurnsKeyed
    <3> QED BY <3>1, <3>3
  <2>2. ASSUME NEW v \in Honest, tx \in encoded(v, r[v].acts) PROVE Keyed(tx, chain', view'[tx.from])
    <3>1. PICK a \in r[v].acts : tx.kind = a.kind
      BY <2>2 DEF encoded
    <3>2. a.kind # "confirm"
      BY <2>2 DEF Turns, Quiet
    <3> QED BY <3>1, <3>2 DEF Keyed
  <2> QED BY <2>1, <2>2
<1>5. ConfirmsOk'
  BY <1>4 DEF ConfirmsOk
<1>6. EpochsOk'
  BY DEF KeysInv, EpochsOk
<1>7. ASSUME NEW v \in Honest PROVE HoldsKey(epochs', v, view'[v])
  <2>1. KeyOk(v, view[v], sharedIn(chain, groupOf(view[v]))) /\ HoldsKey(epochs, v, view[v])
    BY <1>7 DEF KeysInv, ViewKeysOk, StagedOk
  <2>2. HoldsKey(epochs, v, r[v].s)
    BY <1>1, <1>7, <2>1, TurnsHolds
  <2> QED BY <2>2
<1>8. StagedOk'
  BY <1>7 DEF StagedOk
<1> QED BY <1>3, <1>5, <1>6, <1>8 DEF KeysInv

\* Who waits goes on waiting until all take up genesis.
LEMMA StillWaiting ==
  ASSUME WaitOk, \A v \in Honest : BeforeGenesis(view'[v]) <=> BeforeGenesis(view[v])
  PROVE  WaitOk'
  BY DEF WaitOk

\* A block.
LEMMA NewBlockKeys ==
  ASSUME ShareInv, KeysInv, LockInv, LockInv', newBlock
  PROVE  KeysInv'
<1>1. PICK r : r = [v \in Honest |-> onNewBlock(v, view[v], block + 1)]
  OBVIOUS
<1>2. /\ Apply(Honest, r, block + 1) /\ epochs' = epochs
      /\ chain' = [g \in DOMAIN chain \cap held(view') |-> chain[g]]
      /\ pool' = {tx \in pool : tx.group \in held(view')}
  BY <1>1 DEF newBlock
<1>3. block + 1 \in Nat /\ \A v \in Honest : view[v].epoch \in Nat /\ ViewOk(v, view[v])
  BY DEF LockInv, EpochOk, ShareInv, ViewsOk
<1>4. \A v \in Honest : view'[v] = r[v].s /\ r[v] = onNewBlock(v, view[v], block + 1)
  BY <1>1, <1>2 DEF Apply
<1>5. \A v \in Honest : Turns(view[v], r[v])
  BY <1>3, <1>4, BlockTurns
<1>6. \A g \in held(view') : sharedIn(chain', g) = sharedIn(chain, g)
  BY <1>2 DEF sharedIn
<1>7. \A v \in Honest : groupOf(view'[v]) \in held(view')
  BY DEF held, groupOf
<1>8. \A tx \in pool' : tx \in pool /\ (AllShared(chain, tx.group) => AllShared(chain', tx.group))
  BY <1>2, <1>6 DEF AllShared
<1>9. \A v \in Honest : groupOf(view'[v]) = groupOf(view[v]) =>
        sharedIn(chain, groupOf(view[v])) \subseteq sharedIn(chain', groupOf(view[v]))
  BY <1>6, <1>7
<1>10. SharedOk'
  BY <1>2 DEF KeysInv, SharedOk
<1>11. ASSUME NEW v \in Honest PROVE BeforeGenesis(view'[v]) <=> BeforeGenesis(view[v])
  <2>1. BeforeGenesis(view[v]) => BeforeGenesis(r[v].s)
    <3>1. SUFFICES ASSUME BeforeGenesis(view[v]) PROVE BeforeGenesis(r[v].s)
      OBVIOUS
    <3>2. PICK s : s = view[v]
      OBVIOUS
    <3>3. s.phase = "WaitingForGenesis" /\ s.epoch = 0 /\ DOMAIN s = Fields
      BY <1>3, <3>1, <3>2 DEF BeforeGenesis, LockInv, EpochOk, ViewOk
    <3>4. rolloverNewBlock(v, s, block + 1) = stay(s) /\ keyGenTimeouts(v, s, block + 1) = stay(s)
      BY <3>3 DEF rolloverNewBlock, keyGenTimeouts
    <3>5. onNewBlock(v, s, block + 1).s = reconciled(s)
      <4>1. stay(s).s = s
        BY ResultOf
      <4> QED BY <3>4, <4>1, ResultOf DEF onNewBlock
    <3>7. r[v].s = reconciled(s)
      BY <1>4, <3>2, <3>5
    <3>6. reconciled(s).phase = s.phase
      BY <3>3, ReapedIs
    <3> QED BY <3>3, <3>6, <3>7 DEF BeforeGenesis
  <2>2. BeforeGenesis(r[v].s) => BeforeGenesis(view[v])
    BY <1>5, <1>11 DEF Turns, Keeps, Fresh, Begins, Opens, BeforeGenesis
  <2> QED BY <1>4, <2>1, <2>2
<1>12. WaitOk'
  BY <1>11, StillWaiting DEF KeysInv
<1> QED BY <1>2, <1>4, <1>5, <1>8, <1>9, <1>10, <1>12, TurnsStep

\* The genesis ceremony is opened.
LEMMA GenesisKeys ==
  ASSUME ShareInv, KeysInv, LockInv, LockInv', keyGenGenesis
  PROVE  KeysInv'
<1>1. PICK g : g = groupId(0, activeIn(0))
  OBVIOUS
<1>2. PICK r : r = [v \in Honest |-> onKeyGen(v, view[v], g)]
  OBVIOUS
<1>3. /\ g \notin DOMAIN chain /\ chain' = put(chain, g, opened) /\ epochs' = epochs
      /\ Apply(Honest, r, block) /\ pool' = pool
      /\ \A v \in Honest : view[v].phase = "WaitingForGenesis"
  BY <1>1, <1>2 DEF keyGenGenesis
<1>4. \A v \in Honest : view'[v] = r[v].s /\ r[v] = onKeyGen(v, view[v], g)
  BY <1>2, <1>3 DEF Apply
<1>5. ASSUME NEW v \in Honest PROVE Turns(view[v], r[v])
  <2>1. r[v] = startKeyGen(v, view[v], 0, activeIn(0), NoDeadline)
    BY <1>1, <1>3, <1>4, <1>5 DEF onKeyGen
  <2>2. /\ r[v].acts = {} /\ r[v].s.phase = "CollectingCommitments" /\ r[v].s.epoch = 0
        /\ r[v].s.keys = {} /\ r[v].s.confirmations = {} /\ r[v].s.active = view[v].active
        /\ r[v].s.epochs = view[v].epochs
    BY <2>1, StartKeeps
  <2>3. view[v].epoch = 0
    BY <1>3, <1>5 DEF LockInv, EpochOk
  <2> QED BY <2>2, <2>3 DEF Turns, Quiet, Fresh, Begins, Carries, ActiveOk
<1>6. DOMAIN chain' = DOMAIN chain \cup {g} /\ chain'[g] = opened /\ \A h \in DOMAIN chain : chain'[h] = chain[h]
  BY <1>3 DEF put
<1>7. opened.shared = {}
  BY DEF opened
<1>8. \A h : sharedIn(chain', h) = sharedIn(chain, h)
  BY <1>3, <1>6, <1>7 DEF sharedIn
<1>9. SharedOk'
  BY <1>6, <1>7 DEF KeysInv, SharedOk
<1>10. \A tx \in pool' : tx \in pool /\ (AllShared(chain, tx.group) => AllShared(chain', tx.group))
  BY <1>3, <1>8 DEF AllShared
<1>11. ASSUME NEW v \in Honest PROVE ~BeforeGenesis(view'[v])
  <2>1. r[v] = startKeyGen(v, view[v], 0, activeIn(0), NoDeadline)
    BY <1>1, <1>3, <1>4, <1>11 DEF onKeyGen
  <2>2. r[v].s.phase = "CollectingCommitments"
    BY <2>1, StartKeeps
  <2> QED BY <1>4, <2>2 DEF BeforeGenesis
<1>12. WaitOk'
  BY <1>11 DEF WaitOk
<1> QED BY <1>3, <1>4, <1>5, <1>8, <1>9, <1>10, <1>12, TurnsStep

\* A step of one validator.
LEMMA SoloKeys ==
  ASSUME KeysInv, LockInv, LockInv', NEW v \in Honest, NEW r, view'[v] = r.s, Turns(view[v], r),
         \A u \in Honest : u # v => view'[u] = view[u],
         BeforeGenesis(view[v]) => r = stay(view[v]), chain' = chain, epochs' = epochs,
         \A tx \in pool' : tx \in pool \/ tx \in encoded(v, r.acts)
  PROVE  KeysInv'
<1>1. PICK q : q = [u \in Honest |-> IF u = v THEN r ELSE stay(view[u])]
  BY Zenon
<1>2. q[v] = r /\ \A u \in Honest : u # v => q[u] = stay(view[u])
  BY <1>1
<1>3. ASSUME NEW u \in Honest PROVE view'[u] = q[u].s /\ Turns(view[u], q[u])
  <2>1. CASE u = v
    BY <1>2, <2>1
  <2>2. CASE u # v
    <3>1. PICK s : s = view[u]
      OBVIOUS
    <3>2. q[u] = stay(s) /\ view'[u] = s
      BY <1>2, <2>2, <3>1
    <3>3. stay(s).s = s /\ Turns(s, stay(s))
      BY StayTurns, ResultOf
    <3> QED BY <3>1, <3>2, <3>3
  <2> QED BY <2>1, <2>2
<1>4. SharedOk'
  BY DEF KeysInv, SharedOk
<1>5. \A tx \in pool' :
        \/ tx \in pool /\ (AllShared(chain, tx.group) => AllShared(chain', tx.group))
        \/ \E u \in Honest : tx \in encoded(u, q[u].acts)
  BY <1>2
<1>6. \A u \in Honest : BeforeGenesis(view'[u]) <=> BeforeGenesis(view[u])
  <2>1. BeforeGenesis(view[v]) => BeforeGenesis(r.s)
    BY ResultOf
  <2>2. BeforeGenesis(r.s) => BeforeGenesis(view[v])
    BY DEF Turns, Keeps, Fresh, Begins, Opens, BeforeGenesis
  <2> QED BY <2>1, <2>2
<1>7. WaitOk'
  BY <1>6, StillWaiting DEF KeysInv
<1> QED BY <1>3, <1>4, <1>5, <1>7, TurnsStep

\* The secrets of one validator arrive.
LEMMA SetupKeys ==
  ASSUME ShareInv, KeysInv, LockInv, LockInv', NEW e, e[1] \in Honest, performSetup(e)
  PROVE  KeysInv'
<1>1. PICK v \in Honest : v = e[1]
  OBVIOUS
<1>2. PICK version : version = storedVersion({f \in store : f[1] = v /\ f[2] = e[2]}, freshSecrets(v, e[2]))
  OBVIOUS
<1>3. PICK r : r = onSetup(v, view[v], e[2], version)
  OBVIOUS
<1>4. /\ Apply({v}, [u \in {v} |-> r], block) /\ chain' = chain /\ epochs' = epochs
      /\ pool' = pool \cup encoded(v, r.acts)
  BY <1>1, <1>2, <1>3 DEF performSetup
<1>5. view'[v] = r.s /\ \A u \in Honest : u # v => view'[u] = view[u]
  BY <1>4 DEF Apply
<1>6. Turns(view[v], r)
  BY <1>3, SetupTurns DEF LockInv, EpochOk, ShareInv, ViewsOk
<1>7. BeforeGenesis(view[v]) => r = stay(view[v])
  BY <1>3 DEF onSetup, BeforeGenesis
<1> QED BY <1>4, <1>5, <1>6, <1>7, SoloKeys

\* A validator collects the commitments again.
LEMMA RestartKeys ==
  ASSUME KeysInv, LockInv, LockInv', NEW v \in Honest, restart(v)
  PROVE  KeysInv'
<1>1. PICK s : s = view[v]
  OBVIOUS
<1>2. PICK c : c = ceremony(groupOf(s)).committed
  OBVIOUS
<1>3. PICK m : m = [p \in {q \in DOMAIN c : c[q] # 0} |-> c[p]]
  BY Zenon
<1>4. PICK i : i = idle(s, "CollectingCommitments", s.epoch)
  OBVIOUS
<1>5. PICK again : again = [i EXCEPT !.members = s.members, !.own = NoSecrets,
                                     !.deadline = began[v].deadline, !.commitments = m]
  OBVIOUS
<1>6. PICK r : r = IF began[v].deadline # NoDeadline /\ block >= began[v].deadline
                   THEN keyGenTimeouts(v, again, block) ELSE stay(again)
  OBVIOUS
<1>7. Apply({v}, [u \in {v} |-> r], block) /\ UNCHANGED <<chain, epochs, pool>>
  BY <1>1, <1>2, <1>3, <1>4, <1>5, <1>6 DEF restart, groupOf
<1>8. view'[v] = r.s /\ \A u \in Honest : u # v => view'[u] = view[u]
  BY <1>7 DEF Apply
<1>9. s.epoch \in Nat
  BY <1>1 DEF LockInv, EpochOk
<1>10. /\ again.phase = "CollectingCommitments" /\ again.epoch = s.epoch /\ again.keys = {}
       /\ again.confirmations = {} /\ again.active = s.active /\ again.epochs = s.epochs
  <2>1. /\ DOMAIN i = Fields /\ i.phase = "CollectingCommitments" /\ i.epoch = s.epoch
        /\ i.keys = {} /\ i.confirmations = {} /\ i.active = s.active /\ i.epochs = s.epochs
    BY <1>4, IdleKeeps
  <2> QED BY <1>5, <2>1 DEF Fields
<1>11. r = stay(again) \/ Fresh(again, r.s)
  BY <1>6, <1>9, <1>10, TimeoutTurns
<1>12. Fresh(s, r.s)
  <2>1. Fresh(s, again)
    BY <1>10 DEF Fresh, Begins, Carries, ActiveOk
  <2>2. Fresh(s, again) /\ Fresh(again, r.s) => Fresh(s, r.s)
    BY DEF Fresh, Begins, Carries
  <2> QED BY <1>11, <2>1, <2>2, ResultOf
<1>13. PICK x : x = stay(r.s)
  OBVIOUS
<1>14. x.s = r.s /\ x.acts = {}
  BY <1>13, ResultOf
<1>15. Turns(s, x)
  BY <1>12, <1>14 DEF Turns, Quiet
<1>16. ~BeforeGenesis(s)
  BY <1>1 DEF restart, BeforeGenesis
<1> QED BY <1>1, <1>7, <1>8, <1>14, <1>15, <1>16, SoloKeys

\* What a transaction adds to those who have shared.
LEMMA SharedAfter ==
  ASSUME CeremoniesOk, NEW tx, tx.kind \in Kinds, accepts(tx), chain' = put(chain, tx.group, written(tx))
  PROVE  /\ \A h : h # tx.group => sharedIn(chain', h) = sharedIn(chain, h)
         /\ tx.kind # "share" => sharedIn(chain', tx.group) = sharedIn(chain, tx.group)
         /\ tx.kind = "share" =>
                /\ sharedIn(chain', tx.group) = sharedIn(chain, tx.group) \cup {tx.from}
                /\ tx.from \notin sharedIn(chain, tx.group)
         /\ tx.from \in tx.group.members
         /\ DOMAIN chain' = DOMAIN chain \cup {tx.group}
<1>1. PICK g : g = tx.group
  OBVIOUS
<1>2. PICK old : old = ceremony(g)
  OBVIOUS
<1>3. PICK new : new = written(tx)
  OBVIOUS
<1>4. DOMAIN old = CeremonyFields
  BY <1>2, CeremonyIs
<1>5. old.shared = sharedIn(chain, g)
  BY <1>2 DEF ceremony, sharedIn, opened
<1>6. tx.kind = "share" => new.shared = old.shared \cup {tx.from} /\ tx.from \notin old.shared
  BY <1>1, <1>2, <1>3, <1>4 DEF written, accepts, CeremonyFields
<1>7. tx.kind # "share" => new.shared = old.shared
  <2>1. CASE tx.kind = "commit"
    BY <1>1, <1>2, <1>3, <1>4, <2>1 DEF written, CeremonyFields
  <2>2. CASE tx.kind = "complain"
    BY <1>1, <1>2, <1>3, <1>4, <2>2 DEF written, CeremonyFields
  <2>3. CASE tx.kind = "respond"
    BY <1>1, <1>2, <1>3, <1>4, <2>3 DEF written, CeremonyFields
  <2>4. CASE tx.kind = "confirm"
    BY <1>1, <1>2, <1>3, <1>4, <2>4 DEF written, CeremonyFields
  <2> QED BY <2>1, <2>2, <2>3, <2>4 DEF Kinds
<1>8. /\ DOMAIN chain' = DOMAIN chain \cup {g} /\ chain'[g] = new
      /\ \A h \in DOMAIN chain : h # g => chain'[h] = chain[h]
  <2>1. chain' = put(chain, g, new)
    BY <1>1, <1>3
  <2>2. PICK m : m = put(chain, g, new)
    OBVIOUS
  <2>3. DOMAIN m = DOMAIN chain \cup {g} /\ m[g] = new /\ \A h \in DOMAIN chain : h # g => m[h] = chain[h]
    BY <2>2 DEF put
  <2> QED BY <2>1, <2>2, <2>3
<1>9. \A h : h # g => sharedIn(chain', h) = sharedIn(chain, h)
  BY <1>8 DEF sharedIn
<1>10. sharedIn(chain', g) = new.shared
  BY <1>8 DEF sharedIn
<1> QED BY <1>1, <1>5, <1>6, <1>7, <1>8, <1>9, <1>10 DEF accepts

\* One validator and the event of a transaction: what is known of the ceremony
\* before and after, with the chains c and d.
LEMMA EventKeyOk ==
  ASSUME NEW v, NEW s, ViewOk(v, s), s.epoch \in Nat, NEW tx, NEW r, EventTurns(s, r, tx), r.s.epoch \in Nat,
         NEW c, NEW d, KeyOk(v, s, sharedIn(c, groupOf(s))),
         \A h : sharedIn(c, h) \subseteq sharedIn(d, h),
         tx.kind # "share" => \A h : sharedIn(d, h) = sharedIn(c, h),
         tx.kind = "share" => tx.from \in sharedIn(d, tx.group),
         sharedIn(d, groupOf(s)) \subseteq s.members,
         tx.from \in tx.group.members,
         tx.from = v => Keyed(tx, c, s)
  PROVE  KeyOk(v, r.s, sharedIn(d, groupOf(r.s)))
<1>1. s.members \subseteq Participants
  BY DEF ViewOk
<1>2. CASE Turns(s, r)
  <2>1. groupOf(r.s) = groupOf(s) => sharedIn(c, groupOf(s)) \subseteq sharedIn(d, groupOf(r.s))
    OBVIOUS
  <2> QED BY <1>2, <2>1, TurnsKeyOk
<1>3. CASE tx.kind = "share" /\ inGroup(s, tx.group) /\ Counts(s, r, tx.from)
  <2>1. groupOf(r.s) = groupOf(s) /\ tx.group = groupOf(s)
    BY <1>3 DEF Counts, groupOf, inGroup
  <2>2. sharedIn(c, groupOf(s)) \cup {tx.from} \subseteq sharedIn(d, groupOf(s))
    BY <1>3, <2>1
  <2>3. KeyOk(v, r.s, sharedIn(d, groupOf(s)))
    BY <1>1, <1>3, <2>2, CountsKeyOk
  <2> QED BY <2>1, <2>3
<1>4. CASE tx.kind = "respond" /\ Gains(s, r)
  <2>1. groupOf(r.s) = groupOf(s)
    BY <1>4 DEF Gains, groupOf
  <2>2. sharedIn(d, groupOf(s)) = sharedIn(c, groupOf(s))
    BY <1>4
  <2>3. KeyOk(v, r.s, sharedIn(c, groupOf(s)))
    BY <1>4, GainsKeyOk
  <2> QED BY <2>1, <2>2, <2>3
<1>5. CASE tx.kind = "confirm" /\ inGroup(s, tx.group) /\ Concludes(s, r, tx.from)
  <2>1. groupOf(r.s) = groupOf(s) /\ tx.group = groupOf(s) /\ s.phase = "CollectingConfirmations"
    BY <1>5 DEF Concludes, groupOf, inGroup
  <2>2. sharedIn(d, groupOf(s)) = sharedIn(c, groupOf(s))
    BY <1>5
  <2>3. tx.from = v => s.status = "Confirmed"
    BY <1>5, <2>1 DEF Keyed
  <2>4. tx.from \in s.members
    BY <2>1 DEF groupOf, groupId
  <2>5. KeyOk(v, r.s, sharedIn(c, groupOf(s)))
    BY <1>1, <1>5, <2>3, <2>4, ConcludesKeyOk
  <2> QED BY <2>1, <2>2, <2>5
<1>6. CASE Leaves(s, r, tx.from)
  <2>1. ActiveOk(s) /\ Begins(s, r.s)
    BY <1>6 DEF KeyOk, Leaves
  <2> QED BY <2>1 DEF KeyOk, Begins
<1> QED BY <1>2, <1>3, <1>4, <1>5, <1>6 DEF EventTurns

\* Confirmations that wait in the queue, and the event of a transaction.
LEMMA EventKeyed ==
  ASSUME NEW s, NEW tx, NEW r, EventTurns(s, r, tx), NEW c, NEW d,
         \A h : sharedIn(c, h) \subseteq sharedIn(d, h),
         tx.kind = "share" => tx.from \notin sharedIn(c, tx.group),
         tx.from \in tx.group.members,
         NEW q, Keyed(q, c, s)
  PROVE  Keyed(q, d, r.s)
<1>1. AllShared(c, q.group) => AllShared(d, q.group)
  BY DEF AllShared
<1>2. CASE Turns(s, r)
  BY <1>1, <1>2, TurnsKeyed
<1>3. CASE tx.kind = "share" /\ inGroup(s, tx.group) /\ Counts(s, r, tx.from)
  <2>1. r.s.epoch = s.epoch /\ r.s.members = s.members
    BY <1>3 DEF Counts
  <2>2. q.kind = "confirm" => ~inGroup(r.s, q.group)
    BY <1>3, <2>1 DEF Keyed, AllShared, inGroup
  <2> QED BY <1>1, <2>2 DEF Keyed
<1>4. CASE tx.kind = "respond" /\ Gains(s, r)
  BY <1>1, <1>4 DEF Keyed, Gains
<1>5. CASE tx.kind = "confirm" /\ inGroup(s, tx.group) /\ Concludes(s, r, tx.from)
  <2>1. /\ r.s.epoch = s.epoch /\ r.s.members = s.members /\ r.s.status = s.status
        /\ s.phase = "CollectingConfirmations"
    BY <1>5 DEF Concludes
  <2> QED BY <1>1, <2>1 DEF Keyed, inGroup
<1>6. CASE Leaves(s, r, tx.from)
  <2>1. r.s.phase # "CollectingConfirmations"
    BY <1>6 DEF Leaves, Begins
  <2> QED BY <1>1, <2>1 DEF Keyed
<1> QED BY <1>2, <1>3, <1>4, <1>5, <1>6 DEF EventTurns

\* Confirmations the event puts there.
LEMMA EventConfirms ==
  ASSUME NEW v, NEW s, NEW tx, NEW r, EventTurns(s, r, tx), NEW d, NEW q \in encoded(v, r.acts),
         KeyOk(v, r.s, sharedIn(d, groupOf(r.s)))
  PROVE  Keyed(q, d, r.s) /\ q.from = v
<1>1. PICK a \in r.acts : q.kind = a.kind /\ q.group = a.group /\ q.from = v
  BY DEF encoded
<1>2. SUFFICES ASSUME a.kind = "confirm" PROVE Keyed(q, d, r.s)
  BY <1>1 DEF Keyed
<1>3. ~Turns(s, r) /\ ~Concludes(s, r, tx.from) /\ ~Leaves(s, r, tx.from)
  BY <1>2 DEF Turns, Concludes, Leaves, Quiet
<1>4. Counts(s, r, tx.from) \/ Gains(s, r)
  BY <1>3 DEF EventTurns
<1>5. /\ r.s.phase = "CollectingConfirmations" /\ r.s.status = "Confirmed" /\ a.group = groupOf(s)
      /\ r.s.epoch = s.epoch /\ r.s.members = s.members
  <2>1. CASE Counts(s, r, tx.from)
    <3>1. ~Quiet(r)
      BY <1>2 DEF Quiet
    <3> QED BY <1>2, <2>1, <3>1 DEF Counts
  <2>2. CASE Gains(s, r)
    BY <2>2 DEF Gains
  <2> QED BY <1>4, <2>1, <2>2
<1>6. groupOf(r.s) = a.group /\ a.group.members = r.s.members
  BY <1>5 DEF groupOf, groupId
<1>7. r.s.members \subseteq sharedIn(d, a.group)
  BY <1>5, <1>6 DEF KeyOk
<1> QED BY <1>1, <1>5, <1>6, <1>7 DEF Keyed, AllShared

\* The groups that are staged, and the event of a transaction.  Who is left at
\* the end of genesis has confirmed, and has the key.
LEMMA EventHolds ==
  ASSUME EpochsOk, NEW v, NEW s, ViewOk(v, s), s.epoch \in Nat, HoldsKey(epochs, v, s),
         NEW shared, KeyOk(v, s, shared), InGenesis(s) => s.members = activeIn(0),
         NEW tx, NEW c, tx.from \in tx.group.members, tx.from = v => Keyed(tx, c, s),
         NEW r, EventTurns(s, r, tx)
  PROVE  HoldsKey(epochs, v, r.s)
<1>1. CASE Turns(s, r)
  BY <1>1, TurnsHolds
<1>2. CASE Counts(s, r, tx.from) \/ Gains(s, r) \/ Concludes(s, r, tx.from)
  <2>1. r.s.phase # "EpochStaged"
    BY <1>2 DEF Counts, Gains, Concludes
  <2>2. r.s.epoch = s.epoch /\ r.s.active = s.active /\ r.s.epochs = s.epochs
    BY <1>2 DEF Counts, Gains, Concludes
  <2> QED BY <2>1, <2>2 DEF HoldsKey, HoldsOf
<1>3. CASE tx.kind = "confirm" /\ inGroup(s, tx.group) /\ Leaves(s, r, tx.from)
  <2>1. /\ s.epoch = 0 /\ s.phase = "CollectingConfirmations" /\ complete(s, s.confirmations \cup {tx.from})
        /\ r.s.active = s.active /\ (s.status = "Confirmed" => groupOf(s) \in r.s.epochs)
        /\ r.s.phase # "EpochStaged"
    BY <1>3 DEF Leaves, Begins
  <2>2. s.members = activeIn(0) /\ r.s.active = 0
    BY <2>1 DEF InGenesis, Collecting, KeyOk, ActiveOk
  <2>3. groupOf(s) = groupId(0, activeIn(0)) /\ tx.group = groupOf(s) /\ tx.from \in s.members
    BY <1>3, <2>1, <2>2 DEF groupOf, inGroup, groupId
  <2>4. s.confirmations \cup {tx.from} \subseteq s.members
    BY <2>1, <2>3 DEF KeyOk
  <2>5. s.confirmations \cup {tx.from} = s.members
    BY <2>1, <2>4, FullSet DEF complete, ViewOk
  <2>6. v \in s.members => s.status = "Confirmed"
    <3>1. v \in s.confirmations => s.status = "Confirmed"
      BY <2>1 DEF KeyOk
    <3>2. tx.from = v => s.status = "Confirmed"
      BY <1>3, <2>1 DEF Keyed
    <3> QED BY <2>5, <3>1, <3>2
  <2>7. groupOf(s) \in epochs /\ groupOf(s).epoch = 0 /\ groupOf(s).members = s.members
    BY <2>2, <2>3 DEF EpochsOk, groupId
  <2> QED BY <2>1, <2>2, <2>6, <2>7 DEF HoldsKey, HoldsOf
<1> QED BY <1>1, <1>2, <1>3 DEF EventTurns

\* Who waits for genesis takes no notice of a ceremony.
LEMMA WaitersStay ==
  ASSUME NEW v, NEW s, s = view[v], BeforeGenesis(s), NEW tx, tx.kind \in Kinds,
         NEW r, r = onEvent(v, tx)
  PROVE  r = stay(s)
<1>0. s.phase = "WaitingForGenesis" /\ tx.kind \in {"commit", "share", "complain", "respond", "confirm"}
  BY DEF BeforeGenesis, Kinds
<1>1. CASE tx.kind = "commit"
  BY <1>0, <1>1 DEF onEvent, onCommitted
<1>2. CASE tx.kind = "share"
  BY <1>0, <1>2 DEF onEvent, onSecretShared
<1>3. CASE tx.kind = "complain"
  BY <1>0, <1>3 DEF onEvent, onComplained, countsComplaint
<1>4. CASE tx.kind = "respond"
  BY <1>0, <1>4 DEF onEvent, onComplaintResponded, countsResponse
<1>5. CASE tx.kind = "confirm"
  BY <1>0, <1>5 DEF onEvent, onConfirmed
<1> QED BY <1>0, <1>1, <1>2, <1>3, <1>4, <1>5

\* A transaction.
LEMMA ExecuteKeys ==
  ASSUME ShareInv, KeysInv, LockInv, LockInv', NEW tx, tx.kind \in Kinds, tx.valid \in BOOLEAN, execute(tx),
         tx.from \in Honest => Keyed(tx, chain, view[tx.from])
  PROVE  KeysInv'
<1>1. PICK r : r = [v \in Honest |-> onEvent(v, tx)]
  OBVIOUS
<1>2. /\ accepts(tx)
      /\ chain' = put(chain, tx.group, written(tx))
      /\ Apply(Honest, r, block)
      /\ pool' = (pool \ {tx}) \cup UNION {encoded(v, r[v].acts) : v \in Honest}
      /\ epochs' = epochs
  BY <1>1 DEF execute
<1>3. Sent(tx)
  BY <1>2 DEF Sent, accepts
<1>4. block \in Nat /\ \A v \in Honest : view[v].epoch \in Nat /\ view'[v].epoch \in Nat
  BY DEF LockInv, EpochOk
<1>5. \A v \in Honest : ViewOk(v, view[v])
  BY DEF ShareInv, ViewsOk
<1>6. \A v \in Honest : view'[v] = r[v].s /\ r[v] = onEvent(v, tx)
  BY <1>1, <1>2 DEF Apply
<1>7. \A v \in Honest : EventTurns(view[v], r[v], tx)
  BY <1>3, <1>4, <1>5, <1>6, EventTurning
<1>8. PICK c : c = chain
  OBVIOUS
<1>9. PICK d : d = chain'
  OBVIOUS
<1>10. /\ \A h : h # tx.group => sharedIn(d, h) = sharedIn(c, h)
       /\ tx.kind # "share" => sharedIn(d, tx.group) = sharedIn(c, tx.group)
       /\ tx.kind = "share" =>
            /\ sharedIn(d, tx.group) = sharedIn(c, tx.group) \cup {tx.from}
            /\ tx.from \notin sharedIn(c, tx.group)
       /\ tx.from \in tx.group.members
       /\ DOMAIN d = DOMAIN c \cup {tx.group}
  <2>1. CeremoniesOk
    BY DEF ShareInv
  <2>2. /\ \A h : h # tx.group => sharedIn(chain', h) = sharedIn(chain, h)
        /\ tx.kind # "share" => sharedIn(chain', tx.group) = sharedIn(chain, tx.group)
        /\ tx.kind = "share" =>
            /\ sharedIn(chain', tx.group) = sharedIn(chain, tx.group) \cup {tx.from}
            /\ tx.from \notin sharedIn(chain, tx.group)
        /\ tx.from \in tx.group.members
        /\ DOMAIN chain' = DOMAIN chain \cup {tx.group}
    BY <1>2, <2>1, SharedAfter
  <2> QED BY <1>8, <1>9, <2>2
<1>11. \A h : sharedIn(c, h) \subseteq sharedIn(d, h)
  BY <1>10
<1>12. \A h : sharedIn(d, h) \subseteq h.members
  <2>1. \A h : sharedIn(c, h) \subseteq h.members
    BY <1>8 DEF KeysInv, SharedOk, sharedIn
  <2> QED BY <1>10, <2>1
<1>13. SharedOk'
  BY <1>9, <1>12 DEF SharedOk, sharedIn
<1>14. ASSUME NEW v \in Honest PROVE KeyOk(v, r[v].s, sharedIn(d, groupOf(r[v].s)))
  <2>1. KeyOk(v, view[v], sharedIn(c, groupOf(view[v])))
    BY <1>8 DEF KeysInv, ViewKeysOk
  <2>2. sharedIn(d, groupOf(view[v])) \subseteq view[v].members
    BY <1>12 DEF groupOf, groupId
  <2>3. tx.from = v => Keyed(tx, c, view[v])
    BY <1>8
  <2>4. tx.kind # "share" => \A h : sharedIn(d, h) = sharedIn(c, h)
    BY <1>10
  <2>5. PICK s : s = view[v]
    OBVIOUS
  <2>6. PICK x : x = r[v]
    OBVIOUS
  <2>7. /\ ViewOk(v, s) /\ s.epoch \in Nat /\ EventTurns(s, x, tx) /\ x.s.epoch \in Nat
    BY <1>4, <1>5, <1>6, <1>7, <2>5, <2>6
  <2>8. KeyOk(v, x.s, sharedIn(d, groupOf(x.s)))
    BY <1>10, <1>11, <2>1, <2>2, <2>3, <2>4, <2>5, <2>7, EventKeyOk
  <2> QED BY <2>6, <2>8
<1>15. ViewKeysOk'
  BY <1>6, <1>9, <1>14 DEF ViewKeysOk
<1>16. ASSUME NEW q \in pool' PROVE Keyed(q, d, view'[q.from])
  <2>1. CASE q \in pool
    <3>1. q.from \in Honest
      BY <2>1 DEF LockInv, QueuedOk, Belongs
    <3>2. Keyed(q, c, view[q.from])
      BY <1>8, <2>1 DEF KeysInv, ConfirmsOk
    <3>3. Keyed(q, d, r[q.from].s)
      BY <1>7, <1>10, <1>11, <3>1, <3>2, EventKeyed
    <3> QED BY <1>6, <3>1, <3>3
  <2>2. ASSUME NEW v \in Honest, q \in encoded(v, r[v].acts) PROVE Keyed(q, d, view'[q.from])
    <3>1. PICK x : x = r[v]
      OBVIOUS
    <3>2. EventTurns(view[v], x, tx) /\ q \in encoded(v, x.acts) /\ KeyOk(v, x.s, sharedIn(d, groupOf(x.s)))
      BY <1>7, <1>14, <2>2, <3>1
    <3>3. Keyed(q, d, x.s) /\ q.from = v
      BY <3>2, EventConfirms
    <3> QED BY <1>6, <2>2, <3>1, <3>3
  <2> QED BY <1>2, <2>1, <2>2
<1>17. ConfirmsOk'
  BY <1>9, <1>16 DEF ConfirmsOk
<1>18. EpochsOk'
  BY <1>2 DEF KeysInv, EpochsOk
<1>19. ASSUME NEW v \in Honest PROVE HoldsKey(epochs, v, r[v].s)
  <2>1. /\ KeyOk(v, view[v], sharedIn(chain, groupOf(view[v]))) /\ HoldsKey(epochs, v, view[v])
        /\ EpochsOk
    BY <1>19 DEF KeysInv, ViewKeysOk, StagedOk
  <2>2. InGenesis(view[v]) => view[v].members = activeIn(0)
    BY <1>19 DEF LockInv, GenesisOk
  <2>3. tx.from = v => Keyed(tx, chain, view[v])
    OBVIOUS
  <2> QED BY <1>4, <1>5, <1>7, <1>10, <1>19, <2>1, <2>2, <2>3, EventHolds
<1>20. StagedOk'
  BY <1>2, <1>6, <1>19 DEF StagedOk
<1>21. ASSUME NEW v \in Honest PROVE BeforeGenesis(view'[v]) <=> BeforeGenesis(view[v])
  <2>1. r[v] = onEvent(v, tx)
    BY <1>6, <1>21
  <2>3. BeforeGenesis(view[v]) => r[v] = stay(view[v])
    BY <2>1, WaitersStay
  <2>2. BeforeGenesis(r[v].s) => BeforeGenesis(view[v])
    BY <1>7 DEF EventTurns, Turns, Keeps, Fresh, Begins, Opens, Counts, Gains, Concludes, Leaves, BeforeGenesis
  <2> QED BY <1>6, <2>2, <2>3, ResultOf
<1>22. WaitOk'
  BY <1>21, StillWaiting DEF KeysInv
<1> QED BY <1>13, <1>15, <1>17, <1>18, <1>20, <1>22 DEF KeysInv

\* F is a family of finite subsets of S.
FiniteFamily(F, S) == F # {} /\ \A x \in F : x \subseteq S /\ IsFiniteSet(x)

\* It has a smallest one.
LEMMA LeastSet ==
  ASSUME NEW S, NEW F, FiniteFamily(F, S)
  PROVE  \E x \in F : \A y \in F : y \subseteq x => y = x
<1>1. IsWellFoundedOn(StrictSubsetOrdering(S), FiniteSubsetsOf(S))
  BY FS_StrictSubsetOrderingWellFounded
<1>2. F \subseteq FiniteSubsetsOf(S)
  BY DEF FiniteSubsetsOf, FiniteFamily
<1>3. \E x \in F : \A y \in F : ~(<<y, x>> \in StrictSubsetOrdering(S))
  BY <1>1, <1>2, WFMin DEF FiniteFamily
<1> QED BY <1>3 DEF StrictSubsetOrdering, FiniteFamily

\* A set of numbers has a least one.
LEMMA LeastNumber ==
  ASSUME NEW T \in SUBSET Nat, T # {}
  PROVE  \E x \in T : \A y \in T : x <= y
<1>1. PICK F : F = {0 .. n : n \in T}
  OBVIOUS
<1>2. FiniteFamily(F, Nat)
  <2>1. \A n \in T : 0 .. n \subseteq Nat /\ IsFiniteSet(0 .. n)
    BY FS_Interval
  <2> QED BY <1>1, <2>1 DEF FiniteFamily
<1>3. PICK x \in F : \A y \in F : y \subseteq x => y = x
  BY <1>2, LeastSet
<1>4. PICK n \in T : x = 0 .. n
  BY <1>1
<1>5. ASSUME NEW m \in T PROVE n <= m
  <2>1. SUFFICES ASSUME m < n PROVE FALSE
    OBVIOUS
  <2>2. 0 .. m \in F /\ 0 .. m \subseteq 0 .. n
    BY <1>1, <2>1
  <2>3. 0 .. m = 0 .. n
    BY <1>3, <1>4, <2>2
  <2>4. n \in 0 .. n /\ n \notin 0 .. m
    BY <2>1
  <2> QED BY <2>3, <2>4
<1> QED BY <1>5

\* Epochs that are all below b have a last one.
LEMMA Largest ==
  ASSUME NEW E, \A g \in E : g.epoch \in Nat, NEW b \in Nat, NEW g0 \in E, \A g \in E : g.epoch <= b
  PROVE  \E g \in E : \A h \in E : h.epoch <= g.epoch
<1>1. PICK T : T = {n \in Nat : \E g \in E : g.epoch + n = b}
  OBVIOUS
<1>2. \A g \in E : b - g.epoch \in T
  BY <1>1
<1>3. PICK n \in T : \A m \in T : n <= m
  BY <1>1, <1>2, LeastNumber
<1>4. PICK g \in E : g.epoch + n = b
  BY <1>1, <1>3
<1>5. ASSUME NEW h \in E PROVE h.epoch <= g.epoch
  <2>1. n <= b - h.epoch /\ n \in Nat
    BY <1>1, <1>2, <1>3
  <2> QED BY <1>4, <2>1
<1> QED BY <1>4, <1>5

\* An epoch is not above the block it begins at.
LEMMA EpochBelow ==
  ASSUME NEW n \in Nat, NEW b \in Nat, n * BlocksPerEpoch <= b
  PROVE  n <= b
<1>1. BlocksPerEpoch \in Nat /\ BlocksPerEpoch >= 1
  BY ConfigAssumption
<1>2. PICK k \in Nat : BlocksPerEpoch = k + 1
  <2>1. BlocksPerEpoch - 1 \in Nat /\ BlocksPerEpoch = (BlocksPerEpoch - 1) + 1
    BY <1>1
  <2> QED BY <2>1
<1>3. n * k \in Nat /\ n * (k + 1) = n * k + n
  OBVIOUS
<1> QED BY <1>2, <1>3

\* The active epoch is one of those that are due.
LEMMA ActiveIs ==
  ASSUME EpochsOk, block \in Nat
  PROVE  activeEpoch \in epochs
<1>1. PICK E : E = {g \in epochs : g.epoch * BlocksPerEpoch <= block}
  OBVIOUS
<1>2. PICK g0 : g0 = groupId(0, activeIn(0))
  OBVIOUS
<1>3. g0 \in epochs /\ g0.epoch = 0
  BY <1>2 DEF EpochsOk, groupId
<1>4. 0 * BlocksPerEpoch = 0
  BY ConfigAssumption
<1>5. g0 \in E
  BY <1>1, <1>3, <1>4
<1>6. \A g \in E : g.epoch \in Nat /\ g.epoch <= block
  BY <1>1, EpochBelow DEF EpochsOk
<1>7. \E g \in E : \A h \in E : h.epoch <= g.epoch
  BY <1>5, <1>6, Largest
<1>8. activeEpoch = CHOOSE g \in E : \A h \in E : h.epoch <= g.epoch
  BY <1>1 DEF activeEpoch
<1>9. activeEpoch \in E
  BY <1>7, <1>8
<1> QED BY <1>1, <1>9

\* What the staging of an epoch does to the state s.
LEMMA StagedTurns ==
  ASSUME NEW v, NEW s, ViewOk(v, s), EpochOk(s), NEW g, g.epoch \in Nat, NEW shared, KeyOk(v, s, shared),
         ~BeforeGenesis(s), NEW r, r = onEpochStaged(s, g)
  PROVE  \/ Turns(s, r)
         \/ /\ r.s.phase = "EpochStaged" /\ r.s.epoch = g.epoch
            /\ v \in g.members => g \in r.s.epochs
            /\ r.s.active = s.active /\ r.s.epoch = s.epoch
            /\ s.epochs \subseteq r.s.epochs
            /\ r.acts = {}
<1>1. CASE s.phase = "SigningRollover" /\ inGroup(s, g)
  <2>1. PICK i : i = idle(s, "EpochStaged", s.epoch)
    OBVIOUS
  <2>2. /\ DOMAIN i = Fields /\ i.phase = "EpochStaged" /\ i.epoch = s.epoch /\ i.active = s.active
        /\ i.epochs = s.epochs
    BY <2>1, IdleKeeps
  <2>3. PICK t : t = finalizeKeyGen(s, i)
    OBVIOUS
  <2>4. r = stay(t)
    BY <1>1, <2>1, <2>3 DEF onEpochStaged
  <2>5. r.s = t /\ r.acts = {}
    BY <2>4, ResultOf
  <2>6. g = groupId(s.epoch, s.members) /\ g.epoch = s.epoch /\ g.members = s.members
    BY <1>1 DEF inGroup, groupId
  <2>7. PICK kept : kept = IF s.status = "Confirmed" THEN i.epochs \cup {g} ELSE i.epochs
    OBVIOUS
  <2>8. t = [i EXCEPT !.epochs = kept]
    BY <2>3, <2>6, <2>7, <2>2 DEF finalizeKeyGen, Fields
  <2>9. t.phase = "EpochStaged" /\ t.epoch = s.epoch /\ t.active = s.active /\ t.epochs = kept
    BY <2>2, <2>8 DEF Fields
  <2>10. v \in s.members => s.status = "Confirmed"
    BY <1>1 DEF KeyOk
  <2> QED BY <2>2, <2>5, <2>6, <2>7, <2>9, <2>10
<1>2. CASE ~(s.phase = "SigningRollover" /\ inGroup(s, g))
  BY <1>2, StayTurns DEF onEpochStaged, BeforeGenesis
<1> QED BY <1>1, <1>2

\* An epoch is staged.
LEMMA StageKeys ==
  ASSUME ShareInv, KeysInv, LockInv, LockInv', NEW g \in held(view), stageEpoch(g)
  PROVE  KeysInv'
<1>1. PICK r : r = [v \in Honest |-> onEpochStaged(view[v], g)]
  OBVIOUS
<1>2. /\ epochs' = epochs \cup {g} /\ Apply(Honest, r, block) /\ chain' = chain /\ pool' = pool
      /\ \A h \in epochs : h.epoch <= activeEpoch.epoch
      /\ g.epoch > activeEpoch.epoch
  BY <1>1 DEF stageEpoch
<1>3. \A v \in Honest : view'[v] = r[v].s /\ r[v] = onEpochStaged(view[v], g)
  BY <1>1, <1>2 DEF Apply
<1>4. /\ block \in Nat
      /\ \A v \in Honest : /\ EpochOk(view[v]) /\ view[v].epoch \in Nat /\ view'[v].epoch \in Nat
                           /\ ViewOk(v, view[v])
  BY DEF LockInv, EpochOk, ShareInv, ViewsOk
<1>5. g.epoch \in Nat
  BY <1>4 DEF held, groupId
<1>6. \A v \in Honest : KeyOk(v, view[v], sharedIn(chain, groupOf(view[v])))
  BY DEF KeysInv, ViewKeysOk
<1>16. \A v \in Honest : ~BeforeGenesis(view[v])
  <2>1. EpochsOk
    BY DEF KeysInv
  <2>2. activeEpoch.epoch \in Nat
    BY <1>4, <2>1, ActiveIs DEF EpochsOk
  <2>3. g.epoch # 0
    BY <1>2, <1>5, <2>2
  <2>4. PICK u \in Honest : view[u].epoch = g.epoch
    BY DEF held, groupId
  <2>5. ~BeforeGenesis(view[u])
    BY <1>4, <2>3, <2>4 DEF EpochOk, BeforeGenesis
  <2> QED BY <2>5 DEF KeysInv, WaitOk
<1>7. \A v \in Honest :
        \/ Turns(view[v], r[v])
        \/ /\ r[v].s.phase = "EpochStaged" /\ r[v].s.epoch = g.epoch
           /\ v \in g.members => g \in r[v].s.epochs
           /\ r[v].s.active = view[v].active /\ r[v].s.epoch = view[v].epoch
           /\ view[v].epochs \subseteq r[v].s.epochs
           /\ r[v].acts = {}
  BY <1>3, <1>4, <1>5, <1>6, <1>16, StagedTurns
<1>8. SharedOk'
  BY <1>2 DEF KeysInv, SharedOk
<1>9. ASSUME NEW v \in Honest PROVE KeyOk(v, r[v].s, sharedIn(chain', groupOf(r[v].s)))
  <2>1. CASE Turns(view[v], r[v])
    <3>1. groupOf(r[v].s) = groupOf(view[v]) =>
            sharedIn(chain, groupOf(view[v])) \subseteq sharedIn(chain', groupOf(r[v].s))
      BY <1>2
    <3> QED BY <1>3, <1>4, <1>6, <2>1, <3>1, TurnsKeyOk
  <2>2. CASE /\ r[v].s.phase = "EpochStaged" /\ r[v].s.active = view[v].active
             /\ r[v].s.epoch = view[v].epoch
    <3>1. ActiveOk(view[v])
      BY <1>6 DEF KeyOk
    <3>2. ActiveOk(r[v].s)
      BY <2>2, <3>1 DEF ActiveOk
    <3> QED BY <2>2, <3>2 DEF KeyOk
  <2> QED BY <1>7, <2>1, <2>2
<1>10. ViewKeysOk'
  BY <1>3, <1>9 DEF ViewKeysOk
<1>11. ASSUME NEW tx \in pool PROVE Keyed(tx, chain, view'[tx.from])
  <2>1. tx.from \in Honest /\ Keyed(tx, chain, view[tx.from])
    BY DEF LockInv, QueuedOk, Belongs, KeysInv, ConfirmsOk
  <2>2. CASE Turns(view[tx.from], r[tx.from])
    <3>1. Keyed(tx, chain, r[tx.from].s)
      BY <2>1, <2>2, TurnsKeyed
    <3> QED BY <1>3, <2>1, <3>1
  <2>3. CASE r[tx.from].s.phase = "EpochStaged"
    BY <1>3, <2>1, <2>3 DEF Keyed
  <2> QED BY <1>7, <2>1, <2>2, <2>3
<1>12. ConfirmsOk'
  BY <1>2, <1>11 DEF ConfirmsOk
<1>13. EpochsOk'
  <2>1. EpochsOk
    BY DEF KeysInv
  <2>2. PICK a : a = activeEpoch.epoch
    OBVIOUS
  <2>3. a \in Nat
    BY <1>4, <2>1, <2>2, ActiveIs DEF EpochsOk
  <2>4. \A h \in epochs : h.epoch \in Nat /\ h.epoch # g.epoch
    BY <1>2, <1>5, <2>1, <2>2, <2>3 DEF EpochsOk
  <2>5. groupId(0, activeIn(0)) \in epochs'
    BY <1>2, <2>1 DEF EpochsOk
  <2>6. \A h \in epochs' : h.epoch \in Nat
    BY <1>2, <1>5, <2>4
  <2>7. \A h, k \in epochs' : h.epoch = k.epoch => h = k
    BY <1>2, <2>1, <2>4 DEF EpochsOk
  <2> QED BY <2>5, <2>6, <2>7 DEF EpochsOk
<1>14. ASSUME NEW v \in Honest PROVE HoldsKey(epochs \cup {g}, v, r[v].s)
  <2>1. HoldsKey(epochs, v, view[v])
    BY <1>14 DEF KeysInv, StagedOk
  <2>2. CASE Turns(view[v], r[v])
    BY <1>4, <1>6, <1>14, <2>1, <2>2, TurnsHolds
  <2>3. CASE /\ r[v].s.epoch = g.epoch /\ (v \in g.members => g \in r[v].s.epochs)
             /\ r[v].s.active = view[v].active /\ r[v].s.epoch = view[v].epoch
             /\ view[v].epochs \subseteq r[v].s.epochs
    BY <2>1, <2>3 DEF HoldsKey, HoldsOf
  <2> QED BY <1>7, <1>14, <2>2, <2>3
<1>15. StagedOk'
  BY <1>2, <1>3, <1>14 DEF StagedOk
<1>17. WaitOk'
  <2>1. \A v \in Honest : ~BeforeGenesis(r[v].s)
    BY <1>7, <1>16 DEF Turns, Keeps, Fresh, Begins, Opens, BeforeGenesis
  <2> QED BY <1>3, <2>1 DEF WaitOk
<1> QED BY <1>8, <1>10, <1>12, <1>13, <1>15, <1>17 DEF KeysInv

\* Nothing has happened at first.
LEMMA InitKeys == Init => KeysInv
<1> SUFFICES ASSUME Init PROVE KeysInv
  OBVIOUS
<1>1. PICK i : i = initialView
  OBVIOUS
<1>2. /\ DOMAIN chain = {} /\ pool = {} /\ epochs = {groupId(0, activeIn(0))}
      /\ \A v \in Honest : view[v] = i
  BY <1>1 DEF Init
<1>3. i.phase = "WaitingForGenesis" /\ i.epoch = 0 /\ i.active = 0
  BY <1>1 DEF initialView, idle
<1>4. \A v, shared : KeyOk(v, i, shared)
  BY <1>3 DEF KeyOk, ActiveOk
<1>5. SharedOk /\ ViewKeysOk /\ ConfirmsOk
  BY <1>2, <1>4 DEF SharedOk, ViewKeysOk, ConfirmsOk
<1>6. EpochsOk
  BY <1>2 DEF EpochsOk, groupId
<1>7. StagedOk
  BY <1>2, <1>3 DEF StagedOk, HoldsKey
<1>8. WaitOk
  BY <1>2, <1>3 DEF WaitOk, BeforeGenesis
<1> QED BY <1>5, <1>6, <1>7, <1>8 DEF KeysInv

\* A step that leaves the ceremonies and the validators alone.
LEMMA QuietKeys ==
  ASSUME KeysInv, UNCHANGED <<chain, view, pool, epochs>>
  PROVE  KeysInv'
  BY DEF KeysInv, SharedOk, ViewKeysOk, ConfirmsOk, EpochsOk, StagedOk, WaitOk

\* Every step keeps the invariant.
LEMMA NextKeys == ShareInv /\ SetupsOk /\ LockInv /\ KeysInv /\ [Next]_vars => KeysInv'
<1> SUFFICES ASSUME ShareInv, SetupsOk, LockInv, KeysInv, [Next]_vars PROVE KeysInv'
  OBVIOUS
<1>0. LockInv'
  BY NextLock
<1>1. CASE newBlock
  BY <1>0, <1>1, NewBlockKeys
<1>2. CASE keyGenGenesis
  BY <1>0, <1>2, GenesisKeys
<1>3. CASE \E tx \in pool : mine(tx)
  <2>1. PICK tx \in pool : execute(tx)
    BY <1>3 DEF mine
  <2>2. tx.kind \in Kinds /\ tx.valid \in BOOLEAN /\ Keyed(tx, chain, view[tx.from])
    BY DEF ShareInv, QueueAgrees, LockInv, QueuedOk, Belongs, KeysInv, ConfirmsOk
  <2> QED BY <1>0, <2>1, <2>2, ExecuteKeys
<1>4. CASE \E p \in Faulty : misbehave(p)
  <2>0. PICK p \in Faulty : misbehave(p)
    BY <1>4
  <2>1. PICK g \in held(view), kind \in Kinds, valid \in BOOLEAN, peer \in Participants,
             bad \in SUBSET Honest :
          execute(sent(p, kind, g, peer, valid, bad))
    BY <2>0, MisbehaveSends
  <2>2. PICK tx : tx = sent(p, kind, g, peer, valid, bad)
    OBVIOUS
  <2>3. tx.kind = kind /\ tx.from = p /\ tx.valid = valid
    BY <2>2 DEF sent
  <2>4. p \notin Honest
    BY ConfigAssumption
  <2> QED BY <1>0, <2>1, <2>2, <2>3, <2>4, ExecuteKeys
<1>5. CASE \E g \in held(view) : stageEpoch(g)
  BY <1>0, <1>5, StageKeys
<1>6. CASE \E e \in setups : performSetup(e)
  <2>1. PICK e \in setups : performSetup(e)
    BY <1>6
  <2>2. e[1] \in Honest
    BY DEF SetupsOk
  <2> QED BY <1>0, <2>1, <2>2, SetupKeys
<1>7. CASE \E e \in setups : failSetup(e)
  BY <1>7, QuietKeys DEF failSetup
<1>8. CASE \E v \in Honest : restart(v)
  BY <1>0, <1>8, RestartKeys
<1>9. CASE UNCHANGED vars
  BY <1>9, QuietKeys DEF vars
<1> QED BY <1>1, <1>2, <1>3, <1>4, <1>5, <1>6, <1>7, <1>8, <1>9 DEF Next

\* Whoever is a member of a staged group and followed its staging can sign for
\* it: it holds the key share from the staging on and while the epoch is the
\* active one, until a later epoch is, whatever faulty participants sent, was
\* delayed, lost or replayed while the group was generated.  The same of
\* genesis, once it is passed.
THEOREM StagedMembersHoldKeys == Spec => []KeysHeld
<1>1. Init => ShareInv /\ SetupsOk /\ LockInv /\ KeysInv
  BY InitShare, InitLock, InitKeys DEF Init, SetupsOk
<1>2. ShareInv /\ SetupsOk /\ LockInv /\ KeysInv /\ [Next]_vars
        => ShareInv' /\ SetupsOk' /\ LockInv' /\ KeysInv'
  BY NextShare, NextLock, NextKeys
<1>3. KeysInv => KeysHeld
  <2>1. SUFFICES ASSUME KeysInv, NEW g \in epochs, NEW v \in g.members \cap Honest,
                        \/ view[v].phase = "EpochStaged" /\ view[v].epoch = g.epoch
                        \/ view[v].active = g.epoch /\ view[v].epoch # 0
                 PROVE  g \in view[v].epochs
    BY DEF KeysHeld
  <2>2. PICK h \in epochs : h.epoch = g.epoch /\ (v \in h.members => h \in view[v].epochs)
    BY <2>1 DEF KeysInv, StagedOk, HoldsKey, HoldsOf
  <2>3. h = g
    BY <2>1, <2>2 DEF KeysInv, EpochsOk
  <2> QED BY <2>1, <2>2, <2>3
<1> QED BY <1>1, <1>2, <1>3, PTL DEF Spec

============================================================================
