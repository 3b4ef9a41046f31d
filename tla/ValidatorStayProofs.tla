------------------------ MODULE ValidatorStayProofs ------------------------
(***************************************************************************)
(* For any number of validators: while no transaction misses a block, a    *)
(* single faulty participant cannot have a validator excluded that lost    *)
(* nothing (HonestStay).                                                   *)
(*                                                                         *)
(* StayInv says of every such validator that whatever its ceremony waits   *)
(* for - its commitment, its secret share, the answer to a complaint about *)
(* it, its own complaints, its confirmation - is onchain or in the queue   *)
(* with blocks to spare (InTime), and that the contract will accept it.    *)
(* A faulty participant can only do what its own messages can: make one    *)
(* complaint per validator, which is answered before it is due; send a bad *)
(* share, which every victim complains about before it confirms; and leave *)
(* such complaints unanswered, which excludes itself.  That no commitment  *)
(* or secret is from an earlier attempt follows from groups that only      *)
(* shrink within an epoch (TracesPast, NewUntraced).                       *)
(***************************************************************************)
EXTENDS ValidatorKeyGenProofs

\* One participant may do as it likes, and an honest one can answer in time.
OneFaulty == (\A p, q \in Faulty : p = q) /\ KeyGenTimeout >= 2

----------------------------------------------------------------------------
(* What the transitions do to the validator's own part.                    *)

\* r begins a ceremony with the deadline d; it ends one.
Starts(v, r, d) ==
    /\ r.acts = {} /\ r.s.phase = "CollectingCommitments"
    /\ r.s.commitments = <<>> /\ r.s.keys = {} /\ r.s.shares = {} /\ r.s.deadline = d
    /\ Cardinality(r.s.members) >= 2 /\ r.s.members \subseteq activeIn(r.s.epoch)
    /\ v \in r.s.members => r.s.own = NoSecrets /\ r.setup = {<<v, groupOf(r.s)>>}
    /\ v \notin r.s.members => r.s.own = Observing /\ r.setup = {}

Stops(r) == r.acts = {} /\ r.setup = {} /\ r.s.phase \notin Collecting

\* The fields of an idle state that no one else can see.
LEMMA IdleOwn ==
  ASSUME NEW s, NEW phase, NEW epoch
  PROVE  idle(s, phase, epoch).shares = {} /\ idle(s, phase, epoch).own = Observing
  BY DEF idle

\* The members that are left are two at least.
LEMMA MembersLeft ==
  ASSUME NEW epoch, NEW excluded, NEW members, members = participantsSet(epoch, excluded), members # {}
  PROVE  members = activeIn(epoch) \ excluded /\ Cardinality(members) >= 2
<1>1. PICK n : n = Cardinality(activeIn(epoch))
  OBVIOUS
<1>2. n \in Nat
  <2>1. IsFiniteSet(activeIn(epoch))
    BY ConfigAssumption, FS_Subset DEF activeIn
  <2> QED BY <1>1, <2>1, FS_CardinalityType
<1>3. PICK m : m = minParticipants(n)
  OBVIOUS
<1>4. m \in Nat /\ m >= 2
  BY <1>2, <1>3 DEF minParticipants
<1>5. PICK set : set = activeIn(epoch) \ excluded
  OBVIOUS
<1>6. Cardinality(set) \in Nat
  <2>1. IsFiniteSet(set)
    BY <1>5, ConfigAssumption, FS_Subset DEF activeIn
  <2> QED BY <2>1, FS_CardinalityType
<1>7. Cardinality(set) >= m /\ members = set
  BY <1>1, <1>3, <1>5 DEF participantsSet
<1> QED BY <1>4, <1>5, <1>6, <1>7

\* start_key_gen.
LEMMA StartStarts ==
  ASSUME NEW v, NEW s, NEW epoch, NEW members, Cardinality(members) >= 2,
         members \subseteq activeIn(epoch), NEW d,
         NEW r, r = startKeyGen(v, s, epoch, members, d)
  PROVE  Starts(v, r, d) /\ r.s.epoch = epoch /\ r.s.members = members
<1>1. PICK i : i = idle(s, "CollectingCommitments", epoch)
  OBVIOUS
<1>2. DOMAIN i = Fields /\ i.shares = {}
  BY <1>1, IdleIs, IdleOwn
<1>3. PICK own : own = IF v \in members THEN NoSecrets ELSE Observing
  OBVIOUS
<1>4. PICK t : t = [i EXCEPT !.members = members, !.own = own, !.deadline = d]
  OBVIOUS
<1>5. t.shares = {} /\ t.own = own
  BY <1>2, <1>4 DEF Fields
<1>6. PICK setup : setup = IF v \in members THEN {<<v, groupId(epoch, members)>>} ELSE {}
  OBVIOUS
<1>7. r = result(t, {}, setup)
  BY <1>1, <1>3, <1>4, <1>6 DEF startKeyGen
<1>8. r.s = t /\ r.setup = setup
  BY <1>7, ResultOf
<1>9. /\ r.acts = {}
      /\ r.s.phase = "CollectingCommitments" /\ r.s.epoch = epoch /\ r.s.members = members
      /\ r.s.commitments = <<>> /\ r.s.keys = {} /\ r.s.deadline = d
  BY StartIs
<1> QED BY <1>3, <1>5, <1>6, <1>8, <1>9 DEF Starts, groupOf

\* rollover_failure.
LEMMA FailureStops ==
  ASSUME NEW s
  PROVE  Stops(rolloverFailure(s))
<1>1. PICK x : x = idle(s, IF s.epoch = 0 THEN "Halted" ELSE "EpochSkipped", s.epoch)
  OBVIOUS
<1>2. rolloverFailure(s) = stay(x)
  BY <1>1 DEF rolloverFailure
<1>3. x.phase \in {"Halted", "EpochSkipped"}
  BY <1>1, IdleIs
<1> QED BY <1>2, <1>3, ResultOf DEF Stops, Collecting

\* restart_key_gen_excluding.
LEMMA RestartStarts ==
  ASSUME NEW v, NEW s, NEW excluded, NEW d,
         NEW r, r = restartKeyGenExcluding(v, s, excluded, d)
  PROVE  \/ Stops(r)
         \/ /\ Starts(v, r, d) /\ r.s.epoch = s.epoch
            /\ r.s.members = activeIn(s.epoch) \ excluded
<1>1. PICK members : members = IF s.epoch = 0 THEN {} ELSE participantsSet(s.epoch, excluded)
  OBVIOUS
<1>2. CASE members = {}
  <2>1. r = rolloverFailure(s)
    BY <1>1, <1>2 DEF restartKeyGenExcluding
  <2> QED BY <2>1, FailureStops
<1>3. CASE members # {}
  <2>1. r = startKeyGen(v, s, s.epoch, members, d)
    BY <1>1, <1>3 DEF restartKeyGenExcluding
  <2>2. members = activeIn(s.epoch) \ excluded /\ Cardinality(members) >= 2
    BY <1>1, <1>3, MembersLeft
  <2> QED BY <2>1, <2>2, StartStarts
<1> QED BY <1>2, <1>3

\* The next epoch starts with everyone, or is skipped.
LEMMA NextStarts ==
  ASSUME NEW v, NEW x, NEW i, NEW epoch, NEW members, members = participantsSet(epoch, {}), NEW d,
         i.phase \notin Collecting,
         NEW r, members = {} => r = stay(i), members # {} => r = startKeyGen(v, x, epoch, members, d)
  PROVE  \/ Stops(r)
         \/ Starts(v, r, d) /\ r.s.epoch = epoch /\ r.s.members = activeIn(epoch)
<1>1. CASE members = {}
  BY <1>1, ResultOf DEF Stops
<1>2. CASE members # {}
  <2>1. r = startKeyGen(v, x, epoch, members, d)
    BY <1>2
  <2>2. members = activeIn(epoch) \ {} /\ Cardinality(members) >= 2
    BY <1>2, MembersLeft
  <2>3. members = activeIn(epoch)
    BY <2>2
  <2> QED BY <2>1, <2>2, <2>3, StartStarts
<1> QED BY <1>1, <1>2

\* The last confirmation of genesis.
LEMMA PassedStarts ==
  ASSUME NEW v, NEW s, NEW b, NEW r, r = Passed(v, s, b)
  PROVE  \/ Stops(r)
         \/ Starts(v, r, b + KeyGenTimeout) /\ r.s.members = activeIn(r.s.epoch)
<1>1. PICK next : next = nextNumber(b)
  OBVIOUS
<1>2. PICK x : x = finalizeKeyGen(s, idle(s, "EpochSkipped", next))
  OBVIOUS
<1>3. x.phase = "EpochSkipped"
  <2>1. PICK i : i = idle(s, "EpochSkipped", next)
    OBVIOUS
  <2>2. DOMAIN i = Fields /\ i.phase = "EpochSkipped"
    BY <2>1, IdleIs
  <2>3. Same(i, x)
    BY <1>2, <2>1, <2>2, FinalizeKeyGenIs
  <2> QED BY <2>2, <2>3, SameFields
<1>4. PICK members : members = participantsSet(next, {})
  OBVIOUS
<1>5. PICK d : d = b + KeyGenTimeout
  OBVIOUS
<1>9. PICK i : i = x
  OBVIOUS
<1>6. (members = {} => r = stay(i)) /\ (members # {} => r = startKeyGen(v, x, next, members, d))
  BY <1>1, <1>2, <1>4, <1>5, <1>9 DEF Passed
<1>7. i.phase \notin Collecting
  BY <1>3, <1>9 DEF Collecting
<1>8. Stops(r) \/ (Starts(v, r, d) /\ r.s.epoch = next /\ r.s.members = activeIn(next))
  <2>1. CASE members = {}
    BY <1>6, <1>7, <2>1, ResultOf DEF Stops
  <2>2. CASE members # {}
    <3>1. members = activeIn(next) \ {} /\ Cardinality(members) >= 2
      BY <1>4, <2>2, MembersLeft
    <3>2. members = activeIn(next)
      BY <3>1
    <3> QED BY <1>6, <2>2, <3>1, <3>2, StartStarts
  <2> QED BY <2>1, <2>2
<1> QED BY <1>5, <1>8

\* The next epoch is due.
LEMMA TakenStarts ==
  ASSUME NEW v, NEW s, NEW b, NEW r, r = TakenUp(v, s, b)
  PROVE  \/ Stops(r)
         \/ Starts(v, r, b + KeyGenTimeout) /\ r.s.members = activeIn(r.s.epoch)
<1>1. PICK next : next = nextNumber(b)
  OBVIOUS
<1>2. PICK x : x = Rolled(s)
  OBVIOUS
<1>3. PICK i : i = idle(x, "EpochSkipped", next)
  OBVIOUS
<1>4. i.phase \notin Collecting
  BY <1>3, IdleIs DEF Collecting
<1>5. PICK members : members = participantsSet(next, {})
  OBVIOUS
<1>6. PICK d : d = b + KeyGenTimeout
  OBVIOUS
<1>7. (members = {} => r = stay(i)) /\ (members # {} => r = startKeyGen(v, x, next, members, d))
  BY <1>1, <1>2, <1>3, <1>5, <1>6 DEF TakenUp
<1>8. Stops(r) \/ (Starts(v, r, d) /\ r.s.epoch = next /\ r.s.members = activeIn(next))
  BY <1>4, <1>5, <1>7, NextStarts
<1> QED BY <1>6, <1>8

\* An action is for the group of the state it comes from.
LEMMA ActionIs ==
  ASSUME NEW kind, NEW s, NEW peer, NEW version
  PROVE  LET a == action(kind, s, peer, version)
         IN  a.kind = kind /\ a.group = groupOf(s) /\ a.peer = peer /\ a.version = version
  BY DEF action, groupOf

\* It does not depend on more of the state than the group.
LEMMA SameAction ==
  ASSUME NEW kind, NEW s, NEW t, s.epoch = t.epoch, s.members = t.members, NEW peer, NEW version
  PROVE  action(kind, s, peer, version) = action(kind, t, peer, version)
  BY DEF action

\* KeyGenCommitted, by what is counted.
LEMMA CommittedCases ==
  ASSUME NEW v, NEW s, NEW b, NEW g, NEW p, NEW version,
         NEW x, x = Counted(s, p, version),
         NEW r, r = onCommitted(v, s, b, g, p, version)
  PROVE  \/ r = stay(s) /\ ~(s.phase = "CollectingCommitments" /\ inGroup(s, g))
         \/ /\ s.phase = "CollectingCommitments" /\ inGroup(s, g)
            /\ \/ r = stay(x) /\ ~(complete(x, DOMAIN x.commitments) /\ x.own # NoSecrets)
               \/ /\ complete(x, DOMAIN x.commitments) /\ x.own # NoSecrets
                  /\ r = finalizeKeyGenCommitments(v, x, pushed(s, b))
  BY DEF onCommitted, Counted

\* Counting a commitment leaves the own part alone.
LEMMA CountedOwn ==
  ASSUME NEW s, DOMAIN s = Fields, NEW p, NEW version, NEW x, x = Counted(s, p, version)
  PROVE  x.shares = s.shares /\ x.status = s.status
  BY DEF Counted, Fields

\* The secret shares are published.
LEMMA FinalizeOwn ==
  ASSUME NEW v, NEW s, DOMAIN s = Fields, matchesCommitment(v, s), NEW deadline,
         NEW r, r = finalizeKeyGenCommitments(v, s, deadline)
  PROVE  /\ r.s.own = s.own /\ r.s.shares = s.shares /\ r.setup = {}
         /\ s.own # Observing => r.acts = {action("share", s, v, s.own)}
         /\ s.own = Observing => r.acts = {}
<1>1. PICK t : t = [s EXCEPT !.phase = "CollectingShares", !.deadline = deadline,
                        !.total = [p \in s.members |-> 0],
                        !.unresponded = [p \in s.members |-> 0]]
  OBVIOUS
<1>2. t.own = s.own /\ t.shares = s.shares
  BY <1>1 DEF Fields
<1>3. PICK acts : acts = IF s.own = Observing THEN {} ELSE {action("share", s, v, s.own)}
  OBVIOUS
<1>4. r = result(t, acts, {})
  BY <1>1, <1>3 DEF finalizeKeyGenCommitments
<1>5. r.s = t /\ r.acts = acts /\ r.setup = {}
  BY <1>4, ResultOf
<1> QED BY <1>2, <1>3, <1>5

\* confirm_key_gen.
LEMMA ConfirmOwn ==
  ASSUME NEW v, NEW s, DOMAIN s = Fields, NEW r, r = confirmKeyGen(v, s)
  PROVE  /\ r.s.own = s.own /\ r.s.shares = s.shares /\ r.setup = {}
         /\ hasKeyShare(s) => r.s.status = "Confirmed" /\ r.acts = {action("confirm", s, v, 0)}
         /\ ~hasKeyShare(s) => r.s.status = s.status /\ r.acts = {}
<1>1. CASE hasKeyShare(s)
  <2>1. PICK t : t = [s EXCEPT !.status = "Confirmed"]
    OBVIOUS
  <2>2. t.own = s.own /\ t.shares = s.shares /\ t.status = "Confirmed"
    BY <2>1 DEF Fields
  <2>3. r = result(t, {action("confirm", s, v, 0)}, {})
    BY <1>1, <2>1 DEF confirmKeyGen
  <2> QED BY <1>1, <2>2, <2>3, ResultOf
<1>2. CASE ~hasKeyShare(s)
  <2>1. r = stay(s)
    BY <1>2 DEF confirmKeyGen
  <2> QED BY <1>2, <2>1, ResultOf
<1> QED BY <1>1, <1>2

\* What a secret share of p means to a validator that takes part, and holds a
\* verified share of those in `shares` afterwards.
OwnShare(v, s, r, p, bad, shares) ==
    /\ r.s.own = s.own /\ r.s.shares = shares /\ r.setup = {}
    /\ v \in bad => shares = s.shares /\ action("complain", s, p, 0) \in r.acts
    /\ v \notin bad => shares = s.shares \cup {p}
    /\ \A a \in r.acts :
        \/ v \in bad /\ a = action("complain", s, p, 0)
        \/ complete(s, s.keys \cup {p}) /\ complete(s, shares) /\ a = action("confirm", s, v, 0)
    /\ complete(s, s.keys \cup {p}) =>
        /\ complete(s, shares) => r.s.status = "Confirmed" /\ action("confirm", s, v, 0) \in r.acts
        /\ ~complete(s, shares) => r.s.status = "Collecting"

\* KeyGenSecretShared.
LEMMA SharedOwn ==
  ASSUME NEW v, NEW s, DOMAIN s = Fields, s.phase = "CollectingShares",
         NEW b, NEW g, inGroup(s, g), NEW p, NEW bad, s.own # Observing,
         NEW r, r = onSecretShared(v, s, b, g, p, TRUE, bad)
  PROVE  OwnShare(v, s, r, p, bad, r.s.shares)
<1>2. PICK shares : shares = IF v \notin bad THEN s.shares \cup {p} ELSE s.shares
  OBVIOUS
<1>3. PICK t : t = [s EXCEPT !.keys = @ \cup {p}, !.shares = shares]
  OBVIOUS
<1>4. PICK complaint : complaint = IF v \in bad THEN {action("complain", s, p, 0)} ELSE {}
  OBVIOUS
<1>6. PICK y : y = [t EXCEPT !.phase = "CollectingConfirmations", !.status = "Collecting",
                             !.deadline = pushed(s, b)]
  OBVIOUS
<1>7. PICK next : next = confirmKeyGen(v, y)
  OBVIOUS
<1>8. r = IF complete(t, t.keys) THEN [next EXCEPT !.acts = @ \cup complaint]
          ELSE result(t, complaint, {})
  BY <1>2, <1>3, <1>4, <1>6, <1>7 DEF onSecretShared, verifyEncryptedShare
<1>10. /\ DOMAIN t = Fields /\ t.epoch = s.epoch /\ t.members = s.members /\ t.own = s.own
       /\ t.keys = s.keys \cup {p} /\ t.shares = shares
  BY <1>3 DEF Fields
<1>11. complete(t, t.keys) <=> complete(s, s.keys \cup {p})
  BY <1>10 DEF complete
<1>12. CASE ~complete(t, t.keys)
  <2>1. r = result(t, complaint, {})
    BY <1>8, <1>12
  <2>2. r.s = t /\ r.acts = complaint /\ r.setup = {}
    <3>1. PICK q : q = result(t, complaint, {})
      OBVIOUS
    <3>2. q.s = t /\ q.acts = complaint /\ q.setup = {}
      BY <3>1, ResultOf
    <3> QED BY <2>1, <3>1, <3>2
  <2>3. ~complete(s, s.keys \cup {p})
    BY <1>11, <1>12
  <2>4. r.s.own = s.own /\ r.s.shares = shares /\ r.setup = {}
    BY <1>10, <2>2
  <2>5. PICK a1 : a1 = action("complain", s, p, 0)
    OBVIOUS
  <2>6. r.acts = IF v \in bad THEN {a1} ELSE {}
    BY <1>4, <2>2, <2>5
  <2>7. OwnShare(v, s, r, p, bad, shares)
    BY <1>2, <2>3, <2>4, <2>5, <2>6 DEF OwnShare
  <2> QED BY <2>4, <2>7
<1>13. CASE complete(t, t.keys)
  <2>1. /\ DOMAIN y = Fields /\ y.epoch = s.epoch /\ y.members = s.members /\ y.own = s.own
        /\ y.shares = shares /\ y.status = "Collecting"
    BY <1>6, <1>10 DEF Fields
  <2>2. /\ next.s.own = y.own /\ next.s.shares = y.shares /\ next.setup = {}
        /\ hasKeyShare(y) => next.s.status = "Confirmed" /\ next.acts = {action("confirm", y, v, 0)}
        /\ ~hasKeyShare(y) => next.s.status = y.status /\ next.acts = {}
    BY <1>7, <2>1, ConfirmOwn
  <2>3. DOMAIN next = {"s", "acts", "setup"}
    BY <1>7, <2>1, ConfirmIs
  <2>4. r.s = next.s /\ r.acts = next.acts \cup complaint /\ r.setup = next.setup
    BY <1>8, <1>13, <2>3
  <2>5. hasKeyShare(y) <=> complete(s, shares)
    BY <2>1 DEF hasKeyShare, complete
  <2>6. action("confirm", y, v, 0) = action("confirm", s, v, 0)
    BY <2>1, SameAction
  <2>7. PICK a0 : a0 = action("confirm", s, v, 0)
    OBVIOUS
  <2>8. PICK a1 : a1 = action("complain", s, p, 0)
    OBVIOUS
  <2>9. /\ complete(s, shares) => r.s.status = "Confirmed" /\ r.acts = {a0} \cup complaint
        /\ ~complete(s, shares) => r.s.status = "Collecting" /\ r.acts = complaint
    BY <2>1, <2>2, <2>4, <2>5, <2>6, <2>7
  <2>10. r.s.own = s.own /\ r.s.shares = shares /\ r.setup = {}
    BY <2>1, <2>2, <2>4
  <2>11. complete(s, s.keys \cup {p})
    BY <1>11, <1>13
  <2>12. OwnShare(v, s, r, p, bad, shares)
    BY <1>2, <1>4, <2>7, <2>8, <2>9, <2>10, <2>11 DEF OwnShare
  <2> QED BY <2>10, <2>12
<1> QED BY <1>12, <1>13

\* KeyGenComplained, if the ceremony goes on.
LEMMA ComplainedOwn ==
  ASSUME NEW v, NEW s, DOMAIN s = Fields, NEW b, NEW g, NEW plaintiff, NEW accused,
         Heeds(s, g, b), ~TooMany(s, accused),
         NEW r, r = onComplained(v, s, b, g, plaintiff, accused)
  PROVE  /\ r.s = Blamed(s, accused) /\ r.setup = {}
         /\ r.s.own = s.own /\ r.s.shares = s.shares /\ r.s.status = s.status
         /\ accused = v /\ s.own # Observing => r.acts = {action("respond", s, plaintiff, 0)}
         /\ ~(accused = v /\ s.own # Observing) => r.acts = {}
<1>1. PICK x : x = Blamed(s, accused)
  OBVIOUS
<1>2. x.total = AddOne(s.total, accused)
  BY <1>1, BlamedIs
<1>3. PICK acts : acts = IF accused = v /\ s.own # Observing
                         THEN {action("respond", s, plaintiff, 0)} ELSE {}
  OBVIOUS
<1>4. r = result(x, acts, {})
  BY <1>1, <1>2, <1>3 DEF onComplained, Blamed, Heeds, TooMany
<1>5. r.s = x /\ r.acts = acts /\ r.setup = {}
  BY <1>4, ResultOf
<1>6. x.own = s.own /\ x.shares = s.shares /\ x.status = s.status
  BY <1>1 DEF Blamed, Fields
<1> QED BY <1>1, <1>3, <1>5, <1>6

\* What an answer means to a validator that holds a verified share of those in
\* `shares` afterwards.
OwnAnswer(v, s, r, plaintiff, accused, shares) ==
    /\ r.s.own = s.own /\ r.s.shares = shares /\ r.setup = {}
    /\ plaintiff = v /\ s.own # Observing => shares = s.shares \cup {accused}
    /\ ~(plaintiff = v /\ s.own # Observing) => shares = s.shares
    /\ \/ /\ s.phase = "CollectingConfirmations" /\ s.status = "Collecting" /\ complete(s, shares)
          /\ r.s.status = "Confirmed" /\ r.acts = {action("confirm", s, v, 0)}
       \/ /\ ~(s.phase = "CollectingConfirmations" /\ s.status = "Collecting" /\ complete(s, shares))
          /\ r.s.status = s.status /\ r.acts = {}

\* KeyGenComplaintResponded.
LEMMA RespondedOwn ==
  ASSUME NEW v, NEW s, DOMAIN s = Fields, NEW b, NEW g, NEW plaintiff, NEW accused,
         Owed(s, g, b, accused), NEW r, r = onComplaintResponded(v, s, b, g, plaintiff, accused, TRUE)
  PROVE  OwnAnswer(v, s, r, plaintiff, accused, r.s.shares)
<1>1. PICK shares : shares = IF plaintiff = v /\ s.own # Observing
                             THEN s.shares \cup {accused} ELSE s.shares
  OBVIOUS
<1>2. PICK n : n = TakeOne(s.unresponded, accused)
  OBVIOUS
<1>3. PICK t : t = [s EXCEPT !.unresponded = n, !.shares = shares]
  OBVIOUS
<1>4. t = [s EXCEPT !.unresponded[accused] = @ - 1,
                    !.shares = IF plaintiff = v /\ s.own # Observing
                               THEN @ \cup {accused} ELSE @]
  BY <1>1, <1>2, <1>3 DEF TakeOne, Fields
<1>5. r = IF t.phase = "CollectingConfirmations" THEN confirmKeyGen(v, t) ELSE stay(t)
  BY <1>4 DEF onComplaintResponded, Owed
<1>6. /\ DOMAIN t = Fields /\ t.phase = s.phase /\ t.epoch = s.epoch /\ t.members = s.members
      /\ t.own = s.own /\ t.status = s.status /\ t.shares = shares
  BY <1>3 DEF Fields
<1>7. CASE t.phase = "CollectingConfirmations"
  <2>1. /\ r.s.own = t.own /\ r.s.shares = t.shares /\ r.setup = {}
        /\ hasKeyShare(t) => r.s.status = "Confirmed" /\ r.acts = {action("confirm", t, v, 0)}
        /\ ~hasKeyShare(t) => r.s.status = t.status /\ r.acts = {}
    BY <1>5, <1>6, <1>7, ConfirmOwn
  <2>2. hasKeyShare(t) <=> s.status = "Collecting" /\ complete(s, shares)
    BY <1>6 DEF hasKeyShare, complete
  <2>3. action("confirm", t, v, 0) = action("confirm", s, v, 0)
    BY <1>6, SameAction
  <2> QED BY <1>1, <1>6, <1>7, <2>1, <2>2, <2>3 DEF OwnAnswer
<1>8. CASE t.phase # "CollectingConfirmations"
  <2>1. r.s = t /\ r.acts = {} /\ r.setup = {}
    BY <1>5, <1>8, ResultOf
  <2> QED BY <1>1, <1>6, <1>8, <2>1 DEF OwnAnswer
<1> QED BY <1>7, <1>8
----------------------------------------------------------------------------
(* The invariant                                                           *)

\* All members of g are in the set.
AllIn(g, set) == Cardinality(set) = Cardinality(g.members)

\* Who waits for an answer of p in the ceremony c.
AccusersOf(c, p) == {q \in Participants : <<q, p>> \in c.filed \ c.answered}

\* The order of a ceremony; and of two participants of which one complains
\* about the other one is faulty.
CeremonyOk(g, c) ==
    /\ DOMAIN c = CeremonyFields
    /\ DOMAIN c.committed \subseteq g.members /\ c.shared \subseteq g.members
    /\ c.confirmed \subseteq g.members
    /\ c.answered \subseteq c.filed
    /\ \A p, q : <<p, q>> \in c.filed => p \in g.members /\ (p \in Faulty \/ q \in Faulty \cap c.shared)
    /\ ~AllIn(g, DOMAIN c.committed) =>
        c.shared = {} /\ c.filed = {} /\ c.confirmed = {} /\ c.compromised = FALSE
    /\ ~AllIn(g, c.shared) => c.confirmed = {}

\* A transaction of v waits in the queue P, since one block at most and
\* since the block q at the latest.
Waits(P, b, kind, v, g, peer, q) ==
    \E tx \in P :
        /\ tx.from = v /\ tx.kind = kind /\ tx.group = g /\ tx.peer = peer
        /\ tx.queued \in Nat /\ tx.queued >= b - 1 /\ tx.queued <= q

\* v takes part in a ceremony with deadlines.
Joins(v, s) ==
    /\ v \in s.members /\ s.own # Observing
    /\ Cardinality(s.members) >= 2
    /\ s.deadline \in Nat /\ s.deadline # NoDeadline

\* v commits in time.
Commits(v, s, c, P, U, b) ==
    /\ s.shares = {}
    /\ \A tx \in P : tx.from = v /\ tx.kind = "commit" /\ tx.group = groupOf(s) => tx.version # 0
    /\ v \notin DOMAIN s.commitments =>
        /\ v \notin DOMAIN c.committed
        /\ \/ <<v, groupOf(s)>> \in U /\ s.own = NoSecrets /\ b + KeyGenTimeout <= s.deadline
           \/ Waits(P, b, "commit", v, groupOf(s), v, s.deadline - KeyGenTimeout)

\* The validators count the complaints about a faulty member as the contract does.
Tallies(s, c) ==
    /\ AllIn(groupOf(s), DOMAIN c.committed) /\ c.compromised = FALSE
    /\ s.total \in [s.members -> Nat] /\ s.unresponded \in [s.members -> Nat]
    /\ \A p \in s.members : s.unresponded[p] <= s.total[p]
    /\ \A p \in Faulty \cap s.members : s.unresponded[p] = Cardinality(AccusersOf(c, p))

\* The last block in which a complaint counts.
lastComplaint(s, b) == IF s.phase = "CollectingShares" THEN b ELSE s.deadline

\* v is accused once at most, and answers in time.
Answers(v, s, c, P, b) ==
    /\ s.total[v] <= 1
    /\ s.total[v] = 1 => \E z \in Faulty : <<z, v>> \in c.filed
    /\ s.unresponded[v] > 0 =>
        \E z \in Faulty :
            /\ <<z, v>> \in c.filed \ c.answered
            /\ Waits(P, b, "respond", v, groupOf(s), z, lastComplaint(s, b))

\* v lacks the share of who has not answered its complaint.
Complains(v, s, c, P, b) ==
    /\ s.shares \subseteq s.keys /\ s.keys \ s.shares \subseteq Faulty
    /\ \A p \in Faulty \cap s.members :
        p \in s.keys \ s.shares <=>
            \/ <<v, p>> \in c.filed \ c.answered
            \/ <<v, p>> \notin c.filed /\ Waits(P, b, "complain", v, groupOf(s), p, b)

\* v shares in time.
SharesIn(v, s, c, P, b) ==
    /\ s.keys \subseteq c.shared
    /\ v \notin s.keys =>
        v \notin c.shared /\ Waits(P, b, "share", v, groupOf(s), v, s.deadline - KeyGenTimeout)
    /\ v \notin c.confirmed
    /\ \A tx \in P : tx.from = v /\ tx.kind = "confirm" => tx.group # groupOf(s)

\* v confirms in time.
ConfirmsIn(v, s, c, P, b) ==
    /\ s.keys = s.members /\ c.shared = s.members
    /\ c.confirmed \subseteq s.confirmations
    /\ s.status \in {"Collecting", "Confirmed"} /\ (s.status = "Confirmed" <=> s.shares = s.members)
    /\ v \in s.confirmations => s.status = "Confirmed"
    /\ \A p \in s.members : s.unresponded[p] > 0 => b < s.deadline + KeyGenTimeout
    /\ \A tx \in P : tx.kind = "complain" /\ tx.group = groupOf(s) =>
                        tx.queued <= s.deadline - KeyGenTimeout
    /\ b >= s.deadline - KeyGenTimeout
    /\ s.status = "Confirmed" /\ v \notin s.confirmations =>
        Waits(P, b, "confirm", v, groupOf(s), v, s.deadline + KeyGenTimeout)

\* v keeps all deadlines.
InTime(v, s, c, P, U, b) ==
    /\ Joins(v, s)
    /\ s.phase = "CollectingCommitments" => Commits(v, s, c, P, U, b)
    /\ s.phase \in {"CollectingShares", "CollectingConfirmations"} =>
        Tallies(s, c) /\ Answers(v, s, c, P, b) /\ Complains(v, s, c, P, b)
    /\ s.phase = "CollectingShares" => SharesIn(v, s, c, P, b)
    /\ s.phase = "CollectingConfirmations" => ConfirmsIn(v, s, c, P, b)

\* Sound validators that are active in their epoch do.
Member(v, s) == s.epoch # 0 /\ s.phase \in Collecting /\ v \in activeIn(s.epoch)

AllInTime ==
    delays = 0 =>
        \A v \in Sound : Member(v, view[v]) =>
            InTime(v, view[v], ceremony(groupOf(view[v])), pool, setups, block)

CeremoniesInOrder == \A g \in DOMAIN chain : CeremonyOk(g, chain[g])

\* A queued transaction is a good one, and complaints are about faulty members.
TxOk(tx) ==
    /\ tx.group.members \subseteq Participants
    /\ tx.queued \in Nat /\ tx.queued <= block /\ tx.valid = TRUE /\ tx.bad = {}
    /\ tx.kind = "complain" =>
        /\ tx.peer \in Faulty \cap ceremony(tx.group).shared
        /\ AllIn(tx.group, DOMAIN ceremony(tx.group).committed)

QueueGood == \A tx \in pool : TxOk(tx)

\* A complaint that the contract accepts has not waited for long.
Prompt ==
    delays = 0 =>
        \A tx \in pool : tx.kind = "complain" /\ accepts(tx) => tx.queued >= block - 1

\* v has committed in g, has secrets for it or is about to sample them.
Traced(v, g) ==
    \/ g \in DOMAIN chain /\ v \in DOMAIN chain[g].committed
    \/ \E k : <<v, g, k>> \in store

\* g is the present group of v or an earlier one.
Past(S, v, s, g) ==
    /\ g.epoch \in Nat /\ g.epoch <= s.epoch
    /\ v \in S /\ g.epoch = s.epoch /\ g.epoch # 0 => s.members \subseteq g.members

TracesPast ==
    \A v \in Honest : \A g : Traced(v, g) \/ <<v, g>> \in setups => Past(Sound, v, view[v], g)

\* A ceremony without the own secrets is a new one.
NewUntraced ==
    \A v \in Sound :
        LET s == view[v]
        IN  s.phase = "CollectingCommitments" /\ s.own = NoSecrets /\ s.epoch # 0 =>
                /\ ~Traced(v, groupOf(s))
                /\ \A tx \in pool : tx.from = v => tx.group # groupOf(s)

StayInv ==
    CeremoniesInOrder /\ QueueGood /\ Prompt /\ TracesPast /\ NewUntraced /\ AllInTime
----------------------------------------------------------------------------
(* Ceremonies                                                              *)

\* Participants are finitely many.
LEMMA FiniteMembers ==
  ASSUME NEW set, set \subseteq Participants
  PROVE  IsFiniteSet(set) /\ Cardinality(set) \in Nat
  BY ConfigAssumption, FS_Subset, FS_CardinalityType

\* A set of members is complete when it has all of them.
LEMMA AllMembers ==
  ASSUME NEW g, g.members \subseteq Participants, NEW set, set \subseteq g.members
  PROVE  AllIn(g, set) <=> set = g.members
<1>1. IsFiniteSet(g.members)
  BY FiniteMembers
<1> QED BY <1>1, FS_Subset DEF AllIn

\* What the contract requires.
LEMMA AcceptsIs ==
  ASSUME NEW tx, tx.kind \in Kinds, NEW g, g = tx.group, NEW c, c = ceremony(g)
  PROVE  accepts(tx) <=>
           /\ tx.from \in g.members
           /\ tx.kind = "commit" => tx.from \notin DOMAIN c.committed
           /\ tx.kind # "commit" =>
                AllIn(g, DOMAIN c.committed) /\ ~AllIn(g, c.confirmed) /\ ~c.compromised
           /\ tx.kind = "share" => tx.from \notin c.shared
           /\ tx.kind = "complain" =>
                /\ tx.from \notin c.confirmed
                /\ tx.peer \in g.members \ {tx.from}
                /\ <<tx.from, tx.peer>> \notin c.filed
           /\ tx.kind = "respond" => <<tx.peer, tx.from>> \in c.filed \ c.answered
           /\ tx.kind = "confirm" =>
                /\ AllIn(g, c.shared)
                /\ tx.from \notin c.confirmed
                /\ \A q \in Participants : <<tx.from, q>> \notin c.filed \ c.answered
<1>1. CASE tx.kind = "commit"
  BY <1>1 DEF accepts, AllIn
<1>2. CASE tx.kind = "share"
  BY <1>2 DEF accepts, AllIn
<1>3. CASE tx.kind = "complain"
  BY <1>3 DEF accepts, AllIn
<1>4. CASE tx.kind = "respond"
  BY <1>4 DEF accepts, AllIn
<1>5. CASE tx.kind = "confirm"
  BY <1>5 DEF accepts, AllIn
<1> QED BY <1>1, <1>2, <1>3, <1>4, <1>5 DEF Kinds

\* What the contract writes: the ceremony c becomes d.
Writes(tx, c, d) ==
    /\ DOMAIN d = CeremonyFields
    /\ tx.kind = "commit" => d.committed = put(c.committed, tx.from, tx.version)
    /\ tx.kind # "commit" => d.committed = c.committed
    /\ tx.kind = "share" => d.shared = c.shared \cup {tx.from}
    /\ tx.kind # "share" => d.shared = c.shared
    /\ tx.kind = "complain" =>
        /\ d.filed = c.filed \cup {<<tx.from, tx.peer>>}
        /\ d.compromised = (Cardinality(AccusersOf(c, tx.peer)) + 1 >= threshold(tx.group.members))
    /\ tx.kind # "complain" => d.filed = c.filed /\ d.compromised = c.compromised
    /\ tx.kind = "respond" => d.answered = c.answered \cup {<<tx.peer, tx.from>>}
    /\ tx.kind # "respond" => d.answered = c.answered
    /\ tx.kind = "confirm" => d.confirmed = c.confirmed \cup {tx.from}
    /\ tx.kind # "confirm" => d.confirmed = c.confirmed

\* What an accepted transaction writes, field by field.
LEMMA WrittenWrites ==
  ASSUME NEW tx, tx.kind \in Kinds, NEW c, c = ceremony(tx.group), DOMAIN c = CeremonyFields,
         NEW d, d = written(tx)
  PROVE  Writes(tx, c, d)
<1>1. CASE tx.kind = "commit"
  <2>1. d = [c EXCEPT !.committed = put(@, tx.from, tx.version)]
    BY <1>1 DEF written
  <2> QED BY <1>1, <2>1 DEF Writes, CeremonyFields
<1>2. CASE tx.kind = "share"
  <2>1. d = [c EXCEPT !.shared = @ \cup {tx.from}]
    BY <1>2 DEF written
  <2> QED BY <1>2, <2>1 DEF Writes, CeremonyFields
<1>3. CASE tx.kind = "complain"
  <2>1. d = [c EXCEPT !.filed = @ \cup {<<tx.from, tx.peer>>},
                      !.compromised = Cardinality(AccusersOf(c, tx.peer)) + 1
                                        >= threshold(tx.group.members)]
    BY <1>3 DEF written, AccusersOf
  <2>2. PICK x : x = (Cardinality(AccusersOf(c, tx.peer)) + 1 >= threshold(tx.group.members))
    OBVIOUS
  <2>3. d = [c EXCEPT !.filed = @ \cup {<<tx.from, tx.peer>>}, !.compromised = x]
    BY <2>1, <2>2
  <2>4. d.compromised = x /\ d.filed = c.filed \cup {<<tx.from, tx.peer>>}
    BY <2>3 DEF CeremonyFields
  <2>5. DOMAIN d = CeremonyFields /\ d.committed = c.committed /\ d.shared = c.shared
        /\ d.answered = c.answered /\ d.confirmed = c.confirmed
    BY <2>3 DEF CeremonyFields
  <2> QED BY <1>3, <2>2, <2>4, <2>5 DEF Writes
<1>4. CASE tx.kind = "respond"
  <2>1. d = [c EXCEPT !.answered = @ \cup {<<tx.peer, tx.from>>}]
    BY <1>4 DEF written
  <2> QED BY <1>4, <2>1 DEF Writes, CeremonyFields
<1>5. CASE tx.kind = "confirm"
  <2>1. d = [c EXCEPT !.confirmed = @ \cup {tx.from}]
    BY <1>5 DEF written
  <2> QED BY <1>5, <2>1 DEF Writes, CeremonyFields
<1> QED BY <1>1, <1>2, <1>3, <1>4, <1>5 DEF Kinds

\* A ceremony that was not opened is in order, too.
LEMMA CeremonyInOrder ==
  ASSUME CeremoniesInOrder, NEW g
  PROVE  CeremonyOk(g, ceremony(g))
<1>1. CASE g \in DOMAIN chain
  BY <1>1 DEF CeremoniesInOrder, ceremony
<1>2. CASE g \notin DOMAIN chain
  <2>1. PICK c : c = ceremony(g)
    OBVIOUS
  <2>2. c = opened
    BY <1>2, <2>1 DEF ceremony
  <2>3. /\ DOMAIN c = CeremonyFields /\ DOMAIN c.committed = {} /\ c.shared = {} /\ c.confirmed = {}
        /\ c.filed = {} /\ c.answered = {} /\ c.compromised = FALSE
    BY <2>2 DEF opened, CeremonyFields
  <2> QED BY <2>1, <2>3 DEF CeremonyOk
<1> QED BY <1>1, <1>2

\* The contract keeps the order.
LEMMA OrderKept ==
  ASSUME NEW tx, tx.kind \in Kinds, accepts(tx), NEW g, g = tx.group,
         g.members \subseteq Participants,
         tx.kind = "complain" => tx.from \in Faulty \/ tx.peer \in Faulty \cap ceremony(g).shared,
         NEW c, c = ceremony(g), CeremonyOk(g, c), NEW d, d = written(tx)
  PROVE  CeremonyOk(g, d)
<1>1. Writes(tx, c, d)
  BY WrittenWrites DEF CeremonyOk
<1>2. tx.from \in g.members
  BY AcceptsIs
<1>3. CASE tx.kind = "commit"
  <2>1. tx.from \notin DOMAIN c.committed
    BY <1>3, AcceptsIs
  <2>2. ~AllIn(g, DOMAIN c.committed)
    BY <1>2, <2>1, AllMembers DEF CeremonyOk
  <2>3. c.shared = {} /\ c.filed = {} /\ c.confirmed = {} /\ c.compromised = FALSE
    BY <2>2 DEF CeremonyOk
  <2>4. DOMAIN d.committed \subseteq g.members
    <3>1. d.committed = put(c.committed, tx.from, tx.version)
      BY <1>1, <1>3 DEF Writes
    <3>2. DOMAIN put(c.committed, tx.from, tx.version) = DOMAIN c.committed \cup {tx.from}
      BY DEF put
    <3>3. DOMAIN c.committed \subseteq g.members
      BY DEF CeremonyOk
    <3> QED BY <1>2, <3>1, <3>2, <3>3
  <2> QED BY <1>1, <1>3, <2>3, <2>4 DEF Writes, CeremonyOk
<1>4. CASE tx.kind # "commit"
  <2>1. AllIn(g, DOMAIN d.committed)
    <3>1. AllIn(g, DOMAIN c.committed)
      BY <1>4, AcceptsIs
    <3>2. d.committed = c.committed
      BY <1>1, <1>4 DEF Writes
    <3> QED BY <3>1, <3>2
  <2>2. tx.kind = "respond" => <<tx.peer, tx.from>> \in c.filed
    BY AcceptsIs
  <2>3. ~AllIn(g, d.shared) => d.confirmed = {}
    <3>1. CASE tx.kind = "share"
      <4>1. ~AllIn(g, c.shared)
        BY <1>2, <3>1, AcceptsIs, AllMembers DEF CeremonyOk
      <4> QED BY <1>1, <3>1, <4>1 DEF Writes, CeremonyOk
    <3>2. CASE tx.kind = "confirm"
      BY <1>1, <3>2, AcceptsIs DEF Writes
    <3>3. CASE tx.kind \notin {"share", "confirm"}
      BY <1>1, <3>3 DEF Writes, CeremonyOk
    <3> QED BY <3>1, <3>2, <3>3
  <2>4. \A p, q : <<p, q>> \in d.filed => p \in g.members /\ (p \in Faulty \/ q \in Faulty \cap d.shared)
    <3>1. SUFFICES ASSUME NEW p, NEW q, <<p, q>> \in d.filed
                   PROVE  p \in g.members /\ (p \in Faulty \/ q \in Faulty \cap d.shared)
      OBVIOUS
    <3>2. <<p, q>> \in c.filed \/ (tx.kind = "complain" /\ p = tx.from /\ q = tx.peer)
      BY <1>1, <3>1 DEF Writes
    <3>3. p \in g.members /\ (p \in Faulty \/ q \in Faulty \cap c.shared)
      BY <1>2, <3>2 DEF CeremonyOk
    <3>4. c.shared \subseteq d.shared
      BY <1>1 DEF Writes
    <3> QED BY <3>3, <3>4
  <2>5. d.answered \subseteq d.filed
    BY <1>1, <1>4, <2>2 DEF Writes, CeremonyOk
  <2>6. DOMAIN d.committed \subseteq g.members /\ d.shared \subseteq g.members
        /\ d.confirmed \subseteq g.members
    BY <1>1, <1>2, <1>4 DEF Writes, CeremonyOk
  <2> QED BY <1>1, <2>1, <2>3, <2>4, <2>5, <2>6 DEF Writes, CeremonyOk
<1> QED BY <1>3, <1>4
----------------------------------------------------------------------------
(* The queue                                                               *)

\* The transaction of an action.
queuedAs(v, a) ==
    [from |-> v, kind |-> a.kind, group |-> a.group, peer |-> a.peer, version |-> a.version,
     valid |-> TRUE, bad |-> {}, queued |-> block]

\* tx leaves the queue, and the actions of the validators come in.
Passage(v, r, tx, P, Q) ==
    /\ P \ {tx} \subseteq Q
    /\ \A a \in r.acts : queuedAs(v, a) \in Q
    /\ \A x \in Q \ P :
        \/ \E a \in r.acts : x = queuedAs(v, a)
        \/ x.from # v /\ x.queued = block /\ (x.kind = "complain" => tx.kind = "share")

\* The queue keeps what is not tx.
LEMMA WaitsKept ==
  ASSUME NEW P, NEW Q, NEW tx, P \ {tx} \subseteq Q, NEW b, NEW kind, NEW v, NEW g, NEW peer, NEW q,
         Waits(P, b, kind, v, g, peer, q),
         ~(tx.from = v /\ tx.kind = kind /\ tx.group = g /\ tx.peer = peer)
  PROVE  Waits(Q, b, kind, v, g, peer, q)
  BY DEF Waits

\* What has waited since q at the latest has since a later block.
LEMMA WaitsMore ==
  ASSUME NEW P, NEW b, NEW kind, NEW v, NEW g, NEW peer, NEW q \in Int,
         Waits(P, b, kind, v, g, peer, q), NEW n \in Int, q <= n
  PROVE  Waits(P, b, kind, v, g, peer, n)
<1>1. PICK tx \in P :
        /\ tx.from = v /\ tx.kind = kind /\ tx.group = g /\ tx.peer = peer
        /\ tx.queued \in Nat /\ tx.queued >= b - 1 /\ tx.queued <= q
  BY DEF Waits
<1>2. tx.queued <= n
  BY <1>1
<1> QED BY <1>1, <1>2 DEF Waits

\* An action is queued.
LEMMA WaitsNew ==
  ASSUME NEW v, NEW r, NEW tx, NEW P, NEW Q, Passage(v, r, tx, P, Q), block \in Nat,
         NEW a \in r.acts, NEW kind, kind = a.kind, NEW g, g = a.group, NEW peer, peer = a.peer,
         NEW q \in Int, block <= q
  PROVE  Waits(Q, block, kind, v, g, peer, q)
<1>1. PICK x : x = queuedAs(v, a)
  OBVIOUS
<1>2. /\ x.from = v /\ x.kind = kind /\ x.group = g /\ x.peer = peer /\ x.queued = block
  BY <1>1 DEF queuedAs
<1>3. x \in Q
  BY <1>1 DEF Passage
<1>4. x.queued \in Nat /\ x.queued >= block - 1 /\ x.queued <= q
  BY <1>2
<1> QED BY <1>2, <1>3, <1>4 DEF Waits

\* Of v, nothing but its actions comes in.
LEMMA FromQueue ==
  ASSUME NEW v, NEW r, NEW tx, NEW P, NEW Q, Passage(v, r, tx, P, Q), NEW x \in Q, x.from = v
  PROVE  x \in P \/ \E a \in r.acts : x.kind = a.kind /\ x.group = a.group /\ x.peer = a.peer
<1>1. CASE x \in P
  BY <1>1
<1>2. CASE x \notin P
  <2>1. PICK a \in r.acts : x = queuedAs(v, a)
    BY <1>2 DEF Passage
  <2>2. x.kind = a.kind /\ x.group = a.group /\ x.peer = a.peer
    BY <2>1 DEF queuedAs
  <2> QED BY <2>2
<1> QED BY <1>1, <1>2

\* What waits of v has waited before, if v does nothing of that kind.
LEMMA WaitsBefore ==
  ASSUME NEW v, NEW r, NEW tx, NEW P, NEW Q, Passage(v, r, tx, P, Q), NEW b, NEW kind, NEW g,
         NEW peer, NEW q, Waits(Q, b, kind, v, g, peer, q),
         \A a \in r.acts : ~(a.kind = kind /\ a.peer = peer)
  PROVE  Waits(P, b, kind, v, g, peer, q)
<1>1. PICK x \in Q :
        /\ x.from = v /\ x.kind = kind /\ x.group = g /\ x.peer = peer
        /\ x.queued \in Nat /\ x.queued >= b - 1 /\ x.queued <= q
  BY DEF Waits
<1>2. x \in P
  BY <1>1, FromQueue
<1> QED BY <1>1, <1>2 DEF Waits
----------------------------------------------------------------------------
(* Events of the own ceremony                                              *)

\* What holds when the transaction tx of the ceremony of s is executed.
Scene(v, s, g, c, tx, P) ==
    /\ v \in Honest /\ ViewOk(v, s) /\ RoundOpen(v, s)
    /\ g = groupOf(s) /\ g = tx.group /\ c = ceremony(g) /\ CeremonyOk(g, c)
    /\ DOMAIN s.commitments \subseteq DOMAIN c.committed
    /\ tx.kind \in Kinds /\ tx.valid \in BOOLEAN /\ accepts(tx)
    /\ tx.from \in Participants
    /\ tx.from = v => tx \in P /\ OwnCommit(v, s, tx)
    /\ tx.from \in Honest =>
        /\ tx.valid = TRUE /\ tx.bad = {}
        /\ tx.kind = "complain" => tx \in P /\ tx.peer \in Faulty /\ tx.queued >= block - 1
    /\ \A x \in P : x.group = g =>
        /\ x.queued \in Nat /\ x.queued <= block
        /\ x.kind = "complain" => x.peer \in c.shared /\ AllIn(g, DOMAIN c.committed)
        /\ x.kind = "confirm" => g.members \subseteq c.shared
        /\ x.kind = "confirm" /\ x.from = v /\ s.phase = "CollectingConfirmations" =>
            s.status = "Confirmed"
    /\ block \in Nat

\* The group of a state.
LEMMA GroupIs ==
  ASSUME NEW s, NEW g, g = groupOf(s)
  PROVE  g.members = s.members /\ g.epoch = s.epoch /\ inGroup(s, g)
  BY DEF groupOf, groupId, inGroup

\* The members of it.
LEMMA SceneMembers ==
  ASSUME NEW v, NEW s, NEW g, NEW c, NEW tx, NEW P, Scene(v, s, g, c, tx, P)
  PROVE  /\ g.members = s.members /\ inGroup(s, g) /\ s.members \subseteq Participants
         /\ tx.from \in s.members
         /\ \A set : set \subseteq s.members => (AllIn(g, set) <=> set = s.members)
         /\ \A set : complete(s, set) <=> AllIn(g, set)
<1>1. g.members = s.members /\ inGroup(s, g)
  BY GroupIs DEF Scene
<1>2. s.members \subseteq Participants
  BY DEF Scene, ViewOk
<1>3. tx.from \in s.members
  BY <1>1 DEF Scene, accepts
<1>4. \A set : set \subseteq s.members => (AllIn(g, set) <=> set = s.members)
  BY <1>1, <1>2, AllMembers
<1>5. \A set : complete(s, set) <=> AllIn(g, set)
  BY <1>1 DEF complete, AllIn
<1> QED BY <1>1, <1>2, <1>3, <1>4, <1>5

\* A commitment is counted.
LEMMA CountedInTime ==
  ASSUME OneFaulty, NEW v, NEW s, NEW g, NEW c, NEW tx, NEW P, Scene(v, s, g, c, tx, P),
         tx.kind = "commit", s.phase = "CollectingCommitments",
         NEW U, InTime(v, s, c, P, U, block),
         NEW r, NEW Q, Passage(v, r, tx, P, Q), NEW W, U \subseteq W,
         NEW d, Writes(tx, c, d),
         NEW x, x = Counted(s, tx.from, tx.version), r = stay(x)
  PROVE  InTime(v, r.s, d, Q, W, block)
<1>1. tx.from \in s.members /\ g.members = s.members
  BY SceneMembers
<1>2. /\ x.phase = s.phase /\ x.epoch = s.epoch /\ x.members = s.members /\ x.own = s.own
      /\ x.deadline = s.deadline /\ DOMAIN s = Fields
      /\ \/ tx.version # 0 /\ x.commitments = put(s.commitments, tx.from, tx.version)
         \/ tx.version = 0 /\ x.commitments = s.commitments
  BY <1>1, CountedIs DEF Scene, ViewOk
<1>3. x.shares = s.shares
  BY <1>2, CountedOwn
<1>4. r.s = x /\ r.acts = {}
  BY ResultOf
<1>5. Joins(v, s) /\ Commits(v, s, c, P, U, block)
  BY DEF InTime
<1>6. Joins(v, x)
  BY <1>2, <1>5 DEF Joins
<1>7. g = groupOf(s) /\ g = groupOf(x) /\ g = tx.group
  BY <1>2 DEF Scene, groupOf
<1>8. \A y \in Q : y.from = v /\ y.kind = "commit" /\ y.group = groupOf(x) => y.version # 0
  BY <1>4, <1>5, <1>7, FromQueue DEF Commits
<1>9. ASSUME v \notin DOMAIN x.commitments
      PROVE  /\ v \notin DOMAIN d.committed
             /\ \/ <<v, g>> \in W /\ x.own = NoSecrets /\ block + KeyGenTimeout <= x.deadline
                \/ Waits(Q, block, "commit", v, g, v, x.deadline - KeyGenTimeout)
  <2>0. DOMAIN put(s.commitments, tx.from, tx.version) = DOMAIN s.commitments \cup {tx.from}
    BY DEF put
  <2>1. v \notin DOMAIN s.commitments /\ (tx.from = v => tx.version = 0)
    BY <1>2, <1>9, <2>0
  <2>2. tx.from # v
    BY <1>5, <1>7, <2>1 DEF Commits, Scene
  <2>3. d.committed = put(c.committed, tx.from, tx.version)
    BY DEF Writes
  <2>7. DOMAIN put(c.committed, tx.from, tx.version) = DOMAIN c.committed \cup {tx.from}
    BY DEF put
  <2>4. v \notin DOMAIN d.committed
    BY <1>5, <2>1, <2>2, <2>3, <2>7 DEF Commits
  <2>5. CASE <<v, g>> \in U /\ s.own = NoSecrets /\ block + KeyGenTimeout <= s.deadline
    BY <1>2, <2>4, <2>5
  <2>6. CASE Waits(P, block, "commit", v, g, v, s.deadline - KeyGenTimeout)
    <3>1. P \ {tx} \subseteq Q
      BY DEF Passage
    <3>2. Waits(Q, block, "commit", v, g, v, s.deadline - KeyGenTimeout)
      BY <2>2, <2>6, <3>1, WaitsKept
    <3> QED BY <1>2, <2>4, <3>2
  <2> QED BY <1>5, <1>7, <2>1, <2>5, <2>6 DEF Commits
<1>10. Commits(v, x, d, Q, W, block)
  BY <1>3, <1>5, <1>7, <1>8, <1>9 DEF Commits
<1> QED BY <1>2, <1>4, <1>6, <1>10 DEF InTime

\* The last commitment arrives.
LEMMA ClosedInTime ==
  ASSUME OneFaulty, NEW v, NEW s, NEW g, NEW c, NEW tx, NEW P, Scene(v, s, g, c, tx, P),
         tx.kind = "commit", s.phase = "CollectingCommitments",
         NEW U, InTime(v, s, c, P, U, block),
         NEW r, NEW Q, Passage(v, r, tx, P, Q), NEW W,
         NEW d, Writes(tx, c, d),
         NEW x, x = Counted(s, tx.from, tx.version), complete(x, DOMAIN x.commitments),
         r = finalizeKeyGenCommitments(v, x, pushed(s, block))
  PROVE  InTime(v, r.s, d, Q, W, block)
<1>1. tx.from \in s.members /\ g.members = s.members
      /\ \A set : set \subseteq s.members => (AllIn(g, set) <=> set = s.members)
  BY SceneMembers
<1>2. /\ x.phase = s.phase /\ x.epoch = s.epoch /\ x.members = s.members /\ x.own = s.own
      /\ x.deadline = s.deadline /\ x.keys = s.keys /\ ViewOk(v, x)
      /\ \/ tx.version # 0 /\ x.commitments = put(s.commitments, tx.from, tx.version)
         \/ tx.version = 0 /\ x.commitments = s.commitments
  BY <1>1, CountedIs DEF Scene
<1>3. x.shares = s.shares
  BY CountedOwn DEF Scene, ViewOk
<1>4. matchesCommitment(v, x)
  <2>1. tx.from = v => tx.version \in {0, s.own}
    BY GroupIs DEF Scene, OwnCommit
  <2> QED BY <1>1, <2>1, CommittedMatches DEF Scene
<1>5. Joins(v, s) /\ Commits(v, s, c, P, U, block)
  BY DEF InTime
<1>6. PICK D : D = pushed(s, block)
  OBVIOUS
<1>7. D = block + KeyGenTimeout /\ D \in Nat /\ D # NoDeadline /\ D - KeyGenTimeout = block
  BY <1>5, <1>6, ConfigAssumption DEF pushed, Joins, NoDeadline, Scene
<1>8. PICK t : t = r.s
  OBVIOUS
<1>9. /\ t.epoch = s.epoch /\ t.members = s.members /\ t.keys = {} /\ t.phase = "CollectingShares"
      /\ t.deadline = D /\ t.total = Unblamed(s.members) /\ t.unresponded = Unblamed(s.members)
  <2>1. s.keys = {}
    BY DEF Scene, RoundOpen
  <2> QED BY <1>2, <1>4, <1>6, <1>8, <2>1, FinalizeIs
<1>10. /\ t.own = s.own /\ t.shares = {} /\ r.acts = {action("share", x, v, x.own)}
  <2>1. DOMAIN x = Fields
    BY <1>2 DEF ViewOk
  <2> QED BY <1>2, <1>3, <1>4, <1>5, <1>8, <2>1, FinalizeOwn DEF Joins, Commits
<1>11. g = groupOf(s) /\ g = groupOf(x) /\ g = groupOf(t) /\ g = tx.group
  BY <1>2, <1>9 DEF Scene, groupOf
<1>12. PICK a : a = action("share", x, v, x.own)
  OBVIOUS
<1>13. a.kind = "share" /\ a.group = g /\ a.peer = v /\ r.acts = {a}
  BY <1>10, <1>11, <1>12 DEF action, groupOf
<1>14. ~AllIn(g, DOMAIN c.committed)
  <2>1. tx.from \notin DOMAIN c.committed
    BY AcceptsIs DEF Scene
  <2> QED BY <1>1, <2>1 DEF Scene, CeremonyOk
<1>15. c.shared = {} /\ c.filed = {} /\ c.confirmed = {} /\ c.compromised = FALSE
  BY <1>14 DEF Scene, CeremonyOk
<1>16. d.shared = {} /\ d.filed = {} /\ d.confirmed = {} /\ d.compromised = FALSE
       /\ d.committed = put(c.committed, tx.from, tx.version)
  BY <1>15 DEF Writes
<1>17. Joins(v, t)
  BY <1>5, <1>7, <1>9, <1>10 DEF Joins
<1>18. AllIn(g, DOMAIN d.committed)
  <2>1. DOMAIN x.commitments = s.members
    BY <1>2, AllCommitted
  <2>2. DOMAIN d.committed = DOMAIN c.committed \cup {tx.from}
    <3>1. DOMAIN put(c.committed, tx.from, tx.version) = DOMAIN c.committed \cup {tx.from}
      BY DEF put
    <3> QED BY <1>16, <3>1
  <2>3. DOMAIN x.commitments \subseteq DOMAIN s.commitments \cup {tx.from}
    <3>1. DOMAIN put(s.commitments, tx.from, tx.version) = DOMAIN s.commitments \cup {tx.from}
      BY DEF put
    <3> QED BY <1>2, <3>1
  <2>4. DOMAIN s.commitments \subseteq DOMAIN c.committed /\ DOMAIN c.committed \subseteq s.members
    BY <1>1 DEF Scene, CeremonyOk
  <2>5. DOMAIN d.committed = s.members
    BY <1>1, <2>1, <2>2, <2>3, <2>4
  <2> QED BY <1>1, <2>5
<1>19. Tallies(t, d)
  <2>1. \A p : AccusersOf(d, p) = {}
    BY <1>16 DEF AccusersOf
  <2>2. Cardinality({}) = 0
    BY FS_EmptySet
  <2>3. t.total \in [s.members -> Nat] /\ \A p \in s.members : t.total[p] = 0 /\ t.unresponded[p] = 0
    BY <1>9 DEF Unblamed
  <2>4. t.unresponded \in [s.members -> Nat] /\ t.members = s.members /\ groupOf(t) = g
    BY <1>9, <1>11, <2>3 DEF Unblamed
  <2>5. AllIn(groupOf(t), DOMAIN d.committed) /\ d.compromised = FALSE
    BY <1>16, <1>18, <2>4
  <2>6. \A p \in s.members : t.unresponded[p] <= t.total[p]
    BY <2>3
  <2>7. \A p \in s.members : t.unresponded[p] = Cardinality(AccusersOf(d, p))
    BY <2>1, <2>2, <2>3
  <2> QED BY <2>3, <2>4, <2>5, <2>6, <2>7 DEF Tallies
<1>20. Answers(v, t, d, Q, block)
  <2>1. t.total[v] = 0 /\ t.unresponded[v] = 0
    BY <1>5, <1>9 DEF Joins, Unblamed
  <2> QED BY <2>1 DEF Answers
<1>21. Complains(v, t, d, Q, block)
  <2>1. ASSUME NEW p, Waits(Q, block, "complain", v, g, p, block) PROVE FALSE
    <3>1. Waits(P, block, "complain", v, g, p, block)
      BY <1>13, <2>1, WaitsBefore
    <3>2. AllIn(g, DOMAIN c.committed)
      BY <3>1 DEF Waits, Scene
    <3> QED BY <1>14, <3>2
  <2> QED BY <1>9, <1>10, <1>11, <1>16, <2>1 DEF Complains
<1>22. SharesIn(v, t, d, Q, block)
  <2>1. Waits(Q, block, "share", v, g, v, block)
    BY <1>13, WaitsNew DEF Scene
  <2>2. ASSUME NEW y \in Q, y.from = v, y.kind = "confirm", y.group = g PROVE FALSE
    <3>1. y \in P
      BY <1>13, <2>2, FromQueue
    <3>2. g.members \subseteq {}
      BY <1>15, <2>2, <3>1 DEF Scene
    <3> QED BY <1>1, <1>5, <3>2 DEF Joins
  <2> QED BY <1>7, <1>9, <1>11, <1>16, <2>1, <2>2 DEF SharesIn
<1> QED BY <1>8, <1>9, <1>17, <1>19, <1>20, <1>21, <1>22 DEF InTime
\* r has no action of a kind.
NoAct(r, kind) == \A a \in r.acts : a.kind # kind

\* Nothing of a kind comes in, if v does nothing of it.
LEMMA NoneQueued ==
  ASSUME NEW v, NEW r, NEW tx, NEW P, NEW Q, Passage(v, r, tx, P, Q), NEW kind, NoAct(r, kind)
  PROVE  \A x \in Q : x.from = v /\ x.kind = kind => x \in P
<1>1. SUFFICES ASSUME NEW x \in Q, x.from = v, x.kind = kind PROVE x \in P
  OBVIOUS
<1>2. x \in P \/ \E a \in r.acts : x.kind = a.kind /\ x.group = a.group /\ x.peer = a.peer
  BY <1>1, FromQueue
<1> QED BY <1>1, <1>2 DEF NoAct

\* What is not about complaints leaves the tallies alone.
LEMMA TalliesKept ==
  ASSUME NEW s, NEW c, Tallies(s, c), NEW t, t.epoch = s.epoch, t.members = s.members,
         t.total = s.total, t.unresponded = s.unresponded,
         NEW d, d.committed = c.committed, d.compromised = c.compromised,
         d.filed = c.filed, d.answered = c.answered
  PROVE  Tallies(t, d)
<1>1. \A p : AccusersOf(d, p) = AccusersOf(c, p)
  BY DEF AccusersOf
<1>2. groupOf(t) = groupOf(s)
  BY DEF groupOf
<1> QED BY <1>1, <1>2 DEF Tallies

\* An answer that waits still does, if nobody else gives it.
LEMMA AnswersKept ==
  ASSUME NEW v, NEW s, NEW c, NEW P, Answers(v, s, c, P, block), NEW t, groupOf(t) = groupOf(s),
         t.total[v] = s.total[v], t.unresponded[v] = s.unresponded[v],
         lastComplaint(s, block) \in Int, lastComplaint(t, block) \in Int,
         lastComplaint(s, block) <= lastComplaint(t, block),
         NEW d, c.filed \subseteq d.filed, \A z : <<z, v>> \in d.answered => <<z, v>> \in c.answered,
         NEW Q, NEW tx, P \ {tx} \subseteq Q,
         ~(tx.from = v /\ tx.kind = "respond" /\ tx.group = groupOf(s))
  PROVE  Answers(v, t, d, Q, block)
<1>1. t.total[v] <= 1 /\ (t.total[v] = 1 => \E z \in Faulty : <<z, v>> \in d.filed)
  BY DEF Answers
<1>2. ASSUME t.unresponded[v] > 0
      PROVE  \E z \in Faulty :
                /\ <<z, v>> \in d.filed \ d.answered
                /\ Waits(Q, block, "respond", v, groupOf(t), z, lastComplaint(t, block))
  <2>1. PICK z \in Faulty :
            /\ <<z, v>> \in c.filed \ c.answered
            /\ Waits(P, block, "respond", v, groupOf(s), z, lastComplaint(s, block))
    BY <1>2 DEF Answers
  <2>2. Waits(Q, block, "respond", v, groupOf(s), z, lastComplaint(s, block))
    BY <2>1, WaitsKept
  <2>3. Waits(Q, block, "respond", v, groupOf(t), z, lastComplaint(t, block))
    BY <2>2, WaitsMore
  <2> QED BY <2>1, <2>3
<1> QED BY <1>1, <1>2 DEF Answers

\* A complaint that waits or is open still is, if it is not answered or mined.
LEMMA ComplainsKept ==
  ASSUME NEW v, NEW s, NEW c, NEW P, Complains(v, s, c, P, block), NEW t, groupOf(t) = groupOf(s),
         t.members = s.members, t.shares = s.shares, t.keys = s.keys,
         NEW d, \A p : <<v, p>> \in d.filed <=> <<v, p>> \in c.filed,
         \A p : <<v, p>> \in d.answered <=> <<v, p>> \in c.answered,
         NEW r, NEW Q, NEW tx, Passage(v, r, tx, P, Q), \A a \in r.acts : a.kind # "complain",
         ~(tx.from = v /\ tx.kind = "complain" /\ tx.group = groupOf(s))
  PROVE  Complains(v, t, d, Q, block)
<1>1. P \ {tx} \subseteq Q
  BY DEF Passage
<1>2. ASSUME NEW p
      PROVE  Waits(P, block, "complain", v, groupOf(s), p, block)
                <=> Waits(Q, block, "complain", v, groupOf(s), p, block)
  <2>1. ASSUME Waits(P, block, "complain", v, groupOf(s), p, block)
        PROVE  Waits(Q, block, "complain", v, groupOf(s), p, block)
    BY <1>1, <2>1, WaitsKept
  <2>2. ASSUME Waits(Q, block, "complain", v, groupOf(s), p, block)
        PROVE  Waits(P, block, "complain", v, groupOf(s), p, block)
    BY <2>2, WaitsBefore
  <2> QED BY <2>1, <2>2
<1> QED BY <1>2 DEF Complains

\* A share that is not valid is not counted.
LEMMA IgnoredInTime ==
  ASSUME NEW v, NEW s, NEW g, NEW c, NEW tx, NEW P, Scene(v, s, g, c, tx, P),
         tx.kind = "share", s.phase = "CollectingShares", tx.from # v,
         NEW U, InTime(v, s, c, P, U, block),
         NEW r, NEW Q, Passage(v, r, tx, P, Q), NEW W, NEW d, Writes(tx, c, d), r = stay(s)
  PROVE  InTime(v, r.s, d, Q, W, block)
<1>1. r.s = s /\ r.acts = {}
  BY ResultOf
<1>2. /\ Joins(v, s) /\ Tallies(s, c) /\ Answers(v, s, c, P, block) /\ Complains(v, s, c, P, block)
      /\ SharesIn(v, s, c, P, block)
  BY DEF InTime
<1>3. /\ d.committed = c.committed /\ d.compromised = c.compromised /\ d.filed = c.filed
      /\ d.answered = c.answered /\ d.shared = c.shared \cup {tx.from} /\ d.confirmed = c.confirmed
  BY DEF Writes
<1>4. Tallies(s, d)
  BY <1>2, <1>3, TalliesKept
<1>5. P \ {tx} \subseteq Q
  BY DEF Passage
<1>6. Answers(v, s, d, Q, block)
  <2>1. lastComplaint(s, block) \in Int /\ lastComplaint(s, block) <= lastComplaint(s, block)
    BY DEF lastComplaint, Scene
  <2> QED BY <1>2, <1>3, <1>5, <2>1, AnswersKept
<1>7. Complains(v, s, d, Q, block)
  BY <1>1, <1>2, <1>3, ComplainsKept
<1>8. SharesIn(v, s, d, Q, block)
  <2>1. ASSUME v \notin s.keys
        PROVE  v \notin d.shared
               /\ Waits(Q, block, "share", v, groupOf(s), v, s.deadline - KeyGenTimeout)
    <3>1. v \notin c.shared /\ Waits(P, block, "share", v, groupOf(s), v, s.deadline - KeyGenTimeout)
      BY <1>2, <2>1 DEF SharesIn
    <3> QED BY <1>3, <1>5, <3>1, WaitsKept
  <2>2. \A y \in Q : y.from = v /\ y.kind = "confirm" => y.group # groupOf(s)
    BY <1>1, <1>2, FromQueue DEF SharesIn
  <2> QED BY <1>2, <1>3, <2>1, <2>2 DEF SharesIn
<1> QED BY <1>1, <1>2, <1>4, <1>6, <1>7, <1>8 DEF InTime

\* A share is counted.
LEMMA SharedInTime ==
  ASSUME OneFaulty, NEW v, NEW s, NEW g, NEW c, NEW tx, NEW P, Scene(v, s, g, c, tx, P),
         tx.kind = "share", s.phase = "CollectingShares",
         NEW U, InTime(v, s, c, P, U, block),
         NEW r, NEW Q, Passage(v, r, tx, P, Q), NEW W, NEW d, Writes(tx, c, d),
         AfterShare(s, r.s, block, tx.from), OwnShare(v, s, r, tx.from, tx.bad, r.s.shares)
  PROVE  InTime(v, r.s, d, Q, W, block)
<1>1. /\ tx.from \in s.members /\ g.members = s.members /\ inGroup(s, g)
      /\ \A set : set \subseteq s.members => (AllIn(g, set) <=> set = s.members)
      /\ \A set : complete(s, set) <=> AllIn(g, set)
  BY SceneMembers
<1>2. /\ Joins(v, s) /\ Tallies(s, c) /\ Answers(v, s, c, P, block) /\ Complains(v, s, c, P, block)
      /\ SharesIn(v, s, c, P, block)
  BY DEF InTime
<1>3. /\ d.committed = c.committed /\ d.compromised = c.compromised /\ d.filed = c.filed
      /\ d.answered = c.answered /\ d.shared = c.shared \cup {tx.from} /\ d.confirmed = c.confirmed
  BY DEF Writes
<1>4. P \ {tx} \subseteq Q
  BY DEF Passage
<1>5. PICK t : t = r.s
  OBVIOUS
<1>6. PICK p : p = tx.from
  OBVIOUS
<1>7. AfterShare(s, t, block, p)
  BY <1>5, <1>6
<1>8. OwnShare(v, s, r, p, tx.bad, t.shares)
  BY <1>5, <1>6
<1>9. /\ t.epoch = s.epoch /\ t.members = s.members /\ t.keys = s.keys \cup {p}
      /\ t.total = s.total /\ t.unresponded = s.unresponded /\ t.confirmations = {}
      /\ t.own = s.own /\ p \in s.members
      /\ v \in tx.bad => t.shares = s.shares
      /\ v \notin tx.bad => t.shares = s.shares \cup {p}
  BY <1>1, <1>5, <1>6, <1>7, <1>8 DEF AfterShare, OwnShare, Scene, RoundOpen
<1>10. g = groupOf(s) /\ g = groupOf(t) /\ g = tx.group
  BY <1>9 DEF Scene, groupOf
<1>11. p \notin c.shared /\ p \notin s.keys /\ c.shared \subseteq s.members
  BY <1>1, <1>2, <1>6, AcceptsIs DEF Scene, CeremonyOk, SharesIn
<1>12. PICK D : D = block + KeyGenTimeout
  OBVIOUS
<1>13. D \in Nat /\ D # NoDeadline /\ D - KeyGenTimeout = block /\ D > block /\ block \in Nat
  BY <1>12, ConfigAssumption DEF NoDeadline, Scene
<1>14. PICK full : full = complete(s, s.keys \cup {p})
  OBVIOUS
<1>15. /\ full => t.phase = "CollectingConfirmations" /\ t.deadline = D
       /\ ~full => t.phase = "CollectingShares" /\ t.deadline = s.deadline
  BY <1>2, <1>7, <1>12, <1>14 DEF AfterShare, pushed, Joins
<1>16. Joins(v, t)
  BY <1>2, <1>9, <1>13, <1>15 DEF Joins
<1>17. Tallies(t, d)
  BY <1>2, <1>3, <1>9, TalliesKept
<1>18. Answers(v, t, d, Q, block)
  <2>1. lastComplaint(s, block) = block /\ lastComplaint(t, block) \in {block, D}
    BY <1>15 DEF lastComplaint
  <2>2. lastComplaint(s, block) \in Int /\ lastComplaint(t, block) \in Int
        /\ lastComplaint(s, block) <= lastComplaint(t, block)
    BY <1>13, <2>1
  <2>3. t.total[v] = s.total[v] /\ t.unresponded[v] = s.unresponded[v] /\ groupOf(t) = groupOf(s)
    BY <1>9, <1>10
  <2>4. c.filed \subseteq d.filed /\ \A z : <<z, v>> \in d.answered => <<z, v>> \in c.answered
    BY <1>3
  <2> QED BY <1>2, <1>4, <2>2, <2>3, <2>4, AnswersKept
<1>19. ASSUME NEW a \in r.acts
       PROVE  /\ a.group = g
              /\ \/ v \in tx.bad /\ a.kind = "complain" /\ a.peer = p
                 \/ full /\ a.kind = "confirm"
  <2>1. ASSUME a = action("complain", s, p, 0)
        PROVE  a.group = g /\ a.kind = "complain" /\ a.peer = p
    BY <1>10, <2>1 DEF action, groupOf
  <2>2. ASSUME a = action("confirm", s, v, 0) PROVE a.group = g /\ a.kind = "confirm"
    BY <1>10, <2>2 DEF action, groupOf
  <2> QED BY <1>8, <1>14, <2>1, <2>2 DEF OwnShare
<1>20. <<v, p>> \notin c.filed /\ ~Waits(P, block, "complain", v, g, p, block)
  <2>1. v \notin Faulty
    BY ConfigAssumption DEF Scene
  <2>2. <<v, p>> \notin c.filed
    BY <1>11, <2>1 DEF Scene, CeremonyOk
  <2>3. ~Waits(P, block, "complain", v, g, p, block)
    BY <1>11 DEF Waits, Scene
  <2> QED BY <2>2, <2>3
<1>21. Complains(v, t, d, Q, block)
  <2>1. t.shares \subseteq t.keys
    BY <1>2, <1>9 DEF Complains
  <2>2. v \in tx.bad => p \in Faulty
    BY <1>6 DEF Scene, Participants
  <2>3. t.keys \ t.shares \subseteq Faulty
    BY <1>2, <1>9, <2>2 DEF Complains
  <2>4. ASSUME NEW q \in Faulty \cap s.members
        PROVE  q \in t.keys \ t.shares <=>
                 \/ <<v, q>> \in d.filed \ d.answered
                 \/ <<v, q>> \notin d.filed /\ Waits(Q, block, "complain", v, g, q, block)
    <3>1. CASE q # p
      <4>1. Waits(P, block, "complain", v, g, q, block) => Waits(Q, block, "complain", v, g, q, block)
        BY <1>4, WaitsKept
      <4>2. Waits(Q, block, "complain", v, g, q, block) => Waits(P, block, "complain", v, g, q, block)
        <5>1. \A a \in r.acts : ~(a.kind = "complain" /\ a.peer = q)
          BY <1>19, <3>1
        <5> QED BY <5>1, WaitsBefore
      <4>3. q \in t.keys \ t.shares <=> q \in s.keys \ s.shares
        BY <1>9, <3>1
      <4> QED BY <1>2, <1>3, <1>10, <4>1, <4>2, <4>3 DEF Complains
    <3>2. CASE q = p
      <4>1. CASE v \in tx.bad
        <5>1. action("complain", s, p, 0) \in r.acts
          BY <1>8, <4>1 DEF OwnShare
        <5>2. PICK a \in r.acts : a = action("complain", s, p, 0)
          BY <5>1
        <5>3. a.kind = "complain" /\ a.group = g /\ a.peer = p
          BY <1>10, <5>2 DEF action, groupOf
        <5>4. Waits(Q, block, "complain", v, g, p, block)
          <6>1. block \in Int /\ block <= block
            BY <1>13
          <6> QED BY <1>13, <5>3, <6>1, WaitsNew
        <5>5. p \in t.keys \ t.shares
          BY <1>2, <1>9, <1>11, <4>1 DEF Complains
        <5> QED BY <1>3, <1>20, <3>2, <5>4, <5>5
      <4>2. CASE v \notin tx.bad
        <5>1. ~Waits(Q, block, "complain", v, g, p, block)
          BY <1>19, <1>20, <4>2, WaitsBefore
        <5> QED BY <1>3, <1>9, <1>20, <3>2, <4>2, <5>1
      <4> QED BY <4>1, <4>2
    <3> QED BY <3>1, <3>2
  <2> QED BY <1>9, <1>10, <2>1, <2>3, <2>4 DEF Complains
<1>24. ASSUME NoAct(r, "confirm") PROVE \A y \in Q : y.from = v /\ y.kind = "confirm" => y \in P
  BY <1>24, NoneQueued
<1>22. CASE ~full
  <2>1. ASSUME v \notin t.keys
        PROVE  v \notin d.shared /\ Waits(Q, block, "share", v, g, v, s.deadline - KeyGenTimeout)
    <3>1. v \notin c.shared /\ Waits(P, block, "share", v, g, v, s.deadline - KeyGenTimeout) /\ v # p
      BY <1>2, <1>9, <1>10, <2>1 DEF SharesIn
    <3> QED BY <1>3, <1>4, <1>6, <3>1, WaitsKept
  <2>2. \A y \in Q : y.from = v /\ y.kind = "confirm" => y.group # g
    <3>1. NoAct(r, "confirm")
      BY <1>19, <1>22 DEF NoAct
    <3>2. \A y \in Q : y.from = v /\ y.kind = "confirm" => y \in P
      BY <1>24, <3>1
    <3> QED BY <1>2, <1>10, <3>2 DEF SharesIn
  <2>3. SharesIn(v, t, d, Q, block)
    BY <1>2, <1>3, <1>6, <1>9, <1>10, <1>15, <1>22, <2>1, <2>2 DEF SharesIn
  <2> QED BY <1>5, <1>15, <1>16, <1>17, <1>18, <1>21, <1>22, <2>3 DEF InTime
<1>23. CASE full
  <2>1. t.keys = s.members
    BY <1>1, <1>9, <1>11, <1>14, <1>23 DEF Scene, RoundOpen
  <2>2. d.shared = s.members
    BY <1>2, <1>3, <1>6, <1>9, <1>11, <2>1 DEF SharesIn
  <2>3. d.confirmed = {}
    <3>1. ~AllIn(g, c.shared)
      BY <1>1, <1>9, <1>11
    <3> QED BY <1>3, <3>1 DEF Scene, CeremonyOk
  <2>4. t.shares \subseteq s.members
    BY <1>21, <2>1 DEF Complains
  <2>5. complete(s, t.shares) <=> t.shares = s.members
    BY <1>1, <2>4
  <2>6. /\ t.shares = s.members => t.status = "Confirmed" /\ action("confirm", s, v, 0) \in r.acts
        /\ t.shares # s.members => t.status = "Collecting"
    BY <1>5, <1>8, <1>14, <1>23, <2>5 DEF OwnShare
  <2>7. \A y \in Q : y.kind = "complain" /\ y.group = g => y.queued <= block
    <3>1. SUFFICES ASSUME NEW y \in Q, y.kind = "complain", y.group = g PROVE y.queued <= block
      OBVIOUS
    <3>2. CASE y \in P
      BY <3>1, <3>2 DEF Scene
    <3>3. CASE y \notin P
      <4>1. y.queued = block
        <5>1. ASSUME NEW a, y = queuedAs(v, a) PROVE y.queued = block
          BY <5>1 DEF queuedAs
        <5> QED BY <3>1, <3>3, <5>1 DEF Passage
      <4> QED BY <1>13, <4>1
    <3> QED BY <3>2, <3>3
  <2>8. ASSUME t.status = "Confirmed"
        PROVE  Waits(Q, block, "confirm", v, g, v, D + KeyGenTimeout)
    <3>1. PICK a \in r.acts : a = action("confirm", s, v, 0)
      BY <2>6, <2>8
    <3>2. a.kind = "confirm" /\ a.group = g /\ a.peer = v
      BY <1>10, <3>1 DEF action, groupOf
    <3>3. D + KeyGenTimeout \in Int /\ block <= D + KeyGenTimeout
      BY <1>13, ConfigAssumption
    <3> QED BY <1>13, <3>2, <3>3, WaitsNew
  <2>9. block < D + KeyGenTimeout /\ block >= D - KeyGenTimeout
    BY <1>13, ConfigAssumption
  <2>10. ConfirmsIn(v, t, d, Q, block)
    BY <1>9, <1>10, <1>13, <1>15, <1>23, <2>1, <2>2, <2>3, <2>6, <2>7, <2>8, <2>9 DEF ConfirmsIn
  <2> QED BY <1>5, <1>15, <1>16, <1>17, <1>18, <1>21, <1>23, <2>10 DEF InTime
<1> QED BY <1>14, <1>22, <1>23
----------------------------------------------------------------------------
(* Complaints and answers                                                  *)

\* Who is not excluded stays.
LEMMA ExcludedStarts ==
  ASSUME NEW v, NEW s, v \in s.members, v \in activeIn(s.epoch), NEW x, x.epoch = s.epoch,
         NEW more, v \notin more, NEW D,
         NEW r, r = restartKeyGenExcluding(v, x, alsoExclude(s, more), D)
  PROVE  Stops(r) \/ (Starts(v, r, D) /\ v \in r.s.members)
<1>1. PICK excluded : excluded = alsoExclude(s, more)
  OBVIOUS
<1>2. \/ Stops(r)
      \/ Starts(v, r, D) /\ r.s.epoch = x.epoch /\ r.s.members = activeIn(x.epoch) \ excluded
  BY <1>1, RestartStarts
<1>3. v \in activeIn(x.epoch) \ excluded
  BY <1>1 DEF alsoExclude
<1> QED BY <1>2, <1>3

\* The same for who is waited for no longer.
LEMMA OthersStart ==
  ASSUME NEW v, NEW s, v \in s.members, v \in activeIn(s.epoch), NEW only, v \in only, NEW D,
         NEW r, r = restartKeyGenExcluding(v, s, excludeAllOthers(s, only), D)
  PROVE  Stops(r) \/ (Starts(v, r, D) /\ v \in r.s.members)
<1>1. PICK more : more = s.members \ only
  OBVIOUS
<1>2. r = restartKeyGenExcluding(v, s, alsoExclude(s, more), D) /\ v \notin more
  BY <1>1 DEF excludeAllOthers
<1> QED BY <1>2, ExcludedStarts

\* A group of two or more needs two.
LEMMA TwoNeeded ==
  ASSUME NEW set, set \subseteq Participants, Cardinality(set) >= 2
  PROVE  threshold(set) \in Nat /\ threshold(set) >= 2
<1>1. Cardinality(set) \in Nat
  BY FiniteMembers
<1> QED BY <1>1 DEF threshold

\* What holds of the complaint tx.
LEMMA ComplaintIs ==
  ASSUME OneFaulty, NEW v, NEW s, NEW g, NEW c, NEW tx, NEW P, Scene(v, s, g, c, tx, P),
         tx.kind = "complain"
  PROVE  /\ tx.peer \in s.members \ {tx.from} /\ <<tx.from, tx.peer>> \notin c.filed
         /\ <<tx.from, tx.peer>> \notin c.answered
         /\ tx.from \notin Faulty => tx \in P /\ tx.peer \in Faulty /\ tx.queued >= block - 1
         /\ tx.from \in Faulty => tx.peer \notin Faulty
         /\ tx.peer \notin Faulty => AccusersOf(c, tx.peer) = {}
         /\ \A p \in Faulty : tx.peer \notin Faulty => p # tx.peer
         /\ v \notin Faulty
<1>1. tx.peer \in s.members \ {tx.from} /\ <<tx.from, tx.peer>> \notin c.filed
  <2>1. g.members = s.members
    BY SceneMembers
  <2>2. tx.kind \in Kinds /\ g = tx.group /\ c = ceremony(g) /\ accepts(tx)
    BY DEF Scene
  <2>3. tx.peer \in g.members \ {tx.from} /\ <<tx.from, tx.peer>> \notin c.filed
    BY <2>2, AcceptsIs
  <2> QED BY <2>1, <2>3
<1>2. <<tx.from, tx.peer>> \notin c.answered
  BY <1>1 DEF Scene, CeremonyOk
<1>3. tx.from \notin Faulty => tx \in P /\ tx.peer \in Faulty /\ tx.queued >= block - 1
  BY DEF Scene, Participants
<1>4. tx.from \in Faulty => tx.peer \notin Faulty
  BY <1>1 DEF OneFaulty
<1>5. tx.peer \notin Faulty => AccusersOf(c, tx.peer) = {}
  <2>1. SUFFICES ASSUME tx.peer \notin Faulty, NEW q \in AccusersOf(c, tx.peer) PROVE FALSE
    OBVIOUS
  <2>2. <<q, tx.peer>> \in c.filed
    BY <2>1 DEF AccusersOf
  <2>3. q \in Faulty
    BY <2>1, <2>2 DEF Scene, CeremonyOk
  <2>4. q = tx.from
    BY <1>3, <2>1, <2>3 DEF OneFaulty
  <2> QED BY <1>1, <2>2, <2>4
<1>6. v \notin Faulty
  BY ConfigAssumption DEF Scene
<1> QED BY <1>1, <1>2, <1>3, <1>4, <1>5, <1>6

\* Nobody can accuse v so often that it is excluded.
LEMMA NotAccused ==
  ASSUME OneFaulty, NEW v, NEW s, NEW g, NEW c, NEW tx, NEW P, Scene(v, s, g, c, tx, P),
         tx.kind = "complain", s.phase \in {"CollectingShares", "CollectingConfirmations"},
         NEW U, InTime(v, s, c, P, U, block), tx.peer = v
  PROVE  s.total[v] = 0 /\ s.unresponded[v] = 0 /\ ~TooMany(s, v) /\ tx.from \in Faulty
<1>1. Joins(v, s) /\ Tallies(s, c) /\ Answers(v, s, c, P, block)
  BY DEF InTime
<1>2. <<tx.from, v>> \notin c.filed /\ tx.from \in Faulty
  <2>1. /\ <<tx.from, tx.peer>> \notin c.filed /\ v \notin Faulty
        /\ tx.from \notin Faulty => tx.peer \in Faulty
    BY ComplaintIs
  <2> QED BY <2>1
<1>3. v \in s.members /\ s.total \in [s.members -> Nat] /\ s.unresponded \in [s.members -> Nat]
      /\ s.unresponded[v] <= s.total[v]
  BY <1>1 DEF Joins, Tallies
<1>4. s.total[v] <= 1 /\ s.total[v] # 1
  BY <1>1, <1>2 DEF Answers, OneFaulty
<1>5. s.total[v] = 0 /\ s.unresponded[v] = 0
  BY <1>3, <1>4
<1>6. s.members \subseteq Participants /\ Cardinality(s.members) >= 2
  BY <1>1 DEF Scene, ViewOk, Joins
<1>7. AddOne(s.total, v)[v] = 1
  BY <1>3, <1>5 DEF AddOne
<1> QED BY <1>2, <1>5, <1>6, <1>7, TwoNeeded DEF TooMany
\* The round of shares goes on as it was.
LEMMA SharesInKept ==
  ASSUME NEW v, NEW s, NEW c, NEW P, SharesIn(v, s, c, P, block), NEW t, groupOf(t) = groupOf(s),
         t.keys = s.keys, t.deadline = s.deadline,
         NEW d, d.shared = c.shared, v \notin d.confirmed,
         NEW r, NEW Q, NEW tx, Passage(v, r, tx, P, Q), NoAct(r, "confirm"), tx.kind # "share"
  PROVE  SharesIn(v, t, d, Q, block)
<1>1. P \ {tx} \subseteq Q
  BY DEF Passage
<1>2. ASSUME v \notin t.keys
      PROVE  v \notin d.shared
             /\ Waits(Q, block, "share", v, groupOf(s), v, s.deadline - KeyGenTimeout)
  <2>1. v \notin c.shared /\ Waits(P, block, "share", v, groupOf(s), v, s.deadline - KeyGenTimeout)
    BY <1>2 DEF SharesIn
  <2> QED BY <1>1, <2>1, WaitsKept
<1>3. \A y \in Q : y.from = v /\ y.kind = "confirm" => y \in P
  BY NoneQueued
<1> QED BY <1>2, <1>3 DEF SharesIn

\* No complaint comes in but with a share.
LEMMA NoComplaint ==
  ASSUME NEW v, NEW r, NEW P, NEW Q, NEW tx, Passage(v, r, tx, P, Q), NoAct(r, "complain"),
         tx.kind # "share"
  PROVE  \A y \in Q : y.kind = "complain" => y \in P
<1>1. SUFFICES ASSUME NEW y \in Q, y.kind = "complain", y \notin P PROVE FALSE
  OBVIOUS
<1>2. PICK a \in r.acts : y = queuedAs(v, a)
  BY <1>1 DEF Passage
<1>3. y.kind = a.kind
  BY <1>2 DEF queuedAs
<1> QED BY <1>1, <1>2, <1>3 DEF NoAct

\* The round of confirmations goes on as it was.
LEMMA ConfirmsInKept ==
  ASSUME NEW v, NEW s, NEW c, NEW P, ConfirmsIn(v, s, c, P, block), NEW t, groupOf(t) = groupOf(s),
         t.members = s.members, t.keys = s.keys, t.shares = s.shares, t.status = s.status,
         t.confirmations = s.confirmations, t.deadline = s.deadline,
         \A p \in s.members : t.unresponded[p] > 0 => block < s.deadline + KeyGenTimeout,
         NEW d, d.shared = c.shared, d.confirmed = c.confirmed,
         NEW r, NEW Q, NEW tx, Passage(v, r, tx, P, Q), NoAct(r, "complain"),
         tx.kind # "share", tx.kind # "confirm"
  PROVE  ConfirmsIn(v, t, d, Q, block)
<1>1. P \ {tx} \subseteq Q
  BY DEF Passage
<1>2. \A y \in Q : y.kind = "complain" => y \in P
  BY NoComplaint
<1>3. ASSUME s.status = "Confirmed", v \notin s.confirmations
      PROVE  Waits(Q, block, "confirm", v, groupOf(s), v, s.deadline + KeyGenTimeout)
  <2>1. Waits(P, block, "confirm", v, groupOf(s), v, s.deadline + KeyGenTimeout)
    BY <1>3 DEF ConfirmsIn
  <2> QED BY <1>1, <2>1, WaitsKept
<1> QED BY <1>2, <1>3 DEF ConfirmsIn

\* How a complaint changes who waits for an answer.
LEMMA AccusersGrow ==
  ASSUME NEW c, NEW d, d.answered = c.answered, NEW q \in Participants, NEW a,
         d.filed = c.filed \cup {<<q, a>>}, <<q, a>> \notin c.filed, <<q, a>> \notin c.answered
  PROVE  /\ \A p : p # a => AccusersOf(d, p) = AccusersOf(c, p)
         /\ Cardinality(AccusersOf(d, a)) = Cardinality(AccusersOf(c, a)) + 1
<1>1. \A p : p # a => AccusersOf(d, p) = AccusersOf(c, p)
  BY DEF AccusersOf
<1>2. AccusersOf(d, a) = AccusersOf(c, a) \cup {q} /\ q \notin AccusersOf(c, a)
  BY DEF AccusersOf
<1>3. IsFiniteSet(AccusersOf(c, a))
  BY FiniteMembers DEF AccusersOf
<1> QED BY <1>1, <1>2, <1>3, FS_AddElement

\* How an answer does.
LEMMA AccusersShrink ==
  ASSUME NEW c, NEW d, d.filed = c.filed, NEW q \in Participants, NEW a,
         d.answered = c.answered \cup {<<q, a>>}, <<q, a>> \in c.filed \ c.answered
  PROVE  /\ \A p : p # a => AccusersOf(d, p) = AccusersOf(c, p)
         /\ Cardinality(AccusersOf(c, a)) \in Nat /\ Cardinality(AccusersOf(c, a)) > 0
         /\ Cardinality(AccusersOf(d, a)) = Cardinality(AccusersOf(c, a)) - 1
<1>1. \A p : p # a => AccusersOf(d, p) = AccusersOf(c, p)
  BY DEF AccusersOf
<1>2. AccusersOf(d, a) = AccusersOf(c, a) \ {q} /\ q \in AccusersOf(c, a)
  BY DEF AccusersOf
<1>3. IsFiniteSet(AccusersOf(c, a)) /\ Cardinality(AccusersOf(c, a)) \in Nat
  BY FiniteMembers DEF AccusersOf
<1>4. Cardinality(AccusersOf(d, a)) = Cardinality(AccusersOf(c, a)) - 1
  BY <1>2, <1>3, FS_RemoveElement
<1>5. Cardinality(AccusersOf(c, a)) # 0
  BY <1>2, <1>3, FS_EmptySet
<1> QED BY <1>1, <1>3, <1>4, <1>5

\* The contract compromises the ceremony only if the validators end it.
LEMMA NotCompromised ==
  ASSUME OneFaulty, NEW v, NEW s, NEW g, NEW c, NEW tx, NEW P, Scene(v, s, g, c, tx, P),
         tx.kind = "complain", Joins(v, s), Tallies(s, c),
         tx.peer \in Faulty => ~TooMany(s, tx.peer),
         NEW d, Writes(tx, c, d)
  PROVE  d.compromised = FALSE
<1>1. PICK a : a = tx.peer
  OBVIOUS
<1>2. a \in s.members /\ (a \notin Faulty => AccusersOf(c, a) = {}) /\ g.members = s.members
  BY <1>1, ComplaintIs, SceneMembers
<1>3. PICK n : n = Cardinality(AccusersOf(c, a))
  OBVIOUS
<1>4. PICK m : m = threshold(s.members)
  OBVIOUS
<1>5. m \in Nat /\ m >= 2
  BY <1>4, TwoNeeded DEF Joins, Scene, ViewOk
<1>6. g = tx.group
  BY DEF Scene
<1>7. d.compromised = (n + 1 >= m)
  BY <1>1, <1>2, <1>3, <1>4, <1>6 DEF Writes
<1>8. ~(n + 1 >= m)
  <2>1. CASE a \notin Faulty
    <3>1. n = 0
      BY <1>2, <1>3, <2>1, FS_EmptySet
    <3> QED BY <1>5, <3>1
  <2>2. CASE a \in Faulty
    <3>1. s.total \in [s.members -> Nat] /\ s.unresponded[a] = n /\ s.unresponded[a] <= s.total[a]
          /\ s.unresponded \in [s.members -> Nat]
      BY <1>2, <1>3, <2>2 DEF Tallies
    <3>2. AddOne(s.total, a)[a] = s.total[a] + 1
      BY <1>2, <3>1 DEF AddOne
    <3>4. ~TooMany(s, a)
      BY <1>1, <2>2
    <3>3. ~(s.total[a] + 1 >= m)
      BY <1>4, <3>2, <3>4 DEF TooMany
    <3> QED BY <1>2, <1>5, <3>1, <3>3
  <2> QED BY <2>1, <2>2
<1>9. (n + 1 >= m) = FALSE
  BY <1>8
<1> QED BY <1>7, <1>9, Zenon
\* A complaint is counted as the contract counts it.
LEMMA BlamedTallies ==
  ASSUME OneFaulty, NEW v, NEW s, NEW g, NEW c, NEW tx, NEW P, Scene(v, s, g, c, tx, P),
         tx.kind = "complain", Joins(v, s), Tallies(s, c), ~TooMany(s, tx.peer),
         NEW d, Writes(tx, c, d), NEW t, t = Blamed(s, tx.peer)
  PROVE  Tallies(t, d)
<1>1. PICK a : a = tx.peer
  OBVIOUS
<1>2. PICK q : q = tx.from
  OBVIOUS
<1>3. /\ a \in s.members /\ <<q, a>> \notin c.filed /\ <<q, a>> \notin c.answered
      /\ q \in Participants
  <2>1. /\ tx.peer \in s.members /\ <<tx.from, tx.peer>> \notin c.filed
        /\ <<tx.from, tx.peer>> \notin c.answered
    BY ComplaintIs
  <2>2. tx.from \in Participants
    BY DEF Scene
  <2> QED BY <1>1, <1>2, <2>1, <2>2
<1>4. /\ t.epoch = s.epoch /\ t.members = s.members
      /\ t.total = AddOne(s.total, a) /\ t.unresponded = AddOne(s.unresponded, a)
  BY <1>1, BlamedIs DEF Scene, ViewOk
<1>5. /\ d.committed = c.committed /\ d.answered = c.answered /\ d.filed = c.filed \cup {<<q, a>>}
  BY <1>1, <1>2 DEF Writes
<1>6. d.compromised = FALSE
  BY NotCompromised
<1>7. /\ \A p : p # a => AccusersOf(d, p) = AccusersOf(c, p)
      /\ Cardinality(AccusersOf(d, a)) = Cardinality(AccusersOf(c, a)) + 1
  BY <1>3, <1>5, AccusersGrow
<1>8. /\ AllIn(groupOf(s), DOMAIN c.committed)
      /\ s.total \in [s.members -> Nat] /\ s.unresponded \in [s.members -> Nat]
      /\ \A p \in s.members : s.unresponded[p] <= s.total[p]
      /\ \A p \in Faulty \cap s.members : s.unresponded[p] = Cardinality(AccusersOf(c, p))
  BY DEF Tallies
<1>9. /\ t.total \in [s.members -> Nat] /\ t.unresponded \in [s.members -> Nat]
      /\ t.total[a] = s.total[a] + 1 /\ t.unresponded[a] = s.unresponded[a] + 1
      /\ \A p \in s.members : p # a => t.total[p] = s.total[p] /\ t.unresponded[p] = s.unresponded[p]
  BY <1>3, <1>4, <1>8 DEF AddOne
<1>10. AllIn(groupOf(t), DOMAIN d.committed)
  BY <1>4, <1>5, <1>8 DEF groupOf
<1>11. \A p \in s.members : t.unresponded[p] <= t.total[p]
  BY <1>3, <1>8, <1>9
<1>12. \A p \in Faulty \cap s.members : t.unresponded[p] = Cardinality(AccusersOf(d, p))
  BY <1>7, <1>8, <1>9
<1> QED BY <1>4, <1>6, <1>9, <1>10, <1>11, <1>12 DEF Tallies

\* v answers an accusation.
LEMMA BlamedAnswers ==
  ASSUME OneFaulty, NEW v, NEW s, NEW g, NEW c, NEW tx, NEW P, Scene(v, s, g, c, tx, P),
         tx.kind = "complain", s.phase \in {"CollectingShares", "CollectingConfirmations"},
         NEW U, InTime(v, s, c, P, U, block), Heeds(s, g, block),
         NEW r, NEW Q, Passage(v, r, tx, P, Q), NEW d, Writes(tx, c, d),
         NEW t, t = Blamed(s, tx.peer), tx.peer = v => r.acts = {action("respond", s, tx.from, 0)}
  PROVE  Answers(v, t, d, Q, block)
<1>1. /\ t.phase = s.phase /\ t.epoch = s.epoch /\ t.members = s.members /\ t.deadline = s.deadline
      /\ t.total = AddOne(s.total, tx.peer) /\ t.unresponded = AddOne(s.unresponded, tx.peer)
  BY BlamedIs DEF Scene, ViewOk
<1>2. Joins(v, s) /\ Tallies(s, c) /\ Answers(v, s, c, P, block)
  BY DEF InTime
<1>3. /\ v \in s.members /\ s.total \in [s.members -> Nat] /\ s.unresponded \in [s.members -> Nat]
  BY <1>2 DEF Joins, Tallies
<1>4. lastComplaint(t, block) = lastComplaint(s, block) /\ lastComplaint(s, block) \in Int
      /\ block <= lastComplaint(s, block) /\ groupOf(t) = groupOf(s) /\ groupOf(s) = g
  <2>1. block \in Nat /\ s.deadline \in Nat /\ s.deadline # NoDeadline /\ g = groupOf(s)
    BY <1>2 DEF Joins, Scene
  <2>2. s.phase = "CollectingConfirmations" => block <= s.deadline
    BY <2>1 DEF Heeds, countsComplaint
  <2> QED BY <1>1, <2>1, <2>2 DEF lastComplaint, groupOf
<1>5. P \ {tx} \subseteq Q
  BY DEF Passage
<1>6. d.filed = c.filed \cup {<<tx.from, tx.peer>>} /\ d.answered = c.answered
  BY DEF Writes
<1>7. CASE tx.peer # v
  <2>1. t.total[v] = s.total[v] /\ t.unresponded[v] = s.unresponded[v]
    BY <1>1, <1>3, <1>7 DEF AddOne
  <2>2. c.filed \subseteq d.filed /\ \A z : <<z, v>> \in d.answered => <<z, v>> \in c.answered
    BY <1>6
  <2>3. lastComplaint(s, block) <= lastComplaint(t, block) /\ lastComplaint(t, block) \in Int
    BY <1>4
  <2> QED BY <1>2, <1>4, <1>5, <2>1, <2>2, <2>3, AnswersKept
<1>8. CASE tx.peer = v
  <2>1. s.total[v] = 0 /\ s.unresponded[v] = 0 /\ tx.from \in Faulty
    BY <1>8, NotAccused
  <2>2. t.total[v] = 1
    BY <1>1, <1>3, <1>8, <2>1 DEF AddOne
  <2>3. <<tx.from, v>> \in d.filed \ d.answered
    <3>1. <<tx.from, tx.peer>> \notin c.answered
      BY ComplaintIs
    <3> QED BY <1>6, <1>8, <3>1
  <2>4. PICK a \in r.acts : a = action("respond", s, tx.from, 0)
    BY <1>8
  <2>5. a.kind = "respond" /\ a.group = groupOf(s) /\ a.peer = tx.from
    BY <2>4 DEF action, groupOf
  <2>6. block \in Nat
    BY DEF Scene
  <2>7. PICK k : k = lastComplaint(s, block)
    OBVIOUS
  <2>8. Waits(Q, block, "respond", v, groupOf(s), tx.from, k)
    <3>1. k \in Int /\ block <= k
      BY <1>4, <2>7
    <3> QED BY <2>5, <2>6, <3>1, WaitsNew
  <2> QED BY <1>4, <2>1, <2>2, <2>3, <2>7, <2>8 DEF Answers
<1> QED BY <1>7, <1>8

\* A complaint of v is filed, or another one.
LEMMA FiledComplains ==
  ASSUME OneFaulty, NEW v, NEW s, NEW g, NEW c, NEW tx, NEW P, Scene(v, s, g, c, tx, P),
         tx.kind = "complain", Complains(v, s, c, P, block),
         NEW r, NEW Q, Passage(v, r, tx, P, Q), NoAct(r, "complain"), NEW d, Writes(tx, c, d),
         NEW t, groupOf(t) = groupOf(s), t.members = s.members, t.shares = s.shares, t.keys = s.keys
  PROVE  Complains(v, t, d, Q, block)
<1>1. d.filed = c.filed \cup {<<tx.from, tx.peer>>} /\ d.answered = c.answered /\ groupOf(s) = g
  BY DEF Writes, Scene
<1>2. CASE tx.from # v
  <2>1. \A p : <<v, p>> \in d.filed <=> <<v, p>> \in c.filed
    BY <1>1, <1>2
  <2>2. \A p : <<v, p>> \in d.answered <=> <<v, p>> \in c.answered
    BY <1>1
  <2>3. \A a \in r.acts : a.kind # "complain"
    BY DEF NoAct
  <2> QED BY <1>2, <2>1, <2>2, <2>3, ComplainsKept
<1>3. CASE tx.from = v
  <2>1. /\ tx \in P /\ tx.peer \in Faulty /\ tx.queued >= block - 1 /\ tx.peer \in s.members
        /\ <<v, tx.peer>> \notin c.filed /\ <<v, tx.peer>> \notin c.answered
    <3>1. /\ tx.from \notin Faulty => tx \in P /\ tx.peer \in Faulty /\ tx.queued >= block - 1
          /\ v \notin Faulty /\ tx.peer \in s.members
          /\ <<tx.from, tx.peer>> \notin c.filed /\ <<tx.from, tx.peer>> \notin c.answered
      BY ComplaintIs
    <3> QED BY <1>3, <3>1
  <2>2. Waits(P, block, "complain", v, g, tx.peer, block)
    <3>1. tx.group = g /\ tx.queued \in Nat /\ tx.queued <= block
      BY <2>1 DEF Scene
    <3> QED BY <1>3, <2>1, <3>1 DEF Waits
  <2>3. tx.peer \in s.keys \ s.shares
    BY <1>1, <2>1, <2>2 DEF Complains
  <2>4. <<v, tx.peer>> \in d.filed \ d.answered
    BY <1>1, <1>3, <2>1
  <2>5. \A p \in Faulty : p = tx.peer
    BY <2>1 DEF OneFaulty
  <2>6. s.shares \subseteq s.keys /\ s.keys \ s.shares \subseteq Faulty
    BY DEF Complains
  <2> QED BY <2>3, <2>4, <2>5, <2>6 DEF Complains
<1> QED BY <1>2, <1>3

\* A complaint is counted.
LEMMA BlamedInTime ==
  ASSUME OneFaulty, NEW v, NEW s, NEW g, NEW c, NEW tx, NEW P, Scene(v, s, g, c, tx, P),
         tx.kind = "complain", s.phase \in {"CollectingShares", "CollectingConfirmations"},
         NEW U, InTime(v, s, c, P, U, block), Heeds(s, g, block), ~TooMany(s, tx.peer),
         NEW r, NEW Q, Passage(v, r, tx, P, Q), NEW W, NEW d, Writes(tx, c, d),
         r = onComplained(v, s, block, g, tx.from, tx.peer)
  PROVE  InTime(v, r.s, d, Q, W, block) /\ r.s.phase = s.phase /\ groupOf(r.s) = g
<1>1. PICK t : t = Blamed(s, tx.peer)
  OBVIOUS
<1>2. DOMAIN s = Fields /\ g = groupOf(s) /\ block \in Nat
  BY DEF Scene, ViewOk
<1>3. Joins(v, s) /\ Tallies(s, c) /\ Answers(v, s, c, P, block) /\ Complains(v, s, c, P, block)
  BY DEF InTime
<1>4. /\ r.s = t /\ t.own = s.own /\ t.shares = s.shares /\ t.status = s.status
      /\ tx.peer = v => r.acts = {action("respond", s, tx.from, 0)}
      /\ tx.peer # v => r.acts = {}
  BY <1>1, <1>2, <1>3, ComplainedOwn DEF Joins
<1>5. /\ t.phase = s.phase /\ t.epoch = s.epoch /\ t.members = s.members /\ t.keys = s.keys
      /\ t.confirmations = s.confirmations /\ t.deadline = s.deadline
  BY <1>1, <1>2, BlamedIs
<1>6. groupOf(t) = groupOf(s)
  BY <1>5 DEF groupOf
<1>7. NoAct(r, "complain") /\ NoAct(r, "confirm")
  BY <1>4 DEF NoAct, action
<1>8. Joins(v, t)
  BY <1>3, <1>4, <1>5 DEF Joins
<1>9. Tallies(t, d)
  BY <1>1, <1>3, BlamedTallies
<1>10. Answers(v, t, d, Q, block)
  BY <1>1, <1>4, BlamedAnswers
<1>11. Complains(v, t, d, Q, block)
  BY <1>3, <1>4, <1>5, <1>6, <1>7, FiledComplains
<1>12. d.shared = c.shared /\ d.confirmed = c.confirmed
  BY DEF Writes
<1>13. CASE s.phase = "CollectingShares"
  <2>1. SharesIn(v, s, c, P, block)
    BY <1>13 DEF InTime
  <2>2. v \notin d.confirmed
    BY <1>12, <2>1 DEF SharesIn
  <2>3. SharesIn(v, t, d, Q, block)
    BY <1>5, <1>6, <1>7, <1>12, <2>1, <2>2, SharesInKept
  <2> QED BY <1>2, <1>4, <1>5, <1>6, <1>8, <1>9, <1>10, <1>11, <1>13, <2>3 DEF InTime
<1>14. CASE s.phase = "CollectingConfirmations"
  <2>1. ConfirmsIn(v, s, c, P, block)
    BY <1>14 DEF InTime
  <2>2. block < s.deadline + KeyGenTimeout
    BY <1>2, <1>3, <1>14, ConfigAssumption DEF Heeds, countsComplaint, Joins
  <2>3. ConfirmsIn(v, t, d, Q, block)
    BY <1>4, <1>5, <1>6, <1>7, <1>12, <2>1, <2>2, ConfirmsInKept
  <2> QED BY <1>2, <1>4, <1>5, <1>6, <1>8, <1>9, <1>10, <1>11, <1>14, <2>3 DEF InTime
<1> QED BY <1>13, <1>14
\* A complaint comes too late to be counted.
LEMMA LateInTime ==
  ASSUME OneFaulty, NEW v, NEW s, NEW g, NEW c, NEW tx, NEW P, Scene(v, s, g, c, tx, P),
         tx.kind = "complain", s.phase \in {"CollectingShares", "CollectingConfirmations"},
         NEW U, InTime(v, s, c, P, U, block), ~Heeds(s, g, block),
         NEW r, NEW Q, Passage(v, r, tx, P, Q), NEW W, NEW d, Writes(tx, c, d), r = stay(s)
  PROVE  InTime(v, r.s, d, Q, W, block)
<1>1. r.s = s /\ r.acts = {}
  BY ResultOf
<1>2. Joins(v, s) /\ Tallies(s, c) /\ Answers(v, s, c, P, block) /\ Complains(v, s, c, P, block)
  BY DEF InTime
<1>3. inGroup(s, g) /\ g = groupOf(s) /\ g = tx.group /\ block \in Nat
      /\ s.deadline \in Nat /\ KeyGenTimeout \in Nat \ {0}
  <2>1. inGroup(s, g)
    BY SceneMembers
  <2>2. g = groupOf(s) /\ g = tx.group /\ block \in Nat
    BY DEF Scene
  <2> QED BY <1>2, <2>1, <2>2, ConfigAssumption DEF Joins
<1>4. s.phase = "CollectingConfirmations" /\ block > s.deadline
  BY <1>2, <1>3 DEF Heeds, countsComplaint, Joins
<1>5. ConfirmsIn(v, s, c, P, block)
  BY <1>4 DEF InTime
<1>6. tx.from \in Faulty /\ tx.peer \notin Faulty /\ v \notin Faulty
  <2>1. /\ tx.from \notin Faulty => tx \in P /\ tx.queued >= block - 1
        /\ tx.from \in Faulty => tx.peer \notin Faulty
        /\ v \notin Faulty
    BY ComplaintIs
  <2>2. ASSUME tx \in P, tx.queued >= block - 1 PROVE FALSE
    <3>1. tx.queued <= s.deadline - KeyGenTimeout /\ tx.queued \in Nat
      BY <1>3, <1>5, <2>2 DEF ConfirmsIn, Scene
    <3> QED BY <1>3, <1>4, <2>2, <3>1
  <2> QED BY <2>1, <2>2
<1>7. d.compromised = FALSE
  BY <1>2, <1>6, NotCompromised
<1>8. /\ d.filed = c.filed \cup {<<tx.from, tx.peer>>} /\ d.answered = c.answered
      /\ d.committed = c.committed /\ d.shared = c.shared /\ d.confirmed = c.confirmed
  BY DEF Writes
<1>9. Tallies(s, d)
  <2>1. \A p \in Faulty : AccusersOf(d, p) = AccusersOf(c, p)
    BY <1>6, <1>8 DEF AccusersOf
  <2> QED BY <1>2, <1>7, <1>8, <2>1 DEF Tallies
<1>10. P \ {tx} \subseteq Q
  BY DEF Passage
<1>11. Answers(v, s, d, Q, block)
  <2>1. lastComplaint(s, block) \in Int /\ lastComplaint(s, block) <= lastComplaint(s, block)
    BY <1>3 DEF lastComplaint
  <2> QED BY <1>2, <1>8, <1>10, <2>1, AnswersKept
<1>12. NoAct(r, "complain")
  BY <1>1 DEF NoAct
<1>13. Complains(v, s, d, Q, block)
  BY <1>2, <1>12, FiledComplains
<1>14. ConfirmsIn(v, s, d, Q, block)
  <2>1. \A p \in s.members : s.unresponded[p] > 0 => block < s.deadline + KeyGenTimeout
    BY <1>5 DEF ConfirmsIn
  <2> QED BY <1>5, <1>8, <1>12, <2>1, ConfirmsInKept
<1> QED BY <1>1, <1>2, <1>4, <1>9, <1>11, <1>13, <1>14 DEF InTime

\* What holds of the answer tx.
LEMMA AnswerIs ==
  ASSUME OneFaulty, NEW v, NEW s, NEW g, NEW c, NEW tx, NEW P, Scene(v, s, g, c, tx, P),
         tx.kind = "respond", NEW d, Writes(tx, c, d)
  PROVE  /\ tx.from \in s.members /\ <<tx.peer, tx.from>> \in c.filed \ c.answered
         /\ d.filed = c.filed /\ d.answered = c.answered \cup {<<tx.peer, tx.from>>}
         /\ d.committed = c.committed /\ d.shared = c.shared /\ d.confirmed = c.confirmed
         /\ d.compromised = c.compromised
         /\ v \notin Faulty /\ (tx.peer = v => tx.from \in Faulty)
<1>1. tx.from \in s.members /\ v \notin Faulty
  <2>1. tx.from \in s.members
    BY SceneMembers
  <2>2. v \in Honest
    BY DEF Scene
  <2> QED BY <2>1, <2>2, ConfigAssumption
<1>2. <<tx.peer, tx.from>> \in c.filed \ c.answered
  <2>1. tx.kind \in Kinds /\ g = tx.group /\ c = ceremony(g) /\ accepts(tx)
    BY DEF Scene
  <2> QED BY <2>1, AcceptsIs
<1>3. tx.peer = v => tx.from \in Faulty
  BY <1>1, <1>2 DEF Scene, CeremonyOk
<1> QED BY <1>1, <1>2, <1>3 DEF Writes

\* The answer of a faulty member is owed as long as it counts.
LEMMA AnswerOwed ==
  ASSUME OneFaulty, NEW v, NEW s, NEW g, NEW c, NEW tx, NEW P, Scene(v, s, g, c, tx, P),
         tx.kind = "respond", s.phase \in {"CollectingShares", "CollectingConfirmations"},
         NEW U, InTime(v, s, c, P, U, block),
         tx.peer \in Participants, ~Owed(s, g, block, tx.from)
  PROVE  tx.from \notin Faulty /\ s.unresponded[tx.from] = 0
<1>1. Joins(v, s) /\ Tallies(s, c)
  BY DEF InTime
<1>2. /\ inGroup(s, g) /\ block \in Nat /\ s.deadline \in Nat /\ s.deadline # NoDeadline
      /\ KeyGenTimeout \in Nat \ {0} /\ tx.from \in s.members /\ s.unresponded \in [s.members -> Nat]
  <2>1. inGroup(s, g) /\ tx.from \in s.members
    BY SceneMembers
  <2>2. block \in Nat
    BY DEF Scene
  <2> QED BY <1>1, <2>1, <2>2, ConfigAssumption DEF Joins, Tallies
<1>3. ASSUME s.unresponded[tx.from] # 0 PROVE FALSE
  <2>1. s.unresponded[tx.from] > 0
    BY <1>2, <1>3
  <2>2. countsResponse(s, block)
    <3>1. CASE s.phase = "CollectingShares"
      BY <3>1 DEF countsResponse
    <3>2. CASE s.phase = "CollectingConfirmations"
      <4>1. ConfirmsIn(v, s, c, P, block)
        BY <3>2 DEF InTime
      <4>2. block < s.deadline + KeyGenTimeout
        BY <1>2, <2>1, <4>1 DEF ConfirmsIn
      <4> QED BY <1>2, <3>2, <4>2 DEF countsResponse, responseDeadline
    <3> QED BY <3>1, <3>2
  <2> QED BY <1>2, <1>3, <2>2 DEF Owed
<1>4. <<tx.peer, tx.from>> \in c.filed \ c.answered
  <2>1. tx.kind \in Kinds /\ g = tx.group /\ c = ceremony(g) /\ accepts(tx)
    BY DEF Scene
  <2> QED BY <2>1, AcceptsIs
<1>5. tx.peer \in AccusersOf(c, tx.from)
  BY <1>4 DEF AccusersOf
<1>6. Cardinality(AccusersOf(c, tx.from)) # 0
  BY <1>5, FiniteMembers, FS_EmptySet DEF AccusersOf
<1>7. tx.from \in Faulty => s.unresponded[tx.from] = Cardinality(AccusersOf(c, tx.from))
  BY <1>1, <1>2 DEF Tallies
<1> QED BY <1>3, <1>6, <1>7

\* An answer that is not owed.
LEMMA UnowedInTime ==
  ASSUME OneFaulty, NEW v, NEW s, NEW g, NEW c, NEW tx, NEW P, Scene(v, s, g, c, tx, P),
         tx.kind = "respond", s.phase \in {"CollectingShares", "CollectingConfirmations"},
         NEW U, InTime(v, s, c, P, U, block),
         tx.peer \in Participants, ~Owed(s, g, block, tx.from),
         NEW r, NEW Q, Passage(v, r, tx, P, Q), NEW W, NEW d, Writes(tx, c, d), r = stay(s)
  PROVE  InTime(v, r.s, d, Q, W, block)
<1>1. r.s = s /\ r.acts = {}
  BY ResultOf
<1>2. Joins(v, s) /\ Tallies(s, c) /\ Answers(v, s, c, P, block) /\ Complains(v, s, c, P, block)
  BY DEF InTime
<1>3. tx.from \notin Faulty /\ s.unresponded[tx.from] = 0
  BY AnswerOwed
<1>4. /\ d.filed = c.filed /\ d.answered = c.answered \cup {<<tx.peer, tx.from>>}
      /\ d.committed = c.committed /\ d.shared = c.shared /\ d.confirmed = c.confirmed
      /\ d.compromised = c.compromised /\ tx.peer # v
  <2>1. /\ d.filed = c.filed /\ d.answered = c.answered \cup {<<tx.peer, tx.from>>}
        /\ d.committed = c.committed /\ d.shared = c.shared /\ d.confirmed = c.confirmed
        /\ d.compromised = c.compromised
    BY DEF Writes
  <2>2. tx.peer = v => tx.from \in Faulty
    BY AnswerIs
  <2> QED BY <1>3, <2>1, <2>2
<1>5. Tallies(s, d)
  <2>1. \A p \in Faulty : AccusersOf(d, p) = AccusersOf(c, p)
    BY <1>3, <1>4 DEF AccusersOf
  <2> QED BY <1>2, <1>4, <2>1 DEF Tallies
<1>6. P \ {tx} \subseteq Q
  BY DEF Passage
<1>7. Answers(v, s, d, Q, block)
  <2>1. CASE tx.from # v
    <3>1. lastComplaint(s, block) \in Int /\ lastComplaint(s, block) <= lastComplaint(s, block)
      BY <1>2 DEF lastComplaint, Scene, Joins
    <3>2. \A z : <<z, v>> \in d.answered => <<z, v>> \in c.answered
      BY <1>4, <2>1
    <3> QED BY <1>2, <1>4, <1>6, <2>1, <3>1, <3>2, AnswersKept
  <2>2. CASE tx.from = v
    <3>1. ~(s.unresponded[v] > 0)
      BY <1>3, <2>2
    <3> QED BY <1>2, <1>4, <3>1 DEF Answers
  <2> QED BY <2>1, <2>2
<1>8. NoAct(r, "complain") /\ NoAct(r, "confirm")
  BY <1>1 DEF NoAct
<1>9. Complains(v, s, d, Q, block)
  <2>1. \A p : <<v, p>> \in d.answered <=> <<v, p>> \in c.answered
    BY <1>4
  <2>2. \A a \in r.acts : a.kind # "complain"
    BY <1>1
  <2> QED BY <1>2, <1>4, <2>1, <2>2, ComplainsKept
<1>10. CASE s.phase = "CollectingShares"
  <2>1. SharesIn(v, s, c, P, block)
    BY <1>10 DEF InTime
  <2>2. v \notin d.confirmed
    BY <1>4, <2>1 DEF SharesIn
  <2>3. SharesIn(v, s, d, Q, block)
    BY <1>4, <1>8, <2>1, <2>2, SharesInKept
  <2> QED BY <1>1, <1>2, <1>5, <1>7, <1>9, <1>10, <2>3 DEF InTime
<1>11. CASE s.phase = "CollectingConfirmations"
  <2>1. ConfirmsIn(v, s, c, P, block)
    BY <1>11 DEF InTime
  <2>2. \A p \in s.members : s.unresponded[p] > 0 => block < s.deadline + KeyGenTimeout
    BY <2>1 DEF ConfirmsIn
  <2>3. ConfirmsIn(v, s, d, Q, block)
    BY <1>4, <1>8, <2>1, <2>2, ConfirmsInKept
  <2> QED BY <1>1, <1>2, <1>5, <1>7, <1>9, <1>11, <2>3 DEF InTime
<1> QED BY <1>10, <1>11
\* An answer settles a complaint for the validators as for the contract.
LEMMA AnsweredTallies ==
  ASSUME OneFaulty, NEW v, NEW s, NEW g, NEW c, NEW tx, NEW P, Scene(v, s, g, c, tx, P),
         tx.kind = "respond", tx.peer \in Participants, Tallies(s, c),
         NEW d, Writes(tx, c, d), s.unresponded[tx.from] # 0,
         NEW t, AfterAnswer(s, t, tx.from)
  PROVE  Tallies(t, d)
<1>1. PICK a : a = tx.from
  OBVIOUS
<1>2. PICK q : q = tx.peer
  OBVIOUS
<1>3. a \in s.members /\ <<q, a>> \in c.filed \ c.answered /\ q \in Participants
  <2>1. tx.from \in s.members /\ <<tx.peer, tx.from>> \in c.filed \ c.answered
    BY AnswerIs
  <2> QED BY <1>1, <1>2, <2>1
<1>4. /\ t.epoch = s.epoch /\ t.members = s.members /\ t.total = s.total
      /\ t.unresponded = TakeOne(s.unresponded, a)
  BY <1>1 DEF AfterAnswer
<1>5. /\ d.committed = c.committed /\ d.compromised = c.compromised
      /\ d.filed = c.filed /\ d.answered = c.answered \cup {<<q, a>>}
  BY <1>1, <1>2 DEF Writes
<1>6. /\ \A p : p # a => AccusersOf(d, p) = AccusersOf(c, p)
      /\ Cardinality(AccusersOf(d, a)) = Cardinality(AccusersOf(c, a)) - 1
  BY <1>3, <1>5, AccusersShrink
<1>7. /\ AllIn(groupOf(s), DOMAIN c.committed)
      /\ s.total \in [s.members -> Nat] /\ s.unresponded \in [s.members -> Nat]
      /\ \A p \in s.members : s.unresponded[p] <= s.total[p]
      /\ \A p \in Faulty \cap s.members : s.unresponded[p] = Cardinality(AccusersOf(c, p))
  BY DEF Tallies
<1>8. c.compromised = FALSE
  BY DEF Tallies
<1>9. /\ t.unresponded \in [s.members -> Nat]
      /\ t.unresponded[a] = s.unresponded[a] - 1
      /\ \A p \in s.members : p # a => t.unresponded[p] = s.unresponded[p]
  BY <1>1, <1>3, <1>4, <1>7 DEF TakeOne
<1>10. AllIn(groupOf(t), DOMAIN d.committed)
  BY <1>4, <1>5, <1>7 DEF groupOf
<1>11. \A p \in s.members : t.unresponded[p] <= t.total[p]
  BY <1>3, <1>4, <1>7, <1>9
<1>12. \A p \in Faulty \cap s.members : t.unresponded[p] = Cardinality(AccusersOf(d, p))
  BY <1>6, <1>7, <1>9
<1> QED BY <1>4, <1>5, <1>7, <1>8, <1>9, <1>10, <1>11, <1>12 DEF Tallies

\* v has answered, or another one.
LEMMA AnsweredAnswers ==
  ASSUME OneFaulty, NEW v, NEW s, NEW g, NEW c, NEW tx, NEW P, Scene(v, s, g, c, tx, P),
         tx.kind = "respond", Joins(v, s), Tallies(s, c), Answers(v, s, c, P, block),
         NEW Q, NEW r, Passage(v, r, tx, P, Q), NEW d, Writes(tx, c, d), s.unresponded[tx.from] # 0,
         NEW t, AfterAnswer(s, t, tx.from)
  PROVE  Answers(v, t, d, Q, block)
<1>1. /\ t.phase = s.phase /\ t.epoch = s.epoch /\ t.members = s.members /\ t.total = s.total
      /\ t.unresponded = TakeOne(s.unresponded, tx.from) /\ t.deadline = s.deadline
  BY DEF AfterAnswer
<1>2. v \in s.members /\ s.total \in [s.members -> Nat] /\ s.unresponded \in [s.members -> Nat]
      /\ s.unresponded[v] <= s.total[v]
  BY DEF Joins, Tallies
<1>3. d.filed = c.filed /\ d.answered = c.answered \cup {<<tx.peer, tx.from>>}
  BY DEF Writes
<1>4. CASE tx.from = v
  <2>1. s.total[v] <= 1
    BY DEF Answers
  <2>2. t.unresponded[v] = s.unresponded[v] - 1
    BY <1>1, <1>2, <1>4 DEF TakeOne
  <2>3. ~(t.unresponded[v] > 0)
    BY <1>2, <2>1, <2>2
  <2> QED BY <1>1, <1>3, <2>3 DEF Answers
<1>5. CASE tx.from # v
  <2>1. t.total[v] = s.total[v] /\ t.unresponded[v] = s.unresponded[v]
    BY <1>1, <1>2, <1>5 DEF TakeOne
  <2>2. lastComplaint(t, block) = lastComplaint(s, block) /\ groupOf(t) = groupOf(s)
    BY <1>1 DEF lastComplaint, groupOf
  <2>3. lastComplaint(s, block) \in Int /\ lastComplaint(s, block) <= lastComplaint(s, block)
    BY DEF lastComplaint, Scene, Joins
  <2>4. c.filed \subseteq d.filed /\ \A z : <<z, v>> \in d.answered => <<z, v>> \in c.answered
    BY <1>3, <1>5
  <2>5. P \ {tx} \subseteq Q
    BY DEF Passage
  <2> QED BY <1>5, <2>1, <2>2, <2>3, <2>4, <2>5, AnswersKept
<1> QED BY <1>4, <1>5

\* v has the share that it had complained about, or another one.
LEMMA AnsweredComplains ==
  ASSUME OneFaulty, NEW v, NEW s, NEW g, NEW c, NEW tx, NEW P, Scene(v, s, g, c, tx, P),
         tx.kind = "respond", Complains(v, s, c, P, block),
         NEW r, NEW Q, Passage(v, r, tx, P, Q), NoAct(r, "complain"), NEW d, Writes(tx, c, d),
         NEW t, groupOf(t) = groupOf(s), t.members = s.members, t.keys = s.keys,
         tx.peer = v => t.shares = s.shares \cup {tx.from}, tx.peer # v => t.shares = s.shares
  PROVE  Complains(v, t, d, Q, block)
<1>1. d.filed = c.filed /\ d.answered = c.answered \cup {<<tx.peer, tx.from>>}
  BY DEF Writes
<1>2. CASE tx.peer # v
  <2>1. \A p : <<v, p>> \in d.filed <=> <<v, p>> \in c.filed
    BY <1>1
  <2>2. \A p : <<v, p>> \in d.answered <=> <<v, p>> \in c.answered
    BY <1>1, <1>2
  <2>3. \A a \in r.acts : a.kind # "complain"
    BY DEF NoAct
  <2> QED BY <1>2, <2>1, <2>2, <2>3, ComplainsKept
<1>3. CASE tx.peer = v
  <2>1. tx.from \in s.members /\ <<tx.peer, tx.from>> \in c.filed \ c.answered
    BY AnswerIs
  <2>2. tx.peer = v => tx.from \in Faulty
    BY AnswerIs
  <2>3. tx.from \in s.keys \ s.shares
    BY <1>3, <2>1, <2>2 DEF Complains
  <2>4. \A p \in Faulty : p = tx.from
    BY <1>3, <2>2 DEF OneFaulty
  <2>5. s.shares \subseteq s.keys /\ s.keys \ s.shares \subseteq Faulty
    BY DEF Complains
  <2>6. t.shares \subseteq t.keys /\ t.keys \ t.shares \subseteq Faulty /\ tx.from \notin t.keys \ t.shares
    BY <1>3, <2>3, <2>5
  <2>7. <<v, tx.from>> \in d.filed /\ <<v, tx.from>> \in d.answered
    BY <1>1, <1>3, <2>1
  <2> QED BY <2>4, <2>6, <2>7 DEF Complains
<1> QED BY <1>2, <1>3

\* An answer is counted.
LEMMA AnsweredInTime ==
  ASSUME OneFaulty, NEW v, NEW s, NEW g, NEW c, NEW tx, NEW P, Scene(v, s, g, c, tx, P),
         tx.kind = "respond", s.phase \in {"CollectingShares", "CollectingConfirmations"},
         NEW U, InTime(v, s, c, P, U, block), tx.peer \in Participants,
         Owed(s, g, block, tx.from),
         NEW r, NEW Q, Passage(v, r, tx, P, Q), NEW W, NEW d, Writes(tx, c, d),
         AfterAnswer(s, r.s, tx.from), OwnAnswer(v, s, r, tx.peer, tx.from, r.s.shares)
  PROVE  InTime(v, r.s, d, Q, W, block)
<1>0. s.unresponded[tx.from] # 0
  BY DEF Owed
<1>1. PICK t : t = r.s
  OBVIOUS
<1>2. g = groupOf(s) /\ block \in Nat
  BY DEF Scene
<1>3. Joins(v, s) /\ Tallies(s, c) /\ Answers(v, s, c, P, block) /\ Complains(v, s, c, P, block)
  BY DEF InTime
<1>4. /\ t.phase = s.phase /\ t.epoch = s.epoch /\ t.members = s.members /\ t.keys = s.keys
      /\ t.confirmations = s.confirmations /\ t.deadline = s.deadline
      /\ t.unresponded = TakeOne(s.unresponded, tx.from)
  BY <1>1 DEF AfterAnswer
<1>5. groupOf(t) = groupOf(s)
  BY <1>4 DEF groupOf
<1>6. PICK gains : gains = (s.phase = "CollectingConfirmations" /\ s.status = "Collecting"
                              /\ complete(s, t.shares))
  OBVIOUS
<1>7. /\ t.own = s.own
      /\ tx.peer = v => t.shares = s.shares \cup {tx.from}
      /\ tx.peer # v => t.shares = s.shares
      /\ gains => t.status = "Confirmed" /\ r.acts = {action("confirm", s, v, 0)}
      /\ ~gains => t.status = s.status /\ r.acts = {}
  BY <1>1, <1>3, <1>6 DEF OwnAnswer, Joins
<1>8. NoAct(r, "complain")
  BY <1>6, <1>7 DEF NoAct, action
<1>9. Joins(v, t)
  BY <1>3, <1>4, <1>7 DEF Joins
<1>10. Tallies(t, d)
  BY <1>0, <1>1, <1>3, AnsweredTallies
<1>11. Answers(v, t, d, Q, block)
  BY <1>0, <1>1, <1>3, AnsweredAnswers
<1>12. Complains(v, t, d, Q, block)
  BY <1>3, <1>4, <1>5, <1>7, <1>8, AnsweredComplains
<1>13. d.shared = c.shared /\ d.confirmed = c.confirmed
  BY DEF Writes
<1>14. CASE s.phase = "CollectingShares"
  <2>1. SharesIn(v, s, c, P, block)
    BY <1>14 DEF InTime
  <2>2. v \notin d.confirmed
    BY <1>13, <2>1 DEF SharesIn
  <2>3. NoAct(r, "confirm")
    BY <1>6, <1>7, <1>14 DEF NoAct
  <2>4. SharesIn(v, t, d, Q, block)
    BY <1>4, <1>5, <1>13, <2>1, <2>2, <2>3, SharesInKept
  <2> QED BY <1>1, <1>2, <1>4, <1>5, <1>9, <1>10, <1>11, <1>12, <1>14, <2>4 DEF InTime
<1>15. CASE s.phase = "CollectingConfirmations"
  <2>1. ConfirmsIn(v, s, c, P, block)
    BY <1>15 DEF InTime
  <2>2. s.unresponded \in [s.members -> Nat] /\ tx.from \in s.members /\ s.members \subseteq Participants
    <3>1. tx.from \in s.members /\ s.members \subseteq Participants
      BY SceneMembers
    <3> QED BY <1>3, <3>1 DEF Tallies
  <2>3. \A p \in s.members : t.unresponded[p] > 0 => s.unresponded[p] > 0
    BY <1>4, <2>2 DEF TakeOne
  <2>4. \A p \in s.members : s.unresponded[p] > 0 => block < s.deadline + KeyGenTimeout
    BY <2>1 DEF ConfirmsIn
  <2>5. block < s.deadline + KeyGenTimeout
    BY <1>0, <2>2, <2>4
  <2>6. t.shares \subseteq s.members
    BY <1>4, <1>12, <2>1 DEF Complains, ConfirmsIn
  <2>7. complete(s, t.shares) <=> t.shares = s.members
    <3>1. \A set : set \subseteq s.members => (AllIn(g, set) <=> set = s.members)
      BY SceneMembers
    <3>2. \A set : complete(s, set) <=> AllIn(g, set)
      BY SceneMembers
    <3> QED BY <2>6, <3>1, <3>2
  <2>8. CASE ~gains
    <3>2. \A y \in Q : y.kind = "complain" => y \in P
      BY <1>8, NoComplaint
    <3>3. ASSUME s.status = "Confirmed", v \notin s.confirmations
          PROVE  Waits(Q, block, "confirm", v, g, v, s.deadline + KeyGenTimeout)
      <4>1. Waits(P, block, "confirm", v, g, v, s.deadline + KeyGenTimeout)
        BY <1>2, <2>1, <3>3 DEF ConfirmsIn
      <4>2. P \ {tx} \subseteq Q
        BY DEF Passage
      <4> QED BY <4>1, <4>2, WaitsKept
    <3>4. s.status = "Confirmed" <=> t.shares = s.members
      <4>1. s.status \in {"Collecting", "Confirmed"} /\ (s.status = "Confirmed" <=> s.shares = s.members)
        BY <2>1 DEF ConfirmsIn
      <4>2. s.shares \subseteq t.shares
        BY <1>7
      <4> QED BY <1>6, <1>15, <2>6, <2>7, <2>8, <4>1, <4>2
    <3>5. t.status = s.status
      BY <1>7, <2>8
    <3>6. ConfirmsIn(v, t, d, Q, block)
      BY <1>2, <1>4, <1>5, <1>13, <2>1, <2>3, <2>5, <3>2, <3>3, <3>4, <3>5 DEF ConfirmsIn
    <3> QED BY <1>1, <1>2, <1>4, <1>5, <1>9, <1>10, <1>11, <1>12, <1>15, <3>6 DEF InTime
  <2>9. CASE gains
    <3>1. t.status = "Confirmed" /\ r.acts = {action("confirm", s, v, 0)} /\ t.shares = s.members
      BY <1>6, <1>7, <2>7, <2>9
    <3>2. \A y \in Q : y.kind = "complain" => y \in P
      BY <1>8, NoComplaint
    <3>3. Waits(Q, block, "confirm", v, g, v, s.deadline + KeyGenTimeout)
      <4>1. PICK a \in r.acts : a = action("confirm", s, v, 0)
        BY <3>1
      <4>2. a.kind = "confirm" /\ a.group = g /\ a.peer = v
        BY <1>2, <4>1 DEF action, groupOf
      <4>3. s.deadline + KeyGenTimeout \in Int /\ block <= s.deadline + KeyGenTimeout
        BY <1>2, <1>3, <2>5, ConfigAssumption DEF Joins
      <4> QED BY <1>2, <4>2, <4>3, WaitsNew
    <3>6. ConfirmsIn(v, t, d, Q, block)
      BY <1>2, <1>4, <1>5, <1>13, <2>1, <2>3, <2>5, <3>1, <3>2, <3>3 DEF ConfirmsIn
    <3> QED BY <1>1, <1>2, <1>4, <1>5, <1>9, <1>10, <1>11, <1>12, <1>15, <3>6 DEF InTime
  <2> QED BY <1>6, <2>8, <2>9
<1> QED BY <1>14, <1>15
----------------------------------------------------------------------------
(* Confirmations, and the events of a ceremony together                    *)

\* Nothing but commitments counts in the first round.
LEMMA EarlyInTime ==
  ASSUME NEW v, NEW s, NEW g, NEW c, NEW tx, NEW P, Scene(v, s, g, c, tx, P),
         tx.kind # "commit", s.phase = "CollectingCommitments",
         NEW U, InTime(v, s, c, P, U, block),
         NEW r, NEW Q, Passage(v, r, tx, P, Q), NEW W, U \subseteq W, NEW d, Writes(tx, c, d), r = stay(s)
  PROVE  InTime(v, r.s, d, Q, W, block)
<1>1. r.s = s /\ r.acts = {}
  BY ResultOf
<1>2. Joins(v, s) /\ Commits(v, s, c, P, U, block)
  BY DEF InTime
<1>3. d.committed = c.committed
  BY DEF Writes
<1>4. P \ {tx} \subseteq Q
  BY DEF Passage
<1>5. NoAct(r, "commit")
  BY <1>1 DEF NoAct
<1>6. \A y \in Q : y.from = v /\ y.kind = "commit" => y \in P
  BY <1>5, NoneQueued
<1>7. ASSUME v \notin DOMAIN s.commitments
      PROVE  /\ v \notin DOMAIN d.committed
             /\ \/ <<v, groupOf(s)>> \in W /\ s.own = NoSecrets /\ block + KeyGenTimeout <= s.deadline
                \/ Waits(Q, block, "commit", v, groupOf(s), v, s.deadline - KeyGenTimeout)
  <2>1. \/ <<v, groupOf(s)>> \in U /\ s.own = NoSecrets /\ block + KeyGenTimeout <= s.deadline
        \/ Waits(P, block, "commit", v, groupOf(s), v, s.deadline - KeyGenTimeout)
    BY <1>2, <1>7 DEF Commits
  <2>2. ASSUME Waits(P, block, "commit", v, groupOf(s), v, s.deadline - KeyGenTimeout)
        PROVE  Waits(Q, block, "commit", v, groupOf(s), v, s.deadline - KeyGenTimeout)
    BY <1>4, <2>2, WaitsKept
  <2>3. v \notin DOMAIN d.committed
    BY <1>2, <1>3, <1>7 DEF Commits
  <2> QED BY <2>1, <2>2, <2>3
<1>8. Commits(v, s, d, Q, W, block)
  BY <1>2, <1>6, <1>7 DEF Commits
<1> QED BY <1>1, <1>2, <1>8 DEF InTime

\* Answers and complaints are no matter of confirmations.
LEMMA ConfirmLeaves ==
  ASSUME NEW v, NEW s, NEW g, NEW c, NEW tx, NEW P, Scene(v, s, g, c, tx, P), tx.kind = "confirm",
         NEW t, t.phase = s.phase, t.epoch = s.epoch, t.members = s.members, t.total = s.total,
         t.unresponded = s.unresponded, t.deadline = s.deadline, t.shares = s.shares, t.keys = s.keys,
         Joins(v, s), Tallies(s, c), Answers(v, s, c, P, block), Complains(v, s, c, P, block),
         NEW r, r.acts = {}, NEW Q, Passage(v, r, tx, P, Q), NEW d, Writes(tx, c, d)
  PROVE  Tallies(t, d) /\ Answers(v, t, d, Q, block) /\ Complains(v, t, d, Q, block)
<1>1. d.committed = c.committed /\ d.filed = c.filed /\ d.answered = c.answered
  BY DEF Writes
<1>2. d.compromised = c.compromised
  BY DEF Writes
<1>3. Tallies(t, d)
  BY <1>1, <1>2, TalliesKept
<1>4. groupOf(t) = groupOf(s) /\ lastComplaint(t, block) = lastComplaint(s, block)
  BY DEF groupOf, lastComplaint
<1>5. lastComplaint(s, block) \in Int /\ lastComplaint(s, block) <= lastComplaint(s, block)
  BY DEF lastComplaint, Scene, Joins
<1>6. P \ {tx} \subseteq Q
  BY DEF Passage
<1>7. Answers(v, t, d, Q, block)
  BY <1>1, <1>4, <1>5, <1>6, AnswersKept
<1>8. \A a \in r.acts : a.kind # "complain"
  OBVIOUS
<1>9. Complains(v, t, d, Q, block)
  BY <1>1, <1>4, <1>8, ComplainsKept
<1> QED BY <1>3, <1>7, <1>9

\* Another member confirms before v has got all shares.
LEMMA AheadInTime ==
  ASSUME NEW v, NEW s, NEW g, NEW c, NEW tx, NEW P, Scene(v, s, g, c, tx, P),
         tx.kind = "confirm", s.phase = "CollectingShares",
         NEW U, InTime(v, s, c, P, U, block),
         NEW r, NEW Q, Passage(v, r, tx, P, Q), NEW W, NEW d, Writes(tx, c, d), r = stay(s)
  PROVE  InTime(v, r.s, d, Q, W, block)
<1>1. r.s = s /\ r.acts = {}
  BY ResultOf
<1>2. /\ Joins(v, s) /\ Tallies(s, c) /\ Answers(v, s, c, P, block) /\ Complains(v, s, c, P, block)
      /\ SharesIn(v, s, c, P, block)
  BY DEF InTime
<1>3. Tallies(s, d) /\ Answers(v, s, d, Q, block) /\ Complains(v, s, d, Q, block)
  BY <1>1, <1>2, ConfirmLeaves
<1>4. NoAct(r, "confirm")
  BY <1>1 DEF NoAct
<1>5. d.shared = c.shared /\ d.confirmed = c.confirmed \cup {tx.from}
  BY DEF Writes
<1>6. tx.from # v
  BY <1>2 DEF SharesIn, Scene
<1>7. v \notin d.confirmed
  BY <1>2, <1>5, <1>6 DEF SharesIn
<1>8. SharesIn(v, s, d, Q, block)
  BY <1>2, <1>4, <1>5, <1>7, SharesInKept
<1> QED BY <1>1, <1>2, <1>3, <1>8 DEF InTime

\* A confirmation is counted.
LEMMA ConfirmedInTime ==
  ASSUME NEW v, NEW s, NEW g, NEW c, NEW tx, NEW P, Scene(v, s, g, c, tx, P),
         tx.kind = "confirm", s.phase = "CollectingConfirmations",
         NEW U, InTime(v, s, c, P, U, block),
         NEW r, NEW Q, Passage(v, r, tx, P, Q), NEW W, NEW d, Writes(tx, c, d),
         r = stay(Confirmed(s, tx.from))
  PROVE  InTime(v, r.s, d, Q, W, block) /\ r.s.phase = s.phase /\ groupOf(r.s) = g
<1>1. PICK t : t = Confirmed(s, tx.from)
  OBVIOUS
<1>2. r.s = t /\ r.acts = {}
  BY <1>1, ResultOf
<1>3. /\ Joins(v, s) /\ Tallies(s, c) /\ Answers(v, s, c, P, block) /\ Complains(v, s, c, P, block)
      /\ ConfirmsIn(v, s, c, P, block)
  BY DEF InTime
<1>4. /\ t.phase = s.phase /\ t.epoch = s.epoch /\ t.members = s.members /\ t.own = s.own
      /\ t.keys = s.keys /\ t.shares = s.shares /\ t.total = s.total /\ t.unresponded = s.unresponded
      /\ t.status = s.status /\ t.deadline = s.deadline
      /\ t.confirmations = s.confirmations \cup {tx.from}
  <2>1. DOMAIN s = Fields
    BY DEF Scene, ViewOk
  <2> QED BY <1>1, <2>1 DEF Confirmed, Fields
<1>5. Tallies(t, d) /\ Answers(v, t, d, Q, block) /\ Complains(v, t, d, Q, block)
  BY <1>2, <1>3, <1>4, ConfirmLeaves
<1>6. g = groupOf(s) /\ groupOf(t) = groupOf(s)
  BY <1>4 DEF groupOf, Scene
<1>7. NoAct(r, "complain")
  BY <1>2 DEF NoAct
<1>8. \A y \in Q : y.kind = "complain" => y \in P
  BY <1>7, NoComplaint
<1>9. d.shared = c.shared /\ d.confirmed = c.confirmed \cup {tx.from}
  BY DEF Writes
<1>10. tx.from = v => s.status = "Confirmed"
  BY DEF Scene
<1>11. ASSUME s.status = "Confirmed", v \notin t.confirmations
       PROVE  Waits(Q, block, "confirm", v, g, v, s.deadline + KeyGenTimeout)
  <2>1. Waits(P, block, "confirm", v, g, v, s.deadline + KeyGenTimeout) /\ tx.from # v
    BY <1>3, <1>4, <1>6, <1>11 DEF ConfirmsIn
  <2>2. P \ {tx} \subseteq Q
    BY DEF Passage
  <2> QED BY <2>1, <2>2, WaitsKept
<1>12. ConfirmsIn(v, t, d, Q, block)
  BY <1>3, <1>4, <1>6, <1>8, <1>9, <1>10, <1>11 DEF ConfirmsIn
<1>13. Joins(v, t)
  BY <1>3, <1>4 DEF Joins
<1> QED BY <1>2, <1>4, <1>5, <1>6, <1>12, <1>13 DEF InTime
\* What may become of v: it has ended the ceremony, has begun another one of
\* which it is a member, or keeps the deadlines of this one.
Outcome(v, r, g, d, Q, W) ==
    \/ Stops(r)
    \/ Starts(v, r, block + KeyGenTimeout) /\ v \in r.s.members
    \/ groupOf(r.s) = g /\ r.s.phase \in Collecting /\ InTime(v, r.s, d, Q, W, block)

\* What is needed of v and the step.
Setting(v, s, g, c, tx, P, U, r, Q, W, d) ==
    /\ Scene(v, s, g, c, tx, P) /\ InTime(v, s, c, P, U, block)
    /\ s.phase \in Collecting /\ s.epoch # 0 /\ v \in activeIn(s.epoch)
    /\ Passage(v, r, tx, P, Q) /\ U \subseteq W /\ Writes(tx, c, d)

\* A commitment of the ceremony.
LEMMA CommitOutcome ==
  ASSUME OneFaulty, NEW v, NEW s, NEW g, NEW c, NEW tx, NEW P, NEW U, NEW r, NEW Q, NEW W, NEW d,
         Setting(v, s, g, c, tx, P, U, r, Q, W, d), tx.kind = "commit",
         r = onCommitted(v, s, block, g, tx.from, tx.version)
  PROVE  Outcome(v, r, g, d, Q, W)
<1>1. /\ Scene(v, s, g, c, tx, P) /\ InTime(v, s, c, P, U, block) /\ s.phase \in Collecting
      /\ Passage(v, r, tx, P, Q) /\ U \subseteq W /\ Writes(tx, c, d)
  BY DEF Setting
<1>2. g.members = s.members /\ inGroup(s, g) /\ tx.from \in s.members
  BY <1>1, SceneMembers
<1>3. CASE s.phase = "CollectingCommitments"
  <2>1. PICK x : x = Counted(s, tx.from, tx.version)
    OBVIOUS
  <2>2. ViewOk(v, x) /\ x.phase = s.phase /\ x.epoch = s.epoch /\ x.members = s.members
    BY <1>1, <1>2, <2>1, CountedIs DEF Scene
  <2>3. CASE r = stay(x)
    <3>1. InTime(v, r.s, d, Q, W, block)
      BY <1>1, <1>3, <2>1, <2>3, CountedInTime
    <3>2. r.s = x /\ g = groupOf(s)
      BY <1>1, <2>3, ResultOf DEF Scene
    <3>3. groupOf(r.s) = g /\ r.s.phase \in Collecting
      BY <1>1, <2>2, <3>2 DEF groupOf
    <3> QED BY <3>1, <3>3 DEF Outcome
  <2>4. CASE complete(x, DOMAIN x.commitments) /\ r = finalizeKeyGenCommitments(v, x, pushed(s, block))
    <3>1. InTime(v, r.s, d, Q, W, block)
      BY <1>1, <1>3, <2>1, <2>4, ClosedInTime
    <3>2. matchesCommitment(v, x)
      <4>1. tx.from = v => tx.version \in {0, s.own}
        BY <1>1, <1>2, <1>3 DEF Scene, OwnCommit
      <4> QED BY <1>1, <1>2, <1>3, <2>1, <2>4, <4>1, CommittedMatches DEF Scene
    <3>3. r.s.epoch = x.epoch /\ r.s.members = x.members /\ r.s.phase = "CollectingShares"
      BY <2>2, <2>4, <3>2, FinalizeIs
    <3>4. groupOf(r.s) = g /\ r.s.phase \in Collecting
      BY <1>1, <2>2, <3>3 DEF groupOf, Collecting, Scene
    <3> QED BY <3>1, <3>4 DEF Outcome
  <2> QED BY <1>2, <1>3, <2>1, <2>3, <2>4, CommittedCases
<1>4. CASE s.phase # "CollectingCommitments"
  <2>1. Tallies(s, c)
    BY <1>1, <1>4 DEF InTime, Collecting
  <2>2. tx.kind \in Kinds /\ g = tx.group /\ c = ceremony(g) /\ accepts(tx) /\ CeremonyOk(g, c)
        /\ g = groupOf(s)
    BY <1>1 DEF Scene
  <2>3. tx.from \notin DOMAIN c.committed
    BY <2>2, AcceptsIs
  <2>4. \A set : set \subseteq s.members => (AllIn(g, set) <=> set = s.members)
    BY <1>1, SceneMembers
  <2> QED BY <1>2, <2>1, <2>2, <2>3, <2>4 DEF Tallies, CeremonyOk
<1> QED BY <1>3, <1>4

\* A secret share of the ceremony.
LEMMA ShareOutcome ==
  ASSUME OneFaulty, NEW v, NEW s, NEW g, NEW c, NEW tx, NEW P, NEW U, NEW r, NEW Q, NEW W, NEW d,
         Setting(v, s, g, c, tx, P, U, r, Q, W, d), tx.kind = "share",
         r = onSecretShared(v, s, block, g, tx.from, tx.valid, tx.bad)
  PROVE  Outcome(v, r, g, d, Q, W)
<1>1. /\ Scene(v, s, g, c, tx, P) /\ InTime(v, s, c, P, U, block) /\ s.phase \in Collecting
      /\ Passage(v, r, tx, P, Q) /\ U \subseteq W /\ Writes(tx, c, d)
  BY DEF Setting
<1>2. g.members = s.members /\ inGroup(s, g) /\ tx.from \in s.members
  BY <1>1, SceneMembers
<1>3. /\ g = groupOf(s) /\ tx.valid \in BOOLEAN /\ ViewOk(v, s) /\ (tx.from = v => tx.valid = TRUE)
      /\ Joins(v, s)
  BY <1>1 DEF Scene, InTime
<1>4. CASE s.phase = "CollectingCommitments"
  <2>1. r = stay(s)
    BY <1>4 DEF onSecretShared
  <2>2. InTime(v, r.s, d, Q, W, block)
    BY <1>1, <1>4, <2>1, EarlyInTime
  <2> QED BY <1>1, <1>3, <2>1, <2>2, ResultOf DEF Outcome
<1>5. CASE s.phase = "CollectingShares"
  <2>1. CASE tx.valid = TRUE
    <3>1. r = onSecretShared(v, s, block, g, tx.from, TRUE, tx.bad)
      BY <2>1
    <3>2. AfterShare(s, r.s, block, tx.from)
      BY <1>2, <1>3, <1>5, <3>1, SharedIs
    <3>3. OwnShare(v, s, r, tx.from, tx.bad, r.s.shares)
      BY <1>2, <1>3, <1>5, <3>1, SharedOwn DEF ViewOk, Joins
    <3>4. InTime(v, r.s, d, Q, W, block)
      BY <1>1, <1>5, <3>2, <3>3, SharedInTime
    <3>5. groupOf(r.s) = g /\ r.s.phase \in Collecting
      BY <1>3, <3>2 DEF AfterShare, groupOf, Collecting
    <3> QED BY <3>4, <3>5 DEF Outcome
  <2>2. CASE tx.valid # TRUE
    <3>1. r = stay(s)
      BY <1>3, <2>2 DEF onSecretShared
    <3>2. InTime(v, r.s, d, Q, W, block)
      BY <1>1, <1>3, <1>5, <2>2, <3>1, IgnoredInTime
    <3> QED BY <1>1, <1>3, <3>1, <3>2, ResultOf DEF Outcome
  <2> QED BY <2>1, <2>2
<1>6. CASE s.phase = "CollectingConfirmations"
  <2>1. c.shared = s.members
    BY <1>1, <1>6 DEF InTime, ConfirmsIn
  <2>2. tx.kind \in Kinds /\ g = tx.group /\ c = ceremony(g) /\ accepts(tx)
    BY <1>1 DEF Scene
  <2>3. tx.from \notin c.shared
    BY <2>2, AcceptsIs
  <2> QED BY <1>2, <2>1, <2>3
<1> QED BY <1>1, <1>4, <1>5, <1>6 DEF Collecting

\* A complaint of the ceremony.
LEMMA ComplainOutcome ==
  ASSUME OneFaulty, NEW v, NEW s, NEW g, NEW c, NEW tx, NEW P, NEW U, NEW r, NEW Q, NEW W, NEW d,
         Setting(v, s, g, c, tx, P, U, r, Q, W, d), tx.kind = "complain",
         r = onComplained(v, s, block, g, tx.from, tx.peer)
  PROVE  Outcome(v, r, g, d, Q, W)
<1>1. /\ Scene(v, s, g, c, tx, P) /\ InTime(v, s, c, P, U, block) /\ s.phase \in Collecting
      /\ Passage(v, r, tx, P, Q) /\ U \subseteq W /\ Writes(tx, c, d) /\ v \in activeIn(s.epoch)
  BY DEF Setting
<1>2. g = groupOf(s) /\ DOMAIN s = Fields /\ Joins(v, s)
  BY <1>1 DEF Scene, InTime, ViewOk
<1>5. \/ r = stay(s) /\ ~Heeds(s, g, block)
      \/ /\ Heeds(s, g, block)
         /\ TooMany(s, tx.peer)
         /\ r = restartKeyGenExcluding(v, Blamed(s, tx.peer), alsoExclude(s, {tx.peer}), pushed(s, block))
      \/ /\ Heeds(s, g, block)
         /\ ~TooMany(s, tx.peer)
         /\ r.s = Blamed(s, tx.peer)
         /\ Actions(s, r.acts)
  <2>1. PICK q, a : q = tx.from /\ a = tx.peer
    OBVIOUS
  <2>2. r = onComplained(v, s, block, g, q, a)
    BY <2>1
  <2> QED BY <1>2, <2>1, <2>2, ComplainedCases
<1>3. CASE s.phase = "CollectingCommitments"
  <2>1. ~Heeds(s, g, block)
    BY <1>3 DEF Heeds, countsComplaint
  <2>2. r = stay(s)
    BY <1>5, <2>1
  <2>3. InTime(v, r.s, d, Q, W, block)
    BY <1>1, <1>3, <2>2, EarlyInTime
  <2> QED BY <1>1, <1>2, <2>2, <2>3, ResultOf DEF Outcome
<1>4. CASE s.phase \in {"CollectingShares", "CollectingConfirmations"}
  <2>1. CASE ~Heeds(s, g, block)
    <3>1. r = stay(s)
      BY <1>5, <2>1
    <3>2. InTime(v, r.s, d, Q, W, block)
      BY <1>1, <1>4, <2>1, <3>1, LateInTime
    <3> QED BY <1>1, <1>2, <3>1, <3>2, ResultOf DEF Outcome
  <2>2. CASE Heeds(s, g, block) /\ ~TooMany(s, tx.peer)
    <3>1. InTime(v, r.s, d, Q, W, block) /\ r.s.phase = s.phase /\ groupOf(r.s) = g
      BY <1>1, <1>4, <2>2, BlamedInTime
    <3> QED BY <1>1, <3>1 DEF Outcome
  <2>3. CASE Heeds(s, g, block) /\ TooMany(s, tx.peer)
    <3>1. tx.peer # v
      BY <1>1, <1>4, <2>3, NotAccused
    <3>2. PICK D : D = pushed(s, block)
      OBVIOUS
    <3>3. D = block + KeyGenTimeout
      BY <1>2, <3>2 DEF pushed, Joins
    <3>4. PICK x : x = Blamed(s, tx.peer)
      OBVIOUS
    <3>5. x.epoch = s.epoch
      BY <1>2, <3>4, BlamedIs
    <3>6. r = restartKeyGenExcluding(v, x, alsoExclude(s, {tx.peer}), D)
      BY <1>5, <2>3, <3>2, <3>4
    <3>7. v \in s.members /\ v \notin {tx.peer}
      BY <1>2, <3>1 DEF Joins
    <3>8. Stops(r) \/ (Starts(v, r, D) /\ v \in r.s.members)
      BY <1>1, <3>5, <3>6, <3>7, ExcludedStarts
    <3> QED BY <3>3, <3>8 DEF Outcome
  <2> QED BY <2>1, <2>2, <2>3
<1> QED BY <1>1, <1>3, <1>4 DEF Collecting

\* An answer of the ceremony.
LEMMA RespondOutcome ==
  ASSUME OneFaulty, NEW v, NEW s, NEW g, NEW c, NEW tx, NEW P, NEW U, NEW r, NEW Q, NEW W, NEW d,
         Setting(v, s, g, c, tx, P, U, r, Q, W, d), tx.kind = "respond",
         r = onComplaintResponded(v, s, block, g, tx.peer, tx.from, tx.valid)
  PROVE  Outcome(v, r, g, d, Q, W)
<1>1. /\ Scene(v, s, g, c, tx, P) /\ InTime(v, s, c, P, U, block) /\ s.phase \in Collecting
      /\ Passage(v, r, tx, P, Q) /\ U \subseteq W /\ Writes(tx, c, d) /\ v \in activeIn(s.epoch)
  BY DEF Setting
<1>2. /\ g = groupOf(s) /\ DOMAIN s = Fields /\ Joins(v, s) /\ tx.valid \in BOOLEAN
      /\ tx.from = v => tx.valid = TRUE
  BY <1>1 DEF Scene, InTime, ViewOk
<1>5. \/ r = stay(s) /\ ~Owed(s, g, block, tx.from)
      \/ /\ Owed(s, g, block, tx.from) /\ ~tx.valid
         /\ r = restartKeyGenExcluding(v, s, alsoExclude(s, {tx.from}), pushed(s, block))
      \/ Owed(s, g, block, tx.from) /\ tx.valid /\ AfterAnswer(s, r.s, tx.from) /\ Actions(s, r.acts)
  <2>1. PICK q, a, valid : q = tx.peer /\ a = tx.from /\ valid = tx.valid
    OBVIOUS
  <2>2. r = onComplaintResponded(v, s, block, g, q, a, valid) /\ valid \in BOOLEAN
    BY <1>2, <2>1
  <2>3. \/ r = stay(s) /\ ~Owed(s, g, block, a)
        \/ /\ Owed(s, g, block, a) /\ ~valid
           /\ r = restartKeyGenExcluding(v, s, alsoExclude(s, {a}), pushed(s, block))
        \/ Owed(s, g, block, a) /\ valid /\ AfterAnswer(s, r.s, a) /\ Actions(s, r.acts)
    BY <1>2, <2>2, RespondedCases
  <2> QED BY <2>1, <2>3
<1>3. CASE s.phase = "CollectingCommitments"
  <2>1. ~Owed(s, g, block, tx.from)
    BY <1>3 DEF Owed, countsResponse
  <2>2. r = stay(s)
    BY <1>5, <2>1
  <2>3. InTime(v, r.s, d, Q, W, block)
    BY <1>1, <1>3, <2>2, EarlyInTime
  <2> QED BY <1>1, <1>2, <2>2, <2>3, ResultOf DEF Outcome
<1>4. CASE s.phase \in {"CollectingShares", "CollectingConfirmations"}
  <2>1. tx.peer \in Participants
    <3>1. <<tx.peer, tx.from>> \in c.filed
      BY <1>1, AnswerIs
    <3>2. tx.peer \in g.members
      BY <1>1, <3>1 DEF Scene, CeremonyOk
    <3>3. g.members = s.members /\ s.members \subseteq Participants
      BY <1>1, SceneMembers
    <3> QED BY <3>2, <3>3
  <2>2. CASE ~Owed(s, g, block, tx.from)
    <3>1. r = stay(s)
      BY <1>5, <2>2
    <3>2. InTime(v, r.s, d, Q, W, block)
      BY <1>1, <1>4, <2>1, <2>2, <3>1, UnowedInTime
    <3> QED BY <1>1, <1>2, <3>1, <3>2, ResultOf DEF Outcome
  <2>3. CASE Owed(s, g, block, tx.from) /\ tx.valid = TRUE
    <3>1. r = onComplaintResponded(v, s, block, g, tx.peer, tx.from, TRUE)
      BY <2>3
    <3>2. AfterAnswer(s, r.s, tx.from)
      BY <1>5, <2>3
    <3>3. OwnAnswer(v, s, r, tx.peer, tx.from, r.s.shares)
      BY <1>2, <2>3, <3>1, RespondedOwn
    <3>5. InTime(v, r.s, d, Q, W, block)
      BY <1>1, <1>4, <2>1, <2>3, <3>2, <3>3, AnsweredInTime
    <3>6. r.s.phase = s.phase /\ groupOf(r.s) = g
      BY <1>2, <3>2 DEF AfterAnswer, groupOf
    <3> QED BY <1>1, <3>5, <3>6 DEF Outcome
  <2>4. CASE Owed(s, g, block, tx.from) /\ tx.valid = FALSE
    <3>1. PICK D : D = pushed(s, block)
      OBVIOUS
    <3>2. D = block + KeyGenTimeout
      BY <1>2, <3>1 DEF pushed, Joins
    <3>6. ~tx.valid
      BY <2>4
    <3>3. r = restartKeyGenExcluding(v, s, alsoExclude(s, {tx.from}), D)
      BY <1>5, <2>4, <3>1, <3>6
    <3>4. v \in s.members /\ v \notin {tx.from}
      BY <1>2, <2>4 DEF Joins
    <3>5. Stops(r) \/ (Starts(v, r, D) /\ v \in r.s.members)
      BY <1>1, <3>3, <3>4, ExcludedStarts
    <3> QED BY <3>2, <3>5 DEF Outcome
  <2> QED BY <1>2, <2>2, <2>3, <2>4
<1> QED BY <1>1, <1>3, <1>4 DEF Collecting

\* A confirmation of the ceremony.
LEMMA ConfirmOutcome ==
  ASSUME OneFaulty, NEW v, NEW s, NEW g, NEW c, NEW tx, NEW P, NEW U, NEW r, NEW Q, NEW W, NEW d,
         Setting(v, s, g, c, tx, P, U, r, Q, W, d), tx.kind = "confirm",
         r = onConfirmed(v, s, block, g, tx.from)
  PROVE  Outcome(v, r, g, d, Q, W)
<1>1. /\ Scene(v, s, g, c, tx, P) /\ InTime(v, s, c, P, U, block) /\ s.phase \in Collecting
      /\ Passage(v, r, tx, P, Q) /\ U \subseteq W /\ Writes(tx, c, d) /\ s.epoch # 0
  BY DEF Setting
<1>2. g = groupOf(s) /\ ViewOk(v, s)
  BY <1>1 DEF Scene
<1>3. CASE s.phase = "CollectingCommitments"
  <2>1. r = stay(s)
    BY <1>2, <1>3, ConfirmedCases
  <2>2. InTime(v, r.s, d, Q, W, block)
    BY <1>1, <1>3, <2>1, EarlyInTime
  <2> QED BY <1>1, <1>2, <2>1, <2>2, ResultOf DEF Outcome
<1>4. CASE s.phase = "CollectingShares"
  <2>1. r = stay(s)
    BY <1>2, <1>4, ConfirmedCases
  <2>2. InTime(v, r.s, d, Q, W, block)
    BY <1>1, <1>4, <2>1, AheadInTime
  <2> QED BY <1>1, <1>2, <2>1, <2>2, ResultOf DEF Outcome
<1>5. CASE s.phase = "CollectingConfirmations"
  <2>1. inGroup(s, g)
    BY <1>1, SceneMembers
  <2>2. CASE r = stay(Confirmed(s, tx.from))
    <3>1. InTime(v, r.s, d, Q, W, block) /\ r.s.phase = s.phase /\ groupOf(r.s) = g
      BY <1>1, <1>5, <2>2, ConfirmedInTime
    <3> QED BY <1>1, <3>1 DEF Outcome
  <2>3. CASE r = stay(Signing(s))
    <3>1. PICK x : x = Signing(s)
      OBVIOUS
    <3>2. x.phase = "SigningRollover"
      BY <3>1, SigningIs
    <3>3. Stops(r)
      BY <2>3, <3>1, <3>2, ResultOf DEF Stops, Collecting
    <3> QED BY <3>3 DEF Outcome
  <2> QED BY <1>1, <1>2, <1>5, <2>1, <2>2, <2>3, ConfirmedCases
<1> QED BY <1>1, <1>3, <1>4, <1>5 DEF Collecting
----------------------------------------------------------------------------
(* Steps                                                                   *)

\* Only the ceremony that v follows concerns it.
LEMMA EventIdle ==
  ASSUME NEW v, NEW s, s = view[v], NEW tx, tx.kind \in Kinds,
         ~(inGroup(s, tx.group) /\ s.phase \in Collecting)
  PROVE  onEvent(v, tx) = stay(s)
<1>1. CASE tx.kind = "commit"
  BY <1>1 DEF onEvent, onCommitted, Collecting
<1>2. CASE tx.kind = "share"
  BY <1>2 DEF onEvent, onSecretShared, Collecting
<1>3. CASE tx.kind = "complain"
  BY <1>3 DEF onEvent, onComplained, countsComplaint, Collecting
<1>4. CASE tx.kind = "respond"
  BY <1>4 DEF onEvent, onComplaintResponded, countsResponse, Collecting
<1>5. CASE tx.kind = "confirm"
  BY <1>5 DEF onEvent, onConfirmed, Collecting
<1> QED BY <1>1, <1>2, <1>3, <1>4, <1>5 DEF Kinds

\* What an event has v do: nothing that leaves it without secrets, and it
\* complains about bad shares only.
Effects(v, r, tx) ==
    /\ r.acts # {} => r.s.phase # "CollectingCommitments"
    /\ r.setup \subseteq {<<v, groupOf(r.s)>>}
    /\ \A a \in r.acts : a.kind = "complain" => tx.kind = "share" /\ v \in tx.bad /\ a.peer = tx.from

\* A ceremony that begins or ends causes no actions.
LEMMA StartEffects ==
  ASSUME NEW v, NEW r, NEW d, Stops(r) \/ Starts(v, r, d), NEW tx
  PROVE  Effects(v, r, tx)
  BY DEF Stops, Starts, Effects

\* Nor does a state that stays.
LEMMA StayEffects ==
  ASSUME NEW v, NEW s, NEW r, r = stay(s), NEW tx
  PROVE  Effects(v, r, tx)
<1>1. r.acts = {} /\ r.setup = {}
  BY ResultOf
<1> QED BY <1>1 DEF Effects

\* ... on a share of p.
SharingActs(v, r, p, bad) ==
    /\ r.setup = {} /\ r.s.phase # "CollectingCommitments"
    /\ \A a \in r.acts : a.kind = "complain" => v \in bad /\ a.peer = p

\* A secret share causes complaints about its sender only.
LEMMA SharedEffects ==
  ASSUME NEW v, NEW s, ViewOk(v, s), s.phase = "CollectingShares",
         NEW b, NEW g, inGroup(s, g), NEW p, NEW valid, valid = TRUE, NEW bad,
         NEW r, r = onSecretShared(v, s, b, g, p, valid, bad)
  PROVE  SharingActs(v, r, p, bad)
<1>4. r = onSecretShared(v, s, b, g, p, TRUE, bad)
  OBVIOUS
<1>0. DOMAIN s = Fields /\ AfterShare(s, r.s, b, p)
  BY <1>4, SharedIs DEF ViewOk
<1>1. r.s.phase # "CollectingCommitments"
  BY <1>0 DEF AfterShare
<1>2. CASE s.own # Observing
  <2>1. OwnShare(v, s, r, p, bad, r.s.shares)
    BY <1>0, <1>2, <1>4, SharedOwn
  <2>2. PICK a0 : a0 = action("confirm", s, v, 0)
    OBVIOUS
  <2>3. PICK a1 : a1 = action("complain", s, p, 0)
    OBVIOUS
  <2>4. a0.kind = "confirm" /\ a1.peer = p
    BY <2>2, <2>3 DEF action
  <2>5. r.setup = {} /\ \A a \in r.acts : (v \in bad /\ a = a1) \/ a = a0
    BY <2>1, <2>2, <2>3 DEF OwnShare
  <2> QED BY <1>1, <2>4, <2>5 DEF SharingActs
<1>3. CASE s.own = Observing
  <2>1. PICK shares : shares = s.shares
    OBVIOUS
  <2>2. PICK t : t = [s EXCEPT !.keys = @ \cup {p}, !.shares = shares]
    OBVIOUS
  <2>3. PICK y : y = [t EXCEPT !.phase = "CollectingConfirmations", !.status = "Observing",
                               !.deadline = pushed(s, b)]
    OBVIOUS
  <2>4. PICK next : next = confirmKeyGen(v, y)
    OBVIOUS
  <2>5. r = IF complete(t, t.keys) THEN [next EXCEPT !.acts = @ \cup {}] ELSE result(t, {}, {})
    BY <1>3, <1>4, <2>1, <2>2, <2>3, <2>4 DEF onSecretShared
  <2>6. DOMAIN y = Fields
    BY <1>0, <2>2, <2>3
  <2>7. /\ next.setup = {} /\ DOMAIN next = {"s", "acts", "setup"}
        /\ \A a \in next.acts : a.kind = "confirm"
    BY <2>4, <2>6, ConfirmOwn, ConfirmIs
  <2>8. CASE complete(t, t.keys)
    <3>1. r.acts = next.acts /\ r.setup = next.setup
      BY <2>5, <2>7, <2>8
    <3> QED BY <1>1, <2>7, <3>1 DEF SharingActs
  <2>9. CASE ~complete(t, t.keys)
    <3>1. PICK n : n = {}
      OBVIOUS
    <3>2. r = result(t, n, n)
      BY <2>5, <2>9, <3>1
    <3>3. r.acts = {} /\ r.setup = {}
      BY <3>1, <3>2, ResultOf
    <3> QED BY <1>1, <3>3 DEF SharingActs
  <2> QED BY <2>8, <2>9
<1> QED BY <1>2, <1>3

\* The actions and setups an event causes.
LEMMA EventEffects ==
  ASSUME NEW v, NEW s, s = view[v], ViewOk(v, s), NEW tx, Sent(tx), NEW r, r = onEvent(v, tx)
  PROVE  Effects(v, r, tx)
<1>0. /\ tx.valid \in BOOLEAN /\ tx.from \in tx.group.members /\ DOMAIN s = Fields
      /\ tx.kind \in {"commit", "share", "complain", "respond", "confirm"}
  BY DEF Sent, Kinds, ViewOk
<1>1. CASE tx.kind = "commit"
  <2>1. r = onCommitted(v, s, block, tx.group, tx.from, tx.version)
    BY <1>1 DEF onEvent
  <2>2. PICK x : x = Counted(s, tx.from, tx.version)
    OBVIOUS
  <2>3. CASE ~(s.phase = "CollectingCommitments" /\ inGroup(s, tx.group))
    BY <2>1, <2>3, StayEffects DEF onCommitted
  <2>4. CASE s.phase = "CollectingCommitments" /\ inGroup(s, tx.group)
    <3>1. r = stay(x) \/ r = finalizeKeyGenCommitments(v, x, pushed(s, block))
      BY <2>1, <2>2, <2>4, CommittedCases
    <3>2. tx.from \in s.members
      BY <1>0, <2>4 DEF inGroup, groupId
    <3>3. ViewOk(v, x) /\ DOMAIN x = Fields
      BY <2>2, <3>2, CountedIs DEF ViewOk
    <3>4. CASE r = stay(x)
      BY <3>4, StayEffects
    <3>5. CASE r = finalizeKeyGenCommitments(v, x, pushed(s, block)) /\ matchesCommitment(v, x)
      <4>1. r.setup = {}
        BY <3>3, <3>5, FinalizeOwn
      <4>2. r.s.phase = "CollectingShares" /\ \A a \in r.acts : a.kind = "share"
        BY <3>3, <3>5, FinalizeIs
      <4> QED BY <4>1, <4>2 DEF Effects
    <3>6. CASE r = finalizeKeyGenCommitments(v, x, pushed(s, block)) /\ ~matchesCommitment(v, x)
      <4>1. r = rolloverFailure(x)
        BY <3>6 DEF finalizeKeyGenCommitments
      <4> QED BY <4>1, FailureStops, StartEffects
    <3> QED BY <3>1, <3>4, <3>5, <3>6
  <2> QED BY <2>3, <2>4
<1>2. CASE tx.kind = "share"
  <2>1. r = onSecretShared(v, s, block, tx.group, tx.from, tx.valid, tx.bad)
    BY <1>2 DEF onEvent
  <2>2. CASE ~(s.phase = "CollectingShares" /\ inGroup(s, tx.group) /\ tx.valid)
    BY <2>1, <2>2, StayEffects DEF onSecretShared
  <2>3. CASE s.phase = "CollectingShares" /\ inGroup(s, tx.group) /\ tx.valid = TRUE
    <3>1. PICK g, p, valid, bad : g = tx.group /\ p = tx.from /\ valid = tx.valid /\ bad = tx.bad
      OBVIOUS
    <3>2. r = onSecretShared(v, s, block, g, p, valid, bad) /\ inGroup(s, g) /\ valid = TRUE
      BY <2>1, <2>3, <3>1
    <3>3. SharingActs(v, r, p, bad)
      BY <2>3, <3>2, SharedEffects
    <3> QED BY <1>2, <3>1, <3>3 DEF Effects, SharingActs
  <2> QED BY <1>0, <2>2, <2>3
<1>3. CASE tx.kind = "complain"
  <2>1. r = onComplained(v, s, block, tx.group, tx.from, tx.peer)
    BY <1>3 DEF onEvent
  <2>2. PICK g, q, a : g = tx.group /\ q = tx.from /\ a = tx.peer
    OBVIOUS
  <2>3. r = onComplained(v, s, block, g, q, a)
    BY <2>1, <2>2
  <2>4. CASE ~Heeds(s, g, block)
    <3>1. r = stay(s)
      BY <2>3, <2>4 DEF onComplained, Heeds
    <3> QED BY <3>1, StayEffects
  <2>5. CASE Heeds(s, g, block) /\ TooMany(s, a)
    <3>1. PICK x, ex, d : x = Blamed(s, a) /\ ex = alsoExclude(s, {a}) /\ d = pushed(s, block)
      OBVIOUS
    <3>2. r = restartKeyGenExcluding(v, x, ex, d)
      BY <1>0, <2>3, <2>5, <3>1, ComplainedCases
    <3> QED BY <3>2, RestartStarts, StartEffects
  <2>6. CASE Heeds(s, g, block) /\ ~TooMany(s, a)
    <3>1. PICK a0 : a0 = action("respond", s, q, 0)
      OBVIOUS
    <3>2. r.s = Blamed(s, a) /\ r.setup = {} /\ (r.acts = {a0} \/ r.acts = {})
      BY <1>0, <2>3, <2>6, <3>1, ComplainedOwn
    <3>3. a0.kind = "respond"
      BY <3>1 DEF action
    <3>4. s.phase # "CollectingCommitments"
      BY <2>6 DEF Heeds, countsComplaint
    <3>5. PICK x : x = Blamed(s, a)
      OBVIOUS
    <3>6. x.phase = s.phase
      BY <1>0, <3>5, BlamedIs
    <3> QED BY <3>2, <3>3, <3>4, <3>5, <3>6 DEF Effects
  <2> QED BY <2>4, <2>5, <2>6
<1>4. CASE tx.kind = "respond"
  <2>1. r = onComplaintResponded(v, s, block, tx.group, tx.peer, tx.from, tx.valid)
    BY <1>4 DEF onEvent
  <2>2. PICK g, q, a, valid : g = tx.group /\ q = tx.peer /\ a = tx.from /\ valid = tx.valid
    OBVIOUS
  <2>3. r = onComplaintResponded(v, s, block, g, q, a, valid) /\ valid \in BOOLEAN
    BY <1>0, <2>1, <2>2
  <2>4. CASE ~Owed(s, g, block, a)
    <3>1. r = stay(s)
      BY <2>3, <2>4 DEF onComplaintResponded, Owed
    <3> QED BY <3>1, StayEffects
  <2>5. CASE Owed(s, g, block, a) /\ valid = FALSE
    <3>1. PICK ex, d : ex = alsoExclude(s, {a}) /\ d = pushed(s, block)
      OBVIOUS
    <3>2. ~valid
      BY <2>5
    <3>3. r = restartKeyGenExcluding(v, s, ex, d)
      BY <1>0, <2>3, <2>5, <3>1, <3>2, RespondedCases
    <3> QED BY <3>3, RestartStarts, StartEffects
  <2>6. CASE Owed(s, g, block, a) /\ valid = TRUE
    <3>1. r = onComplaintResponded(v, s, block, g, q, a, TRUE)
      BY <2>3, <2>6
    <3>2. OwnAnswer(v, s, r, q, a, r.s.shares)
      BY <1>0, <2>6, <3>1, RespondedOwn
    <3>3. PICK a0 : a0 = action("confirm", s, v, 0)
      OBVIOUS
    <3>4. a0.kind = "confirm"
      BY <3>3 DEF action
    <3>5. r.setup = {} /\ (r.acts = {a0} \/ r.acts = {})
      BY <3>2, <3>3 DEF OwnAnswer
    <3>6. AfterAnswer(s, r.s, a)
      BY <1>0, <2>3, <2>6, RespondedCases
    <3>7. r.s.phase = s.phase /\ s.phase # "CollectingCommitments"
      BY <2>6, <3>6 DEF AfterAnswer, Owed, countsResponse
    <3> QED BY <3>4, <3>5, <3>7 DEF Effects
  <2> QED BY <2>3, <2>4, <2>5, <2>6
<1>5. CASE tx.kind = "confirm"
  <2>1. r = onConfirmed(v, s, block, tx.group, tx.from)
    BY <1>5 DEF onEvent
  <2>2. PICK x, y : x = Confirmed(s, tx.from) /\ y = Signing(s)
    OBVIOUS
  <2>3. r = stay(s) \/ r = stay(x) \/ r = stay(y) \/ r = Passed(v, s, block)
    BY <2>1, <2>2, ConfirmedCases
  <2>4. CASE r = Passed(v, s, block)
    BY <2>4, PassedStarts, StartEffects
  <2> QED BY <2>3, <2>4, StayEffects
<1> QED BY <1>0, <1>1, <1>2, <1>3, <1>4, <1>5
\* The ceremonies after a transaction in h.
LEMMA CeremonyAfter ==
  ASSUME NEW h, NEW d, chain' = put(chain, h, d)
  PROVE  /\ ceremony(h)' = d /\ DOMAIN chain' = DOMAIN chain \cup {h}
         /\ \A g : g # h => ceremony(g)' = ceremony(g)
<1>1. DOMAIN chain' = DOMAIN chain \cup {h} /\ chain'[h] = d
  BY DEF put
<1>2. \A g \in DOMAIN chain : g # h => chain'[g] = chain[g]
  BY DEF put
<1> QED BY <1>1, <1>2 DEF ceremony

\* The epoch of v goes on, and in one epoch its group shrinks.
Advances(v) ==
    /\ EpochOk(view'[v]) /\ view[v].epoch <= view'[v].epoch
    /\ v \in Sound' /\ view'[v].epoch = view[v].epoch /\ view[v].epoch # 0 =>
        v \in Sound /\ view'[v].members \subseteq view[v].members

\* What v has or sends belongs to its present group, or to an earlier one.
LEMMA QueuedPast ==
  ASSUME LockInv, NEW tx \in pool, NEW v, v = tx.from
  PROVE  Past(Sound, v, view[v], tx.group)
  BY DEF LockInv, QueuedOk, Belongs, Past

\* Traces stay in the past while the validators advance.
LEMMA TracesForward ==
  ASSUME LockInv, TracesPast, \A v \in Honest : Advances(v),
         \A v \in Honest : \A g : Traced(v, g)' =>
            Traced(v, g) \/ <<v, g>> \in setups \/ \E tx \in pool : tx.from = v /\ tx.group = g,
         \A v \in Honest : \A g : <<v, g>> \in setups' =>
            <<v, g>> \in setups \/ g = groupOf(view[v]) \/ g = groupOf(view'[v])
  PROVE  TracesPast'
<1>1. SUFFICES ASSUME NEW v \in Honest, NEW g, Traced(v, g)' \/ <<v, g>> \in setups'
               PROVE  Past(Sound', v, view'[v], g)
  BY DEF TracesPast, Past
<1>2. PICK s, t : s = view[v] /\ t = view'[v]
  OBVIOUS
<1>3. s.epoch \in Nat /\ t.epoch \in Nat /\ Advances(v) /\ s.epoch <= t.epoch
  BY <1>2 DEF LockInv, EpochOk, Advances
<1>4. ASSUME Past(Sound, v, s, g) PROVE Past(Sound', v, t, g)
  <2>1. g.epoch \in Nat /\ g.epoch <= t.epoch
    BY <1>3, <1>4 DEF Past
  <2>2. ASSUME v \in Sound', g.epoch = t.epoch, g.epoch # 0 PROVE t.members \subseteq g.members
    <3>1. t.epoch = s.epoch
      BY <1>3, <1>4, <2>2 DEF Past
    <3>2. v \in Sound /\ t.members \subseteq s.members
      BY <1>2, <1>3, <2>2, <3>1 DEF Advances
    <3>3. s.members \subseteq g.members
      BY <1>4, <2>2, <3>1, <3>2 DEF Past
    <3> QED BY <3>2, <3>3
  <2> QED BY <2>1, <2>2 DEF Past
<1>5. CASE Traced(v, g) \/ <<v, g>> \in setups
  BY <1>2, <1>4, <1>5 DEF TracesPast
<1>6. CASE \E tx \in pool : tx.from = v /\ tx.group = g
  BY <1>2, <1>4, <1>6, QueuedPast
<1>7. CASE g = groupOf(s)
  <2>1. g.epoch = s.epoch /\ g.members = s.members
    BY <1>7, GroupIs
  <2>2. Past(Sound, v, s, g)
    BY <1>3, <2>1 DEF Past
  <2> QED BY <1>2, <1>4, <2>2
<1>8. CASE g = groupOf(t)
  <2>1. g.epoch = t.epoch /\ g.members = t.members
    BY <1>8, GroupIs
  <2> QED BY <1>2, <1>3, <2>1 DEF Past
<1> QED BY <1>1, <1>2, <1>5, <1>6, <1>7, <1>8

\* The secrets for g are still to be sampled.
Unset(s, g) == s.phase = "CollectingCommitments" /\ s.own = NoSecrets /\ groupOf(s) = g

\* A new group stays without traces while the validators advance.
LEMMA UntracedForward ==
  ASSUME LockInv, TracesPast, NewUntraced, \A v \in Honest : Advances(v),
         \A v \in Sound' : view'[v].epoch = view[v].epoch => Renews(view[v], view'[v]),
         \A v \in Honest : \A g : Traced(v, g)' =>
            \/ Traced(v, g) \/ \E tx \in pool : tx.from = v /\ tx.group = g
            \/ <<v, g>> \in setups /\ ~Unset(view'[v], g),
         \A tx \in pool' :
            \/ tx \in pool
            \/ /\ tx.from \in Honest /\ tx.group = groupOf(view[tx.from])
               /\ ~Unset(view'[tx.from], tx.group)
  PROVE  NewUntraced'
<1>1. SUFFICES ASSUME NEW v \in Sound', view'[v].phase = "CollectingCommitments",
                      view'[v].own = NoSecrets, view'[v].epoch # 0, NEW g, g = groupOf(view'[v])
               PROVE  ~Traced(v, g)' /\ \A tx \in pool' : tx.from = v => tx.group # g
  BY DEF NewUntraced, Traced
<1>2. PICK s, t : s = view[v] /\ t = view'[v] /\ g = groupOf(t)
  BY <1>1
<1>3. v \in Honest
  BY DEF Sound
<1>4. s.epoch \in Nat /\ t.epoch \in Nat /\ Advances(v) /\ s.epoch <= t.epoch
  BY <1>2, <1>3 DEF LockInv, EpochOk, Advances
<1>5. Unset(t, g) /\ g.epoch = t.epoch /\ g.members = t.members /\ g.epoch # 0
  <2>1. g.epoch = t.epoch /\ g.members = t.members
    BY <1>2, GroupIs
  <2> QED BY <1>1, <1>2, <2>1 DEF Unset
<1>6. SUFFICES ~Traced(v, g) /\ \A tx \in pool : tx.from = v => tx.group # g
  <2>1. ~Traced(v, g)'
    BY <1>2, <1>3, <1>5, <1>6
  <2>2. \A tx \in pool' : tx.from = v => tx.group # g
    BY <1>2, <1>5, <1>6
  <2> QED BY <2>1, <2>2
<1>7. CASE s.phase = "CollectingCommitments" /\ g = groupOf(s) /\ t.own = s.own /\ v \in Sound
  <2>1. s.epoch # 0
    BY <1>5, <1>7, GroupIs
  <2> QED BY <1>1, <1>2, <1>7, <2>1 DEF NewUntraced
<1>8. CASE ~Past(Sound, v, s, g)
  <2>1. ~Traced(v, g)
    BY <1>2, <1>3, <1>8 DEF TracesPast
  <2>2. \A tx \in pool : tx.from = v => tx.group # g
    BY <1>2, <1>8, QueuedPast
  <2> QED BY <2>1, <2>2
<1>9. CASE t.epoch # s.epoch
  BY <1>4, <1>5, <1>8, <1>9 DEF Past
<1>10. CASE t.epoch = s.epoch
  <2>1. v \in Sound /\ t.members \subseteq s.members /\ Renews(s, t)
    BY <1>2, <1>4, <1>5, <1>10 DEF Advances
  <2>2. CASE s.phase = "CollectingCommitments" /\ groupOf(t) = groupOf(s) /\ t.own = s.own
    BY <1>2, <1>7, <2>1, <2>2
  <2>3. CASE t.members # s.members
    BY <1>4, <1>5, <1>8, <1>10, <2>1, <2>3 DEF Past
  <2> QED BY <1>1, <1>2, <1>10, <2>1, <2>2, <2>3 DEF Renews
<1> QED BY <1>9, <1>10
\* Who has just begun a ceremony is in time.
LEMMA StartedInTime ==
  ASSUME NEW v, NEW r, NEW b \in Nat, NEW D, D = b + KeyGenTimeout, Starts(v, r, D), v \in r.s.members,
         NEW t, groupOf(t) = groupOf(r.s), Same(r.s, t), t.own = r.s.own, t.shares = r.s.shares,
         NEW c, v \notin DOMAIN c.committed,
         NEW P, \A tx \in P : tx.from = v => tx.group # groupOf(t),
         NEW U, r.setup \subseteq U
  PROVE  InTime(v, t, c, P, U, b)
<1>1. /\ t.phase = "CollectingCommitments" /\ t.commitments = <<>> /\ t.deadline = D
      /\ t.members = r.s.members /\ t.shares = {}
  BY SameFields DEF Starts
<1>2. t.own = NoSecrets /\ <<v, groupOf(t)>> \in U /\ Cardinality(t.members) >= 2
  BY <1>1 DEF Starts
<1>3. D \in Nat /\ D # 0 /\ b + KeyGenTimeout <= D
  BY ConfigAssumption
<1>4. Joins(v, t)
  BY <1>1, <1>2, <1>3 DEF Joins, NoSecrets, Observing, NoDeadline
<1>5. Commits(v, t, c, P, U, b)
  BY <1>1, <1>2, <1>3 DEF Commits
<1> QED BY <1>1, <1>4, <1>5 DEF InTime

\* Other transactions and setups do not matter to v.
LEMMA FrameInTime ==
  ASSUME NEW v, NEW s, NEW c, NEW P, NEW U, NEW b, InTime(v, s, c, P, U, b), NEW g, g = groupOf(s),
         NEW Q, \A x \in P : x.group = g => x \in Q,
         \A x \in Q : x.group = g => x \in P \/ (x.from # v /\ x.kind # "complain"),
         NEW W, <<v, g>> \in U /\ s.own = NoSecrets => <<v, g>> \in W
  PROVE  InTime(v, s, c, Q, W, b)
<1>1. \A kind, peer, q : Waits(P, b, kind, v, g, peer, q) <=> Waits(Q, b, kind, v, g, peer, q)
  BY DEF Waits
<1>2. ASSUME Commits(v, s, c, P, U, b) PROVE Commits(v, s, c, Q, W, b)
  BY <1>1, <1>2 DEF Commits
<1>3. ASSUME Answers(v, s, c, P, b) PROVE Answers(v, s, c, Q, b)
  BY <1>1, <1>3 DEF Answers
<1>4. ASSUME Complains(v, s, c, P, b) PROVE Complains(v, s, c, Q, b)
  BY <1>1, <1>4 DEF Complains
<1>5. ASSUME SharesIn(v, s, c, P, b) PROVE SharesIn(v, s, c, Q, b)
  BY <1>1, <1>5 DEF SharesIn
<1>6. ASSUME ConfirmsIn(v, s, c, P, b) PROVE ConfirmsIn(v, s, c, Q, b)
  BY <1>1, <1>6 DEF ConfirmsIn
<1> QED BY <1>2, <1>3, <1>4, <1>5, <1>6 DEF InTime
----------------------------------------------------------------------------
(* A transaction                                                           *)

\* A transaction that may be executed: a queued one, or one of a faulty member.
Proper(tx) ==
    /\ tx.kind \in Kinds /\ tx.valid \in BOOLEAN /\ tx.group.members \subseteq Participants
    /\ tx.from \in Participants /\ (tx.from \in Honest => tx \in pool)

\* A transaction leaves the ceremonies in order.
LEMMA ExecuteOrder ==
  ASSUME CeremoniesInOrder, QueueGood, NEW tx, Proper(tx), execute(tx)
  PROVE  CeremoniesInOrder'
<1>1. PICK g, c, d : g = tx.group /\ c = ceremony(g) /\ d = written(tx)
  OBVIOUS
<1>2. accepts(tx) /\ chain' = put(chain, g, d)
  BY <1>1 DEF execute
<1>3. CeremonyOk(g, c)
  BY <1>1, CeremonyInOrder
<1>4. tx.kind = "complain" => tx.from \in Faulty \/ tx.peer \in Faulty \cap ceremony(g).shared
  BY <1>1 DEF Proper, QueueGood, TxOk, Participants
<1>5. tx.kind \in Kinds /\ g.members \subseteq Participants
  BY <1>1 DEF Proper
<1>6. CeremonyOk(g, d)
  BY <1>1, <1>2, <1>3, <1>4, <1>5, OrderKept
<1>7. DOMAIN chain' = DOMAIN chain \cup {g} /\ chain'[g] = d
  BY <1>2 DEF put
<1>8. \A h \in DOMAIN chain : h # g => chain'[h] = chain[h]
  BY <1>2 DEF put
<1>9. \A h \in DOMAIN chain' : CeremonyOk(h, chain'[h])
  BY <1>6, <1>7, <1>8 DEF CeremoniesInOrder
<1> QED BY <1>9 DEF CeremoniesInOrder

\* When the contract accepts a complaint.
Disputes(x, c) ==
    /\ x.from \in x.group.members /\ AllIn(x.group, DOMAIN c.committed)
    /\ ~AllIn(x.group, c.confirmed) /\ ~c.compromised
    /\ x.from \notin c.confirmed
    /\ x.peer \in x.group.members \ {x.from}
    /\ <<x.from, x.peer>> \notin c.filed

\* When a complaint is accepted, before a step ...
LEMMA AcceptedNow ==
  ASSUME NEW x, x.kind = "complain", NEW c, c = ceremony(x.group)
  PROVE  accepts(x) <=> Disputes(x, c)
  BY DEF accepts, Disputes, AllIn

\* ... and after it.
LEMMA AcceptedNext ==
  ASSUME NEW x, x.kind = "complain", NEW c, c = ceremony(x.group)'
  PROVE  accepts(x)' <=> Disputes(x, c)
  BY DEF accepts, Disputes, AllIn, ceremony

\* An old complaint is not accepted later.
LEMMA StillRefused ==
  ASSUME CeremoniesInOrder, NEW tx, Proper(tx), execute(tx), NEW x, x.kind = "complain",
         AllIn(x.group, DOMAIN ceremony(x.group).committed)
  PROVE  /\ accepts(x)' => accepts(x)
         /\ ceremony(x.group).shared \subseteq ceremony(x.group)'.shared
         /\ AllIn(x.group, DOMAIN ceremony(x.group)'.committed)
<1>1. PICK g, c, d : g = tx.group /\ c = ceremony(g) /\ d = written(tx)
  OBVIOUS
<1>2. accepts(tx) /\ chain' = put(chain, g, d) /\ tx.kind \in Kinds /\ g.members \subseteq Participants
  BY <1>1 DEF execute, Proper
<1>3. CeremonyOk(g, c)
  BY <1>1, CeremonyInOrder
<1>4. Writes(tx, c, d)
  BY <1>1, <1>2, <1>3, WrittenWrites DEF CeremonyOk
<1>5. ceremony(g)' = d /\ \A h : h # g => ceremony(h)' = ceremony(h)
  BY <1>2, CeremonyAfter
<1>6. PICK y, z : y = ceremony(x.group) /\ z = ceremony(x.group)'
  OBVIOUS
<1>7. (accepts(x) <=> Disputes(x, y)) /\ (accepts(x)' <=> Disputes(x, z))
  BY <1>6, AcceptedNow, AcceptedNext
<1>8. CASE x.group # g
  BY <1>5, <1>6, <1>7, <1>8
<1>9. CASE x.group = g
  <2>1. y = c /\ z = d
    BY <1>1, <1>5, <1>6, <1>9
  <2>2. tx.kind # "commit"
    <3>1. DOMAIN c.committed = g.members
      BY <1>1, <1>2, <1>3, <1>9, AllMembers DEF CeremonyOk
    <3>2. tx.from \in g.members /\ (tx.kind = "commit" => tx.from \notin DOMAIN c.committed)
      BY <1>1, <1>2, AcceptsIs
    <3> QED BY <3>1, <3>2
  <2>3. d.committed = c.committed /\ c.shared \subseteq d.shared /\ c.filed \subseteq d.filed
        /\ c.confirmed \subseteq d.confirmed
    BY <1>4, <2>2 DEF Writes
  <2>4. ~c.compromised
    BY <1>1, <1>2, <2>2, AcceptsIs
  <2>5. ~AllIn(g, c.confirmed)
    BY <1>1, <1>2, <2>2, AcceptsIs
  <2>6. Disputes(x, d) => Disputes(x, c)
    BY <1>9, <2>3, <2>4, <2>5 DEF Disputes
  <2> QED BY <1>6, <1>7, <2>1, <2>3, <2>6
<1> QED BY <1>8, <1>9

\* A transaction leaves the queue good, and its complaints prompt.
LEMMA ExecuteQueue ==
  ASSUME ShareInv, LockInv, StayInv, NEW tx, Proper(tx), execute(tx)
  PROVE  QueueGood' /\ Prompt'
<1>1. PICK r : r = [v \in Honest |-> onEvent(v, tx)]
  OBVIOUS
<1>2. /\ accepts(tx) /\ chain' = put(chain, tx.group, written(tx))
      /\ pool' = (pool \ {tx}) \cup UNION {encoded(v, r[v].acts) : v \in Honest}
      /\ block' = block /\ delays' = delays
  BY <1>1 DEF execute
<1>3. /\ CeremoniesInOrder /\ QueueGood /\ Prompt
      /\ block \in Nat /\ \A v \in Honest : EpochOk(view[v]) /\ ViewOk(v, view[v])
  BY DEF StayInv, LockInv, ShareInv, ViewsOk
<1>4. Sent(tx)
  BY <1>2 DEF Sent, accepts, Proper
<1>5. \A v \in Honest : r[v] = onEvent(v, tx)
  BY <1>1
<1>6. \A v \in Honest : Effects(v, r[v], tx)
  BY <1>3, <1>4, <1>5, EventEffects
<1>7. \A v \in Honest : \A a \in r[v].acts : a.group = groupOf(view[v])
  <2>1. SUFFICES ASSUME NEW v \in Honest PROVE Onward(view[v], r[v])
    BY DEF Onward
  <2>2. Moves(view[v], r[v], {}) \/ Moves(view[v], r[v], {tx.from})
    BY <1>3, <1>4, <1>5, EventMoves
  <2> QED BY <2>2, MovesOnward
<1>8. ASSUME NEW v \in Honest, NEW a \in r[v].acts, a.kind = "complain"
      PROVE  /\ a.group = tx.group /\ a.peer = tx.from /\ tx.from \in Faulty /\ tx.kind = "share"
  <2>1. tx.kind = "share" /\ v \in tx.bad /\ a.peer = tx.from
    BY <1>6, <1>8 DEF Effects
  <2>2. tx.from \notin Honest
    BY <1>3, <2>1 DEF Proper, QueueGood, TxOk
  <2>3. inGroup(view[v], tx.group)
    <3>1. SUFFICES ASSUME ~inGroup(view[v], tx.group) PROVE FALSE
      OBVIOUS
    <3>2. r[v] = stay(view[v])
      BY <1>5, <3>1, EventIdle DEF Proper
    <3> QED BY <1>8, <3>2, ResultOf
  <2>4. a.group = tx.group
    BY <1>7, <2>3 DEF inGroup, groupOf
  <2> QED BY <2>1, <2>2, <2>4 DEF Proper, Participants
<1>9. tx.kind = "share" =>
        /\ tx.from \in ceremony(tx.group)'.shared
        /\ AllIn(tx.group, DOMAIN ceremony(tx.group)'.committed)
  <2>1. PICK g, c, d : g = tx.group /\ c = ceremony(g) /\ d = written(tx)
    OBVIOUS
  <2>2. ceremony(g)' = d
    BY <1>2, <2>1, CeremonyAfter
  <2>3. CeremonyOk(g, c) /\ tx.kind \in Kinds
    BY <1>3, <2>1, CeremonyInOrder DEF Proper
  <2>4. Writes(tx, c, d)
    BY <2>1, <2>3, WrittenWrites DEF CeremonyOk
  <2>5. tx.kind = "share" => AllIn(g, DOMAIN c.committed)
    BY <1>2, <2>1, <2>3, AcceptsIs
  <2> QED BY <2>1, <2>2, <2>4, <2>5 DEF Writes
<1>10. ASSUME NEW x \in pool'
       PROVE  \/ x \in pool
              \/ /\ x.group.members \subseteq Participants /\ x.queued = block
                 /\ x.valid = TRUE /\ x.bad = {}
                 /\ x.kind = "complain" => x.peer \in Faulty \cap ceremony(x.group)'.shared
                                           /\ AllIn(x.group, DOMAIN ceremony(x.group)'.committed)
  <2>1. SUFFICES ASSUME NEW v \in Honest, x \in encoded(v, r[v].acts)
                 PROVE  /\ x.group.members \subseteq Participants /\ x.queued = block
                        /\ x.valid = TRUE /\ x.bad = {}
                        /\ x.kind = "complain" => x.peer \in Faulty \cap ceremony(x.group)'.shared
                                           /\ AllIn(x.group, DOMAIN ceremony(x.group)'.committed)
    BY <1>2, <1>10
  <2>2. PICK a \in r[v].acts : x = queuedAs(v, a)
    BY <2>1 DEF encoded, queuedAs
  <2>3. /\ x.group = a.group /\ x.queued = block /\ x.valid = TRUE /\ x.bad = {} /\ x.kind = a.kind
        /\ x.peer = a.peer
    BY <2>2 DEF queuedAs
  <2>4. x.group.members \subseteq Participants
    <3>1. x.group = groupOf(view[v])
      BY <1>7, <2>3
    <3>2. x.group.members = view[v].members
      BY <3>1, GroupIs
    <3> QED BY <1>3, <3>2 DEF ViewOk
  <2>5. ASSUME x.kind = "complain"
        PROVE  x.peer \in Faulty \cap ceremony(x.group)'.shared
               /\ AllIn(x.group, DOMAIN ceremony(x.group)'.committed)
    <3>1. a.group = tx.group /\ a.peer = tx.from /\ tx.from \in Faulty /\ tx.kind = "share"
      BY <1>8, <2>3, <2>5
    <3> QED BY <1>9, <2>3, <3>1
  <2> QED BY <2>3, <2>4, <2>5
<1>11. ASSUME NEW x \in pool, x.kind = "complain"
       PROVE  /\ x.peer \in Faulty \cap ceremony(x.group)'.shared
              /\ AllIn(x.group, DOMAIN ceremony(x.group)'.committed)
              /\ accepts(x)' => accepts(x)
  <2>1. x.peer \in Faulty \cap ceremony(x.group).shared /\ AllIn(x.group, DOMAIN ceremony(x.group).committed)
    BY <1>3, <1>11 DEF QueueGood, TxOk
  <2> QED BY <1>3, <1>11, <2>1, StillRefused
<1>12. QueueGood'
  <2>1. SUFFICES ASSUME NEW x \in pool' PROVE TxOk(x)'
    BY DEF QueueGood
  <2>2. CASE x \in pool
    <3>1. TxOk(x)
      BY <1>3, <2>2 DEF QueueGood
    <3>2. x.kind = "complain" =>
            /\ x.peer \in Faulty \cap ceremony(x.group)'.shared
            /\ AllIn(x.group, DOMAIN ceremony(x.group)'.committed)
      BY <1>11, <2>2
    <3>3. /\ x.group.members \subseteq Participants
          /\ x.queued \in Nat /\ x.queued <= block /\ x.valid = TRUE /\ x.bad = {}
      BY <3>1 DEF TxOk
    <3>4. x.queued <= block'
      BY <1>2, <3>3
    <3> QED BY <3>2, <3>3, <3>4, Zenon DEF TxOk, AllIn
  <2>3. CASE x \notin pool
    <3>1. /\ x.group.members \subseteq Participants /\ x.queued = block
          /\ x.valid = TRUE /\ x.bad = {}
          /\ x.kind = "complain" => x.peer \in Faulty \cap ceremony(x.group)'.shared
                                    /\ AllIn(x.group, DOMAIN ceremony(x.group)'.committed)
      BY <1>10, <2>3
    <3>2. x.queued \in Nat /\ x.queued <= block'
      BY <1>2, <1>3, <3>1
    <3> QED BY <3>1, <3>2, Zenon DEF TxOk, AllIn
  <2> QED BY <2>2, <2>3
<1>13. Prompt'
  <2>1. SUFFICES ASSUME delays' = 0, NEW x \in pool', x.kind = "complain", accepts(x)'
                 PROVE  x.queued >= block - 1
    BY <1>2 DEF Prompt
  <2>2. CASE x \in pool
    <3>1. delays = 0 /\ accepts(x)
      BY <1>2, <1>11, <2>1, <2>2
    <3> QED BY <1>3, <2>1, <2>2, <3>1 DEF Prompt
  <2>3. CASE x \notin pool
    <3>1. x.queued = block
      BY <1>10, <2>3
    <3> QED BY <1>3, <3>1
  <2> QED BY <2>2, <2>3
<1> QED BY <1>12, <1>13

\* What a transaction does to the validators.
EventStep(tx) ==
    \A v \in Honest :
        /\ view'[v] = onEvent(v, tx).s
        /\ Effects(v, onEvent(v, tx), tx) /\ Onward(view[v], onEvent(v, tx))
        /\ view'[v].epoch = view[v].epoch \/ Passes(v, view[v], tx, onEvent(v, tx))
        /\ v \in Sound => RoundOpen(v, view'[v]) /\ Renews(view[v], view'[v])

\* Every validator handles the event of the transaction.
LEMMA ExecuteSteps ==
  ASSUME ShareInv, LockInv, NEW tx, Proper(tx), execute(tx)
  PROVE  EventStep(tx)
<1>1. accepts(tx) /\ view' = [v \in Honest |-> IF v \in Honest THEN onEvent(v, tx).s ELSE view[v]]
  BY DEF execute, Apply
<1>2. /\ block \in Nat /\ RoundsOpen /\ CommitsOwn
      /\ \A v \in Honest : EpochOk(view[v]) /\ ViewOk(v, view[v])
  BY DEF LockInv, ShareInv, ViewsOk
<1>3. Sent(tx)
  BY <1>1 DEF Sent, accepts, Proper
<1>4. SUFFICES ASSUME NEW v \in Honest
               PROVE  /\ view'[v] = onEvent(v, tx).s
                      /\ Effects(v, onEvent(v, tx), tx) /\ Onward(view[v], onEvent(v, tx))
                      /\ view'[v].epoch = view[v].epoch \/ Passes(v, view[v], tx, onEvent(v, tx))
                      /\ v \in Sound => RoundOpen(v, view'[v]) /\ Renews(view[v], view'[v])
  BY DEF EventStep
<1>5. PICK r : r = onEvent(v, tx)
  OBVIOUS
<1>6. view'[v] = r.s
  BY <1>1, <1>5
<1>7. /\ Moves(view[v], r, {}) \/ Moves(view[v], r, {tx.from})
      /\ (tx.from = v => OwnCommit(v, view[v], tx)) => Goes(v, view[v], r)
      /\ r.s.epoch = view[v].epoch \/ Passes(v, view[v], tx, r)
  BY <1>2, <1>3, <1>5, EventMoves
<1>8. Onward(view[v], r)
  BY <1>7, MovesOnward
<1>9. Effects(v, r, tx)
  BY <1>2, <1>3, <1>5, EventEffects
<1>10. ASSUME v \in Sound PROVE RoundOpen(v, r.s) /\ Renews(view[v], r.s)
  <2>1. tx.from = v => OwnCommit(v, view[v], tx)
    BY <1>2, <1>10 DEF CommitsOwn, Proper
  <2>2. RoundOpen(v, view[v])
    BY <1>2, <1>10 DEF RoundsOpen
  <2> QED BY <1>7, <2>1, <2>2 DEF Goes
<1> QED BY <1>5, <1>6, <1>7, <1>8, <1>9, <1>10

\* An epoch that is taken up is taken up with nothing lost.
LEMMA SoundNext ==
  ASSUME lost' = {v \in lost : view'[v].epoch = view[v].epoch}, NEW v \in Sound'
  PROVE  v \in Honest /\ (view'[v].epoch = view[v].epoch => v \in Sound)
  BY DEF Sound

\* Who goes onward advances.
LEMMA OnwardAdvances ==
  ASSUME NEW v \in Honest, EpochOk(view[v]), NEW r, Onward(view[v], r), view'[v] = r.s,
         v \in Sound' /\ view'[v].epoch = view[v].epoch => v \in Sound
  PROVE  Advances(v)
<1>1. view[v].epoch # 0 => view[v].phase # "WaitingForGenesis"
  BY DEF EpochOk
<1> QED BY <1>1 DEF Advances, Onward

\* Who has committed is who had, or who commits.
LEMMA ExecuteTraced ==
  ASSUME CeremoniesInOrder, NEW tx, Proper(tx), execute(tx), NEW v \in Honest, NEW g, Traced(v, g)'
  PROVE  Traced(v, g) \/ \E x \in pool : x.from = v /\ x.group = g
<1>1. chain' = put(chain, tx.group, written(tx)) /\ store' = store
  BY DEF execute
<1>2. CASE \E k : <<v, g, k>> \in store'
  BY <1>1, <1>2 DEF Traced
<1>3. CASE g \in DOMAIN chain' /\ v \in DOMAIN chain'[g].committed
  <2>1. PICK h, c, d : h = tx.group /\ c = ceremony(h) /\ d = written(tx)
    OBVIOUS
  <2>2. chain' = put(chain, h, d)
    BY <1>1, <2>1
  <2>3. CASE g # h
    <3>1. g \in DOMAIN chain /\ chain'[g] = chain[g]
      BY <1>3, <2>2, <2>3 DEF put
    <3> QED BY <1>3, <3>1 DEF Traced
  <2>4. CASE g = h
    <3>1. chain'[g] = d
      BY <2>2, <2>4 DEF put
    <3>2. CeremonyOk(h, c) /\ tx.kind \in Kinds
      BY <2>1, CeremonyInOrder DEF Proper
    <3>3. Writes(tx, c, d)
      BY <2>1, <3>2, WrittenWrites DEF CeremonyOk
    <3>4. v \in DOMAIN c.committed \/ (v = tx.from)
      <4>1. CASE tx.kind = "commit"
        <5>1. DOMAIN d.committed = DOMAIN c.committed \cup {tx.from}
          BY <3>3, <4>1 DEF Writes, put
        <5> QED BY <1>3, <3>1, <5>1
      <4>2. CASE tx.kind # "commit"
        BY <1>3, <3>1, <3>3, <4>2 DEF Writes
      <4> QED BY <4>1, <4>2
    <3>5. CASE v = tx.from
      BY <2>1, <2>4, <3>5 DEF Proper
    <3>6. CASE v \in DOMAIN c.committed
      <4>1. g \in DOMAIN chain
        <5>1. SUFFICES ASSUME g \notin DOMAIN chain PROVE FALSE
          OBVIOUS
        <5>2. c.committed = <<>>
          BY <2>1, <2>4, <5>1 DEF ceremony, opened
        <5>3. DOMAIN c.committed = {}
          BY <5>2
        <5> QED BY <3>6, <5>3
      <4>2. c = chain[g]
        BY <2>1, <2>4, <4>1 DEF ceremony
      <4> QED BY <3>6, <4>1, <4>2 DEF Traced
    <3> QED BY <3>4, <3>5, <3>6
  <2> QED BY <2>3, <2>4
<1>4. (g \in DOMAIN chain' /\ v \in DOMAIN chain'[g].committed) \/ \E k : <<v, g, k>> \in store'
  BY DEF Traced
<1> QED BY <1>2, <1>3, <1>4

\* A transaction leaves traces of past groups only.
LEMMA ExecuteTraces ==
  ASSUME ShareInv, LockInv, StayInv, NEW tx, Proper(tx), execute(tx)
  PROVE  TracesPast' /\ NewUntraced'
<1>1. /\ pool' = (pool \ {tx}) \cup UNION {encoded(v, onEvent(v, tx).acts) : v \in Honest}
      /\ setups' = setups \cup UNION {onEvent(v, tx).setup : v \in Honest}
      /\ lost' = {v \in lost : view'[v].epoch = view[v].epoch}
  <2>1. PICK f : f = [v \in Honest |-> onEvent(v, tx)]
    OBVIOUS
  <2>2. /\ pool' = (pool \ {tx}) \cup UNION {encoded(v, f[v].acts) : v \in Honest}
        /\ setups' = setups \cup UNION {f[v].setup : v \in Honest}
        /\ lost' = {v \in lost : view'[v].epoch = view[v].epoch}
    BY <2>1 DEF execute
  <2>3. \A v \in Honest : f[v] = onEvent(v, tx)
    BY <2>1
  <2> QED BY <2>2, <2>3
<1>2. EventStep(tx)
  BY ExecuteSteps
<1>3. CeremoniesInOrder /\ TracesPast /\ NewUntraced /\ \A v \in Honest : EpochOk(view[v])
  BY DEF StayInv, LockInv
<1>4. \A v \in Honest : Advances(v)
  <2>1. SUFFICES ASSUME NEW v \in Honest PROVE Advances(v)
    OBVIOUS
  <2>2. PICK r : r = onEvent(v, tx)
    OBVIOUS
  <2>3. Onward(view[v], r) /\ view'[v] = r.s
    BY <1>2, <2>2 DEF EventStep
  <2>4. v \in Sound' /\ view'[v].epoch = view[v].epoch => v \in Sound
    BY <1>1, SoundNext
  <2> QED BY <1>3, <2>3, <2>4, OnwardAdvances
<1>5. \A v \in Sound' : view'[v].epoch = view[v].epoch => Renews(view[v], view'[v])
  BY <1>1, <1>2, SoundNext DEF EventStep
<1>6. \A v \in Honest : \A g : Traced(v, g)' => Traced(v, g) \/ \E x \in pool : x.from = v /\ x.group = g
  BY <1>3, ExecuteTraced
<1>7. ASSUME NEW v \in Honest, NEW g, <<v, g>> \in setups'
      PROVE  <<v, g>> \in setups \/ g = groupOf(view'[v])
  <2>1. SUFFICES ASSUME NEW u \in Honest, <<v, g>> \in onEvent(u, tx).setup
                 PROVE  g = groupOf(view'[v])
    BY <1>1, <1>7
  <2>2. <<v, g>> = <<u, groupOf(onEvent(u, tx).s)>>
    BY <1>2, <2>1 DEF EventStep, Effects
  <2> QED BY <1>2, <2>2 DEF EventStep
<1>8. ASSUME NEW x \in pool', x \notin pool
      PROVE  /\ x.from \in Honest /\ x.group = groupOf(view[x.from])
             /\ ~Unset(view'[x.from], x.group)
  <2>1. PICK u \in Honest : x \in encoded(u, onEvent(u, tx).acts)
    BY <1>1, <1>8
  <2>2. PICK r : r = onEvent(u, tx)
    OBVIOUS
  <2>3. PICK a \in r.acts : x = queuedAs(u, a)
    BY <2>1, <2>2 DEF encoded, queuedAs
  <2>4. x.from = u /\ x.group = a.group
    BY <2>3 DEF queuedAs
  <2>5. view'[u] = r.s /\ Effects(u, r, tx) /\ Onward(view[u], r)
    BY <1>2, <2>2 DEF EventStep
  <2>6. r.s.phase # "CollectingCommitments" /\ a.group = groupOf(view[u])
    BY <2>3, <2>5 DEF Effects, Onward
  <2> QED BY <2>4, <2>5, <2>6 DEF Unset
<1>9. TracesPast'
  <2>1. \A v \in Honest : \A g : Traced(v, g)' =>
            Traced(v, g) \/ <<v, g>> \in setups \/ \E x \in pool : x.from = v /\ x.group = g
    BY <1>6
  <2>2. \A v \in Honest : \A g : <<v, g>> \in setups' =>
            <<v, g>> \in setups \/ g = groupOf(view[v]) \/ g = groupOf(view'[v])
    BY <1>7
  <2> QED BY <1>3, <1>4, <2>1, <2>2, TracesForward
<1>10. NewUntraced'
  <2>1. \A v \in Honest : \A g : Traced(v, g)' =>
            \/ Traced(v, g) \/ \E x \in pool : x.from = v /\ x.group = g
            \/ <<v, g>> \in setups /\ ~Unset(view'[v], g)
    BY <1>6
  <2>2. \A x \in pool' :
            \/ x \in pool
            \/ /\ x.from \in Honest /\ x.group = groupOf(view[x.from])
               /\ ~Unset(view'[x.from], x.group)
    BY <1>8
  <2> QED BY <1>3, <1>4, <1>5, <2>1, <2>2, UntracedForward
<1> QED BY <1>9, <1>10

\* A validator that has begun its ceremony will keep the deadline.
LEMMA BegunInTime ==
  ASSUME NewUntraced', NEW v \in Sound', block' \in Nat, NEW r, NEW D, D = block' + KeyGenTimeout,
         Starts(v, r, D), v \in r.s.members, r.setup \subseteq setups',
         NEW t, t = view'[v], t.epoch # 0, groupOf(t) = groupOf(r.s), Same(r.s, t),
         t.own = r.s.own, t.shares = r.s.shares, NEW g, g = groupOf(t), NEW c, c = ceremony(g)'
  PROVE  InTime(v, t, c, pool', setups', block')
<1>1. t.phase = "CollectingCommitments"
  BY DEF Same, PublicFields, Starts
<1>2. t.own = NoSecrets
  BY DEF Starts
<1>3. ~Traced(v, g)' /\ \A tx \in pool' : tx.from = v => tx.group # g
  BY <1>1, <1>2 DEF NewUntraced
<1>4. v \notin DOMAIN c.committed
  <2>1. SUFFICES ASSUME v \in DOMAIN c.committed PROVE FALSE
    OBVIOUS
  <2>2. g \in DOMAIN chain'
    <3>1. SUFFICES ASSUME g \notin DOMAIN chain' PROVE FALSE
      OBVIOUS
    <3>2. c.committed = <<>>
      BY <3>1 DEF ceremony, opened
    <3>3. DOMAIN c.committed = {}
      BY <3>2
    <3> QED BY <2>1, <3>3
  <2>3. c = chain'[g]
    BY <2>2 DEF ceremony
  <2> QED BY <1>3, <2>1, <2>2, <2>3 DEF Traced
<1>5. PICK P, U : P = pool' /\ U = setups'
  OBVIOUS
<1>6. PICK b \in Nat : b = block'
  OBVIOUS
<1>7. InTime(v, t, c, P, U, b)
  BY <1>3, <1>4, <1>5, <1>6, StartedInTime
<1> QED BY <1>5, <1>6, <1>7

\* What has to be shown of a step.
LEMMA AllInTimeNext ==
  ASSUME delays' = 0 =>
            \A v \in Sound' : \A t, g, c :
                t = view'[v] /\ Member(v, t) /\ g = groupOf(t) /\ c = ceremony(g)' =>
                    InTime(v, t, c, pool', setups', block')
  PROVE  AllInTime'
<1>1. SUFFICES ASSUME delays' = 0, NEW v \in Sound', Member(v, view'[v])
               PROVE  InTime(v, view[v], ceremony(groupOf(view[v])), pool, setups, block)'
  BY DEF AllInTime
<1>2. PICK t : t = view'[v]
  OBVIOUS
<1>3. PICK g : g = groupOf(t)
  OBVIOUS
<1>4. PICK c : c = ceremony(g)'
  OBVIOUS
<1>5. InTime(v, t, c, pool', setups', block')
  BY <1>1, <1>2, <1>3, <1>4
<1> QED BY <1>2, <1>3, <1>4, <1>5

\* Any event of the ceremony.
LEMMA EventOutcome ==
  ASSUME OneFaulty, NEW v, NEW s, s = view[v], NEW g, NEW c, NEW tx, NEW P, NEW U,
         NEW r, NEW Q, NEW W, NEW d, Setting(v, s, g, c, tx, P, U, r, Q, W, d), r = onEvent(v, tx)
  PROVE  Outcome(v, r, g, d, Q, W)
<1>1. tx.kind \in Kinds /\ g = tx.group
  BY DEF Setting, Scene
<1>2. CASE tx.kind = "commit"
  <2>1. r = onCommitted(v, s, block, g, tx.from, tx.version)
    BY <1>1, <1>2 DEF onEvent
  <2> QED BY <1>2, <2>1, CommitOutcome
<1>3. CASE tx.kind = "share"
  <2>1. r = onSecretShared(v, s, block, g, tx.from, tx.valid, tx.bad)
    BY <1>1, <1>3 DEF onEvent
  <2> QED BY <1>3, <2>1, ShareOutcome
<1>4. CASE tx.kind = "complain"
  <2>1. r = onComplained(v, s, block, g, tx.from, tx.peer)
    BY <1>1, <1>4 DEF onEvent
  <2> QED BY <1>4, <2>1, ComplainOutcome
<1>5. CASE tx.kind = "respond"
  <2>1. r = onComplaintResponded(v, s, block, g, tx.peer, tx.from, tx.valid)
    BY <1>1, <1>5 DEF onEvent
  <2> QED BY <1>5, <2>1, RespondOutcome
<1>6. CASE tx.kind = "confirm"
  <2>1. r = onConfirmed(v, s, block, g, tx.from)
    BY <1>1, <1>6 DEF onEvent
  <2> QED BY <1>6, <2>1, ConfirmOutcome
<1> QED BY <1>1, <1>2, <1>3, <1>4, <1>5, <1>6 DEF Kinds

\* The scene is as the invariants say.
LEMMA SceneSet ==
  ASSUME ShareInv, LockInv, KeysInv, StayInv, delays = 0, NEW tx, Proper(tx), accepts(tx),
         NEW v \in Sound, NEW s, s = view[v], NEW g, g = groupOf(s), g = tx.group,
         NEW c, c = ceremony(g)
  PROVE  Scene(v, s, g, c, tx, pool)
<1>1. /\ block \in Nat /\ v \in Honest /\ ViewOk(v, s) /\ RoundOpen(v, s) /\ CeremonyOk(g, c)
  BY CeremonyInOrder DEF LockInv, ShareInv, ViewsOk, RoundsOpen, StayInv, Sound
<1>2. DOMAIN s.commitments \subseteq DOMAIN c.committed
  <2>1. SUFFICES ASSUME NEW p \in DOMAIN s.commitments PROVE p \in DOMAIN c.committed
    OBVIOUS
  <2>2. Committed(chain, g, p, s.commitments[p])
    BY <1>1, <2>1 DEF ShareInv, ViewsAgree
  <2> QED BY <2>2 DEF Committed, ceremony
<1>3. tx.kind \in Kinds /\ tx.valid \in BOOLEAN /\ tx.from \in Participants
  BY DEF Proper
<1>4. tx.from = v => tx \in pool /\ OwnCommit(v, s, tx)
  BY <1>1 DEF Proper, LockInv, CommitsOwn
<1>5. ASSUME tx.from \in Honest
      PROVE  /\ tx.valid = TRUE /\ tx.bad = {}
             /\ tx.kind = "complain" => tx \in pool /\ tx.peer \in Faulty /\ tx.queued >= block - 1
  <2>1. tx \in pool /\ TxOk(tx)
    BY <1>5 DEF Proper, StayInv, QueueGood
  <2> QED BY <2>1 DEF TxOk, StayInv, Prompt
<1>6. ASSUME NEW x \in pool, x.group = g
      PROVE  /\ x.queued \in Nat /\ x.queued <= block
             /\ x.kind = "complain" => x.peer \in c.shared /\ AllIn(g, DOMAIN c.committed)
             /\ x.kind = "confirm" => g.members \subseteq c.shared
             /\ x.kind = "confirm" /\ x.from = v /\ s.phase = "CollectingConfirmations" =>
                    s.status = "Confirmed"
  <2>1. TxOk(x) /\ Keyed(x, chain, view[x.from])
    BY <1>6 DEF StayInv, QueueGood, KeysInv, ConfirmsOk
  <2>2. x.kind = "confirm" => g.members \subseteq c.shared
    <3>1. SUFFICES ASSUME x.kind = "confirm" PROVE g.members \subseteq c.shared
      OBVIOUS
    <3>2. AllShared(chain, g)
      BY <1>6, <2>1, <3>1 DEF Keyed
    <3>3. CASE g \in DOMAIN chain
      BY <3>2, <3>3 DEF AllShared, sharedIn, ceremony
    <3>4. CASE g \notin DOMAIN chain
      BY <3>2, <3>4 DEF AllShared, sharedIn
    <3> QED BY <3>3, <3>4
  <2>3. inGroup(s, g)
    BY GroupIs
  <2>4. x.kind = "confirm" /\ x.from = v /\ s.phase = "CollectingConfirmations" => s.status = "Confirmed"
    BY <1>6, <2>1, <2>3 DEF Keyed
  <2> QED BY <1>6, <2>1, <2>2, <2>4 DEF TxOk
<1> QED BY <1>1, <1>2, <1>3, <1>4, <1>5, <1>6 DEF Scene

\* The queue and the setups after a transaction.
LEMMA ExecuteQueues ==
  ASSUME NEW tx, execute(tx)
  PROVE  /\ pool' = (pool \ {tx}) \cup UNION {encoded(v, onEvent(v, tx).acts) : v \in Honest}
         /\ setups' = setups \cup UNION {onEvent(v, tx).setup : v \in Honest}
<1>1. PICK f : f = [v \in Honest |-> onEvent(v, tx)]
  OBVIOUS
<1>2. /\ pool' = (pool \ {tx}) \cup UNION {encoded(v, f[v].acts) : v \in Honest}
      /\ setups' = setups \cup UNION {f[v].setup : v \in Honest}
  BY <1>1 DEF execute
<1>3. \A v \in Honest : f[v] = onEvent(v, tx)
  BY <1>1
<1> QED BY <1>2, <1>3

\* What comes into the queue is asked for by a validator.
LEMMA ExecuteNew ==
  ASSUME NEW tx, execute(tx), NEW x \in pool', x \notin pool
  PROVE  \E u \in Honest : \E a \in onEvent(u, tx).acts : x = queuedAs(u, a)
<1>1. PICK u \in Honest : x \in encoded(u, onEvent(u, tx).acts)
  BY ExecuteQueues
<1> QED BY <1>1 DEF encoded, queuedAs

\* What a transaction does to the queue, as one validator sees it.
LEMMA ExecutePassage ==
  ASSUME NEW tx, execute(tx), EventStep(tx), NEW v \in Honest, NEW r, r = onEvent(v, tx)
  PROVE  Passage(v, r, tx, pool, pool')
<1>1. pool \ {tx} \subseteq pool'
  BY ExecuteQueues
<1>2. ASSUME NEW a \in r.acts PROVE queuedAs(v, a) \in pool'
  <2>1. queuedAs(v, a) \in encoded(v, r.acts)
    BY <1>2 DEF encoded, queuedAs
  <2> QED BY <2>1, ExecuteQueues
<1>3. ASSUME NEW x \in pool' \ pool
      PROVE  \/ \E a \in r.acts : x = queuedAs(v, a)
             \/ x.from # v /\ x.queued = block /\ (x.kind = "complain" => tx.kind = "share")
  <2>1. PICK u \in Honest : \E a \in onEvent(u, tx).acts : x = queuedAs(u, a)
    BY <1>3, ExecuteNew
  <2>2. PICK a \in onEvent(u, tx).acts : x = queuedAs(u, a)
    BY <2>1
  <2>3. CASE u = v
    BY <2>2, <2>3
  <2>4. CASE u # v
    <3>1. x.from = u /\ x.queued = block /\ x.kind = a.kind
      BY <2>2 DEF queuedAs
    <3>2. a.kind = "complain" => tx.kind = "share"
      BY <2>2 DEF EventStep, Effects
    <3> QED BY <2>4, <3>1, <3>2
  <2> QED BY <2>3, <2>4
<1> QED BY <1>1, <1>2, <1>3 DEF Passage

\* In another ceremony nothing changes.
LEMMA ElsewhereInTime ==
  ASSUME NEW tx, tx.kind \in Kinds, execute(tx), EventStep(tx), NEW v \in Honest,
         NEW s, s = view[v], ~(inGroup(s, tx.group) /\ s.phase \in Collecting),
         NEW g, g = groupOf(s), s.phase \in Collecting, NEW c, c = ceremony(g),
         InTime(v, s, c, pool, setups, block)
  PROVE  InTime(v, s, c, pool', setups', block)
<1>1. g # tx.group
  BY GroupIs
<1>2. \A x \in pool : x.group = g => x \in pool'
  BY <1>1, ExecuteQueues
<1>3. ASSUME NEW x \in pool', x.group = g PROVE x \in pool
  <2>1. SUFFICES ASSUME x \notin pool PROVE FALSE
    OBVIOUS
  <2>2. PICK u \in Honest : \E a \in onEvent(u, tx).acts : x = queuedAs(u, a)
    BY <1>3, <2>1, ExecuteNew
  <2>3. PICK a \in onEvent(u, tx).acts : x = queuedAs(u, a)
    BY <2>2
  <2>4. x.group = groupOf(view[u])
    <3>1. x.group = a.group
      BY <2>3 DEF queuedAs
    <3>2. a.group = groupOf(view[u])
      BY <2>3 DEF EventStep, Onward
    <3> QED BY <3>1, <3>2
  <2>5. ~inGroup(view[u], tx.group)
    BY <1>1, <1>3, <2>4 DEF inGroup, groupOf
  <2>6. onEvent(u, tx) = stay(view[u])
    BY <2>5, EventIdle
  <2> QED BY <2>3, <2>6, ResultOf
<1>4. setups \subseteq setups'
  BY ExecuteQueues
<1>5. PICK P, Q, U, W, b : P = pool /\ Q = pool' /\ U = setups /\ W = setups' /\ b = block
  OBVIOUS
<1>6. /\ \A x \in P : x.group = g => x \in Q
      /\ \A x \in Q : x.group = g => x \in P \/ (x.from # v /\ x.kind # "complain")
  BY <1>2, <1>3, <1>5
<1>7. <<v, g>> \in U /\ s.own = NoSecrets => <<v, g>> \in W
  BY <1>4, <1>5
<1>8. InTime(v, s, c, P, U, b)
  BY <1>5
<1>9. InTime(v, s, c, Q, W, b)
  BY <1>6, <1>7, <1>8, FrameInTime
<1> QED BY <1>5, <1>9

\* After a transaction all are in time.
LEMMA ExecuteInTime ==
  ASSUME OneFaulty, ShareInv, LockInv, KeysInv, StayInv, NEW tx, Proper(tx), execute(tx)
  PROVE  AllInTime'
<1>1. /\ accepts(tx) /\ chain' = put(chain, tx.group, written(tx))
      /\ block' = block /\ delays' = delays
      /\ lost' = {v \in lost : view'[v].epoch = view[v].epoch}
  BY DEF execute
<1>2. EventStep(tx) /\ NewUntraced' /\ block \in Nat /\ tx.kind \in Kinds
  BY ExecuteSteps, ExecuteTraces DEF LockInv, Proper
<1>3. SUFFICES ASSUME delays' = 0, NEW v \in Sound', NEW t, t = view'[v], Member(v, t),
                      NEW g, g = groupOf(t), NEW c, c = ceremony(g)'
               PROVE  InTime(v, t, c, pool', setups', block')
  BY AllInTimeNext
<1>4. v \in Honest /\ (t.epoch = view[v].epoch => v \in Sound)
  BY <1>1, <1>3, SoundNext
<1>5. PICK s, r : s = view[v] /\ r = onEvent(v, tx)
  OBVIOUS
<1>6. t = r.s /\ r.setup \subseteq setups' /\ (t.epoch = s.epoch \/ Passes(v, s, tx, r))
  BY <1>2, <1>3, <1>4, <1>5, ExecuteQueues DEF EventStep
<1>7. PICK D : D = block' + KeyGenTimeout
  OBVIOUS
<1>8. ASSUME Starts(v, r, D), v \in r.s.members PROVE InTime(v, t, c, pool', setups', block')
  <2>1. Same(r.s, t) /\ t.epoch # 0 /\ block' \in Nat
    BY <1>1, <1>2, <1>3, <1>6 DEF Same, Member
  <2> QED BY <1>2, <1>3, <1>6, <1>7, <1>8, <2>1, BegunInTime
<1>9. ASSUME Stops(r) PROVE FALSE
  BY <1>3, <1>6, <1>9 DEF Stops, Member
<1>10. CASE t.epoch # s.epoch
  <2>1. r = Passed(v, s, block)
    BY <1>6, <1>10 DEF Passes
  <2>2. Starts(v, r, block + KeyGenTimeout) /\ r.s.members = activeIn(r.s.epoch)
    BY <1>9, <2>1, PassedStarts
  <2>3. v \in r.s.members
    BY <1>3, <1>6, <2>2 DEF Member
  <2> QED BY <1>1, <1>7, <1>8, <2>2, <2>3
<1>11. CASE t.epoch = s.epoch
  <2>1. v \in Sound /\ delays = 0 /\ s.epoch # 0 /\ v \in activeIn(s.epoch)
    BY <1>1, <1>3, <1>4, <1>5, <1>11 DEF Member
  <2>2. CASE ~(inGroup(s, tx.group) /\ s.phase \in Collecting)
    <3>1. t = s
      <4>1. r = stay(s)
        BY <1>2, <1>5, <2>2, EventIdle
      <4> QED BY <1>6, <4>1, ResultOf
    <3>2. g # tx.group
      BY <1>3, <2>2, <3>1, GroupIs DEF Member
    <3>3. c = ceremony(g)
      <4>1. PICK h, d : h = tx.group /\ d = written(tx)
        OBVIOUS
      <4>2. chain' = put(chain, h, d)
        BY <1>1, <4>1
      <4> QED BY <1>3, <3>2, <4>1, <4>2, CeremonyAfter
    <3>4. InTime(v, s, c, pool, setups, block)
      BY <1>3, <1>5, <2>1, <3>1, <3>3 DEF StayInv, AllInTime
    <3>5. s.phase \in Collecting
      BY <1>3, <3>1 DEF Member
    <3>6. InTime(v, s, c, pool', setups', block)
      BY <1>2, <1>3, <1>4, <1>5, <2>2, <3>1, <3>3, <3>4, <3>5, ElsewhereInTime
    <3> QED BY <1>1, <3>1, <3>6
  <2>3. CASE inGroup(s, tx.group) /\ s.phase \in Collecting
    <3>1. PICK h, e, d : h = groupOf(s) /\ e = ceremony(h) /\ d = written(tx)
      OBVIOUS
    <3>2. h = tx.group
      BY <2>3, <3>1 DEF inGroup, groupOf
    <3>3. Scene(v, s, h, e, tx, pool)
      BY <1>1, <1>5, <2>1, <3>1, <3>2, SceneSet
    <3>4. InTime(v, s, e, pool, setups, block)
      BY <1>5, <2>1, <2>3, <3>1 DEF StayInv, AllInTime, Member
    <3>5. Writes(tx, e, d)
      <4>1. CeremonyOk(h, e)
        BY <3>1, CeremonyInOrder DEF StayInv
      <4> QED BY <1>2, <3>1, <3>2, <4>1, WrittenWrites DEF CeremonyOk
    <3>6. PICK P, Q, U, W : P = pool /\ Q = pool' /\ U = setups /\ W = setups'
      OBVIOUS
    <3>7. Passage(v, r, tx, P, Q) /\ U \subseteq W
      BY <1>2, <1>4, <1>5, <3>6, ExecutePassage, ExecuteQueues
    <3>8. Setting(v, s, h, e, tx, P, U, r, Q, W, d)
      BY <2>1, <2>3, <3>3, <3>4, <3>5, <3>6, <3>7 DEF Setting
    <3>9. Outcome(v, r, h, d, Q, W)
      BY <1>5, <3>8, EventOutcome
    <3>10. CASE groupOf(r.s) = h /\ InTime(v, r.s, d, Q, W, block)
      <4>1. g = h /\ c = d
        <5>1. chain' = put(chain, h, d)
          BY <1>1, <3>1, <3>2
        <5>2. g = h
          BY <1>3, <1>6, <3>10
        <5> QED BY <1>3, <5>1, <5>2, CeremonyAfter
      <4> QED BY <1>1, <1>6, <3>6, <3>10, <4>1
    <3>11. CASE Starts(v, r, block + KeyGenTimeout) /\ v \in r.s.members
      BY <1>1, <1>7, <1>8, <3>11
    <3> QED BY <1>9, <3>9, <3>10, <3>11 DEF Outcome
  <2> QED BY <2>2, <2>3
<1> QED BY <1>10, <1>11

----------------------------------------------------------------------------
(* A block                                                                 *)

\* The results q and r differ in the epochs that are kept only.
Like(q, r) ==
    /\ r.acts = {} /\ r.setup = q.setup
    /\ Same(q.s, r.s) /\ groupOf(q.s) = groupOf(r.s)
    /\ r.s.own = q.s.own /\ r.s.shares = q.s.shares /\ r.s.status = q.s.status

\* Reaping old epochs is not seen in the ceremony.
LEMMA ReconciledLike ==
  ASSUME NEW q, DOMAIN q.s = Fields,
         NEW r, r.acts = {}, r.setup = q.setup, r.s = reconciled(q.s)
  PROVE  Like(q, r)
<1>1. \A f \in Fields \ {"epochs"} : r.s[f] = q.s[f]
  BY DEF reconciled
<1>2. /\ r.s.own = q.s.own /\ r.s.shares = q.s.shares /\ r.s.status = q.s.status
      /\ r.s.epoch = q.s.epoch /\ r.s.members = q.s.members
  BY <1>1 DEF Fields
<1>3. Same(q.s, r.s)
  BY <1>1 DEF Same, PublicFields, Fields
<1> QED BY <1>2, <1>3 DEF Like, groupOf

\* A block on which no epoch is due.
LEMMA UndueLike ==
  ASSUME NEW v, NEW s, ViewOk(v, s), NEW b, ~Due(s, b), NEW r, r = onNewBlock(v, s, b),
         NEW q, q = keyGenTimeouts(v, s, b)
  PROVE  Like(q, r)
<1>1. DOMAIN q.s = Fields
  <2>1. StepOk(v, s, q)
    BY TimeoutsOk
  <2> QED BY <2>1 DEF StepOk, ViewOk
<1>2. rolloverNewBlock(v, s, b) = stay(s)
  BY DEF rolloverNewBlock, Due
<1>3. r.s = reconciled(q.s) /\ r.acts = {}
  BY <1>2, ResultOf DEF onNewBlock
<1>4. r.setup = q.setup
  <2>1. r.setup = stay(s).setup \cup q.setup
    BY <1>2, ResultOf DEF onNewBlock
  <2> QED BY <2>1, ResultOf
<1> QED BY <1>1, <1>3, <1>4, ReconciledLike

\* What is taken up is not over yet.
LEMMA TakenStays ==
  ASSUME NEW v, NEW s, ViewOk(v, s), NEW b \in Nat, NEW q, q = TakenUp(v, s, b)
  PROVE  keyGenTimeouts(v, q.s, b) = stay(q.s)
<1>1. Stops(q) \/ Starts(v, q, b + KeyGenTimeout)
  BY TakenStarts
<1>2. CASE Stops(q)
  BY <1>2 DEF Stops, Collecting, keyGenTimeouts
<1>3. CASE Starts(v, q, b + KeyGenTimeout)
  <2>1. q.s.phase = "CollectingCommitments" /\ q.s.deadline = b + KeyGenTimeout
    BY <1>3 DEF Starts
  <2>2. ~(b >= q.s.deadline)
    BY <2>1, ConfigAssumption
  <2> QED BY <2>1, <2>2 DEF keyGenTimeouts
<1> QED BY <1>1, <1>2, <1>3

\* A due epoch is taken up, and nothing times out at once.
LEMMA DueLike ==
  ASSUME NEW v, NEW s, ViewOk(v, s), NEW b \in Nat, Due(s, b), NEW r, r = onNewBlock(v, s, b),
         NEW q, q = TakenUp(v, s, b)
  PROVE  Like(q, r)
<1>1. rolloverNewBlock(v, s, b) = q
  BY DEF rolloverNewBlock, Due, TakenUp, Rolled
<1>2. keyGenTimeouts(v, q.s, b) = stay(q.s)
  BY TakenStays
<1>3. DOMAIN q.s = Fields
  <2>1. StepOk(v, s, rolloverNewBlock(v, s, b))
    BY RolloverOk
  <2> QED BY <1>1, <2>1 DEF StepOk, ViewOk
<1>4. r.s = reconciled(q.s) /\ r.acts = {}
  BY <1>1, <1>2, ResultOf DEF onNewBlock
<1>5. r.setup = q.setup
  <2>1. r.setup = q.setup \cup stay(q.s).setup
    BY <1>1, <1>2, ResultOf DEF onNewBlock
  <2> QED BY <2>1, ResultOf
<1> QED BY <1>3, <1>4, <1>5, ReconciledLike

\* The setups of a block are those of ceremonies that it starts.
LEMMA BlockSetup ==
  ASSUME NEW v, NEW s, ViewOk(v, s), NEW b \in Nat, NEW r, r = onNewBlock(v, s, b)
  PROVE  r.setup \subseteq {<<v, groupOf(r.s)>>}
<1>1. PICK d : d = b + KeyGenTimeout
  OBVIOUS
<1>2. ASSUME NEW q, Stops(q) \/ Starts(v, q, d), Like(q, r) PROVE r.setup \subseteq {<<v, groupOf(r.s)>>}
  <2>1. q.setup \subseteq {<<v, groupOf(q.s)>>}
    BY <1>2 DEF Stops, Starts
  <2> QED BY <1>2, <2>1 DEF Like
<1>3. CASE Due(s, b)
  <2>1. PICK q : q = TakenUp(v, s, b)
    OBVIOUS
  <2> QED BY <1>1, <1>2, <1>3, <2>1, TakenStarts, DueLike
<1>4. CASE ~Due(s, b)
  <2>1. PICK q : q = keyGenTimeouts(v, s, b)
    OBVIOUS
  <2>2. Like(q, r)
    BY <1>4, <2>1, UndueLike
  <2>3. CASE q = stay(s)
    BY <2>2, <2>3, ResultOf DEF Like
  <2>4. CASE q = rolloverFailure(s)
    BY <1>2, <2>2, <2>4, FailureStops
  <2>5. ASSUME NEW out, q = restartKeyGenExcluding(v, s, out, d)
        PROVE  r.setup \subseteq {<<v, groupOf(r.s)>>}
    BY <1>2, <2>2, <2>5, RestartStarts
  <2> QED BY <1>1, <2>1, <2>3, <2>4, <2>5, TimeoutCases
<1> QED BY <1>3, <1>4

----------------------------------------------------------------------------
(* Time-outs                                                               *)

\* Nothing is over at b.
Open(s, b) ==
    /\ s.phase \in {"CollectingCommitments", "CollectingShares"} => b < s.deadline
    /\ s.phase = "CollectingConfirmations" =>
        \A p \in s.members : s.unresponded[p] > 0 => b < s.deadline + KeyGenTimeout

\* What happens at the deadlines, with d for the next one.
TimesOut(v, s, b, d, r) ==
    \/ r = stay(s) /\ Open(s, b)
    \/ /\ s.phase = "CollectingCommitments" /\ b >= s.deadline
       /\ \/ r = rolloverFailure(s)
          \/ r = restartKeyGenExcluding(v, s, excludeAllOthers(s, DOMAIN s.commitments), d)
    \/ /\ s.phase = "CollectingShares" /\ b >= s.deadline
       /\ r = restartKeyGenExcluding(v, s, excludeAllOthers(s, s.keys), d)
    \/ /\ s.phase = "CollectingConfirmations" /\ b >= s.deadline + KeyGenTimeout
       /\ r = restartKeyGenExcluding(v, s, alsoExclude(s, owing(s)), d)
    \/ /\ s.phase = "CollectingConfirmations" /\ b >= s.deadline + 2 * KeyGenTimeout
       /\ owing(s) = {}
       /\ r = restartKeyGenExcluding(v, s, excludeAllOthers(s, s.confirmations), d)

\* What a block does to a ceremony that has a deadline.
LEMMA TimeoutIs ==
  ASSUME NEW v, NEW s, s.deadline \in Nat, s.deadline # NoDeadline,
         NEW b \in Nat, NEW d, d = b + KeyGenTimeout, NEW r, r = keyGenTimeouts(v, s, b)
  PROVE  TimesOut(v, s, b, d, r)
<1>1. KeyGenTimeout \in Nat \ {0}
  BY ConfigAssumption
<1>2. CASE s.phase = "CollectingCommitments"
  <2>1. CASE b >= s.deadline
    BY <1>2, <2>1 DEF keyGenTimeouts, TimesOut
  <2>2. CASE ~(b >= s.deadline)
    BY <1>2, <2>2 DEF keyGenTimeouts, Open, TimesOut
  <2> QED BY <2>1, <2>2
<1>3. CASE s.phase = "CollectingShares"
  <2>1. CASE b >= s.deadline
    BY <1>3, <2>1 DEF keyGenTimeouts, sharedBy, TimesOut
  <2>2. CASE ~(b >= s.deadline)
    BY <1>3, <2>2 DEF keyGenTimeouts, Open, TimesOut
  <2> QED BY <2>1, <2>2
<1>4. CASE s.phase = "CollectingConfirmations"
  <2>1. CASE ~(b >= s.deadline)
    <3>1. r = stay(s)
      BY <1>4, <2>1 DEF keyGenTimeouts
    <3>2. b < s.deadline + KeyGenTimeout
      BY <1>1, <2>1
    <3> QED BY <1>4, <3>1, <3>2 DEF Open, TimesOut
  <2>2. CASE b >= s.deadline /\ b >= s.deadline + KeyGenTimeout /\ owing(s) # {}
    BY <1>4, <2>2 DEF keyGenTimeouts, responseDeadline, TimesOut
  <2>3. CASE b >= s.deadline /\ ~(b >= s.deadline + KeyGenTimeout /\ owing(s) # {})
    <3>1. CASE b >= s.deadline + 2 * KeyGenTimeout
      <4>1. b >= s.deadline + KeyGenTimeout
        BY <1>1, <3>1
      <4> QED BY <1>4, <2>3, <3>1, <4>1
             DEF keyGenTimeouts, responseDeadline, confirmTimeout, confirmDeadline, TimesOut
    <3>2. CASE ~(b >= s.deadline + 2 * KeyGenTimeout)
      <4>1. r = stay(s)
        BY <1>4, <2>3, <3>2 DEF keyGenTimeouts, responseDeadline, confirmTimeout, confirmDeadline
      <4>2. ASSUME NEW p \in s.members, s.unresponded[p] > 0 PROVE b < s.deadline + KeyGenTimeout
        BY <1>1, <2>3, <4>2 DEF owing
      <4> QED BY <1>4, <4>1, <4>2 DEF Open, TimesOut
    <3> QED BY <3>1, <3>2
  <2> QED BY <2>1, <2>2, <2>3
<1>5. CASE s.phase \notin Collecting
  BY <1>5 DEF keyGenTimeouts, Open, Collecting, TimesOut
<1> QED BY <1>2, <1>3, <1>4, <1>5 DEF Collecting

\* The validator v in its ceremony c.
Fit(v, s, g, c) ==
    /\ v \in Honest /\ v \notin Faulty /\ ViewOk(v, s) /\ RoundOpen(v, s)
    /\ g = groupOf(s) /\ c = ceremony(g) /\ CeremonyOk(g, c)

\* The members of the ceremony are those of the state.
LEMMA FitMembers ==
  ASSUME NEW v, NEW s, NEW g, NEW c, Fit(v, s, g, c)
  PROVE  /\ g.members = s.members /\ s.members \subseteq Participants
         /\ \A set : set \subseteq s.members => (AllIn(g, set) <=> set = s.members)
<1>1. g.members = s.members /\ s.members \subseteq Participants
  BY GroupIs DEF Fit, ViewOk
<1> QED BY <1>1, AllMembers

\* No transaction that the contract accepts has missed the block.
Punctual(P, b) == \A tx \in P : tx.queued < b => ~accepts(tx)

\* What is accepted has just been queued.
LEMMA WaitsOn ==
  ASSUME NEW P, NEW b \in Nat, Punctual(P, b), NEW kind, NEW v, NEW g, NEW peer, NEW q \in Int,
         Waits(P, b, kind, v, g, peer, q),
         \A tx \in P : tx.from = v /\ tx.kind = kind /\ tx.group = g /\ tx.peer = peer => accepts(tx)
  PROVE  Waits(P, b + 1, kind, v, g, peer, q) /\ b <= q
<1>1. PICK tx \in P : /\ tx.from = v /\ tx.kind = kind /\ tx.group = g /\ tx.peer = peer
                      /\ tx.queued \in Nat /\ tx.queued >= b - 1 /\ tx.queued <= q
  BY DEF Waits
<1>2. ~(tx.queued < b)
  BY <1>1 DEF Punctual
<1>3. tx.queued >= (b + 1) - 1 /\ b <= q
  BY <1>1, <1>2
<1> QED BY <1>1, <1>3 DEF Waits

\* The commitment that waits is accepted ...
LEMMA CommitAccepted ==
  ASSUME NEW v, NEW s, NEW g, NEW c, Fit(v, s, g, c), v \in s.members, v \notin DOMAIN c.committed,
         NEW tx, tx.from = v, tx.kind = "commit", tx.group = g
  PROVE  accepts(tx)
<1>1. v \in g.members /\ c = ceremony(g) /\ tx.kind \in Kinds
  BY FitMembers DEF Fit, Kinds
<1> QED BY <1>1, AcceptsIs

\* While v shares or confirms, the ceremony is not over.
LEMMA Disputable ==
  ASSUME NEW v, NEW s, NEW g, NEW c, Fit(v, s, g, c), NEW P, NEW U, NEW b, InTime(v, s, c, P, U, b),
         s.phase \in {"CollectingShares", "CollectingConfirmations"}
  PROVE  /\ v \in g.members
         /\ AllIn(g, DOMAIN c.committed) /\ ~AllIn(g, c.confirmed) /\ ~c.compromised
<1>1. g.members = s.members /\ \A set : set \subseteq s.members => (AllIn(g, set) <=> set = s.members)
  BY FitMembers
<1>2. v \in s.members /\ g = groupOf(s) /\ RoundOpen(v, s) /\ c.confirmed \subseteq s.members
  BY <1>1 DEF InTime, Joins, Fit, CeremonyOk
<1>3. AllIn(g, DOMAIN c.committed) /\ c.compromised = FALSE
  BY <1>2 DEF InTime, Tallies
<1>4. c.confirmed # s.members
  <2>1. CASE s.phase = "CollectingShares"
    BY <1>2, <2>1 DEF InTime, SharesIn
  <2>2. CASE s.phase = "CollectingConfirmations"
    <3>1. c.confirmed \subseteq s.confirmations
      BY <2>2 DEF InTime, ConfirmsIn
    <3>2. PICK p \in s.members : p \notin s.confirmations
      BY <1>2, <2>2 DEF RoundOpen, Lacks
    <3> QED BY <3>1, <3>2
  <2> QED BY <2>1, <2>2
<1> QED BY <1>1, <1>2, <1>3, <1>4

\* ... so is the secret share ...
LEMMA ShareAccepted ==
  ASSUME NEW v, NEW s, NEW g, NEW c, Fit(v, s, g, c), NEW P, NEW U, NEW b, InTime(v, s, c, P, U, b),
         s.phase = "CollectingShares", v \notin c.shared,
         NEW tx, tx.from = v, tx.kind = "share", tx.group = g
  PROVE  accepts(tx)
<1>1. v \in g.members /\ AllIn(g, DOMAIN c.committed) /\ ~AllIn(g, c.confirmed) /\ ~c.compromised
  BY Disputable
<1>2. c = ceremony(g) /\ tx.kind \in Kinds
  BY DEF Fit, Kinds
<1> QED BY <1>1, <1>2, AcceptsIs

\* ... the answer ...
LEMMA RespondAccepted ==
  ASSUME NEW v, NEW s, NEW g, NEW c, Fit(v, s, g, c), NEW P, NEW U, NEW b, InTime(v, s, c, P, U, b),
         s.phase \in {"CollectingShares", "CollectingConfirmations"},
         NEW z, <<z, v>> \in c.filed \ c.answered,
         NEW tx, tx.from = v, tx.kind = "respond", tx.group = g, tx.peer = z
  PROVE  accepts(tx)
<1>1. v \in g.members /\ AllIn(g, DOMAIN c.committed) /\ ~AllIn(g, c.confirmed) /\ ~c.compromised
  BY Disputable
<1>2. c = ceremony(g) /\ tx.kind \in Kinds
  BY DEF Fit, Kinds
<1> QED BY <1>1, <1>2, AcceptsIs

\* Who lacks a share has not confirmed.
LEMMA LacksShare ==
  ASSUME NEW v, NEW s, NEW g, NEW c, Fit(v, s, g, c), NEW P, NEW U, NEW b, InTime(v, s, c, P, U, b),
         s.phase \in {"CollectingShares", "CollectingConfirmations"}, NEW p \in s.members, p \notin s.shares
  PROVE  v \notin c.confirmed
<1>1. CASE s.phase = "CollectingShares"
  BY <1>1 DEF InTime, SharesIn
<1>2. CASE s.phase = "CollectingConfirmations"
  BY <1>2 DEF InTime, ConfirmsIn
<1> QED BY <1>1, <1>2

\* ... the complaint ...
LEMMA ComplainAccepted ==
  ASSUME NEW v, NEW s, NEW g, NEW c, Fit(v, s, g, c), NEW P, NEW U, NEW b, InTime(v, s, c, P, U, b),
         s.phase \in {"CollectingShares", "CollectingConfirmations"},
         NEW p \in Faulty \cap s.members, p \notin s.shares, <<v, p>> \notin c.filed,
         NEW tx, tx.from = v, tx.kind = "complain", tx.group = g, tx.peer = p
  PROVE  accepts(tx)
<1>1. v \in g.members /\ AllIn(g, DOMAIN c.committed) /\ ~AllIn(g, c.confirmed) /\ ~c.compromised
  BY Disputable
<1>2. c = ceremony(g) /\ v \notin Faulty
  BY DEF Fit
<1>3. v \notin c.confirmed
  BY LacksShare
<1>4. p \in g.members \ {v}
  BY <1>2, FitMembers
<1>5. Disputes(tx, c)
  BY <1>1, <1>3, <1>4 DEF Disputes
<1> QED BY <1>2, <1>5, AcceptedNow

\* ... and the confirmation.
LEMMA ConfirmAccepted ==
  ASSUME NEW v, NEW s, NEW g, NEW c, Fit(v, s, g, c), NEW P, NEW U, NEW b, InTime(v, s, c, P, U, b),
         s.phase = "CollectingConfirmations", s.status = "Confirmed", v \notin s.confirmations,
         NEW tx, tx.from = v, tx.kind = "confirm", tx.group = g
  PROVE  accepts(tx)
<1>1. v \in g.members /\ AllIn(g, DOMAIN c.committed) /\ ~AllIn(g, c.confirmed) /\ ~c.compromised
  BY Disputable
<1>2. c = ceremony(g) /\ v \notin Faulty /\ CeremonyOk(g, c) /\ tx.kind \in Kinds
  BY DEF Fit, Kinds
<1>3. ConfirmsIn(v, s, c, P, b) /\ Complains(v, s, c, P, b)
  BY DEF InTime
<1>4. g.members = s.members
  BY FitMembers
<1>5. AllIn(g, c.shared) /\ v \notin c.confirmed /\ s.shares = s.members
  BY <1>3, <1>4 DEF ConfirmsIn, AllIn
<1>6. ASSUME NEW q \in Participants, <<v, q>> \in c.filed \ c.answered PROVE FALSE
  <2>1. q \in Faulty \cap s.members
    BY <1>2, <1>4, <1>6 DEF CeremonyOk
  <2>2. q \in s.keys \ s.shares
    BY <1>3, <1>6, <2>1 DEF Complains
  <2> QED BY <1>5, <2>1, <2>2
<1> QED BY <1>1, <1>2, <1>5, <1>6, AcceptsIs

\* A block passes without a transaction missing it.
Passing(v, s, g, c, P, U, b) ==
    /\ Fit(v, s, g, c) /\ InTime(v, s, c, P, U, b) /\ b \in Nat /\ Punctual(P, b) /\ U = {}
    /\ \A x \in P : x.group = g => x.queued \in Nat /\ x.queued <= b

\* The commitment is mined before its deadline ...
LEMMA PassingCommits ==
  ASSUME NEW v, NEW s, NEW g, NEW c, NEW P, NEW U, NEW b, Passing(v, s, g, c, P, U, b),
         s.phase = "CollectingCommitments"
  PROVE  /\ \A W : Commits(v, s, c, P, W, b + 1)
         /\ v \notin DOMAIN s.commitments => b + KeyGenTimeout <= s.deadline
<1>1. /\ Fit(v, s, g, c) /\ InTime(v, s, c, P, U, b) /\ b \in Nat /\ Punctual(P, b) /\ U = {}
      /\ g = groupOf(s) /\ Commits(v, s, c, P, U, b) /\ v \in s.members /\ s.deadline \in Nat
      /\ KeyGenTimeout \in Nat
  BY ConfigAssumption DEF Passing, Fit, InTime, Joins
<1>2. ASSUME v \notin DOMAIN s.commitments
      PROVE  /\ v \notin DOMAIN c.committed /\ b <= s.deadline - KeyGenTimeout
             /\ Waits(P, b + 1, "commit", v, g, v, s.deadline - KeyGenTimeout)
  <2>1. v \notin DOMAIN c.committed /\ Waits(P, b, "commit", v, g, v, s.deadline - KeyGenTimeout)
    BY <1>1, <1>2 DEF Commits
  <2>2. \A tx \in P : tx.from = v /\ tx.kind = "commit" /\ tx.group = g /\ tx.peer = v => accepts(tx)
    BY <1>1, <2>1, CommitAccepted
  <2>3. s.deadline - KeyGenTimeout \in Int
    BY <1>1
  <2> QED BY <1>1, <2>1, <2>2, <2>3, WaitsOn
<1>3. \A W : Commits(v, s, c, P, W, b + 1)
  BY <1>1, <1>2 DEF Commits
<1> QED BY <1>1, <1>2, <1>3

\* ... so is the secret share ...
LEMMA PassingShares ==
  ASSUME NEW v, NEW s, NEW g, NEW c, NEW P, NEW U, NEW b, Passing(v, s, g, c, P, U, b),
         s.phase = "CollectingShares"
  PROVE  SharesIn(v, s, c, P, b + 1) /\ (v \notin s.keys => b + KeyGenTimeout <= s.deadline)
<1>1. /\ Fit(v, s, g, c) /\ InTime(v, s, c, P, U, b) /\ b \in Nat /\ Punctual(P, b)
      /\ g = groupOf(s) /\ SharesIn(v, s, c, P, b) /\ s.deadline \in Nat /\ KeyGenTimeout \in Nat
  BY ConfigAssumption DEF Passing, Fit, InTime, Joins
<1>2. ASSUME v \notin s.keys
      PROVE  /\ v \notin c.shared /\ b <= s.deadline - KeyGenTimeout
             /\ Waits(P, b + 1, "share", v, g, v, s.deadline - KeyGenTimeout)
  <2>1. v \notin c.shared /\ Waits(P, b, "share", v, g, v, s.deadline - KeyGenTimeout)
    BY <1>1, <1>2 DEF SharesIn
  <2>2. \A tx \in P : tx.from = v /\ tx.kind = "share" /\ tx.group = g /\ tx.peer = v => accepts(tx)
    BY <1>1, <2>1, ShareAccepted
  <2>3. s.deadline - KeyGenTimeout \in Int
    BY <1>1
  <2> QED BY <1>1, <2>1, <2>2, <2>3, WaitsOn
<1>3. SharesIn(v, s, c, P, b + 1)
  BY <1>1, <1>2 DEF SharesIn
<1> QED BY <1>1, <1>2, <1>3

\* ... the answer ...
LEMMA PassingAnswers ==
  ASSUME NEW v, NEW s, NEW g, NEW c, NEW P, NEW U, NEW b, Passing(v, s, g, c, P, U, b),
         s.phase \in {"CollectingShares", "CollectingConfirmations"}
  PROVE  /\ Answers(v, s, c, P, b + 1)
         /\ s.phase = "CollectingConfirmations" /\ s.unresponded[v] > 0 => b <= s.deadline
<1>1. /\ Fit(v, s, g, c) /\ InTime(v, s, c, P, U, b) /\ b \in Nat /\ Punctual(P, b)
      /\ g = groupOf(s) /\ Answers(v, s, c, P, b) /\ s.deadline \in Nat
  BY DEF Passing, Fit, InTime, Joins
<1>2. PICK q, n : q = lastComplaint(s, b) /\ n = lastComplaint(s, b + 1)
  OBVIOUS
<1>3. q \in Int /\ n \in Int /\ q <= n /\ (s.phase = "CollectingConfirmations" => q = s.deadline)
  BY <1>1, <1>2 DEF lastComplaint
<1>4. ASSUME s.unresponded[v] > 0
      PROVE  /\ b <= q
             /\ \E z \in Faulty : <<z, v>> \in c.filed \ c.answered /\ Waits(P, b + 1, "respond", v, g, z, n)
  <2>1. PICK z \in Faulty : <<z, v>> \in c.filed \ c.answered /\ Waits(P, b, "respond", v, g, z, q)
    BY <1>1, <1>2, <1>4 DEF Answers
  <2>2. \A tx \in P : tx.from = v /\ tx.kind = "respond" /\ tx.group = g /\ tx.peer = z => accepts(tx)
    BY <1>1, <2>1, RespondAccepted
  <2>3. Waits(P, b + 1, "respond", v, g, z, q) /\ b <= q
    BY <1>1, <1>3, <2>1, <2>2, WaitsOn
  <2>4. Waits(P, b + 1, "respond", v, g, z, n)
    BY <1>3, <2>3, WaitsMore
  <2> QED BY <2>1, <2>3, <2>4
<1>5. Answers(v, s, c, P, b + 1)
  BY <1>1, <1>2, <1>4 DEF Answers
<1> QED BY <1>3, <1>4, <1>5

\* ... the complaint ...
LEMMA PassingComplains ==
  ASSUME NEW v, NEW s, NEW g, NEW c, NEW P, NEW U, NEW b, Passing(v, s, g, c, P, U, b),
         s.phase \in {"CollectingShares", "CollectingConfirmations"}
  PROVE  Complains(v, s, c, P, b + 1)
<1>1. /\ Fit(v, s, g, c) /\ InTime(v, s, c, P, U, b) /\ b \in Nat /\ Punctual(P, b)
      /\ g = groupOf(s) /\ Complains(v, s, c, P, b)
      /\ \A x \in P : x.group = g => x.queued \in Nat /\ x.queued <= b
  BY DEF Passing, Fit, InTime
<1>2. ASSUME NEW p \in Faulty \cap s.members, <<v, p>> \notin c.filed,
             Waits(P, b, "complain", v, g, p, b)
      PROVE  Waits(P, b + 1, "complain", v, g, p, b + 1)
  <2>1. p \in s.keys \ s.shares
    BY <1>1, <1>2 DEF Complains
  <2>2. \A tx \in P : tx.from = v /\ tx.kind = "complain" /\ tx.group = g /\ tx.peer = p => accepts(tx)
    BY <1>1, <1>2, <2>1, ComplainAccepted
  <2>3. Waits(P, b + 1, "complain", v, g, p, b)
    BY <1>1, <1>2, <2>2, WaitsOn
  <2> QED BY <1>1, <2>3, WaitsMore
<1>3. ASSUME NEW p, Waits(P, b + 1, "complain", v, g, p, b + 1)
      PROVE  Waits(P, b, "complain", v, g, p, b)
  BY <1>1, <1>3 DEF Waits
<1> QED BY <1>1, <1>2, <1>3 DEF Complains

\* ... and the confirmation.
LEMMA PassingConfirms ==
  ASSUME NEW v, NEW s, NEW g, NEW c, NEW P, NEW U, NEW b, Passing(v, s, g, c, P, U, b),
         s.phase = "CollectingConfirmations"
  PROVE  /\ Open(s, b + 1) => ConfirmsIn(v, s, c, P, b + 1)
         /\ s.status = "Confirmed" /\ v \notin s.confirmations => b <= s.deadline + KeyGenTimeout
<1>1. /\ Fit(v, s, g, c) /\ InTime(v, s, c, P, U, b) /\ b \in Nat /\ Punctual(P, b)
      /\ g = groupOf(s) /\ ConfirmsIn(v, s, c, P, b) /\ s.deadline \in Nat /\ KeyGenTimeout \in Nat
  BY ConfigAssumption DEF Passing, Fit, InTime, Joins
<1>2. ASSUME s.status = "Confirmed", v \notin s.confirmations
      PROVE  /\ b <= s.deadline + KeyGenTimeout
             /\ Waits(P, b + 1, "confirm", v, g, v, s.deadline + KeyGenTimeout)
  <2>1. Waits(P, b, "confirm", v, g, v, s.deadline + KeyGenTimeout)
    BY <1>1, <1>2 DEF ConfirmsIn
  <2>2. \A tx \in P : tx.from = v /\ tx.kind = "confirm" /\ tx.group = g /\ tx.peer = v => accepts(tx)
    BY <1>1, <1>2, ConfirmAccepted
  <2>3. s.deadline + KeyGenTimeout \in Int
    BY <1>1
  <2> QED BY <1>1, <2>1, <2>2, <2>3, WaitsOn
<1>3. b + 1 >= s.deadline - KeyGenTimeout
  BY <1>1 DEF ConfirmsIn
<1>4. ASSUME Open(s, b + 1) PROVE ConfirmsIn(v, s, c, P, b + 1)
  BY <1>1, <1>2, <1>3, <1>4 DEF ConfirmsIn, Open
<1> QED BY <1>2, <1>4

\* A round that is not over is kept.
LEMMA PassingInTime ==
  ASSUME NEW v, NEW s, NEW g, NEW c, NEW P, NEW U, NEW b, Passing(v, s, g, c, P, U, b),
         Open(s, b + 1), NEW W
  PROVE  InTime(v, s, c, P, W, b + 1)
<1>1. InTime(v, s, c, P, U, b)
  BY DEF Passing
<1>2. Joins(v, s)
  BY <1>1 DEF InTime
<1>3. s.phase = "CollectingCommitments" => Commits(v, s, c, P, W, b + 1)
  BY PassingCommits
<1>4. s.phase \in {"CollectingShares", "CollectingConfirmations"} =>
        Tallies(s, c) /\ Answers(v, s, c, P, b + 1) /\ Complains(v, s, c, P, b + 1)
  BY <1>1, PassingAnswers, PassingComplains DEF InTime
<1>5. s.phase = "CollectingShares" => SharesIn(v, s, c, P, b + 1)
  BY PassingShares
<1>6. s.phase = "CollectingConfirmations" => ConfirmsIn(v, s, c, P, b + 1)
  BY PassingConfirms
<1> QED BY <1>2, <1>3, <1>4, <1>5, <1>6 DEF InTime

\* At the end of the round of confirmations v has confirmed.
LEMMA PassingConfirmed ==
  ASSUME OneFaulty, NEW v, NEW s, NEW g, NEW c, NEW P, NEW U, NEW b, Passing(v, s, g, c, P, U, b),
         s.phase = "CollectingConfirmations", b + 1 >= s.deadline + 2 * KeyGenTimeout, owing(s) = {}
  PROVE  v \in s.confirmations
<1>1. /\ Fit(v, s, g, c) /\ InTime(v, s, c, P, U, b) /\ b \in Nat /\ Punctual(P, b)
      /\ g = groupOf(s) /\ ConfirmsIn(v, s, c, P, b) /\ Complains(v, s, c, P, b) /\ Tallies(s, c)
      /\ s.deadline \in Nat /\ KeyGenTimeout \in Nat /\ KeyGenTimeout >= 2
  BY ConfigAssumption DEF Passing, Fit, InTime, Joins, OneFaulty
<1>2. SUFFICES ASSUME v \notin s.confirmations PROVE FALSE
  OBVIOUS
<1>3. s.status # "Confirmed"
  <2>1. ~(b <= s.deadline + KeyGenTimeout)
    BY <1>1
  <2> QED BY <1>2, <2>1, PassingConfirms
<1>4. s.keys = s.members /\ s.shares # s.members /\ s.shares \subseteq s.keys /\ s.keys \ s.shares \subseteq Faulty
  BY <1>1, <1>3 DEF ConfirmsIn, Complains
<1>5. PICK p \in s.keys \ s.shares : p \in Faulty \cap s.members
  BY <1>4
<1>6. \/ <<v, p>> \in c.filed \ c.answered
      \/ <<v, p>> \notin c.filed /\ Waits(P, b, "complain", v, g, p, b)
  BY <1>1, <1>5 DEF Complains
<1>7. CASE <<v, p>> \in c.filed \ c.answered
  <2>1. v \in AccusersOf(c, p)
    BY <1>1, <1>7 DEF AccusersOf, Fit, Participants
  <2>2. Cardinality(AccusersOf(c, p)) # 0
    <3>1. IsFiniteSet(AccusersOf(c, p))
      BY FiniteMembers DEF AccusersOf
    <3> QED BY <2>1, <3>1, FS_EmptySet
  <2>3. s.unresponded[p] = Cardinality(AccusersOf(c, p)) /\ s.unresponded[p] \in Nat
    BY <1>1, <1>5 DEF Tallies
  <2>4. p \in owing(s)
    BY <1>5, <2>2, <2>3 DEF owing
  <2> QED BY <2>4
<1>8. CASE <<v, p>> \notin c.filed /\ Waits(P, b, "complain", v, g, p, b)
  <2>1. PICK tx \in P : tx.from = v /\ tx.kind = "complain" /\ tx.group = g /\ tx.peer = p /\ tx.queued \in Nat
    BY <1>8 DEF Waits
  <2>2. accepts(tx)
    BY <1>1, <1>5, <1>8, <2>1, ComplainAccepted
  <2>3. ~(tx.queued < b) /\ tx.queued <= s.deadline - KeyGenTimeout
    BY <1>1, <2>1, <2>2 DEF Punctual, ConfirmsIn
  <2> QED BY <1>1, <2>1, <2>3
<1> QED BY <1>6, <1>7, <1>8

\* At a deadline v is not among those that are left out.
LEMMA PassingTimeout ==
  ASSUME OneFaulty, NEW v, NEW s, NEW g, NEW c, NEW P, NEW U, NEW b, Passing(v, s, g, c, P, U, b),
         v \in activeIn(s.epoch), NEW d, d = b + 1 + KeyGenTimeout,
         NEW r, r = keyGenTimeouts(v, s, b + 1)
  PROVE  \/ r = stay(s) /\ Open(s, b + 1)
         \/ Stops(r)
         \/ Starts(v, r, d) /\ v \in r.s.members
<1>1. /\ InTime(v, s, c, P, U, b) /\ b \in Nat /\ v \in s.members
      /\ s.deadline \in Nat /\ s.deadline # NoDeadline
      /\ KeyGenTimeout \in Nat /\ KeyGenTimeout >= 2
  BY ConfigAssumption DEF Passing, InTime, Joins, OneFaulty
<1>2. PICK n \in Nat : n = b + 1
  BY <1>1
<1>3. d = n + KeyGenTimeout /\ r = keyGenTimeouts(v, s, n)
  BY <1>2
<1>4. TimesOut(v, s, n, d, r)
  BY <1>1, <1>3, TimeoutIs
<1>5. CASE /\ s.phase = "CollectingCommitments" /\ n >= s.deadline
           /\ \/ r = rolloverFailure(s)
              \/ r = restartKeyGenExcluding(v, s, excludeAllOthers(s, DOMAIN s.commitments), d)
  <2>1. v \in DOMAIN s.commitments
    BY <1>1, <1>2, <1>5, PassingCommits
  <2>2. CASE r = rolloverFailure(s)
    BY <2>2, FailureStops
  <2>3. CASE r = restartKeyGenExcluding(v, s, excludeAllOthers(s, DOMAIN s.commitments), d)
    BY <1>1, <2>1, <2>3, OthersStart
  <2> QED BY <1>5, <2>2, <2>3
<1>6. CASE /\ s.phase = "CollectingShares" /\ n >= s.deadline
           /\ r = restartKeyGenExcluding(v, s, excludeAllOthers(s, s.keys), d)
  <2>1. v \in s.keys
    BY <1>1, <1>2, <1>6, PassingShares
  <2> QED BY <1>1, <1>6, <2>1, OthersStart
<1>7. CASE /\ s.phase = "CollectingConfirmations" /\ n >= s.deadline + KeyGenTimeout
           /\ r = restartKeyGenExcluding(v, s, alsoExclude(s, owing(s)), d)
  <2>1. v \notin owing(s)
    BY <1>1, <1>2, <1>7, PassingAnswers DEF owing
  <2> QED BY <1>1, <1>7, <2>1, ExcludedStarts
<1>8. CASE /\ s.phase = "CollectingConfirmations" /\ n >= s.deadline + 2 * KeyGenTimeout /\ owing(s) = {}
           /\ r = restartKeyGenExcluding(v, s, excludeAllOthers(s, s.confirmations), d)
  <2>1. v \in s.confirmations
    BY <1>2, <1>8, PassingConfirmed
  <2> QED BY <1>1, <1>8, <2>1, OthersStart
<1> QED BY <1>2, <1>4, <1>5, <1>6, <1>7, <1>8 DEF TimesOut

\* What a block does to the validators.
BlockStep ==
    \A v \in Honest :
        LET r == onNewBlock(v, view[v], block + 1)
        IN  /\ view'[v] = r.s /\ r.setup \subseteq setups' /\ r.setup \subseteq {<<v, groupOf(view'[v])>>}
            /\ Onward(view[v], r)
            /\ ~Due(view[v], block + 1) => view'[v].epoch = view[v].epoch
            /\ v \in Sound => Renews(view[v], view'[v])

\* Every validator handles the block.
LEMMA NewBlockStep ==
  ASSUME ShareInv, LockInv, newBlock
  PROVE  /\ BlockStep
         /\ \A v, g : <<v, g>> \in setups' => <<v, g>> \in setups \/ g = groupOf(view'[v])
<1>1. PICK f : f = [v \in Honest |-> onNewBlock(v, view[v], block + 1)]
  OBVIOUS
<1>2. /\ view' = [v \in Honest |-> IF v \in Honest THEN f[v].s ELSE view[v]]
      /\ setups' = {e \in setups : e[2] \in held(view')} \cup UNION {f[v].setup : v \in Honest}
  BY <1>1 DEF newBlock, Apply
<1>3. block + 1 \in Nat /\ \A v \in Honest : EpochOk(view[v]) /\ ViewOk(v, view[v]) /\ (v \in Sound => RoundOpen(v, view[v]))
  BY DEF LockInv, ShareInv, ViewsOk, RoundsOpen
<1>4. ASSUME NEW v \in Honest, NEW r, r = onNewBlock(v, view[v], block + 1)
      PROVE  /\ view'[v] = r.s /\ r.setup \subseteq setups' /\ r.setup \subseteq {<<v, groupOf(view'[v])>>}
             /\ Onward(view[v], r)
             /\ ~Due(view[v], block + 1) => view'[v].epoch = view[v].epoch
             /\ v \in Sound => Renews(view[v], view'[v])
  <2>1. f[v] = r
    BY <1>1, <1>4
  <2>2. view'[v] = r.s /\ r.setup \subseteq setups'
    BY <1>2, <2>1
  <2>3. Moves(view[v], r, {}) /\ Goes(v, view[v], r) /\ (~Due(view[v], block + 1) => r.s.epoch = view[v].epoch)
    BY <1>3, <1>4, BlockMoves
  <2>4. r.setup \subseteq {<<v, groupOf(r.s)>>}
    BY <1>3, <1>4, BlockSetup
  <2>5. Onward(view[v], r)
    BY <2>3, MovesOnward
  <2>6. v \in Sound => Renews(view[v], r.s)
    BY <1>3, <2>3 DEF Goes
  <2> QED BY <2>2, <2>3, <2>4, <2>5, <2>6
<1>5. BlockStep
  BY <1>4 DEF BlockStep
<1>6. ASSUME NEW v, NEW g, <<v, g>> \in setups', <<v, g>> \notin setups
      PROVE  g = groupOf(view'[v])
  <2>1. PICK u \in Honest : <<v, g>> \in f[u].setup
    BY <1>2, <1>6
  <2>2. f[u] = onNewBlock(u, view[u], block + 1)
    BY <1>1
  <2>3. <<v, g>> = <<u, groupOf(view'[u])>>
    BY <1>4, <2>1, <2>2
  <2> QED BY <2>3
<1> QED BY <1>5, <1>6

\* The ceremonies that are followed are kept.
LEMMA CeremonyHeld ==
  ASSUME newBlock, NEW g
  PROVE  /\ g \in DOMAIN chain' => g \in DOMAIN chain /\ chain'[g] = chain[g]
         /\ g \in held(view') => ceremony(g)' = ceremony(g)
<1>1. chain' = [h \in DOMAIN chain \cap held(view') |-> chain[h]]
  BY DEF newBlock
<1> QED BY <1>1 DEF ceremony

\* A block leaves the ceremonies in order and the queue prompt.
LEMMA NewBlockQueue ==
  ASSUME LockInv, StayInv, delays \in Nat, newBlock
  PROVE  CeremoniesInOrder' /\ QueueGood' /\ Prompt' /\ delays' \in Nat
<1>1. /\ block' = block + 1 /\ pool' = {tx \in pool : tx.group \in held(view')}
      /\ delays' = IF setups = {} /\ (\A tx \in pool : tx.queued < block => ~accepts(tx))
                   THEN delays ELSE delays + 1
  BY DEF newBlock
<1>2. CeremoniesInOrder'
  BY CeremonyHeld DEF StayInv, CeremoniesInOrder
<1>3. block \in Nat /\ delays' \in Nat
  BY <1>1 DEF LockInv
<1>4. ASSUME NEW x \in pool' PROVE x \in pool /\ ceremony(x.group)' = ceremony(x.group)
  BY <1>1, <1>4, CeremonyHeld
<1>5. QueueGood'
  <2>1. SUFFICES ASSUME NEW x \in pool' PROVE TxOk(x)'
    BY DEF QueueGood
  <2>2. TxOk(x)
    BY <1>4 DEF StayInv, QueueGood
  <2>3. /\ x.group.members \subseteq Participants
        /\ x.queued \in Nat /\ x.queued <= block /\ x.valid = TRUE /\ x.bad = {}
        /\ x.kind = "complain" => /\ x.peer \in Faulty \cap ceremony(x.group)'.shared
                                  /\ AllIn(x.group, DOMAIN ceremony(x.group)'.committed)
    BY <1>4, <2>2 DEF TxOk
  <2>4. x.queued <= block'
    BY <1>1, <1>3, <2>3
  <2> QED BY <2>3, <2>4, Zenon DEF TxOk, AllIn
<1>6. Prompt'
  <2>1. SUFFICES ASSUME delays' = 0, NEW x \in pool', x.kind = "complain", accepts(x)'
                 PROVE  x.queued >= block' - 1
    BY DEF Prompt
  <2>2. \A tx \in pool : tx.queued < block => ~accepts(tx)
    BY <1>1, <2>1
  <2>3. accepts(x)
    <3>1. PICK c : c = ceremony(x.group)
      OBVIOUS
    <3>2. Disputes(x, c)
      BY <1>4, <2>1, <3>1, AcceptedNext
    <3> QED BY <2>1, <3>1, <3>2, AcceptedNow
  <2>4. x.queued \in Nat
    BY <1>4 DEF StayInv, QueueGood, TxOk
  <2> QED BY <1>1, <1>3, <1>4, <2>2, <2>3, <2>4
<1> QED BY <1>2, <1>3, <1>5, <1>6

\* A block leaves traces of past groups only.
LEMMA NewBlockTraces ==
  ASSUME ShareInv, LockInv, StayInv, newBlock
  PROVE  TracesPast' /\ NewUntraced'
<1>1. /\ pool' \subseteq pool /\ store' \subseteq store
      /\ lost' = {v \in lost : view'[v].epoch = view[v].epoch}
  BY DEF newBlock, retainedSecrets
<1>2. /\ BlockStep
      /\ \A v, g : <<v, g>> \in setups' => <<v, g>> \in setups \/ g = groupOf(view'[v])
  BY NewBlockStep
<1>3. TracesPast /\ NewUntraced /\ \A v \in Honest : EpochOk(view[v])
  BY DEF StayInv, LockInv
<1>4. \A v \in Honest : Advances(v)
  <2>1. SUFFICES ASSUME NEW v \in Honest PROVE Advances(v)
    OBVIOUS
  <2>2. PICK r : r = onNewBlock(v, view[v], block + 1)
    OBVIOUS
  <2>3. Onward(view[v], r) /\ view'[v] = r.s
    BY <1>2, <2>2 DEF BlockStep
  <2>4. v \in Sound' /\ view'[v].epoch = view[v].epoch => v \in Sound
    BY <1>1, SoundNext
  <2> QED BY <1>3, <2>3, <2>4, OnwardAdvances
<1>5. \A v \in Sound' : view'[v].epoch = view[v].epoch => Renews(view[v], view'[v])
  BY <1>1, <1>2, SoundNext DEF BlockStep
<1>6. \A v \in Honest : \A g : Traced(v, g)' => Traced(v, g)
  BY <1>1, CeremonyHeld DEF Traced
<1>7. TracesPast'
  BY <1>2, <1>3, <1>4, <1>6, TracesForward
<1>8. NewUntraced'
  BY <1>1, <1>3, <1>4, <1>5, <1>6, UntracedForward
<1> QED BY <1>7, <1>8

\* The epochs that are kept make no difference.
LEMMA LikeInTime ==
  ASSUME NEW v, NEW s, NEW t, Same(s, t), groupOf(s) = groupOf(t), t.own = s.own, t.shares = s.shares,
         t.status = s.status, NEW c, NEW P, NEW U, NEW b, InTime(v, s, c, P, U, b)
  PROVE  InTime(v, t, c, P, U, b)
<1>1. /\ s.phase = t.phase /\ s.epoch = t.epoch /\ s.members = t.members
      /\ s.commitments = t.commitments /\ s.keys = t.keys /\ s.total = t.total
      /\ s.unresponded = t.unresponded /\ s.confirmations = t.confirmations
      /\ s.deadline = t.deadline
  BY SameFields
<1>2. Joins(v, t) /\ (Commits(v, s, c, P, U, b) => Commits(v, t, c, P, U, b))
  BY <1>1 DEF InTime, Joins, Commits
<1>3. lastComplaint(s, b) = lastComplaint(t, b)
  BY <1>1 DEF lastComplaint
<1>4. /\ Tallies(s, c) => Tallies(t, c)
      /\ Answers(v, s, c, P, b) => Answers(v, t, c, P, b)
      /\ Complains(v, s, c, P, b) => Complains(v, t, c, P, b)
  BY <1>1, <1>3 DEF Tallies, Answers, Complains
<1>5. /\ SharesIn(v, s, c, P, b) => SharesIn(v, t, c, P, b)
      /\ ConfirmsIn(v, s, c, P, b) => ConfirmsIn(v, t, c, P, b)
  BY <1>1 DEF SharesIn, ConfirmsIn
<1> QED BY <1>1, <1>2, <1>4, <1>5 DEF InTime

\* After a block all are in time.
LEMMA NewBlockInTime ==
  ASSUME OneFaulty, ShareInv, LockInv, StayInv, delays \in Nat, newBlock
  PROVE  AllInTime'
<1>1. /\ block' = block + 1 /\ pool' = {tx \in pool : tx.group \in held(view')}
      /\ lost' = {v \in lost : view'[v].epoch = view[v].epoch}
      /\ delays' = IF setups = {} /\ (\A tx \in pool : tx.queued < block => ~accepts(tx))
                   THEN delays ELSE delays + 1
  BY DEF newBlock
<1>2. BlockStep /\ NewUntraced' /\ block \in Nat
  BY NewBlockStep, NewBlockTraces DEF LockInv
<1>3. SUFFICES ASSUME delays' = 0, NEW v \in Sound', NEW t, t = view'[v], Member(v, t),
                      NEW g, g = groupOf(t), NEW c, c = ceremony(g)'
               PROVE  InTime(v, t, c, pool', setups', block')
  BY AllInTimeNext
<1>4. delays = 0 /\ setups = {} /\ Punctual(pool, block)
  BY <1>1, <1>3 DEF Punctual
<1>5. v \in Honest /\ (t.epoch = view[v].epoch => v \in Sound)
  BY <1>1, <1>3, SoundNext
<1>6. PICK b \in Nat : b = block + 1
  BY <1>2
<1>7. PICK s, r : s = view[v] /\ r = onNewBlock(v, s, b)
  OBVIOUS
<1>8. t = r.s /\ r.setup \subseteq setups' /\ (~Due(s, b) => t.epoch = s.epoch) /\ ViewOk(v, s)
  BY <1>2, <1>3, <1>5, <1>6, <1>7 DEF BlockStep, ShareInv, ViewsOk
<1>9. PICK D : D = b + KeyGenTimeout
  OBVIOUS
<1>10. ASSUME NEW q, Like(q, r), Starts(v, q, D), v \in q.s.members
       PROVE  InTime(v, t, c, pool', setups', block')
  <2>1. /\ Same(q.s, t) /\ t.epoch # 0 /\ block' \in Nat /\ groupOf(t) = groupOf(q.s)
        /\ t.own = q.s.own /\ t.shares = q.s.shares /\ q.setup \subseteq setups'
    BY <1>1, <1>2, <1>3, <1>8, <1>10 DEF Like, Member
  <2>2. D = block' + KeyGenTimeout
    BY <1>1, <1>6, <1>9
  <2> QED BY <1>2, <1>3, <1>10, <2>1, <2>2, BegunInTime
<1>11. ASSUME NEW q, Like(q, r), Stops(q) PROVE FALSE
  <2>1. t.phase = q.s.phase
    BY <1>8, <1>11, SameFields DEF Like
  <2> QED BY <1>3, <1>11, <2>1 DEF Stops, Member
<1>12. CASE Due(s, b)
  <2>1. PICK q : q = TakenUp(v, s, b)
    OBVIOUS
  <2>2. Like(q, r)
    BY <1>7, <1>8, <1>12, <2>1, DueLike
  <2>3. Starts(v, q, D) /\ q.s.members = activeIn(q.s.epoch)
    BY <1>9, <1>11, <2>1, <2>2, TakenStarts
  <2>4. t.epoch = q.s.epoch
    BY <1>8, <2>2, SameFields DEF Like
  <2>5. v \in q.s.members
    BY <1>3, <2>3, <2>4 DEF Member
  <2> QED BY <1>10, <2>2, <2>3, <2>5
<1>13. CASE ~Due(s, b)
  <2>1. PICK q : q = keyGenTimeouts(v, s, b)
    OBVIOUS
  <2>2. Like(q, r)
    BY <1>7, <1>8, <1>13, <2>1, UndueLike
  <2>3. v \in Sound /\ s.epoch # 0 /\ v \in activeIn(s.epoch)
    BY <1>3, <1>5, <1>7, <1>8, <1>13 DEF Member
  <2>4. s.phase \in Collecting
    <3>1. SUFFICES ASSUME s.phase \notin Collecting PROVE FALSE
      OBVIOUS
    <3>2. q = stay(s)
      BY <2>1, <3>1 DEF keyGenTimeouts, Collecting
    <3>3. Stops(q)
      BY <3>1, <3>2, ResultOf DEF Stops
    <3> QED BY <1>11, <2>2, <3>3
  <2>5. PICK h, e : h = groupOf(s) /\ e = ceremony(h)
    OBVIOUS
  <2>6. InTime(v, s, e, pool, setups, block)
    BY <1>4, <1>7, <2>3, <2>4, <2>5 DEF StayInv, AllInTime, Member
  <2>7. Fit(v, s, h, e)
    <3>1. v \notin Faulty /\ RoundOpen(v, s) /\ CeremonyOk(h, e)
      BY <1>5, <1>7, <2>3, <2>5, CeremonyInOrder, ConfigAssumption DEF LockInv, RoundsOpen, StayInv
    <3> QED BY <1>5, <1>8, <2>5, <3>1 DEF Fit
  <2>8. \A x \in pool : x.group = h => x.queued \in Nat /\ x.queued <= block
    BY DEF StayInv, QueueGood, TxOk
  <2>9. PICK P, U, n : P = pool /\ U = setups /\ n = block
    OBVIOUS
  <2>10. Passing(v, s, h, e, P, U, n)
    BY <1>2, <1>4, <2>6, <2>7, <2>8, <2>9 DEF Passing
  <2>11. D = n + 1 + KeyGenTimeout /\ q = keyGenTimeouts(v, s, n + 1) /\ b = n + 1
    BY <1>6, <1>9, <2>1, <2>9
  <2>12. (q = stay(s) /\ Open(s, n + 1)) \/ Stops(q) \/ (Starts(v, q, D) /\ v \in q.s.members)
    BY <2>3, <2>10, <2>11, PassingTimeout
  <2>13. CASE q = stay(s) /\ Open(s, n + 1)
    <3>1. PICK Q, W : Q = pool' /\ W = setups'
      OBVIOUS
    <3>2. InTime(v, s, e, P, W, n + 1)
      BY <2>10, <2>13, PassingInTime
    <3>3. Same(s, t) /\ groupOf(s) = groupOf(t) /\ t.own = s.own /\ t.shares = s.shares /\ t.status = s.status
      BY <1>8, <2>2, <2>13, ResultOf DEF Like
    <3>4. g = h /\ g \in held(view')
      BY <1>3, <1>5, <2>5, <3>3 DEF held, groupOf
    <3>5. c = e
      BY <1>3, <2>5, <3>4, CeremonyHeld
    <3>6. /\ \A x \in P : x.group = h => x \in Q
          /\ \A x \in Q : x.group = h => x \in P \/ (x.from # v /\ x.kind # "complain")
      BY <1>1, <2>9, <3>1, <3>4
    <3>7. InTime(v, s, e, Q, W, b)
      <4>1. InTime(v, s, e, P, W, b)
        BY <2>11, <3>2
      <4>2. <<v, h>> \in W /\ s.own = NoSecrets => <<v, h>> \in W
        OBVIOUS
      <4> QED BY <2>5, <3>6, <4>1, <4>2, FrameInTime
    <3>8. InTime(v, t, e, Q, W, b)
      BY <3>3, <3>7, LikeInTime
    <3> QED BY <1>1, <1>6, <3>1, <3>5, <3>8
  <2> QED BY <1>10, <1>11, <2>2, <2>12, <2>13
<1> QED BY <1>12, <1>13

----------------------------------------------------------------------------
(* Secrets                                                                 *)

\* The setup effects that run are those of a validator for a group, the
\* secrets that are stored those of a validator for a group.
Paired ==
    /\ \A e \in setups : e = <<e[1], e[2]>>
    /\ \A f \in store : f = <<f[1], f[2], f[3]>>

\* The first secrets of a validator for a group are number 1.
LEMMA FreshIs ==
  ASSUME NEW v, NEW g, \A tx \in pool : tx.from = v => tx.group # g,
         v \notin DOMAIN ceremony(g).committed
  PROVE  freshSecrets(v, g) = 1
<1>1. PICK used : used = {tx.version : tx \in {t \in pool : t.from = v /\ t.group = g}}
                           \cup {ceremony(g).committed[p] : p \in {v} \cap DOMAIN ceremony(g).committed}
  OBVIOUS
<1>2. used = {}
  BY <1>1
<1>3. PICK k : k = CHOOSE n \in 1 .. 4 : n \notin used /\ \A j \in 1 .. n - 1 : j \in used
  OBVIOUS
<1>4. 1 \in 1 .. 4 /\ 1 \notin used /\ \A j \in 1 .. 1 - 1 : j \in used
  BY <1>2
<1>5. k \in 1 .. 4 /\ k \notin used /\ \A j \in 1 .. k - 1 : j \in used
  BY <1>3, <1>4
<1>6. k = 1
  <2>1. k > 1 => 1 \in 1 .. k - 1
    BY <1>5
  <2> QED BY <1>2, <1>5, <2>1
<1> QED BY <1>1, <1>3, <1>6 DEF freshSecrets

\* What secrets do to a validator that waits for them, and to any other.
Equips(v, s, version, r) ==
    /\ v \notin DOMAIN s.commitments
    /\ r = result([s EXCEPT !.own = version], {action("commit", s, v, version)}, {})

\* Secrets are taken by who waits for them, and by nobody else.
LEMMA SetupCases ==
  ASSUME NEW v, NEW s, ViewOk(v, s), RoundOpen(v, s), NEW g, NEW version,
         NEW r, r = onSetup(v, s, g, version)
  PROVE  \/ r = stay(s) /\ ~Unset(s, g)
         \/ Unset(s, g) /\ Equips(v, s, version, r)
<1>1. CASE ~(s.phase = "CollectingCommitments" /\ s.own = NoSecrets /\ inGroup(s, g))
  BY <1>1 DEF onSetup, Unset, inGroup, groupOf
<1>2. CASE s.phase = "CollectingCommitments" /\ s.own = NoSecrets /\ inGroup(s, g)
  <2>1. ~complete(s, DOMAIN s.commitments)
    <3>1. SUFFICES ASSUME complete(s, DOMAIN s.commitments) PROVE FALSE
      OBVIOUS
    <3>2. DOMAIN s.commitments = s.members
      BY <3>1, AllCommitted
    <3>3. s.members = {}
      BY <1>2, <3>2 DEF RoundOpen, Lacks
    <3> QED BY <1>2, <3>3 DEF ViewOk, NoSecrets, Observing
  <2>2. v \notin DOMAIN s.commitments
    BY <1>2 DEF RoundOpen, NoSecrets
  <2>3. r = result([s EXCEPT !.own = version], {action("commit", s, v, version)}, {})
    BY <1>2, <2>1, <2>2 DEF onSetup, publishes
  <2> QED BY <1>2, <2>2, <2>3 DEF Unset, Equips, inGroup, groupOf
<1> QED BY <1>1, <1>2

\* A setup queues commitments and secret shares.
LEMMA SetupActs ==
  ASSUME NEW v, NEW s, NEW g, NEW version, NEW r, r = onSetup(v, s, g, version)
  PROVE  \A a \in r.acts : a.kind \in {"commit", "share"}
<1>1. CASE ~(s.phase = "CollectingCommitments" /\ s.own = NoSecrets /\ inGroup(s, g))
  BY <1>1, ResultOf DEF onSetup
<1>2. CASE s.phase = "CollectingCommitments" /\ s.own = NoSecrets /\ inGroup(s, g)
  <2>2. PICK filled : filled = [s EXCEPT !.own = version]
    OBVIOUS
  <2>3. PICK commit : commit = IF publishes(v, s) THEN {action("commit", s, v, version)} ELSE {}
    OBVIOUS
  <2>4. \A a \in commit : a.kind = "commit"
    BY <2>3 DEF action
  <2>6. CASE ~complete(s, DOMAIN s.commitments)
    <3>1. r = result(filled, commit, {})
      BY <1>2, <2>2, <2>3, <2>6 DEF onSetup
    <3> QED BY <2>4, <3>1, ResultOf
  <2>7. CASE complete(s, DOMAIN s.commitments)
    <3>1. PICK closed : closed = finalizeKeyGenCommitments(v, filled, pushed(s, s.deadline))
      OBVIOUS
    <3>3. r = [closed EXCEPT !.acts = @ \cup commit]
      BY <1>2, <2>2, <2>3, <2>7, <3>1 DEF onSetup
    <3>4. \E x, a, e : closed = result(x, a, e) /\ (a = {} \/ a = {action("share", filled, v, filled.own)})
      BY <3>1 DEF finalizeKeyGenCommitments, rolloverFailure, stay
    <3>5. PICK x, a, e : closed = result(x, a, e) /\ (a = {} \/ a = {action("share", filled, v, filled.own)})
      BY <3>4
    <3>6. r.acts = a \cup commit
      BY <3>3, <3>5 DEF result
    <3>7. \A y \in a : y.kind = "share"
      BY <3>5 DEF action
    <3> QED BY <2>4, <3>6, <3>7
  <2> QED BY <2>6, <2>7
<1> QED BY <1>1, <1>2

\* What performSetup does, to validator v that had s and gets r for group g.
SetupStep(v, g, s, version, r) ==
    /\ s = view[v] /\ r = onSetup(v, s, g, version)
    /\ version = storedVersion({f \in store : f[1] = v /\ f[2] = g}, freshSecrets(v, g))
    /\ view'[v] = r.s /\ \A u \in Honest : u # v => view'[u] = view[u]
    /\ block \in Nat /\ ViewOk(v, s) /\ EpochOk(s) /\ Onward(s, r) /\ r.s.epoch = s.epoch
    /\ <<v, g>> \in setups
    /\ \A f \in setups : f # <<v, g>> => f \in setups'
    /\ \A f \in setups' : f \in setups
    /\ \A f \in store' : f \in store \/ f = <<v, g, version>>
    /\ Sound' = Sound /\ (v \in Sound => RoundOpen(v, s))
    /\ pool' = pool \cup {queuedAs(v, a) : a \in r.acts}
    /\ UNCHANGED <<block, chain, delays>>

\* performSetup is such a step.
LEMMA SetupSteps ==
  ASSUME ShareInv, LockInv, SetupsOk, Paired, NEW e \in setups, performSetup(e)
  PROVE  \E v \in Honest : \E g, s, version, r : SetupStep(v, g, s, version, r)
<1>1. PICK v \in Honest : v = e[1]
  BY DEF SetupsOk
<1>2. PICK g : g = e[2]
  OBVIOUS
<1>3. PICK s : s = view[v]
  OBVIOUS
<1>4. PICK version : version = storedVersion({f \in store : f[1] = v /\ f[2] = g}, freshSecrets(v, g))
  OBVIOUS
<1>5. PICK r : r = onSetup(v, s, g, version)
  OBVIOUS
<1>6. /\ Apply({v}, [u \in {v} |-> r], block) /\ pool' = pool \cup encoded(v, r.acts)
      /\ setups' = setups \ {e}
      /\ store' = (store \ {f \in store : f[1] = v /\ f[2] = g}) \cup {<<v, g, version>>}
      /\ UNCHANGED <<block, chain, lost, delays>>
  BY <1>1, <1>2, <1>3, <1>4, <1>5 DEF performSetup
<1>7. e = <<v, g>>
  BY <1>1, <1>2 DEF Paired
<1>8. ViewOk(v, s) /\ EpochOk(s) /\ block \in Nat
  BY <1>3 DEF LockInv, ShareInv, ViewsOk
<1>9. Onward(s, r) /\ r.s.epoch = s.epoch
  <2>1. Moves(s, r, {}) /\ r.s.epoch = s.epoch
    BY <1>5, <1>8, SetupMoves, SetupEpoch
  <2> QED BY <2>1, MovesOnward
<1>10. view'[v] = r.s /\ \A u \in Honest : u # v => view'[u] = view[u]
  BY <1>6 DEF Apply
<1>11. Sound' = Sound /\ (v \in Sound => RoundOpen(v, s))
  BY <1>3, <1>6 DEF Sound, LockInv, RoundsOpen
<1>12. pool' = pool \cup {queuedAs(v, a) : a \in r.acts}
  BY <1>6 DEF encoded, queuedAs
<1>13. /\ <<v, g>> \in setups
       /\ \A f \in setups : f # <<v, g>> => f \in setups'
       /\ \A f \in setups' : f \in setups
       /\ \A f \in store' : f \in store \/ f = <<v, g, version>>
  BY <1>6, <1>7
<1> QED BY <1>3, <1>4, <1>5, <1>6, <1>8, <1>9, <1>10, <1>11, <1>12, <1>13 DEF SetupStep

\* A validator that waits for its secrets gets new ones.
LEMMA SetupFresh ==
  ASSUME StayInv, Paired, NEW v \in Sound, NEW g, NEW s, NEW version, NEW r, SetupStep(v, g, s, version, r),
         Unset(s, g), s.epoch # 0
  PROVE  version = 1 /\ \A tx \in pool : tx.from = v => tx.group # g
<1>1. ~Traced(v, g) /\ \A tx \in pool : tx.from = v => tx.group # g
  BY DEF StayInv, NewUntraced, SetupStep, Unset
<1>2. v \notin DOMAIN ceremony(g).committed
  <2>1. DOMAIN opened.committed = {}
    BY DEF opened
  <2> QED BY <1>1, <2>1 DEF ceremony, Traced
<1>3. freshSecrets(v, g) = 1
  BY <1>1, <1>2, FreshIs
<1>4. {f \in store : f[1] = v /\ f[2] = g} = {}
  BY <1>1 DEF Paired, Traced
<1>5. version = storedVersion({}, 1)
  BY <1>3, <1>4 DEF SetupStep
<1> QED BY <1>1, <1>5 DEF storedVersion

\* The queue gets commitments and secret shares only.
LEMMA SetupQueue ==
  ASSUME StayInv, NEW v \in Honest, NEW g, NEW s, NEW version, NEW r, SetupStep(v, g, s, version, r)
  PROVE  /\ CeremoniesInOrder' /\ QueueGood' /\ Prompt'
         /\ \A x \in pool' : x \in pool \/ (x.from = v /\ x.group = groupOf(s) /\ x.kind # "complain")
<1>1. ASSUME NEW x \in pool', x \notin pool
      PROVE  /\ x.from = v /\ x.group = groupOf(s) /\ x.kind # "complain"
             /\ x.valid = TRUE /\ x.bad = {} /\ x.queued = block
  <2>1. PICK a \in r.acts : x = queuedAs(v, a)
    BY <1>1 DEF SetupStep
  <2>2. a.kind \in {"commit", "share"}
    BY SetupActs DEF SetupStep
  <2>3. a.group = groupOf(s)
    BY DEF SetupStep, Onward
  <2> QED BY <2>1, <2>2, <2>3 DEF queuedAs
<1>2. UNCHANGED <<block, chain, delays>> /\ block \in Nat
  BY DEF SetupStep
<1>3. \A h : ceremony(h)' = ceremony(h)
  BY <1>2 DEF ceremony
<1>4. CeremoniesInOrder'
  BY <1>2 DEF StayInv, CeremoniesInOrder
<1>5. QueueGood'
  <2>1. SUFFICES ASSUME NEW x \in pool' PROVE TxOk(x)'
    BY DEF QueueGood
  <2>2. CASE x \in pool
    <3>1. TxOk(x)
      BY <2>2 DEF StayInv, QueueGood
    <3> QED BY <1>2, <1>3, <3>1 DEF TxOk
  <2>3. CASE x \notin pool
    <3>1. x.group.members \subseteq Participants
      <4>1. x.group = groupOf(s) /\ s.members \subseteq Participants
        BY <1>1, <2>1, <2>3 DEF SetupStep, ViewOk
      <4> QED BY <4>1 DEF groupOf, groupId
    <3>2. x.queued \in Nat /\ x.queued <= block'
      <4>1. x.queued = block
        BY <1>1, <2>1, <2>3
      <4> QED BY <1>2, <4>1
    <3>3. x.valid = TRUE /\ x.bad = {} /\ x.kind # "complain"
      BY <1>1, <2>1, <2>3
    <3> QED BY <3>1, <3>2, <3>3, Zenon DEF TxOk
  <2> QED BY <2>2, <2>3
<1>6. Prompt'
  <2>1. SUFFICES ASSUME delays' = 0, NEW x \in pool', x.kind = "complain", accepts(x)'
                 PROVE  x.queued >= block' - 1
    BY DEF Prompt
  <2>2. x \in pool
    BY <1>1, <2>1
  <2>3. accepts(x)
    BY <1>3, <2>1, AcceptedNow, AcceptedNext
  <2> QED BY <1>2, <2>1, <2>2, <2>3 DEF StayInv, Prompt
<1> QED BY <1>1, <1>4, <1>5, <1>6

\* Secrets are stored for the groups whose setups run.
LEMMA SetupTraces ==
  ASSUME LockInv, StayInv, NEW v \in Honest, NEW g, NEW s, NEW version, NEW r,
         SetupStep(v, g, s, version, r)
  PROVE  TracesPast'
<1>1. ASSUME NEW u \in Honest PROVE Advances(u)
  <2>1. EpochOk(view[u]) /\ Sound' = Sound
    BY DEF LockInv, SetupStep
  <2>2. CASE u = v
    <3>1. Onward(view[u], r) /\ view'[u] = r.s
      BY <2>2 DEF SetupStep
    <3> QED BY <2>1, <3>1, OnwardAdvances
  <2>3. CASE u # v
    <3>1. view'[u] = view[u]
      BY <2>3 DEF SetupStep
    <3> QED BY <2>1, <3>1 DEF Advances, EpochOk
  <2> QED BY <2>2, <2>3
<1>2. ASSUME NEW u \in Honest, NEW h, Traced(u, h)' PROVE Traced(u, h) \/ <<u, h>> \in setups
  <2>1. chain' = chain /\ \A f \in store' : f \in store \/ f = <<v, g, version>>
    BY DEF SetupStep
  <2>2. ASSUME NEW k, <<u, h, k>> \in store' PROVE <<u, h, k>> \in store \/ (u = v /\ h = g)
    BY <2>1, <2>2
  <2>3. <<v, g>> \in setups
    BY DEF SetupStep
  <2> QED BY <1>2, <2>1, <2>2, <2>3 DEF Traced
<1>3. \A u \in Honest : \A h : <<u, h>> \in setups' => <<u, h>> \in setups
  BY DEF SetupStep
<1>4. TracesPast
  BY DEF StayInv
<1> QED BY <1>1, <1>2, <1>3, <1>4, TracesForward

\* Who still waits for secrets has none.
LEMMA SetupUntraced ==
  ASSUME StayInv, Paired, NEW v \in Honest, NEW g, NEW s, NEW version, NEW r,
         SetupStep(v, g, s, version, r)
  PROVE  NewUntraced'
<1>1. SUFFICES ASSUME NEW u \in Sound, NEW t, t = view'[u], t.phase = "CollectingCommitments",
                      t.own = NoSecrets, t.epoch # 0, NEW h, h = groupOf(t)
               PROVE  ~Traced(u, h)' /\ \A tx \in pool' : tx.from = u => tx.group # h
  BY DEF NewUntraced, SetupStep
<1>2. u \in Honest
  BY DEF Sound
<1>3. /\ t = view[u]
      /\ u = v => g # h
  <2>1. CASE u # v
    BY <1>1, <1>2, <2>1 DEF SetupStep
  <2>2. CASE u = v
    <3>1. t = r.s /\ s = view[v] /\ ViewOk(v, s) /\ RoundOpen(v, s) /\ r = onSetup(v, s, g, version)
          /\ r.s.epoch = s.epoch
      BY <1>1, <2>2 DEF SetupStep
    <3>2. CASE r = stay(s) /\ ~Unset(s, g)
      BY <1>1, <2>2, <3>1, <3>2, ResultOf DEF Unset
    <3>3. CASE Unset(s, g) /\ Equips(v, s, version, r)
      <4>1. version = 1
        BY <1>1, <2>2, <3>1, <3>3, SetupFresh
      <4>2. r.s = [s EXCEPT !.own = version]
        BY <3>3, ResultOf DEF Equips
      <4>3. r.s.own = 1
        BY <3>1, <4>1, <4>2 DEF ViewOk, Fields
      <4> QED BY <1>1, <3>1, <4>3 DEF NoSecrets
    <3> QED BY <3>1, <3>2, <3>3, SetupCases
  <2> QED BY <2>1, <2>2
<1>4. ~Traced(u, h) /\ \A tx \in pool : tx.from = u => tx.group # h
  BY <1>1, <1>3 DEF StayInv, NewUntraced
<1>5. ~Traced(u, h)'
  <2>1. chain' = chain /\ \A f \in store' : f \in store \/ f = <<v, g, version>>
    BY DEF SetupStep
  <2>2. ASSUME NEW k, <<u, h, k>> \in store' PROVE <<u, h, k>> \in store
    BY <1>3, <2>1, <2>2
  <2> QED BY <1>4, <2>1, <2>2 DEF Traced
<1>6. ASSUME NEW tx \in pool', tx.from = u PROVE tx.group # h
  <2>1. CASE tx \in pool
    BY <1>4, <1>6, <2>1
  <2>2. CASE tx \notin pool
    <3>1. PICK a \in r.acts : tx = queuedAs(v, a)
      BY <1>6, <2>2 DEF SetupStep
    <3>2. u = v
      BY <1>6, <3>1 DEF queuedAs
    <3>3. s = view[v] /\ ViewOk(v, s) /\ RoundOpen(v, s) /\ r = onSetup(v, s, g, version)
      BY <1>1, <3>2 DEF SetupStep
    <3>4. ~Unset(s, g)
      BY <1>1, <1>3, <3>2, <3>3 DEF Unset
    <3>5. r = stay(s)
      BY <3>3, <3>4, SetupCases
    <3> QED BY <3>1, <3>5, ResultOf
  <2> QED BY <2>1, <2>2
<1> QED BY <1>5, <1>6

\* After the commitments the setups do not matter.
LEMMA LaterInTime ==
  ASSUME NEW v, NEW s, s.phase # "CollectingCommitments", NEW c, NEW P, NEW U, NEW W, NEW b,
         InTime(v, s, c, P, U, b)
  PROVE  InTime(v, s, c, P, W, b)
  BY DEF InTime

\* The commitment is queued as soon as there are secrets.
LEMMA EquippedInTime ==
  ASSUME NEW v, NEW s, ViewOk(v, s), NEW g, Unset(s, g), NEW r, Equips(v, s, 1, r),
         NEW c, NEW P, NEW U, block \in Nat, InTime(v, s, c, P, U, block),
         \A x \in P : x.from = v => x.group # g,
         NEW Q, Q = P \cup {queuedAs(v, a) : a \in r.acts}, NEW W
  PROVE  InTime(v, r.s, c, Q, W, block)
<1>1. PICK t : t = [s EXCEPT !.own = 1]
  OBVIOUS
<1>2. PICK a : a = action("commit", s, v, 1)
  OBVIOUS
<1>3. r.s = t /\ r.acts = {a} /\ v \notin DOMAIN s.commitments
  BY <1>1, <1>2, ResultOf DEF Equips
<1>4. /\ t.phase = "CollectingCommitments" /\ t.members = s.members /\ t.epoch = s.epoch /\ t.own = 1
      /\ t.deadline = s.deadline /\ t.shares = s.shares /\ t.commitments = s.commitments
  BY <1>1 DEF ViewOk, Fields, Unset
<1>5. groupOf(t) = g /\ groupOf(s) = g
  BY <1>4 DEF Unset, groupOf
<1>6. Joins(v, s) /\ Commits(v, s, c, P, U, block)
  BY DEF InTime, Unset
<1>7. Joins(v, t)
  BY <1>4, <1>6 DEF Joins, Observing
<1>8. PICK y : y = queuedAs(v, a)
  OBVIOUS
<1>9. Q = P \cup {y}
  BY <1>3, <1>8
<1>10. /\ y.from = v /\ y.kind = "commit" /\ y.group = g /\ y.peer = v /\ y.version = 1
       /\ y.queued = block
  <2>1. a.kind = "commit" /\ a.group = groupOf(s) /\ a.peer = v /\ a.version = 1
    BY <1>2, ActionIs
  <2> QED BY <1>5, <1>8, <2>1 DEF queuedAs
<1>11. v \notin DOMAIN c.committed
  BY <1>3, <1>6 DEF Commits
<1>12. block + KeyGenTimeout <= s.deadline
  <2>1. ~Waits(P, block, "commit", v, groupOf(s), v, s.deadline - KeyGenTimeout)
    BY <1>5 DEF Waits
  <2> QED BY <1>3, <1>6, <2>1 DEF Commits
<1>13. Waits(Q, block, "commit", v, groupOf(t), v, t.deadline - KeyGenTimeout)
  <2>1. y.queued \in Nat /\ y.queued >= block - 1 /\ y.queued <= t.deadline - KeyGenTimeout
    BY <1>4, <1>6, <1>10, <1>12, ConfigAssumption DEF Joins
  <2> QED BY <1>5, <1>9, <1>10, <2>1 DEF Waits
<1>14. \A tx \in Q : tx.from = v /\ tx.kind = "commit" /\ tx.group = groupOf(t) => tx.version # 0
  BY <1>5, <1>9, <1>10
<1>15. Commits(v, t, c, Q, W, block)
  BY <1>4, <1>6, <1>11, <1>13, <1>14 DEF Commits
<1> QED BY <1>3, <1>4, <1>7, <1>15 DEF InTime

\* After a setup all are in time.
LEMMA SetupInTime ==
  ASSUME StayInv, Paired, NEW v \in Honest, NEW g, NEW s, NEW version, NEW r,
         SetupStep(v, g, s, version, r)
  PROVE  AllInTime'
<1>1. SUFFICES ASSUME delays' = 0, NEW u \in Sound', NEW t, t = view'[u], Member(u, t),
                      NEW h, h = groupOf(t), NEW c, c = ceremony(h)'
               PROVE  InTime(u, t, c, pool', setups', block')
  BY AllInTimeNext
<1>2. u \in Sound /\ u \in Honest /\ delays = 0 /\ block' = block /\ block \in Nat
  BY <1>1 DEF SetupStep, Sound
<1>3. c = ceremony(h)
  BY <1>1 DEF SetupStep, ceremony
<1>4. PICK P : P = pool
  OBVIOUS
<1>5. PICK Q : Q = pool'
  OBVIOUS
<1>6. PICK U : U = setups
  OBVIOUS
<1>7. PICK W : W = setups'
  OBVIOUS
<1>8. PICK b : b = block
  OBVIOUS
<1>9. \A x \in Q : x \in P \/ (x.from = v /\ x.group = groupOf(s) /\ x.kind # "complain")
  BY <1>4, <1>5, SetupQueue
<1>10. P \subseteq Q
  BY <1>4, <1>5 DEF SetupStep
<1>11. \A f \in U : f # <<v, g>> => f \in W
  BY <1>6, <1>7 DEF SetupStep
<1>12. ASSUME t = view[u] PROVE InTime(u, t, c, P, U, b)
  BY <1>1, <1>2, <1>3, <1>4, <1>6, <1>8, <1>12 DEF StayInv, AllInTime
<1>13. CASE u # v
  <2>1. InTime(u, t, c, P, U, b)
    BY <1>1, <1>2, <1>12, <1>13 DEF SetupStep
  <2>2. \A x \in P : x.group = h => x \in Q
    BY <1>10
  <2>3. \A x \in Q : x.group = h => x \in P \/ (x.from # u /\ x.kind # "complain")
    BY <1>9, <1>13
  <2>4. <<u, h>> \in U /\ t.own = NoSecrets => <<u, h>> \in W
    BY <1>11, <1>13
  <2>5. InTime(u, t, c, Q, W, b)
    BY <1>1, <2>1, <2>2, <2>3, <2>4, FrameInTime
  <2> QED BY <1>2, <1>5, <1>7, <1>8, <2>5
<1>14. CASE u = v
  <2>1. t = r.s /\ s = view[v] /\ ViewOk(v, s) /\ RoundOpen(v, s) /\ r = onSetup(v, s, g, version)
        /\ r.s.epoch = s.epoch /\ Q = P \cup {queuedAs(v, a) : a \in r.acts}
    BY <1>1, <1>2, <1>4, <1>5, <1>14 DEF SetupStep
  <2>2. CASE r = stay(s) /\ ~Unset(s, g)
    <3>1. t = s /\ r.acts = {}
      BY <2>1, <2>2, ResultOf
    <3>2. InTime(v, t, c, P, U, b)
      BY <1>12, <1>14, <2>1, <3>1
    <3>3. Q = P
      BY <2>1, <3>1
    <3>4. CASE t.phase # "CollectingCommitments"
      BY <1>2, <1>5, <1>7, <1>8, <1>14, <3>2, <3>3, <3>4, LaterInTime
    <3>5. CASE t.phase = "CollectingCommitments"
      <4>1. <<v, h>> \in U /\ t.own = NoSecrets => <<v, h>> \in W
        BY <1>1, <1>11, <2>2, <3>1, <3>5 DEF Unset
      <4>2. \A x \in P : x.group = h => x \in Q
        BY <3>3
      <4>3. \A x \in Q : x.group = h => x \in P \/ (x.from # v /\ x.kind # "complain")
        BY <3>3
      <4>4. InTime(v, t, c, Q, W, b)
        BY <1>1, <3>2, <4>1, <4>2, <4>3, FrameInTime
      <4> QED BY <1>2, <1>5, <1>7, <1>8, <1>14, <4>4
    <3> QED BY <3>4, <3>5
  <2>3. CASE Unset(s, g) /\ Equips(v, s, version, r)
    <3>1. t = [s EXCEPT !.own = version]
      BY <2>1, <2>3, ResultOf DEF Equips
    <3>2. t.phase = s.phase /\ t.epoch = s.epoch /\ t.members = s.members
      BY <2>1, <3>1 DEF ViewOk, Fields
    <3>3. Member(v, s) /\ h = groupOf(s)
      BY <1>1, <1>14, <3>2 DEF Member, groupOf
    <3>4. InTime(v, s, c, P, U, block)
      BY <1>2, <1>3, <1>4, <1>6, <1>14, <2>1, <3>3 DEF StayInv, AllInTime
    <3>5. version = 1 /\ \A x \in P : x.from = v => x.group # g
      BY <1>2, <1>4, <1>14, <2>3, <3>3, SetupFresh DEF Member
    <3>6. InTime(v, r.s, c, Q, W, block)
      BY <1>2, <2>1, <2>3, <3>4, <3>5, EquippedInTime
    <3> QED BY <1>2, <1>5, <1>7, <1>14, <2>1, <3>6
  <2> QED BY <2>1, <2>2, <2>3, SetupCases
<1> QED BY <1>13, <1>14

----------------------------------------------------------------------------
(* The other steps                                                         *)

\* Nothing happened to the chain and the queue.
Still == UNCHANGED <<block, chain, pool, delays>>

\* Then ceremonies and queue are as good as before.
LEMMA StillQueue ==
  ASSUME StayInv, Still
  PROVE  CeremoniesInOrder' /\ QueueGood' /\ Prompt'
<1>1. UNCHANGED <<block, chain, pool, delays>>
  BY DEF Still
<1>2. \A h : ceremony(h)' = ceremony(h)
  BY <1>1 DEF ceremony
<1>3. CeremoniesInOrder'
  BY <1>1 DEF StayInv, CeremoniesInOrder
<1>4. QueueGood'
  <2>1. SUFFICES ASSUME NEW x \in pool' PROVE TxOk(x)'
    BY DEF QueueGood
  <2>2. TxOk(x)
    BY <1>1 DEF StayInv, QueueGood
  <2> QED BY <1>1, <1>2, <2>2 DEF TxOk
<1>5. Prompt'
  <2>1. SUFFICES ASSUME delays' = 0, NEW x \in pool', x.kind = "complain", accepts(x)'
                 PROVE  x.queued >= block' - 1
    BY DEF Prompt
  <2>2. accepts(x)
    BY <1>2, <2>1, AcceptedNow, AcceptedNext
  <2> QED BY <1>1, <2>1, <2>2 DEF StayInv, Prompt
<1> QED BY <1>3, <1>4, <1>5

\* A validator that lost nothing is not affected by a step that leaves its
\* state and its running setups alone.
LEMMA StillInTime ==
  ASSUME StayInv, Still, Sound' \subseteq Sound,
         \A u \in Sound' : Member(u, view'[u]) => view'[u] = view[u],
         \A u \in Sound' : \A g : <<u, g>> \in setups => <<u, g>> \in setups'
  PROVE  AllInTime'
<1>1. SUFFICES ASSUME delays' = 0, NEW u \in Sound', NEW t, t = view'[u], Member(u, t),
                      NEW h, h = groupOf(t), NEW c, c = ceremony(h)'
               PROVE  InTime(u, t, c, pool', setups', block')
  BY AllInTimeNext
<1>2. UNCHANGED <<block, chain, pool, delays>> /\ u \in Sound /\ t = view[u]
  BY <1>1 DEF Still
<1>3. c = ceremony(h)
  BY <1>1, <1>2 DEF ceremony
<1>4. PICK P : P = pool
  OBVIOUS
<1>5. PICK U : U = setups
  OBVIOUS
<1>6. PICK W : W = setups'
  OBVIOUS
<1>7. PICK b : b = block
  OBVIOUS
<1>8. InTime(u, t, c, P, U, b)
  BY <1>1, <1>2, <1>3, <1>4, <1>5, <1>7 DEF StayInv, AllInTime
<1>9. <<u, h>> \in U /\ t.own = NoSecrets => <<u, h>> \in W
  BY <1>1, <1>5, <1>6
<1>10. \A x \in P : x.group = h => x \in P \/ (x.from # u /\ x.kind # "complain")
  OBVIOUS
<1>11. \A x \in P : x.group = h => x \in P
  OBVIOUS
<1>12. InTime(u, t, c, P, W, b)
  BY <1>1, <1>8, <1>9, <1>10, <1>11, FrameInTime
<1> QED BY <1>2, <1>4, <1>6, <1>7, <1>12

\* Nor does it get secrets.
LEMMA StillUntraced ==
  ASSUME StayInv, Still, store' = store, Sound' \subseteq Sound,
         \A u \in Sound' : view'[u].phase = "CollectingCommitments" => view'[u] = view[u]
  PROVE  NewUntraced'
<1>1. \A u, g : Traced(u, g)' = Traced(u, g)
  BY DEF Traced, Still
<1>2. SUFFICES ASSUME NEW u \in Sound', NEW t, t = view'[u], t.phase = "CollectingCommitments",
                      t.own = NoSecrets, t.epoch # 0, NEW h, h = groupOf(t)
               PROVE  ~Traced(u, h)' /\ \A tx \in pool' : tx.from = u => tx.group # h
  BY DEF NewUntraced
<1>3. u \in Sound /\ t = view[u] /\ pool' = pool
  BY <1>2 DEF Still
<1>4. ~Traced(u, h) /\ \A tx \in pool : tx.from = u => tx.group # h
  BY <1>2, <1>3 DEF StayInv, NewUntraced
<1> QED BY <1>1, <1>3, <1>4

\* A setup fails.
LEMMA FailSetupStay ==
  ASSUME LockInv, StayInv, Paired, NEW e \in setups, failSetup(e)
  PROVE  StayInv'
<1>1. /\ UNCHANGED <<block, chain, view, pool, store, delays>>
      /\ lost' = lost \cup {e[1]} /\ setups' = setups \ {e}
  BY DEF failSetup
<1>2. Still /\ Sound' \subseteq Sound /\ e[1] \notin Sound'
  BY <1>1 DEF Sound, Still
<1>3. \A u \in Sound' : \A g : <<u, g>> \in setups => <<u, g>> \in setups'
  BY <1>1, <1>2
<1>4. AllInTime'
  BY <1>1, <1>2, <1>3, StillInTime
<1>5. NewUntraced'
  BY <1>1, <1>2, StillUntraced
<1>6. TracesPast'
  <2>1. ASSUME NEW u \in Honest PROVE Advances(u)
    <3>1. EpochOk(view[u])
      BY DEF LockInv
    <3> QED BY <1>1, <1>2, <3>1 DEF Advances, EpochOk
  <2>2. \A u \in Honest : \A g : Traced(u, g)' => Traced(u, g)
    BY <1>1 DEF Traced
  <2>3. \A u \in Honest : \A g : <<u, g>> \in setups' => <<u, g>> \in setups
    BY <1>1
  <2>4. TracesPast
    BY DEF StayInv
  <2> QED BY <2>1, <2>2, <2>3, <2>4, TracesForward
<1>7. CeremoniesInOrder' /\ QueueGood' /\ Prompt'
  BY <1>2, StillQueue
<1> QED BY <1>4, <1>5, <1>6, <1>7 DEF StayInv

\* A restart is no step to another epoch.
LEMMA RestartInEpoch ==
  ASSUME LockInv, NEW v \in Honest, restart(v)
  PROVE  view'[v].epoch = view[v].epoch
<1>1. PICK s : s = view[v]
  OBVIOUS
<1>0. PICK g : g = groupOf(s)
  OBVIOUS
<1>2. PICK c : c = ceremony(g).committed
  OBVIOUS
<1>3. PICK m : m = [p \in {q \in DOMAIN c : c[q] # 0} |-> c[p]]
  BY Zenon
<1>4. PICK i : i = idle(s, "CollectingCommitments", s.epoch)
  OBVIOUS
<1>5. PICK again : again = [i EXCEPT !.members = s.members, !.own = NoSecrets,
                                     !.deadline = began[v].deadline, !.commitments = m]
  OBVIOUS
<1>6. PICK r : r = IF began[v].deadline # NoDeadline /\ block >= began[v].deadline
                   THEN keyGenTimeouts(v, again, block) ELSE stay(again)
  OBVIOUS
<1>7. Apply({v}, [u \in {v} |-> r], block)
  BY <1>0, <1>1, <1>2, <1>3, <1>4, <1>5, <1>6 DEF restart, groupOf
<1>8. again.phase = "CollectingCommitments" /\ again.epoch = s.epoch
  <2>1. DOMAIN i = Fields /\ i.phase = "CollectingCommitments" /\ i.epoch = s.epoch
    BY <1>4, IdleIs
  <2> QED BY <1>5, <2>1 DEF Fields
<1>9. EpochOk(again)
  BY <1>1, <1>8 DEF EpochOk, LockInv
<1>10. r.s.epoch = again.epoch
  <2>1. stay(again).s = again
    BY ResultOf
  <2>2. keyGenTimeouts(v, again, block).s.epoch = again.epoch
    BY <1>9, TimeoutMoves
  <2> QED BY <1>6, <2>1, <2>2
<1>11. view'[v] = r.s
  BY <1>7 DEF Apply
<1>12. view'[v].epoch = s.epoch
  BY <1>8, <1>10, <1>11
<1> QED BY <1>1, <1>12

\* A validator is restarted.
LEMMA RestartStay ==
  ASSUME LockInv, LockInv', StayInv, NEW v \in Honest, restart(v)
  PROVE  StayInv'
<1>1. PICK r : Apply({v}, [u \in {v} |-> r], block)
  BY DEF restart
<1>2. /\ UNCHANGED <<block, chain, pool, store, delays>> /\ lost' = lost \cup {v}
      /\ \A f \in setups' : f \in setups \/ f = <<v, groupOf(view[v])>>
      /\ setups \subseteq setups'
  BY DEF restart, groupOf
<1>3. \A u \in Honest : u # v => view'[u] = view[u]
  BY <1>1 DEF Apply
<1>4. Still /\ Sound' \subseteq Sound /\ v \notin Sound' /\ \A u \in Sound' : u \in Honest
  BY <1>2 DEF Sound, Still
<1>5. \A u \in Sound' : view'[u] = view[u]
  BY <1>3, <1>4
<1>6. \A u \in Sound' : \A g : <<u, g>> \in setups => <<u, g>> \in setups'
  BY <1>2
<1>7. AllInTime'
  BY <1>4, <1>5, <1>6, StillInTime
<1>8. NewUntraced'
  BY <1>2, <1>4, <1>5, StillUntraced
<1>9. TracesPast'
  <2>1. ASSUME NEW u \in Honest PROVE Advances(u)
    <3>1. EpochOk(view[u]) /\ EpochOk(view'[u])
      BY DEF LockInv, EpochOk
    <3>2. view'[v].epoch = view[v].epoch
      BY RestartInEpoch
    <3>3. view'[u].epoch = view[u].epoch
      BY <1>3, <3>2
    <3> QED BY <1>4, <1>5, <3>1, <3>3 DEF Advances, EpochOk
  <2>2. \A u \in Honest : \A g : Traced(u, g)' => Traced(u, g)
    BY <1>2 DEF Traced
  <2>3. \A u \in Honest : \A g : <<u, g>> \in setups' => <<u, g>> \in setups \/ g = groupOf(view[u])
    BY <1>2
  <2>4. TracesPast
    BY DEF StayInv
  <2> QED BY <2>1, <2>2, <2>3, <2>4, TracesForward
<1>10. CeremoniesInOrder' /\ QueueGood' /\ Prompt'
  BY <1>4, StillQueue
<1> QED BY <1>7, <1>8, <1>9, <1>10 DEF StayInv

\* An epoch is staged.
LEMMA StagedStays ==
  ASSUME NEW s, NEW g, NEW r, r = onEpochStaged(s, g), r.s.phase \in Collecting
  PROVE  r.s = s
<1>1. ASSUME NEW x, NEW phase, NEW epoch PROVE idle(x, phase, epoch).phase = phase
  BY DEF idle
<1>2. ASSUME NEW i, i.phase = "EpochStaged", DOMAIN i = Fields PROVE finalizeKeyGen(s, i).phase = "EpochStaged"
  BY <1>2 DEF finalizeKeyGen, Fields
<1>3. DOMAIN idle(s, "EpochStaged", s.epoch) = Fields
  BY IdleIs
<1>4. \/ r = stay(finalizeKeyGen(s, idle(s, "EpochStaged", s.epoch)))
      \/ r = stay(idle(s, "EpochSkipped", g.epoch))
      \/ r = stay(s)
  BY DEF onEpochStaged
<1>5. finalizeKeyGen(s, idle(s, "EpochStaged", s.epoch)).phase = "EpochStaged"
  BY <1>1, <1>2, <1>3
<1>6. idle(s, "EpochSkipped", g.epoch).phase = "EpochSkipped"
  BY <1>1
<1>7. CASE r = stay(finalizeKeyGen(s, idle(s, "EpochStaged", s.epoch)))
  BY <1>5, <1>7, ResultOf DEF Collecting
<1>8. CASE r = stay(idle(s, "EpochSkipped", g.epoch))
  BY <1>6, <1>8, ResultOf DEF Collecting
<1>9. CASE r = stay(s)
  BY <1>9, ResultOf
<1> QED BY <1>4, <1>7, <1>8, <1>9

\* Staging an epoch preserves the invariant.
LEMMA StageStay ==
  ASSUME ShareInv, LockInv, StayInv, NEW g \in held(view), stageEpoch(g)
  PROVE  StayInv'
<1>1. PICK r : r = [v \in Honest |-> onEpochStaged(view[v], g)]
  OBVIOUS
<1>2. Apply(Honest, r, block) /\ UNCHANGED <<block, chain, pool, store, setups, delays, lost>>
  BY <1>1 DEF stageEpoch
<1>3. PICK w \in Honest : g.epoch = view[w].epoch
  BY DEF held, groupId
<1>4. \A v \in Honest : EpochOk(view[v]) /\ ViewOk(v, view[v])
  BY DEF LockInv, ShareInv, ViewsOk
<1>5. g.epoch \in Nat
  BY <1>3, <1>4 DEF EpochOk
<1>6. \A v \in Honest : view'[v] = r[v].s /\ r[v] = onEpochStaged(view[v], g)
  BY <1>1, <1>2 DEF Apply
<1>7. \A v \in Honest : Onward(view[v], r[v])
  <2>1. \A v \in Honest : Moves(view[v], r[v], {})
    BY <1>4, <1>5, <1>6, StagedMoves
  <2> QED BY <2>1, MovesOnward
<1>8. Still /\ Sound' = Sound /\ \A v \in Sound : v \in Honest
  BY <1>2 DEF Sound, Still
<1>9. \A v \in Honest : view'[v].phase \in Collecting => view'[v] = view[v]
  BY <1>6, StagedStays
<1>10. AllInTime'
  <2>1. \A u \in Sound' : Member(u, view'[u]) => view'[u] = view[u]
    BY <1>8, <1>9 DEF Member
  <2> QED BY <1>2, <1>8, <2>1, StillInTime
<1>11. NewUntraced'
  <2>1. \A u \in Sound' : view'[u].phase = "CollectingCommitments" => view'[u] = view[u]
    BY <1>8, <1>9 DEF Collecting
  <2> QED BY <1>2, <1>8, <2>1, StillUntraced
<1>12. TracesPast'
  <2>1. ASSUME NEW u \in Honest PROVE Advances(u)
    BY <1>4, <1>6, <1>7, <1>8, OnwardAdvances
  <2>2. \A u \in Honest : \A h : Traced(u, h)' => Traced(u, h)
    BY <1>2 DEF Traced
  <2>3. \A u \in Honest : \A h : <<u, h>> \in setups' => <<u, h>> \in setups
    BY <1>2
  <2>4. TracesPast
    BY DEF StayInv
  <2> QED BY <2>1, <2>2, <2>3, <2>4, TracesForward
<1>13. CeremoniesInOrder' /\ QueueGood' /\ Prompt'
  BY <1>8, StillQueue
<1> QED BY <1>10, <1>11, <1>12, <1>13 DEF StayInv

\* Genesis is opened.
LEMMA OpenedSetup ==
  ASSUME NEW v, NEW s, NEW r, r = onKeyGen(v, s, groupId(0, activeIn(0)))
  PROVE  r.setup \subseteq {<<v, groupId(0, activeIn(0))>>}
<1>1. r = stay(s) \/ r = startKeyGen(v, s, 0, activeIn(0), NoDeadline)
  BY DEF onKeyGen
<1>2. startKeyGen(v, s, 0, activeIn(0), NoDeadline).setup \subseteq {<<v, groupId(0, activeIn(0))>>}
  BY ResultOf DEF startKeyGen
<1> QED BY <1>1, <1>2, ResultOf

\* What opening genesis does.
GenesisStep ==
    /\ G0 \notin DOMAIN chain /\ chain' = put(chain, G0, opened)
    /\ \A v \in Honest :
        /\ view[v].phase = "WaitingForGenesis" /\ view[v].epoch = 0 /\ EpochOk(view'[v])
        /\ view'[v].epoch = 0 /\ groupOf(view'[v]) = G0
    /\ \A v, g : <<v, g>> \in setups' => <<v, g>> \in setups \/ g = groupOf(view'[v])
    /\ \A e \in setups' : e \in setups \/ \E v : e = <<v, G0>>
    /\ pool = {} /\ UNCHANGED <<block, store, pool, delays, lost>>

\* keyGenGenesis is such a step.
LEMMA GenesisSteps ==
  ASSUME LockInv, keyGenGenesis
  PROVE  GenesisStep
<1>1. PICK r : r = [v \in Honest |-> onKeyGen(v, view[v], G0)]
  OBVIOUS
<1>2. /\ \A v \in Honest : view[v].phase = "WaitingForGenesis"
      /\ G0 \notin DOMAIN chain /\ chain' = put(chain, G0, opened)
      /\ setups' = setups \cup UNION {r[v].setup : v \in Honest}
      /\ Apply(Honest, r, block) /\ UNCHANGED <<block, store, pool, delays, lost>>
  BY <1>1 DEF keyGenGenesis, G0
<1>3. \A v \in Honest : EpochOk(view[v])
  BY DEF LockInv
<1>4. \A v \in Honest : view'[v] = r[v].s /\ r[v] = onKeyGen(v, view[v], groupId(0, activeIn(0)))
  BY <1>1, <1>2 DEF Apply, G0
<1>5. \A v \in Honest : EpochOk(view'[v]) /\ view'[v].epoch = 0 /\ view'[v].members = activeIn(0)
  BY <1>2, <1>3, <1>4, OpenedMoves
<1>6. \A v \in Honest : groupOf(view'[v]) = G0
  BY <1>5 DEF groupOf, G0
<1>7. \A v \in Honest : r[v].setup \subseteq {<<v, G0>>}
  BY <1>4, OpenedSetup DEF G0
<1>8. ASSUME NEW e \in setups', e \notin setups PROVE \E v \in Honest : e = <<v, G0>>
  BY <1>2, <1>7, <1>8
<1>9. \A v, g : <<v, g>> \in setups' => <<v, g>> \in setups \/ g = groupOf(view'[v])
  BY <1>6, <1>8
<1>10. pool = {}
  BY <1>2 DEF LockInv, QueuedOk, Belongs
<1>11. \A v \in Honest : view[v].epoch = 0
  BY <1>2, <1>3 DEF EpochOk
<1> QED BY <1>2, <1>5, <1>6, <1>8, <1>9, <1>10, <1>11 DEF GenesisStep

\* Opening genesis preserves the invariant.
LEMMA GenesisStay ==
  ASSUME LockInv, StayInv, keyGenGenesis
  PROVE  StayInv'
<1>1. GenesisStep
  BY GenesisSteps
<1>2. CeremonyOk(G0, opened)
  <2>1. ceremony(G0) = opened
    BY <1>1 DEF GenesisStep, ceremony
  <2> QED BY <2>1, CeremonyInOrder DEF StayInv
<1>3. DOMAIN chain' = DOMAIN chain \cup {G0} /\ chain'[G0] = opened /\ \A g \in DOMAIN chain : chain'[g] = chain[g]
  BY <1>1 DEF GenesisStep, put
<1>4. CeremoniesInOrder'
  BY <1>2, <1>3 DEF StayInv, CeremoniesInOrder
<1>5. pool' = {}
  BY <1>1 DEF GenesisStep
<1>6. QueueGood' /\ Prompt'
  BY <1>5 DEF QueueGood, Prompt
<1>7. \A v \in Sound' : v \in Honest
  BY DEF Sound
<1>8. NewUntraced'
  BY <1>1, <1>7 DEF NewUntraced, GenesisStep
<1>9. AllInTime'
  BY <1>1, <1>7 DEF AllInTime, Member, GenesisStep
<1>10. TracesPast'
  <2>1. ASSUME NEW u \in Honest PROVE Advances(u)
    BY <1>1 DEF Advances, GenesisStep
  <2>2. ASSUME NEW u \in Honest, NEW g, Traced(u, g)' PROVE Traced(u, g)
    <3>1. DOMAIN opened.committed = {}
      BY DEF opened
    <3>2. store' = store
      BY <1>1 DEF GenesisStep
    <3> QED BY <1>3, <2>2, <3>1, <3>2 DEF Traced
  <2>3. \A u \in Honest : \A g : <<u, g>> \in setups' => <<u, g>> \in setups \/ g = groupOf(view'[u])
    BY <1>1 DEF GenesisStep
  <2>4. TracesPast
    BY DEF StayInv
  <2> QED BY <2>1, <2>2, <2>3, <2>4, TracesForward
<1> QED BY <1>4, <1>6, <1>8, <1>9, <1>10 DEF StayInv

----------------------------------------------------------------------------
(* All steps                                                               *)

\* The transactions that are executed are queued ones, or those of faulty
\* participants in a group of participants.
LEMMA NextProper ==
  ASSUME ShareInv, LockInv, QueueGood, [Next]_vars
  PROVE  \/ newBlock \/ keyGenGenesis \/ \E tx : Proper(tx) /\ execute(tx)
         \/ \E g \in held(view) : stageEpoch(g)
         \/ \E e \in setups : performSetup(e)
         \/ \E e \in setups : failSetup(e)
         \/ \E v \in Honest : restart(v)
         \/ UNCHANGED vars
<1>1. ASSUME NEW tx \in pool, mine(tx) PROVE Proper(tx) /\ execute(tx)
  <2>1. execute(tx)
    BY <1>1 DEF mine
  <2>2. tx.kind \in Kinds
    BY DEF ShareInv, QueueAgrees
  <2>3. tx.valid \in BOOLEAN /\ tx.from \in Honest
    BY DEF LockInv, QueuedOk, Belongs
  <2>4. tx.group.members \subseteq Participants
    BY DEF QueueGood, TxOk
  <2> QED BY <2>1, <2>2, <2>3, <2>4 DEF Proper, Participants
<1>2. ASSUME NEW p \in Faulty, misbehave(p) PROVE \E tx : Proper(tx) /\ execute(tx)
  <2>1. PICK g \in held(view), kind \in Kinds, valid \in BOOLEAN, peer \in Participants,
             bad \in SUBSET Honest :
          execute(sent(p, kind, g, peer, valid, bad))
    BY <1>2, MisbehaveSends
  <2>2. PICK tx : tx = sent(p, kind, g, peer, valid, bad)
    OBVIOUS
  <2>3. tx.kind = kind /\ tx.from = p /\ tx.valid = valid /\ tx.group = g
    BY <2>2 DEF sent
  <2>4. p \notin Honest /\ p \in Participants
    BY ConfigAssumption DEF Participants
  <2>5. g.members \subseteq Participants
    <3>1. PICK w \in Honest : g.members = view[w].members
      BY DEF held, groupId
    <3> QED BY <3>1 DEF ShareInv, ViewsOk, ViewOk
  <2>6. Proper(tx)
    BY <2>3, <2>4, <2>5 DEF Proper
  <2> QED BY <2>1, <2>2, <2>6
<1>3. CASE \E tx \in pool : mine(tx)
  BY <1>1, <1>3
<1>4. CASE \E p \in Faulty : misbehave(p)
  BY <1>2, <1>4
<1> QED BY <1>3, <1>4 DEF Next

\* Setups and secrets belong to a validator and a group.
LEMMA NextPaired ==
  ASSUME ShareInv, SetupsOk, LockInv, QueueGood, Paired, [Next]_vars
  PROVE  Paired'
<1>1. SUFFICES /\ \A e \in setups' : e \in setups \/ \E v, g : e = <<v, g>>
               /\ \A f \in store' : f \in store \/ \E v, g, k : f = <<v, g, k>>
  BY DEF Paired
<1>2. CASE newBlock
  <2>1. BlockStep
    BY <1>2, NewBlockStep
  <2>2. PICK f : f = [v \in Honest |-> onNewBlock(v, view[v], block + 1)]
    OBVIOUS
  <2>3. /\ setups' = {e \in setups : e[2] \in held(view')} \cup UNION {f[v].setup : v \in Honest}
        /\ store' \subseteq store
    BY <1>2, <2>2 DEF newBlock, retainedSecrets
  <2>4. \A v \in Honest : f[v].setup \subseteq {<<v, groupOf(view'[v])>>}
    BY <2>1, <2>2 DEF BlockStep
  <2> QED BY <2>3, <2>4
<1>3. CASE keyGenGenesis
  BY <1>3, GenesisSteps DEF GenesisStep
<1>4. ASSUME NEW tx, Proper(tx), execute(tx)
      PROVE  (\A e \in setups' : e \in setups \/ \E v, g : e = <<v, g>>) /\ store' = store
  <2>1. EventStep(tx)
    BY <1>4, ExecuteSteps
  <2>2. setups' = setups \cup UNION {onEvent(v, tx).setup : v \in Honest}
    BY <1>4, ExecuteQueues
  <2>3. ASSUME NEW v \in Honest PROVE onEvent(v, tx).setup \subseteq {<<v, groupOf(onEvent(v, tx).s)>>}
    BY <2>1 DEF EventStep, Effects
  <2>4. store' = store
    BY <1>4 DEF execute
  <2> QED BY <2>2, <2>3, <2>4
<1>5. CASE \E tx : Proper(tx) /\ execute(tx)
  BY <1>4, <1>5
<1>6. CASE \E g \in held(view) : stageEpoch(g)
  BY <1>6 DEF stageEpoch
<1>7. CASE \E e \in setups : performSetup(e)
  <2>1. PICK v \in Honest : \E g, s, version, r : SetupStep(v, g, s, version, r)
    BY <1>7, SetupSteps
  <2>2. PICK g, s, version, r : SetupStep(v, g, s, version, r)
    BY <2>1
  <2> QED BY <2>2 DEF SetupStep
<1>8. CASE \E e \in setups : failSetup(e)
  BY <1>8 DEF failSetup
<1>9. CASE \E v \in Honest : restart(v)
  BY <1>9 DEF restart
<1>10. CASE UNCHANGED vars
  BY <1>10 DEF vars
<1> QED BY <1>2, <1>3, <1>5, <1>6, <1>7, <1>8, <1>9, <1>10, NextProper

\* Every step keeps the invariant.
StayAll == StayInv /\ Paired /\ delays \in Nat

\* Delays are counted.
LEMMA NextDelays ==
  ASSUME ShareInv, LockInv, StayInv, delays \in Nat, [Next]_vars
  PROVE  delays' \in Nat
<1>1. CASE newBlock
  BY <1>1, NewBlockQueue
<1>2. CASE \E tx : Proper(tx) /\ execute(tx)
  BY <1>2 DEF execute
<1>3. CASE ~newBlock /\ ~(\E tx : Proper(tx) /\ execute(tx))
  <2>1. delays' = delays
    <3>1. QueueGood
      BY DEF StayInv
    <3>2. CASE keyGenGenesis
      BY <3>2 DEF keyGenGenesis
    <3>3. CASE \E g \in held(view) : stageEpoch(g)
      BY <3>3 DEF stageEpoch
    <3>4. CASE \E e \in setups : performSetup(e)
      BY <3>4 DEF performSetup
    <3>5. CASE \E e \in setups : failSetup(e)
      BY <3>5 DEF failSetup
    <3>6. CASE \E v \in Honest : restart(v)
      BY <3>6 DEF restart
    <3>7. CASE UNCHANGED vars
      BY <3>7 DEF vars
    <3> QED BY <1>3, <3>1, <3>2, <3>3, <3>4, <3>5, <3>6, <3>7, NextProper
  <2> QED BY <2>1
<1> QED BY <1>1, <1>2, <1>3

\* Nothing has happened at first.
LEMMA InitStay == Init => StayAll
<1> SUFFICES ASSUME Init PROVE StayAll
  OBVIOUS
<1>1. PICK i : i = initialView
  OBVIOUS
<1>2. /\ DOMAIN chain = {} /\ pool = {} /\ setups = {} /\ store = {} /\ delays = 0
      /\ \A v \in Honest : view[v] = i
  BY <1>1 DEF Init
<1>3. i.phase = "WaitingForGenesis"
  BY <1>1 DEF initialView, idle
<1>4. CeremoniesInOrder /\ QueueGood /\ Prompt
  BY <1>2 DEF CeremoniesInOrder, QueueGood, Prompt
<1>5. TracesPast
  BY <1>2 DEF TracesPast, Traced
<1>6. NewUntraced /\ AllInTime
  BY <1>2, <1>3 DEF NewUntraced, AllInTime, Member, Sound, Collecting
<1>7. Paired
  BY <1>2 DEF Paired
<1> QED BY <1>2, <1>4, <1>5, <1>6, <1>7 DEF StayAll, StayInv

\* Every step preserves the invariant.
LEMMA NextStay ==
  ASSUME OneFaulty, ShareInv, SetupsOk, LockInv, LockInv', KeysInv, StayAll, [Next]_vars
  PROVE  StayAll'
<1>0. StayInv /\ Paired /\ delays \in Nat /\ QueueGood
  BY DEF StayAll, StayInv
<1>1. CASE newBlock
  <2>1. CeremoniesInOrder' /\ QueueGood' /\ Prompt'
    BY <1>0, <1>1, NewBlockQueue
  <2>2. TracesPast' /\ NewUntraced'
    BY <1>0, <1>1, NewBlockTraces
  <2>3. AllInTime'
    BY <1>0, <1>1, NewBlockInTime
  <2> QED BY <1>0, <2>1, <2>2, <2>3, NextPaired, NextDelays DEF StayAll, StayInv
<1>2. CASE \E tx : Proper(tx) /\ execute(tx)
  <2>0. PICK tx : Proper(tx) /\ execute(tx)
    BY <1>2
  <2>1. CeremoniesInOrder'
    BY <1>0, <2>0, ExecuteOrder DEF StayInv
  <2>2. QueueGood' /\ Prompt'
    BY <1>0, <2>0, ExecuteQueue
  <2>3. TracesPast' /\ NewUntraced'
    BY <1>0, <2>0, ExecuteTraces
  <2>4. AllInTime'
    BY <1>0, <2>0, ExecuteInTime
  <2> QED BY <1>0, <2>1, <2>2, <2>3, <2>4, NextPaired, NextDelays DEF StayAll, StayInv
<1>3. CASE \E e \in setups : performSetup(e)
  <2>1. PICK v \in Honest : \E g, s, version, r : SetupStep(v, g, s, version, r)
    BY <1>0, <1>3, SetupSteps
  <2>2. PICK g, s, version, r : SetupStep(v, g, s, version, r)
    BY <2>1
  <2>3. CeremoniesInOrder' /\ QueueGood' /\ Prompt'
    BY <1>0, <2>2, SetupQueue
  <2>4. TracesPast'
    BY <1>0, <2>2, SetupTraces
  <2>5. NewUntraced'
    BY <1>0, <2>2, SetupUntraced
  <2>6. AllInTime'
    BY <1>0, <2>2, SetupInTime
  <2> QED BY <1>0, <2>3, <2>4, <2>5, <2>6, NextPaired, NextDelays DEF StayAll, StayInv
<1>4. CASE keyGenGenesis
  BY <1>0, <1>4, GenesisStay, NextPaired, NextDelays DEF StayAll
<1>5. CASE \E g \in held(view) : stageEpoch(g)
  BY <1>0, <1>5, StageStay, NextPaired, NextDelays DEF StayAll
<1>6. CASE \E e \in setups : failSetup(e)
  BY <1>0, <1>6, FailSetupStay, NextPaired, NextDelays DEF StayAll
<1>7. CASE \E v \in Honest : restart(v)
  BY <1>0, <1>7, RestartStay, NextPaired, NextDelays DEF StayAll
<1>8. CASE UNCHANGED vars
  <2>1. Still /\ Sound' = Sound /\ view' = view /\ UNCHANGED <<store, setups, chain>>
    BY <1>8 DEF vars, Still, Sound
  <2>2. CeremoniesInOrder' /\ QueueGood' /\ Prompt'
    BY <1>0, <2>1, StillQueue
  <2>3. AllInTime'
    BY <1>0, <2>1, StillInTime
  <2>4. NewUntraced'
    BY <1>0, <2>1, StillUntraced
  <2>5. TracesPast'
    BY <1>0, <2>1 DEF StayInv, TracesPast, Traced
  <2> QED BY <1>0, <2>2, <2>3, <2>4, <2>5, NextPaired, NextDelays DEF StayAll, StayInv
<1> QED BY <1>0, <1>1, <1>2, <1>3, <1>4, <1>5, <1>6, <1>7, <1>8, NextProper

\* While no transaction misses a block a single faulty participant cannot have
\* a validator excluded that lost nothing, with any number of validators: not
\* by staying away from a round, by bad shares, by complaints (also those at
\* the last moment) nor by false or missing answers.  The rounds must last two
\* blocks, so that an answer to a complaint is mined before it is due.
THEOREM ValidatorsStay == OneFaulty => (Spec => [](GenesisTogether => HonestStay))
<1> SUFFICES ASSUME OneFaulty PROVE Spec => [](GenesisTogether => HonestStay)
  OBVIOUS
<1>1. Init => ShareInv /\ SetupsOk /\ LockInv /\ KeysInv /\ StayAll
  BY InitShare, InitLock, InitKeys, InitStay DEF Init, SetupsOk
<1>2. ShareInv /\ SetupsOk /\ LockInv /\ KeysInv /\ StayAll /\ [Next]_vars
        => ShareInv' /\ SetupsOk' /\ LockInv' /\ KeysInv' /\ StayAll'
  BY NextShare, NextLock, NextKeys, NextStay
<1>3. LockInv /\ StayAll => (GenesisTogether => HonestStay)
  <2>1. SUFFICES ASSUME LockInv, StayInv, GenesisTogether, delays = 0, NEW u \in Sound,
                        view[u].phase \in Collecting, NEW v \in Sound, v \in activeIn(view[u].epoch)
                 PROVE  v \in view[u].members
    BY DEF HonestStay, Sound, StayAll
  <2>2. view[u].epoch = view[v].epoch /\ u \in Honest
    BY <2>1 DEF LockInv, EpochsAlike, GenesisTogether, Sound
  <2>3. Same(view[u], view[v])
    BY <2>1, <2>2 DEF LockInv, Alike
  <2>4. view[u].phase = view[v].phase /\ view[u].members = view[v].members
    BY <2>3, SameFields
  <2>5. CASE view[u].epoch = 0
    <3>1. view[u].members = activeIn(0)
      BY <2>1, <2>2, <2>5 DEF LockInv, GenesisOk, InGenesis
    <3> QED BY <2>1, <2>5, <3>1
  <2>6. CASE view[u].epoch # 0
    <3>1. Member(v, view[v])
      BY <2>1, <2>2, <2>4, <2>6 DEF Member
    <3>2. Joins(v, view[v])
      BY <2>1, <3>1 DEF StayInv, AllInTime, InTime
    <3> QED BY <2>4, <3>2 DEF Joins
  <2> QED BY <2>5, <2>6
<1> QED BY <1>1, <1>2, <1>3, PTL DEF Spec
============================================================================
