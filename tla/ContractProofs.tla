--------------------------- MODULE ContractProofs ---------------------------
(***************************************************************************)
(* Proofs about the two contracts the validators meet on, for any number   *)
(* of participants, groups and epochs: a group of the coordinator with its *)
(* key generation ceremony, its nonce commitments and its signing          *)
(* ceremonies; then Consensus, whose storage implements the eager schedule *)
(* of EpochSchedule and records only what the right group has signed.      *)
(***************************************************************************)
EXTENDS FROSTCoordinator, Consensus, FiniteSetTheorems, SequenceTheorems, TLAPS

----------------------------------------------------------------------------
(* Key generation                                                          *)

\* Any set of participants is finite and has a cardinality.
LEMMA FiniteParticipants ==
    ASSUME NEW S \in SUBSET Participants
    PROVE  IsFiniteSet(S) /\ Cardinality(S) \in Nat
BY ParticipantsAssumption, FS_Subset, FS_CardinalityType

\* One more participant in a set makes it larger by one.
LEMMA AddParticipant ==
    ASSUME NEW S \in SUBSET Participants, NEW p \in Participants, p \notin S
    PROVE  Cardinality(S \cup {p}) = Cardinality(S) + 1
BY FiniteParticipants, FS_AddElement

\* One participant less in a set makes it smaller by one.
LEMMA RemoveParticipant ==
    ASSUME NEW S \in SUBSET Participants, NEW p \in S
    PROVE  /\ Cardinality(S \ {p}) = Cardinality(S) - 1
           /\ Cardinality(S) > 0
<1>1. IsFiniteSet(S) /\ Cardinality(S) \in Nat
    BY FiniteParticipants
<1>2. Cardinality(S) # 0
    BY <1>1, FS_EmptySet
<1>3. Cardinality(S \ {p}) = Cardinality(S) - 1
    BY <1>1, FS_RemoveElement
<1> QED
    BY <1>1, <1>2, <1>3

\* A set of participants inside another one of the same size is that set.
LEMMA SameSize ==
    ASSUME NEW S \in SUBSET Participants, NEW T \in SUBSET S,
           Cardinality(T) = Cardinality(S)
    PROVE  T = S
BY FiniteParticipants, FS_Subset

\* A set of participants inside another one is not larger.
LEMMA SubsetSize ==
    ASSUME NEW S \in SUBSET Participants, NEW T \in SUBSET S
    PROVE  Cardinality(T) <= Cardinality(S)
BY FiniteParticipants, FS_Subset

\* The initial storage satisfies the inductive invariant.
LEMMA InitInv == KGInit => KGInv
<1> SUFFICES ASSUME KGInit PROVE KGInv
    OBVIOUS
<1> USE DEF KGInit
<1>1. KGTypeOK
    BY DEF KGTypeOK, GroupStatus, ParticipantStatus, ComplaintStatus
<1>2. Registered = {} /\ Confirmed = {}
    BY DEF Registered, Confirmed
<1>3. \A p \in Participants : FiledBy(p) = {} /\ FiledAgainst(p) = {}
    BY DEF FiledBy, FiledAgainst
<1>4. CountersExact
    BY <1>3, FS_EmptySet DEF CountersExact
<1>5. CeremonyShape
    BY <1>2, <1>3 DEF CeremonyShape
<1> QED
    BY <1>1, <1>4, <1>5
    DEF KGInv, PendingExact, FinalizedIsClean, ToleratedAccusations

\* Opening the ceremony preserves the invariant.
LEMMA KeyGenInv == KGInv /\ keyGen => KGInv'
<1> SUFFICES ASSUME KGInv, keyGen PROVE KGInv'
    OBVIOUS
<1> USE DEF KGInv, keyGen
<1>1. KGTypeOK'
    BY CountAssumption DEF KGTypeOK, GroupStatus
<1>2. /\ Registered' = {} /\ Confirmed' = Confirmed
      /\ \A p \in Participants : FiledBy(p)' = FiledBy(p) /\ FiledAgainst(p)' = FiledAgainst(p)
    BY DEF CeremonyShape, Registered, Confirmed, FiledBy, FiledAgainst
<1>3. CountersExact'
    BY <1>2 DEF CountersExact
<1>4. CeremonyShape'
    BY <1>2 DEF CeremonyShape, Registered
<1>5. PendingExact'
    BY <1>2, FS_EmptySet, CountAssumption DEF PendingExact
<1>6. ToleratedAccusations'
    BY DEF ToleratedAccusations
<1> QED
    BY <1>1, <1>3, <1>4, <1>5, <1>6 DEF FinalizedIsClean

\* What registering p does to the sets the invariant is about.
LEMMA RegisterSets ==
    ASSUME KGInv, NEW p \in Participants, register(p), UNCHANGED complaint
    PROVE  /\ Registered' = Registered \cup {p}
           /\ p \notin Registered
           /\ p \in Members
           /\ Cardinality(Registered') = Cardinality(Registered) + 1
           /\ Confirmed' = Confirmed
           /\ \A q \in Participants : FiledBy(q)' = FiledBy(q) /\ FiledAgainst(q)' = FiledAgainst(q)
           /\ pstatus' \in [Participants -> ParticipantStatus]
<1> USE DEF KGInv, register
<1>1. Registered' = Registered \cup {p} /\ p \notin Registered
    BY DEF KGTypeOK, Registered
<1>2. Confirmed' = Confirmed
    BY DEF KGTypeOK, Confirmed
<1>3. Cardinality(Registered') = Cardinality(Registered) + 1
    BY <1>1, AddParticipant DEF Registered
<1> QED
    BY <1>1, <1>2, <1>3 DEF KGTypeOK, ParticipantStatus, FiledBy, FiledAgainst

\* A commitment preserves the invariant.
LEMMA CommitInv ==
    ASSUME KGInv, NEW p \in Participants, keyGenCommit(p)
    PROVE  KGInv'
<1> USE DEF KGInv, keyGenCommit
<1>1. /\ Registered' = Registered \cup {p}
      /\ p \notin Registered
      /\ p \in Members
      /\ Cardinality(Registered') = Cardinality(Registered) + 1
      /\ Confirmed' = Confirmed
      /\ \A q \in Participants : FiledBy(q)' = FiledBy(q) /\ FiledAgainst(q)' = FiledAgainst(q)
      /\ pstatus' \in [Participants -> ParticipantStatus]
    BY RegisterSets
<1>2. Registered \in SUBSET Participants /\ Cardinality(Registered) \in Nat
    BY FiniteParticipants DEF Registered
<1>3. /\ pending \in Nat /\ pending > 0 /\ pending + Cardinality(Registered) = Count
      /\ Count > 0
    BY <1>2, CountAssumption DEF KGTypeOK, PendingExact, CeremonyShape
<1>4. KGTypeOK'
    BY <1>1, <1>3, CountAssumption DEF KGTypeOK, GroupStatus, CountDown, Advance
<1>5. CountersExact'
    BY <1>1 DEF CountersExact
<1>6. status' = "SHARING" <=> pending = 1
    BY DEF Advance
<1>7. status' \in {"COMMITTING", "SHARING"}
    BY DEF Advance
<1>8. PendingExact'
  <2>1. CASE pending = 1
    <3>1. shared' = {} /\ Cardinality(shared') = 0
        BY FS_EmptySet DEF CeremonyShape
    <3>2. status' = "SHARING" /\ pending' = Count
        BY <2>1 DEF Advance, CountDown
    <3> QED
        BY <3>1, <3>2, <1>3, CountAssumption DEF PendingExact
  <2>2. CASE pending # 1
    <3>1. status' = "COMMITTING" /\ pending' = pending - 1 /\ pending' > 0
        BY <2>2, <1>3 DEF Advance, CountDown
    <3>2. pending' + Cardinality(Registered') = Count
        BY <3>1, <1>1, <1>2, <1>3, CountAssumption
    <3> QED
        BY <3>1, <3>2 DEF PendingExact
  <2> QED
    BY <2>1, <2>2
<1>9. CeremonyShape'
    BY <1>1, <1>2, <1>3, <1>6, <1>7, CountAssumption DEF CeremonyShape
<1>10. FinalizedIsClean' /\ ToleratedAccusations'
    BY <1>7 DEF FinalizedIsClean, ToleratedAccusations
<1> QED
    BY <1>4, <1>5, <1>8, <1>9, <1>10

\* Opening the ceremony with a commitment preserves the invariant.
LEMMA AndCommitInv ==
    ASSUME KGInv, NEW p \in Participants, keyGenAndCommit(p)
    PROVE  KGInv'
<1>1. CASE status # "UNINITIALIZED"
    BY <1>1, CommitInv DEF keyGenAndCommit
<1>2. CASE status = "UNINITIALIZED"
  <2> USE <1>2 DEF KGInv, keyGenAndCommit
  <2>0. register(p) /\ UNCHANGED complaint
    BY DEF keyGenCommit
  <2>1. /\ Registered' = {p}
        /\ p \in Members
        /\ Cardinality(Registered') = 1
        /\ Confirmed' = Confirmed
        /\ \A q \in Participants : FiledBy(q)' = FiledBy(q) /\ FiledAgainst(q)' = FiledAgainst(q)
        /\ pstatus' \in [Participants -> ParticipantStatus]
    <3>1. /\ Registered' = Registered \cup {p}
          /\ p \in Members
          /\ Confirmed' = Confirmed
          /\ \A q \in Participants : FiledBy(q)' = FiledBy(q) /\ FiledAgainst(q)' = FiledAgainst(q)
          /\ pstatus' \in [Participants -> ParticipantStatus]
      BY <2>0, RegisterSets
    <3>2. Registered = {}
      BY DEF CeremonyShape
    <3>3. Registered' = {p} /\ Cardinality({p}) = 1
      BY <3>1, <3>2, FS_Singleton
    <3> QED BY <3>1, <3>3
  <2>2. /\ status' = "COMMITTING" /\ pending' = Count - 1 /\ pending' \in Nat /\ pending' > 0
        /\ Count >= Threshold /\ Threshold > 1
        /\ UNCHANGED <<complaints, accusations, shared, complaint>>
    BY CountAssumption
  <2>3. KGTypeOK'
    BY <2>1, <2>2 DEF KGTypeOK, GroupStatus
  <2>4. CountersExact'
    BY <2>1, <2>2 DEF CountersExact
  <2>5. PendingExact'
    BY <2>1, <2>2, CountAssumption DEF PendingExact
  <2>6. CeremonyShape'
    BY <2>1, <2>2 DEF CeremonyShape
  <2> QED
    BY <2>2, <2>3, <2>4, <2>5, <2>6 DEF FinalizedIsClean, ToleratedAccusations
<1> QED
    BY <1>1, <1>2

\* Publishing the secret shares preserves the invariant.
LEMMA SecretShareInv ==
    ASSUME KGInv, NEW p \in Participants, keyGenSecretShare(p)
    PROVE  KGInv'
<1> USE DEF KGInv, keyGenSecretShare
<1>1. /\ Registered' = Registered /\ Confirmed' = Confirmed
      /\ \A q \in Participants : FiledBy(q)' = FiledBy(q) /\ FiledAgainst(q)' = FiledAgainst(q)
    BY DEF Registered, Confirmed, FiledBy, FiledAgainst
<1>2. /\ p \in Registered /\ shared' = shared \cup {p} /\ shared' \subseteq Registered
      /\ Registered \in SUBSET Participants
    BY DEF Registered, CeremonyShape
<1>3. /\ Cardinality(shared') = Cardinality(shared) + 1
      /\ Cardinality(shared) \in Nat
    BY <1>2, AddParticipant, FiniteParticipants DEF KGTypeOK
<1>4. /\ pending \in Nat /\ pending > 0 /\ pending + Cardinality(shared) = Count
      /\ Cardinality(Registered) = Count /\ Confirmed = {} /\ Count > 0
    BY CountAssumption DEF KGTypeOK, PendingExact, CeremonyShape
<1>5. KGTypeOK'
    BY <1>4, CountAssumption DEF KGTypeOK, GroupStatus, CountDown, Advance
<1>6. CountersExact'
    BY <1>1 DEF CountersExact
<1>7. CASE pending = 1
  <2>1. status' = "CONFIRMING" /\ pending' = Count
    BY <1>7 DEF Advance, CountDown
  <2>2. shared' = Registered
    BY <1>2, <1>3, <1>4, <1>7, SameSize
  <2>3. PendingExact'
    BY <2>1, <1>1, <1>4, FS_EmptySet, CountAssumption DEF PendingExact
  <2>4. CeremonyShape'
    BY <1>1, <1>2, <1>4, <2>1, <2>2 DEF CeremonyShape
  <2> QED
    BY <2>1, <2>3, <2>4, <1>5, <1>6 DEF FinalizedIsClean, ToleratedAccusations
<1>8. CASE pending # 1
  <2>1. status' = "SHARING" /\ pending' = pending - 1 /\ pending' > 0
    BY <1>4, <1>8 DEF Advance, CountDown
  <2>2. pending' + Cardinality(shared') = Count
    BY <2>1, <1>3, <1>4, CountAssumption
  <2>3. PendingExact'
    BY <2>1, <2>2 DEF PendingExact
  <2>4. CeremonyShape'
    BY <1>1, <1>2, <1>4, <2>1 DEF CeremonyShape
  <2> QED
    BY <2>1, <2>3, <2>4, <1>5, <1>6 DEF FinalizedIsClean, ToleratedAccusations
<1> QED
    BY <1>7, <1>8

\* A confirmation preserves the invariant.  The last one finalizes the
\* group: then all Count registered members have confirmed, and a member
\* that confirmed has no unresolved complaint.
LEMMA ConfirmInv ==
    ASSUME KGInv, NEW p \in Participants, keyGenConfirm(p)
    PROVE  KGInv'
<1> USE DEF KGInv, keyGenConfirm, confirm
<1>1. /\ Registered' = Registered /\ Confirmed' = Confirmed \cup {p} /\ p \notin Confirmed
      /\ Confirmed' \subseteq Registered /\ Registered \in SUBSET Participants
      /\ \A q \in Participants : FiledBy(q)' = FiledBy(q) /\ FiledAgainst(q)' = FiledAgainst(q)
    BY DEF KGTypeOK, Registered, Confirmed, FiledBy, FiledAgainst
<1>2. /\ Cardinality(Confirmed') = Cardinality(Confirmed) + 1
      /\ Cardinality(Confirmed) \in Nat
    BY <1>1, AddParticipant, FiniteParticipants DEF Confirmed
<1>3. /\ pending \in Nat /\ pending > 0 /\ pending + Cardinality(Confirmed) = Count
      /\ Cardinality(Registered) = Count /\ shared = Registered
    BY DEF KGTypeOK, PendingExact, CeremonyShape
<1>4. KGTypeOK'
    BY <1>3 DEF KGTypeOK, GroupStatus, ParticipantStatus, Advance
<1>5. CountersExact'
    BY <1>1 DEF CountersExact
<1>6. FiledBy(p) = {}
  <2>1. Cardinality(FiledBy(p)) = 0
    BY DEF CountersExact
  <2>2. IsFiniteSet(FiledBy(p))
    BY FiniteParticipants DEF FiledBy
  <2> QED
    BY <2>1, <2>2, FS_EmptySet
<1>7. \A q \in Confirmed' : FiledBy(q)' = {}
    BY <1>1, <1>6 DEF CeremonyShape, Confirmed
<1>8. status' \in {"CONFIRMING", "FINALIZED"}
    BY DEF Advance
<1>9. CeremonyShape'
    BY <1>1, <1>3, <1>7, <1>8 DEF CeremonyShape
<1>10. ToleratedAccusations'
    BY <1>8 DEF ToleratedAccusations
<1>11. CASE pending = 1
  <2>1. status' = "FINALIZED"
    BY <1>11 DEF Advance
  <2>2. Cardinality(Confirmed') = Count
    BY <1>2, <1>3, <1>11, CountAssumption
  <2>3. Confirmed' = Registered'
    BY <1>1, <1>3, <2>2, SameSize
  <2>4. \A pl, ac \in Participants : complaint'[pl][ac] # "SUBMITTED"
    <3> SUFFICES ASSUME NEW pl \in Participants, NEW ac \in Participants,
                        complaint'[pl][ac] = "SUBMITTED"
                 PROVE  FALSE
        OBVIOUS
    <3>1. pl \in Confirmed'
        BY <1>9, <2>3 DEF CeremonyShape
    <3>2. FiledBy(pl)' = {}
        BY <3>1, <1>7
    <3> QED
        BY <3>2 DEF FiledBy
  <2>5. FinalizedIsClean'
    BY <2>2, <2>3, <2>4, <1>9, <1>3, <1>1 DEF FinalizedIsClean, CeremonyShape
  <2> QED
    BY <2>1, <2>5, <1>4, <1>5, <1>9, <1>10 DEF PendingExact
<1>12. CASE pending # 1
  <2>1. status' = "CONFIRMING" /\ pending' = pending - 1 /\ pending' > 0
    BY <1>3, <1>12 DEF Advance
  <2>2. pending' + Cardinality(Confirmed') = Count
    BY <2>1, <1>2, <1>3, CountAssumption
  <2> QED
    BY <2>1, <2>2, <1>4, <1>5, <1>9, <1>10 DEF PendingExact, FinalizedIsClean
<1> QED
    BY <1>11, <1>12

\* A complaint preserves the invariant: it moves one pair into FiledBy and
\* FiledAgainst, and both counters with it.
LEMMA ComplainInv ==
    ASSUME KGInv, NEW pl \in Participants, NEW ac \in Participants, keyGenComplain(pl, ac)
    PROVE  KGInv'
<1> USE DEF KGInv, keyGenComplain, complain
<1>1. Registered' = Registered /\ Confirmed' = Confirmed /\ pl \notin Confirmed
      /\ {pl, ac} \subseteq Registered
    BY DEF Registered, Confirmed
<1>2. /\ FiledBy(pl)' = FiledBy(pl) \cup {ac} /\ ac \notin FiledBy(pl)
      /\ FiledAgainst(ac)' = FiledAgainst(ac) \cup {pl} /\ pl \notin FiledAgainst(ac)
      /\ \A q \in Participants \ {pl} : FiledBy(q)' = FiledBy(q)
      /\ \A q \in Participants \ {ac} : FiledAgainst(q)' = FiledAgainst(q)
    BY DEF KGTypeOK, FiledBy, FiledAgainst
<1>3. status' \in {status, "COMPROMISED"}
    OBVIOUS
<1>4. KGTypeOK'
  <2>1. complaint' \in [Participants -> [Participants -> ComplaintStatus]]
    BY DEF KGTypeOK, ComplaintStatus
  <2>2. complaints' \in [Participants -> Nat] /\ accusations' \in [Participants -> Nat]
    BY DEF KGTypeOK
  <2> QED
    BY <1>3, <2>1, <2>2 DEF KGTypeOK, GroupStatus
<1>5. CountersExact'
  <2>1. Cardinality(FiledBy(pl)') = Cardinality(FiledBy(pl)) + 1
    BY <1>2, AddParticipant DEF FiledBy
  <2>2. Cardinality(FiledAgainst(ac)') = Cardinality(FiledAgainst(ac)) + 1
    BY <1>2, AddParticipant DEF FiledAgainst
  <2>3. /\ complaints'[pl] = complaints[pl] + 1
        /\ accusations'[ac] = accusations[ac] + 1
        /\ \A q \in Participants \ {pl} : complaints'[q] = complaints[q]
        /\ \A q \in Participants \ {ac} : accusations'[q] = accusations[q]
    BY DEF KGTypeOK
  <2> QED
    BY <1>2, <2>1, <2>2, <2>3 DEF CountersExact
<1>6. PendingExact'
    BY <1>1, <1>3 DEF PendingExact
<1>7. CeremonyShape'
  <2>1. \A a, b \in Participants :
            complaint'[a][b] # "NONE" => a # b /\ {a, b} \subseteq Registered'
    BY <1>1 DEF KGTypeOK, CeremonyShape
  <2>2. \A q \in Confirmed' : FiledBy(q)' = {}
    BY <1>1, <1>2 DEF CeremonyShape, Confirmed
  <2> QED
    BY <1>1, <1>3, <2>1, <2>2 DEF CeremonyShape
<1>8. ToleratedAccusations'
  <2> SUFFICES ASSUME status' # "COMPROMISED", NEW q \in Participants
               PROVE  accusations'[q] < Threshold \/ accusations'[q] = 0
    BY DEF ToleratedAccusations
  <2>1. ~ (accusations[ac] + 1 >= Threshold)
    BY DEF compromises
  <2>2. accusations'[ac] = accusations[ac] + 1 /\ accusations[ac] \in Nat
    BY DEF KGTypeOK
  <2>3. q # ac => accusations'[q] = accusations[q]
    BY DEF KGTypeOK
  <2> QED
    BY <2>1, <2>2, <2>3, CountAssumption DEF ToleratedAccusations
<1>9. FinalizedIsClean'
    BY <1>3 DEF FinalizedIsClean
<1> QED
    BY <1>4, <1>5, <1>6, <1>7, <1>8, <1>9

\* A response preserves the invariant: the counters it decrements are the
\* sizes of sets that hold the settled complaint, so neither underflows.
LEMMA RespondInv ==
    ASSUME KGInv, NEW pl \in Participants, NEW ac \in Participants,
           keyGenComplaintResponse(pl, ac)
    PROVE  KGInv'
<1> USE DEF KGInv, keyGenComplaintResponse, respond
<1>1. Registered' = Registered /\ Confirmed' = Confirmed
    BY DEF Registered, Confirmed
<1>2. /\ FiledBy(pl)' = FiledBy(pl) \ {ac} /\ ac \in FiledBy(pl)
      /\ FiledAgainst(ac)' = FiledAgainst(ac) \ {pl} /\ pl \in FiledAgainst(ac)
      /\ \A q \in Participants \ {pl} : FiledBy(q)' = FiledBy(q)
      /\ \A q \in Participants \ {ac} : FiledAgainst(q)' = FiledAgainst(q)
    BY DEF KGTypeOK, FiledBy, FiledAgainst
<1>3. /\ Cardinality(FiledBy(pl)') = Cardinality(FiledBy(pl)) - 1
      /\ Cardinality(FiledBy(pl)) > 0
    BY <1>2, RemoveParticipant DEF FiledBy
<1>4. /\ Cardinality(FiledAgainst(ac)') = Cardinality(FiledAgainst(ac)) - 1
      /\ Cardinality(FiledAgainst(ac)) > 0
    BY <1>2, RemoveParticipant DEF FiledAgainst
<1>5. /\ complaints'[pl] = complaints[pl] - 1 /\ complaints[pl] > 0
      /\ accusations'[ac] = accusations[ac] - 1 /\ accusations[ac] > 0
      /\ \A q \in Participants \ {pl} : complaints'[q] = complaints[q]
      /\ \A q \in Participants \ {ac} : accusations'[q] = accusations[q]
    BY <1>3, <1>4 DEF KGTypeOK, CountersExact
<1>6. KGTypeOK'
  <2>1. complaint' \in [Participants -> [Participants -> ComplaintStatus]]
    BY DEF KGTypeOK, ComplaintStatus
  <2>2. complaints' \in [Participants -> Nat] /\ accusations' \in [Participants -> Nat]
    BY <1>5 DEF KGTypeOK
  <2> QED
    BY <2>1, <2>2 DEF KGTypeOK
<1>7. CountersExact'
    BY <1>2, <1>3, <1>4, <1>5 DEF CountersExact
<1>8. PendingExact'
    BY <1>1 DEF PendingExact
<1>9. CeremonyShape'
  <2>1. \A a, b \in Participants :
            complaint'[a][b] # "NONE" => a # b /\ {a, b} \subseteq Registered'
    BY <1>1 DEF KGTypeOK, CeremonyShape
  <2>2. \A q \in Confirmed' : FiledBy(q)' = {}
    BY <1>1, <1>2 DEF CeremonyShape, Confirmed
  <2> QED
    BY <1>1, <2>1, <2>2 DEF CeremonyShape
<1>10. ToleratedAccusations'
  <2> SUFFICES ASSUME NEW q \in Participants
               PROVE  accusations'[q] < Threshold \/ accusations'[q] = 0
    BY DEF ToleratedAccusations
  <2>1. accusations[q] \in Nat /\ (accusations[q] < Threshold \/ accusations[q] = 0)
    BY DEF KGTypeOK, ToleratedAccusations
  <2> QED
    BY <1>5, <2>1, CountAssumption
<1>11. FinalizedIsClean'
    BY DEF FinalizedIsClean
<1> QED
    BY <1>6, <1>7, <1>8, <1>9, <1>10, <1>11

\* Every transaction preserves the inductive invariant.
LEMMA NextInv == KGInv /\ [KGNext]_kgVars => KGInv'
<1> SUFFICES ASSUME KGInv, [KGNext]_kgVars PROVE KGInv'
    OBVIOUS
<1>1. CASE keyGen
    BY <1>1, KeyGenInv
<1>2. ASSUME NEW p \in Participants,
             \/ keyGenCommit(p) \/ keyGenAndCommit(p)
             \/ keyGenSecretShare(p) \/ keyGenConfirm(p)
      PROVE  KGInv'
    BY <1>2, CommitInv, AndCommitInv, SecretShareInv, ConfirmInv
<1>3. ASSUME NEW pl \in Participants, NEW ac \in Participants,
             keyGenComplain(pl, ac) \/ keyGenComplaintResponse(pl, ac)
      PROVE  KGInv'
    BY <1>3, ComplainInv, RespondInv
<1>4. CASE UNCHANGED kgVars
  <2> USE <1>4 DEF kgVars, KGInv
  <2>1. /\ Registered' = Registered /\ Confirmed' = Confirmed
        /\ \A q \in Participants : FiledBy(q)' = FiledBy(q) /\ FiledAgainst(q)' = FiledAgainst(q)
    BY DEF Registered, Confirmed, FiledBy, FiledAgainst
  <2>2. KGTypeOK'
    BY DEF KGTypeOK
  <2>3. CountersExact' /\ PendingExact'
    BY <2>1 DEF CountersExact, PendingExact
  <2>4. CeremonyShape'
    BY <2>1 DEF CeremonyShape, Confirmed
  <2>5. FinalizedIsClean' /\ ToleratedAccusations'
    BY <2>1 DEF FinalizedIsClean, ToleratedAccusations
  <2> QED
    BY <2>2, <2>3, <2>4, <2>5
<1> QED
    BY <1>1, <1>2, <1>3, <1>4 DEF KGNext

\* The storage of a ceremony is well typed in every reachable state and the
\* inductive invariant holds: no counter of the contract underflows, for any
\* number of participants.
THEOREM KeyGenInvariant == KGSpec => []KGInv
<1> QED
    BY InitInv, NextInv, PTL DEF KGSpec

\* Type correctness of the ceremony's storage.
THEOREM KeyGenTypeCorrect == KGSpec => []KGTypeOK
<1>1. KGInv => KGTypeOK
    BY DEF KGInv
<1> QED
    BY <1>1, KeyGenInvariant, PTL

\* A group that keyGenConfirm finalized has no open dispute, and exactly the
\* Count members that registered also shared and confirmed.
THEOREM FinalizedGroupsAreClean == KGSpec => []FinalizedIsClean
<1>1. KGInv => FinalizedIsClean
    BY DEF KGInv
<1> QED
    BY <1>1, KeyGenInvariant, PTL

\* The complaint and accusation counters of FROSTParticipantMap are the
\* numbers of unresolved complaints, and `pending` is the number of missing
\* participants.
THEOREM CountersAreExact == KGSpec => [](CountersExact /\ PendingExact)
<1>1. KGInv => CountersExact /\ PendingExact
    BY DEF KGInv
<1> QED
    BY <1>1, KeyGenInvariant, PTL

\* No transaction undoes a step of the ceremony: a finished one is frozen,
\* and statuses, shares and settled complaints only move forward.
THEOREM CeremonyNeverUndone == KGSpec => NothingUndone
<1> DEFINE Kept ==
        /\ status \in {"FINALIZED", "COMPROMISED"} => UNCHANGED kgVars
        /\ \A p \in Participants :
            /\ pstatus[p] = "CONFIRMED" => pstatus'[p] = "CONFIRMED"
            /\ pstatus[p] = "REGISTERED" => pstatus'[p] # "NONE"
        /\ shared \subseteq shared'
        /\ \A pl, ac \in Participants :
            complaint[pl][ac] = "RESPONDED" => complaint'[pl][ac] = "RESPONDED"
<1>1. KGTypeOK /\ [KGNext]_kgVars => [Kept]_kgVars
  <2> SUFFICES ASSUME KGTypeOK, KGNext PROVE Kept
    OBVIOUS
  <2> USE DEF KGTypeOK
  <2>1. CASE keyGen
    BY <2>1 DEF keyGen
  <2>2. ASSUME NEW p \in Participants,
               keyGenCommit(p) \/ keyGenAndCommit(p)
        PROVE  Kept
    BY <2>2 DEF keyGenCommit, keyGenAndCommit, register
  <2>3. ASSUME NEW p \in Participants, keyGenSecretShare(p) PROVE Kept
    BY <2>3 DEF keyGenSecretShare
  <2>4. ASSUME NEW p \in Participants, keyGenConfirm(p) PROVE Kept
    BY <2>4 DEF keyGenConfirm, confirm
  <2>5. ASSUME NEW pl \in Participants, NEW ac \in Participants, keyGenComplain(pl, ac)
        PROVE  Kept
    BY <2>5 DEF keyGenComplain, complain
  <2>6. ASSUME NEW pl \in Participants, NEW ac \in Participants, keyGenComplaintResponse(pl, ac)
        PROVE  Kept
    BY <2>6 DEF keyGenComplaintResponse, respond
  <2> QED
    BY <2>1, <2>2, <2>3, <2>4, <2>5, <2>6 DEF KGNext
<1> QED
    BY <1>1, KeyGenTypeCorrect, PTL DEF KGSpec, NothingUndone

----------------------------------------------------------------------------
(* Preprocessing and signing                                               *)

Slot == [root : Roots \cup {None}, offset : Nat, at : Nat]

Opening == [seq : Sequences64, participant : Participants, root : Roots, offset : Nat]

\* The types of what preprocessing and signing store.
SignTypeOK ==
    /\ sequence \in 0 .. MaxSequence
    /\ next \in [Participants -> Nat]
    /\ chunks \in [Participants -> [Chunks -> Slot]]
    /\ message \in [Sequences64 -> Messages \cup {None}]
    /\ signed \in [Sequences64 -> SUBSET Participants]
    /\ revealed \in SUBSET Opening

\* A committed chunk lies below the participant's next one, and was written
\* when no sequence at or after its start offset had begun.
ChunksAhead ==
    \A p \in Participants, c \in Chunks : chunks[p][c].root # None =>
        /\ c < next[p]
        /\ chunks[p][c].at <= ChunkSize * c + chunks[p][c].offset

\* What was opened is what the slot still holds.
OpenedFromSlots ==
    \A r \in revealed :
        /\ chunkOf(r.seq) \in Chunks
        /\ chunks[r.participant][chunkOf(r.seq)].root = r.root
        /\ chunks[r.participant][chunkOf(r.seq)].offset <= offsetOf(r.seq)
        /\ r.offset = offsetOf(r.seq)

\* The ceremonies that began are those below `sequence`, of a finalized
\* group, and only participants with a verification share took part.
CeremoniesBegan ==
    /\ \A s \in Sequences64 : message[s] # None <=> s < sequence
    /\ sequence > 0 => status = "FINALIZED"
    /\ \A s \in Sequences64, sel \in Selections, p \in Participants :
        <<s, sel, p>> \in shares => p \in shared

\* The inductive invariant of the whole life of a group.
GroupInv ==
    /\ KGInv
    /\ SignTypeOK
    /\ ChunksAhead
    /\ OpenedFromSlots
    /\ CeremoniesBegan
    /\ SignedByQuorum

----------------------------------------------------------------------------
(* Arithmetic of chunks                                                    *)

\* A sequence is its offset in its chunk.
LEMMA ChunkArithmetic ==
    \A s \in Nat :
        /\ chunkOf(s) \in Nat
        /\ offsetOf(s) \in Nat
        /\ offsetOf(s) < ChunkSize
        /\ s = ChunkSize * chunkOf(s) + offsetOf(s)
<1> SUFFICES ASSUME NEW s \in Nat
             PROVE  /\ chunkOf(s) \in Nat
                    /\ offsetOf(s) \in Nat
                    /\ offsetOf(s) < ChunkSize
                    /\ s = ChunkSize * chunkOf(s) + offsetOf(s)
    OBVIOUS
<1> QED
    BY ChunkAssumption, Z3 DEF chunkOf, offsetOf

\* A later chunk starts after every sequence of an earlier one.
LEMMA LaterChunk ==
    \A s, c \in Nat : c > chunkOf(s) => s <= ChunkSize * c
<1> SUFFICES ASSUME NEW s \in Nat, NEW c \in Nat, c > chunkOf(s)
             PROVE  s <= ChunkSize * c
    OBVIOUS
<1>1. PICK q \in Nat : q = chunkOf(s)
    BY ChunkArithmetic
<1>2. PICK d \in Nat : c = q + 1 + d
  <2>1. c - q - 1 \in Nat /\ c = q + 1 + (c - q - 1)
    BY <1>1
  <2> QED
    BY <2>1
<1>3. ChunkSize \in Nat
    BY ChunkAssumption
<1>4. ChunkSize * c = ChunkSize * q + ChunkSize + ChunkSize * d /\ ChunkSize * d \in Nat
    BY <1>2, <1>3, Z3
<1>5. offsetOf(s) \in Nat /\ offsetOf(s) < ChunkSize /\ s = ChunkSize * q + offsetOf(s)
    BY <1>1, ChunkArithmetic
<1>6. ChunkSize * q \in Nat
    BY <1>3
<1> QED
    BY <1>3, <1>4, <1>5, <1>6

----------------------------------------------------------------------------
(* The invariant                                                           *)

\* A group starts with nothing committed, opened or signed.
LEMMA InitGroup == Init => GroupInv
<1> SUFFICES ASSUME Init PROVE GroupInv
    OBVIOUS
<1> USE DEF Init
<1>1. KGInv
    BY InitInv
<1>2. SignTypeOK
    BY BoundsAssumption DEF SignTypeOK, Slot, EmptySlot, Sequences64, Chunks
<1>3. ChunksAhead
    BY DEF ChunksAhead, EmptySlot
<1>4. OpenedFromSlots
    BY DEF OpenedFromSlots
<1>5. CeremoniesBegan
    BY BoundsAssumption DEF CeremoniesBegan, Sequences64
<1>6. SignedByQuorum
    BY DEF SignedByQuorum
<1> QED
    BY <1>1, <1>2, <1>3, <1>4, <1>5, <1>6 DEF GroupInv

\* No transaction of the key generation is possible in a finalized group.
LEMMA FinalizedIsFinal == status = "FINALIZED" => ~KGNext
    BY DEF KGNext, keyGen, keyGenCommit, keyGenAndCommit, keyGenSecretShare,
           keyGenConfirm, keyGenComplain, keyGenComplaintResponse

\* Key generation precedes every ceremony, so it finds nothing signed.
LEMMA KeyGenGroup == GroupInv /\ KGNext /\ UNCHANGED signVars => GroupInv'
<1> SUFFICES ASSUME GroupInv, KGNext, UNCHANGED signVars PROVE GroupInv'
    OBVIOUS
<1> USE DEF GroupInv, signVars
<1>1. KGInv'
    BY NextInv
<1>2. status # "FINALIZED"
    BY FinalizedIsFinal
<1>3. sequence = 0
    BY <1>2 DEF SignTypeOK, CeremoniesBegan
<1>4. \A s \in Sequences64 : signed[s] = {}
    BY <1>2 DEF SignedByQuorum
<1>5. SignTypeOK'
    BY DEF SignTypeOK
<1>6. ChunksAhead' /\ OpenedFromSlots'
    BY DEF ChunksAhead, OpenedFromSlots
<1>7. shared \subseteq shared'
    BY DEF KGNext, keyGen, keyGenCommit, keyGenAndCommit, keyGenSecretShare,
           keyGenConfirm, keyGenComplain, keyGenComplaintResponse
<1>8. CeremoniesBegan'
    BY <1>3, <1>7 DEF CeremoniesBegan
<1>9. SignedByQuorum'
    BY <1>4 DEF SignedByQuorum
<1> QED
    BY <1>1, <1>5, <1>6, <1>8, <1>9

\* A commitment goes to a chunk that p has not written before, and starts at
\* the running sequence or later.
LEMMA CommitTarget ==
    ASSUME SignTypeOK, NEW p \in Participants
    PROVE  /\ commitChunk(p) \in Nat
           /\ commitChunk(p) >= next[p]
           /\ startOffset(p) \in Nat
           /\ sequence \in Nat
           /\ sequence <= ChunkSize * commitChunk(p) + startOffset(p)
<1>1. sequence \in Nat /\ next[p] \in Nat
    BY BoundsAssumption DEF SignTypeOK
<1>2. chunkOf(sequence) \in Nat /\ offsetOf(sequence) \in Nat
      /\ sequence = ChunkSize * chunkOf(sequence) + offsetOf(sequence)
    BY <1>1, ChunkArithmetic
<1>3. CASE next[p] > chunkOf(sequence)
  <2>1. commitChunk(p) = next[p] /\ startOffset(p) = 0
    BY <1>3 DEF commitChunk, startOffset
  <2>2. sequence <= ChunkSize * next[p]
    BY <1>1, <1>3, LaterChunk
  <2>3. ChunkSize * next[p] \in Nat
    BY <1>1, ChunkAssumption
  <2> QED
    BY <1>1, <2>1, <2>2, <2>3
<1>4. CASE ~(next[p] > chunkOf(sequence))
  <2>1. commitChunk(p) = chunkOf(sequence) /\ startOffset(p) = offsetOf(sequence)
    BY <1>4 DEF commitChunk, startOffset
  <2> QED
    BY <1>1, <1>2, <1>4, <2>1
<1> QED
    BY <1>3, <1>4

\* preprocess writes a fresh slot and leaves every written one alone.
LEMMA PreprocessGroup ==
    ASSUME GroupInv, NEW p \in Participants, NEW root \in Roots, preprocess(p, root)
    PROVE  GroupInv'
<1> USE DEF GroupInv, preprocess, commit
<1> DEFINE written == [root |-> root, offset |-> startOffset(p), at |-> sequence]
<1>1. KGInv'
    BY NextInv
<1>2. PICK c : c = commitChunk(p)
    OBVIOUS
<1>3. PICK w : w = written
    OBVIOUS
<1>4. /\ c \in Chunks /\ c \in Nat /\ c >= next[p]
      /\ w \in Slot /\ w.root = root /\ w.at <= ChunkSize * c + w.offset
    BY <1>2, <1>3, CommitTarget DEF Slot
<1>5. /\ chunks' = [chunks EXCEPT ![p][c] = w]
      /\ next' = [next EXCEPT ![p] = c + 1]
    BY <1>2, <1>3
<1>6. SignTypeOK'
  <2>1. next' \in [Participants -> Nat]
    BY <1>4, <1>5 DEF SignTypeOK
  <2>2. chunks[p] \in [Chunks -> Slot]
    BY DEF SignTypeOK
  <2>3. [chunks[p] EXCEPT ![c] = w] \in [Chunks -> Slot]
    BY <1>4, <2>2
  <2>4. chunks' = [chunks EXCEPT ![p] = [chunks[p] EXCEPT ![c] = w]]
    BY <1>5
  <2>5. chunks' \in [Participants -> [Chunks -> Slot]]
    BY <2>3, <2>4 DEF SignTypeOK
  <2> QED
    BY <2>1, <2>5 DEF SignTypeOK
<1>7. \A q \in Participants, d \in Chunks :
        chunks'[q][d] = IF q = p /\ d = c THEN w ELSE chunks[q][d]
    BY <1>4, <1>5 DEF SignTypeOK
<1>8. \A q \in Participants : next'[q] = IF q = p THEN c + 1 ELSE next[q]
    BY <1>5 DEF SignTypeOK
<1>9. \A q \in Participants, d \in Chunks :
        chunks[q][d].root # None => chunks'[q][d] = chunks[q][d]
  <2> SUFFICES ASSUME NEW q \in Participants, NEW d \in Chunks, chunks[q][d].root # None,
                      q = p, d = c
               PROVE  FALSE
    BY <1>7
  <2>1. c < next[p] /\ next[p] \in Nat
    BY DEF ChunksAhead, SignTypeOK
  <2> QED
    BY <1>4, <2>1
<1>10. ChunksAhead'
  <2> SUFFICES ASSUME NEW q \in Participants, NEW d \in Chunks, chunks'[q][d].root # None
               PROVE  /\ d < next'[q]
                      /\ chunks'[q][d].at <= ChunkSize * d + chunks'[q][d].offset
    BY DEF ChunksAhead
  <2>1. CASE q = p /\ d = c
    BY <1>4, <1>7, <1>8, <2>1
  <2>2. CASE ~(q = p /\ d = c)
    <3>1. chunks'[q][d] = chunks[q][d]
      BY <1>7, <2>2
    <3>2. d < next[q] /\ chunks[q][d].at <= ChunkSize * d + chunks[q][d].offset
      BY <3>1 DEF ChunksAhead
    <3>3. next[q] <= next'[q] /\ next[q] \in Nat /\ next'[q] \in Nat
      BY <1>4, <1>8 DEF SignTypeOK
    <3>4. d \in Nat
      BY BoundsAssumption DEF Chunks
    <3> QED
      BY <3>1, <3>2, <3>3, <3>4
  <2> QED
    BY <2>1, <2>2
<1>11. OpenedFromSlots'
  <2> SUFFICES ASSUME NEW r \in revealed
               PROVE  /\ chunkOf(r.seq) \in Chunks
                      /\ chunks'[r.participant][chunkOf(r.seq)].root = r.root
                      /\ chunks'[r.participant][chunkOf(r.seq)].offset <= offsetOf(r.seq)
                      /\ r.offset = offsetOf(r.seq)
    BY DEF OpenedFromSlots, chunkOf, offsetOf
  <2>1. r.participant \in Participants /\ r.root # None
    BY NoneAssumption DEF SignTypeOK, Opening
  <2> QED
    BY <1>9, <2>1 DEF OpenedFromSlots
<1>12. CeremoniesBegan'
    BY DEF CeremoniesBegan, kgVars
<1>13. SignedByQuorum'
    BY DEF SignedByQuorum, kgVars, Confirmed
<1> QED
    BY <1>1, <1>6, <1>10, <1>11, <1>12, <1>13

\* sign begins the next ceremony of a finalized group.
LEMMA SignGroup ==
    ASSUME GroupInv, NEW m \in Messages, sign(m)
    PROVE  GroupInv'
<1> USE DEF GroupInv, sign
<1>1. KGInv'
    BY NextInv
<1>2. SignTypeOK'
  <2>1. sequence' \in 0 .. MaxSequence
    BY BoundsAssumption DEF SignTypeOK
  <2>2. message' \in [Sequences64 -> Messages \cup {None}]
    BY DEF SignTypeOK
  <2> QED
    BY <2>1, <2>2 DEF SignTypeOK
<1>3. ChunksAhead' /\ OpenedFromSlots'
    BY DEF ChunksAhead, OpenedFromSlots
<1>4. CeremoniesBegan'
    BY BoundsAssumption, NoneAssumption DEF CeremoniesBegan, SignTypeOK, Sequences64, kgVars
<1>5. SignedByQuorum'
    BY BoundsAssumption DEF SignedByQuorum, SignTypeOK, Sequences64, kgVars, Confirmed
<1> QED
    BY <1>1, <1>2, <1>3, <1>4, <1>5

\* signRevealNonces opens a pair that its slot holds.
LEMMA RevealGroup ==
    ASSUME GroupInv, NEW p \in Participants, NEW s \in Sequences64, signRevealNonces(p, s)
    PROVE  GroupInv'
<1> USE DEF GroupInv, signRevealNonces
<1>1. KGInv'
    BY NextInv
<1>2. s \in Nat /\ offsetOf(s) \in Nat
    BY BoundsAssumption, ChunkArithmetic DEF Sequences64
<1>3. PICK r : r = [seq |-> s, participant |-> p,
                    root |-> chunks[p][chunkOf(s)].root, offset |-> offsetOf(s)]
    OBVIOUS
<1>4. /\ r \in Opening
      /\ chunkOf(r.seq) \in Chunks
      /\ chunks[r.participant][chunkOf(r.seq)].root = r.root
      /\ chunks[r.participant][chunkOf(r.seq)].offset <= offsetOf(r.seq)
      /\ r.offset = offsetOf(r.seq)
  <2>1. chunks[p][chunkOf(s)] \in Slot
    BY DEF SignTypeOK, includesNonce
  <2>2. chunks[p][chunkOf(s)].root \in Roots
    BY <2>1 DEF Slot, includesNonce
  <2>3. chunks[p][chunkOf(s)].offset <= offsetOf(s)
    BY <1>2, <2>1 DEF Slot, includesNonce
  <2> QED
    BY <1>2, <1>3, <2>2, <2>3 DEF Opening, includesNonce
<1>5. revealed' = revealed \cup {r}
    BY <1>3
<1>6. SignTypeOK'
    BY <1>4, <1>5 DEF SignTypeOK
<1>7. ChunksAhead'
    BY DEF ChunksAhead
<1>8. OpenedFromSlots'
    BY <1>4, <1>5 DEF OpenedFromSlots, chunkOf, offsetOf
<1>9. CeremoniesBegan'
    BY DEF CeremoniesBegan, kgVars
<1>10. SignedByQuorum'
    BY DEF SignedByQuorum, kgVars, Confirmed
<1> QED
    BY <1>1, <1>6, <1>7, <1>8, <1>9, <1>10

\* signShare completes a selection only with the shares of all its signers.
LEMMA ShareGroup ==
    ASSUME GroupInv, NEW p \in Participants, NEW s \in Sequences64,
           NEW sel \in Selections, signShare(p, s, sel)
    PROVE  GroupInv'
<1> USE DEF GroupInv, signShare
<1>1. KGInv'
    BY NextInv
<1>2. status = "FINALIZED" /\ s < sequence
    BY BoundsAssumption DEF CeremoniesBegan, SignTypeOK, Sequences64
<1>3. sel \subseteq Participants
    BY SelectionsAssumption
<1>4. signed' = signed \/ (isComplete(s, sel, p) /\ Cardinality(sel) >= Threshold
                             /\ signed' = [signed EXCEPT ![s] = sel])
    BY DEF complete
<1>5. SignTypeOK'
    BY <1>3, <1>4 DEF SignTypeOK
<1>6. ChunksAhead' /\ OpenedFromSlots'
    BY DEF ChunksAhead, OpenedFromSlots
<1>7. shares' = shares \cup {<<s, sel, p>>} /\ p \in shared
    OBVIOUS
<1>8. CeremoniesBegan'
    BY <1>7 DEF CeremoniesBegan, kgVars
<1>9. isComplete(s, sel, p) =>
        /\ sel \subseteq Confirmed
        /\ \A q \in sel : <<s, sel, q>> \in shares'
  <2> SUFFICES ASSUME isComplete(s, sel, p), NEW q \in sel
               PROVE  q \in Confirmed /\ <<s, sel, q>> \in shares'
    OBVIOUS
  <2>1. q = p \/ <<s, sel, q>> \in shares
    BY DEF isComplete, sharers
  <2>2. q \in shared
    BY <1>3, <1>7, <2>1 DEF CeremoniesBegan
  <2>3. shared = Confirmed
    BY <1>2 DEF KGInv, FinalizedIsClean
  <2> QED
    BY <1>7, <2>1, <2>2, <2>3
<1>10. Confirmed' = Confirmed /\ status' = status /\ sequence' = sequence
    BY DEF kgVars, Confirmed
<1>11. SignedByQuorum'
  <2> SUFFICES ASSUME NEW t \in Sequences64, signed'[t] # {}
               PROVE  /\ status = "FINALIZED"
                      /\ t < sequence
                      /\ signed'[t] \subseteq Confirmed
                      /\ Cardinality(signed'[t]) >= Threshold
                      /\ \A q \in signed'[t] : <<t, signed'[t], q>> \in shares'
    BY <1>10 DEF SignedByQuorum
  <2>1. CASE signed'[t] = signed[t]
    BY <1>7, <2>1 DEF SignedByQuorum
  <2>2. CASE signed'[t] # signed[t]
    <3>1. t = s /\ signed'[t] = sel /\ isComplete(s, sel, p) /\ Cardinality(sel) >= Threshold
      BY <1>4, <2>2 DEF SignTypeOK
    <3> QED
      BY <1>2, <1>9, <3>1
  <2> QED
    BY <2>1, <2>2
<1> QED
    BY <1>1, <1>5, <1>6, <1>8, <1>11

\* Every transaction preserves the invariant.
LEMMA NextGroup == GroupInv /\ [Next]_vars => GroupInv'
<1> SUFFICES ASSUME GroupInv, [Next]_vars PROVE GroupInv'
    OBVIOUS
<1>1. CASE KGNext /\ UNCHANGED signVars
    BY <1>1, KeyGenGroup
<1>2. CASE UNCHANGED vars
  <2> USE <1>2 DEF vars, signVars, GroupInv
  <2>1. KGInv'
    BY NextInv
  <2>2. SignTypeOK' /\ ChunksAhead' /\ OpenedFromSlots'
    BY DEF SignTypeOK, ChunksAhead, OpenedFromSlots
  <2>3. CeremoniesBegan' /\ SignedByQuorum'
    BY DEF CeremoniesBegan, SignedByQuorum, kgVars, Confirmed
  <2> QED
    BY <2>1, <2>2, <2>3
<1> QED
    BY <1>1, <1>2, PreprocessGroup, SignGroup, RevealGroup, ShareGroup DEF Next

----------------------------------------------------------------------------
(* Theorems                                                                *)

\* The inductive invariant holds for any number of participants, messages,
\* chunks and ceremonies, and any chunk size.
THEOREM GroupInvariant == Spec => []GroupInv
<1> QED
    BY InitGroup, NextGroup, PTL DEF Spec

\* A revealed nonce pair was committed before its sequence was used
\* (FROSTNonceCommitmentSet.commit and verify), and no later commitment
\* overwrites the root it was opened under.
THEOREM NoncesArePrecommitted == Spec => []NoncesPrecommitted
<1>1. GroupInv => NoncesPrecommitted
  <2> SUFFICES ASSUME GroupInv, NEW r \in revealed
               PROVE  /\ chunks[r.participant][chunkOf(r.seq)].root = r.root
                      /\ chunks[r.participant][chunkOf(r.seq)].at <= r.seq
    BY DEF NoncesPrecommitted
  <2> USE DEF GroupInv
  <2>1. r \in Opening
    BY DEF SignTypeOK
  <2>2. r.seq \in Nat /\ r.participant \in Participants /\ r.root # None
    BY <2>1, BoundsAssumption, NoneAssumption DEF Opening, Sequences64
  <2>3. PICK c \in Chunks : c = chunkOf(r.seq)
    BY DEF OpenedFromSlots
  <2>4. PICK k : k = chunks[r.participant][c]
    OBVIOUS
  <2>5. k.root = r.root /\ k.offset <= offsetOf(r.seq)
    BY <2>3, <2>4 DEF OpenedFromSlots
  <2>6. k \in Slot
    BY <2>2, <2>4 DEF SignTypeOK
  <2>7. k.at <= ChunkSize * c + k.offset
    BY <2>2, <2>4, <2>5 DEF ChunksAhead
  <2>8. r.seq = ChunkSize * c + offsetOf(r.seq) /\ offsetOf(r.seq) \in Nat
    BY <2>2, <2>3, ChunkArithmetic
  <2>9. ChunkSize * c \in Nat
    BY ChunkAssumption, BoundsAssumption DEF Chunks
  <2>10. k.at \in Nat /\ k.offset \in Nat
    BY <2>6 DEF Slot
  <2>11. k.at <= r.seq
    BY <2>2, <2>5, <2>7, <2>8, <2>9, <2>10
  <2> QED
    BY <2>3, <2>4, <2>5, <2>11
<1> QED
    BY <1>1, GroupInvariant, PTL

\* Whatever is committed in between, signRevealNonces shows one nonce pair of
\* a participant for a ceremony.
THEOREM OneNonceIsRevealed == Spec => []OneNoncePerCeremony
<1>1. GroupInv => OneNoncePerCeremony
  <2> SUFFICES ASSUME GroupInv, NEW r1 \in revealed, NEW r2 \in revealed,
                      r1.participant = r2.participant, r1.seq = r2.seq
               PROVE  r1 = r2
    BY DEF OneNoncePerCeremony
  <2>1. r1 \in Opening /\ r2 \in Opening
    BY DEF GroupInv, SignTypeOK
  <2>2. r1.root = r2.root /\ r1.offset = r2.offset
    BY DEF GroupInv, OpenedFromSlots
  <2> QED
    BY <2>1, <2>2 DEF Opening
<1> QED
    BY <1>1, GroupInvariant, PTL

\* A signature that signShare stored has the shares of a whole selection of
\* at least Threshold confirmed members.
THEOREM QuorumSigns == Spec => []SignedByQuorum
<1>1. GroupInv => SignedByQuorum
    BY DEF GroupInv
<1> QED
    BY <1>1, GroupInvariant, PTL

----------------------------------------------------------------------------
(* Refinement of GroupSigner                                               *)

\* What the refinement mapping shows as the requests of the group.
Asked == [i \in 1 .. sequence |-> message[i - 1]]

\* What it shows as the completed ones.
Done == {<<s + 1, signed[s]>> : s \in {t \in Sequences64 : signed[t] # {}}}

\* A new group is a signer that was asked nothing.
LEMMA InitSigner == Init => Signer!GSInit
<1> SUFFICES ASSUME Init PROVE Signer!GSInit
    OBVIOUS
<1>1. 1 .. sequence = {}
    BY DEF Init
<1>2. Asked = << >>
    BY <1>1 DEF Asked
<1>3. Done = {}
    BY DEF Init, Done
<1> QED
    BY <1>2, <1>3 DEF Init, KGInit, Signer!GSInit, Asked, Done

\* A step that leaves ceremonies and status alone is a stutter.
LEMMA SignerStutters ==
    ASSUME UNCHANGED <<status, sequence, message, signed>>
    PROVE  UNCHANGED Signer!gsVars
    BY DEF Signer!gsVars

\* Appending, as a function of the positions.
LEMMA AppendAsFunction ==
    ASSUME NEW S, NEW q \in Seq(S), NEW e \in S, NEW n \in Nat, Len(q) = n
    PROVE  Append(q, e) = [i \in 1 .. n + 1 |-> IF i = n + 1 THEN e ELSE q[i]]
<1>1. /\ Append(q, e) \in Seq(S)
      /\ Len(Append(q, e)) = n + 1
      /\ \A i \in 1 .. n : Append(q, e)[i] = q[i]
      /\ Append(q, e)[n + 1] = e
    OBVIOUS
<1>2. PICK t : t = [i \in 1 .. n + 1 |-> IF i = n + 1 THEN e ELSE q[i]]
    OBVIOUS
<1>3. \A i \in 1 .. n : q[i] \in S
    OBVIOUS
<1>4. \A i \in 1 .. n + 1 : i # n + 1 => i \in 1 .. n
    OBVIOUS
<1>5. \A i \in 1 .. n + 1 : t[i] = Append(q, e)[i] /\ t[i] \in S
    BY <1>1, <1>2, <1>3, <1>4
<1>6. t \in Seq(S) /\ Len(t) = n + 1
    BY <1>2, <1>5
<1>7. Append(q, e) = t
    BY <1>1, <1>5, <1>6, SeqEqual
<1> QED
    BY <1>2, <1>7

\* sign is a request of the abstract signer.
LEMMA SignRequests ==
    ASSUME GroupInv, NEW m \in Messages, sign(m)
    PROVE  Signer!Request(m)
<1> USE DEF GroupInv, sign
<1>1. sequence \in Nat /\ sequence < MaxSequence /\ sequence' = sequence + 1
    BY BoundsAssumption DEF SignTypeOK
<1>2. message' = [message EXCEPT ![sequence] = m] /\ signed' = signed /\ status' = status
    BY DEF kgVars
<1>3. \A i \in 1 .. sequence : message[i - 1] \in Messages
  <2> SUFFICES ASSUME NEW i \in 1 .. sequence PROVE message[i - 1] \in Messages
    OBVIOUS
  <2>1. i - 1 \in Sequences64 /\ i - 1 < sequence
    BY <1>1, BoundsAssumption DEF Sequences64
  <2> QED
    BY <2>1 DEF SignTypeOK, CeremoniesBegan
<1>4. Asked \in Seq(Messages) /\ Len(Asked) = sequence
    BY <1>1, <1>3 DEF Asked
<1>5. Asked' = [i \in 1 .. sequence + 1 |-> IF i = sequence + 1 THEN m ELSE message[i - 1]]
  <2>1. Asked' = [i \in 1 .. sequence + 1 |-> message'[i - 1]]
    BY <1>1 DEF Asked
  <2>2. \A i \in 1 .. sequence + 1 :
            message'[i - 1] = IF i = sequence + 1 THEN m ELSE message[i - 1]
    <3> SUFFICES ASSUME NEW i \in 1 .. sequence + 1
                 PROVE  message'[i - 1] = IF i = sequence + 1 THEN m ELSE message[i - 1]
      OBVIOUS
    <3>1. i - 1 \in Sequences64 /\ sequence \in Sequences64 /\ (i = sequence + 1 <=> i - 1 = sequence)
      BY <1>1, BoundsAssumption DEF Sequences64
    <3> QED
      BY <1>2, <3>1 DEF SignTypeOK
  <2> QED
    BY <2>1, <2>2
<1>6. Asked' = Append(Asked, m)
  <2>1. Append(Asked, m) = [i \in 1 .. sequence + 1 |-> IF i = sequence + 1 THEN m ELSE Asked[i]]
    BY <1>1, <1>4, AppendAsFunction
  <2>2. \A i \in 1 .. sequence : Asked[i] = message[i - 1]
    BY DEF Asked
  <2>3. \A i \in 1 .. sequence + 1 : i # sequence + 1 => i \in 1 .. sequence
    BY <1>1
  <2> QED
    BY <1>5, <2>1, <2>2, <2>3
<1>7. Done' = Done
    BY <1>2 DEF Done
<1> QED
    BY <1>2, <1>6, <1>7 DEF Signer!Request, Asked, Done

\* signShare completes a request of the abstract signer, or nothing.
LEMMA ShareCompletes ==
    ASSUME GroupInv, NEW p \in Participants, NEW s \in Sequences64,
           NEW sel \in Selections, signShare(p, s, sel)
    PROVE  [Signer!GSNext]_(Signer!gsVars)
<1> USE DEF GroupInv, signShare
<1>1. status = "FINALIZED" /\ s < sequence /\ s \in Nat /\ sequence \in Nat
    BY BoundsAssumption DEF CeremoniesBegan, SignTypeOK, Sequences64
<1>2. UNCHANGED <<status, sequence, message>>
    BY DEF kgVars
<1>3. CASE signed' = signed
    BY <1>2, <1>3, SignerStutters
<1>4. CASE signed' # signed
  <2>1. signed' = [signed EXCEPT ![s] = sel] /\ sel # {} /\ signed[s] = {}
    BY <1>4 DEF complete
  <2>2. s + 1 \in 1 .. sequence /\ s + 1 - 1 = s
    BY <1>1
  <2>3. \A t \in Sequences64 : signed'[t] = IF t = s THEN sel ELSE signed[t]
    BY <2>1 DEF SignTypeOK
  <2>4. Done' = Done \cup {<<s + 1, sel>>}
    BY <2>1, <2>3 DEF Done
  <2>7. \A done \in Done : done[1] # s + 1
    BY <1>1, <2>1, BoundsAssumption DEF Done, Sequences64
  <2>5. DOMAIN Asked = 1 .. sequence
    BY DEF Asked
  <2>6. Signer!Complete(s + 1, sel) /\ s + 1 \in DOMAIN Asked
    BY <1>1, <1>2, <2>2, <2>4, <2>5, <2>7 DEF Signer!Complete, Asked, Done
  <2> QED
    BY <2>6 DEF Signer!GSNext, Asked
<1> QED
    BY <1>3, <1>4

\* The key generation makes the signer ready, once and before any request.
LEMMA KeyGenReadies ==
    ASSUME GroupInv, KGNext, UNCHANGED signVars
    PROVE  [Signer!GSNext]_(Signer!gsVars)
<1>1. status # "FINALIZED"
    BY FinalizedIsFinal
<1>2. UNCHANGED <<sequence, message, signed>>
    BY DEF signVars
<1>3. CASE status' = "FINALIZED"
    BY <1>2, <1>3 DEF Signer!GSNext, Signer!BecomeReady
<1>4. CASE status' # "FINALIZED"
    BY <1>1, <1>2, <1>4 DEF Signer!gsVars
<1> QED
    BY <1>3, <1>4

\* A group of the coordinator is the signer that Consensus relies on: ready
\* once, its requests numbered in order, each completed at most once and
\* with the signature that completed it first.
THEOREM CoordinatorImplementsSigner == Spec => ImplementsSigner
<1>1. GroupInv /\ [Next]_vars => [Signer!GSNext]_(Signer!gsVars)
  <2> SUFFICES ASSUME GroupInv, [Next]_vars
               PROVE  [Signer!GSNext]_(Signer!gsVars)
    OBVIOUS
  <2>1. CASE KGNext /\ UNCHANGED signVars
    BY <2>1, KeyGenReadies
  <2>2. ASSUME NEW p \in Participants, NEW root \in Roots, preprocess(p, root)
        PROVE  UNCHANGED Signer!gsVars
    BY <2>2, SignerStutters DEF preprocess, kgVars
  <2>3. ASSUME NEW m \in Messages, sign(m)
        PROVE  Signer!GSNext
    BY <2>3, SignRequests DEF Signer!GSNext
  <2>4. ASSUME NEW p \in Participants, NEW s \in Sequences64, signRevealNonces(p, s)
        PROVE  UNCHANGED Signer!gsVars
    BY <2>4, SignerStutters DEF signRevealNonces, kgVars
  <2>5. CASE UNCHANGED vars
    BY <2>5, SignerStutters DEF vars, kgVars, signVars
  <2> QED
    BY <2>1, <2>2, <2>3, <2>4, <2>5, ShareCompletes DEF Next
<1> QED
    BY <1>1, InitSigner, GroupInvariant, PTL DEF Spec, ImplementsSigner, Signer!GSSpec

----------------------------------------------------------------------------
(* Consensus                                                               *)

EpochTypes ==
    /\ block \in Nat
    /\ active \in Epochs64
    /\ staged \in Epochs64
    /\ rolloverBlock \in Nat
    /\ groups \in [Epochs64 -> Groups \cup {NoGroup}]

\* The greatest epoch that was ever staged.
latest == IF staged # 0 THEN staged ELSE active

\* An epoch is only staged above the active one, and has no group before.
EpochInv ==
    /\ EpochTypes
    /\ staged # 0 => active < staged
    /\ \A e \in Epochs64 : e > latest => groups[e] = NoGroup

\* Only ready groups are asked, and only requests are answered.
RequestsTyped ==
    /\ ready \subseteq Groups
    /\ \A r \in requests : r.gid \in Groups
    /\ completed \subseteq requests

\* Attested messages are about epochs.
MessagesTyped ==
    \A a \in attestations :
        IF a.message.kind = "epochRollover"
        THEN a.message.active \in Epochs64
        ELSE a.message.epoch \in Epochs64

ConsensusInv == EpochInv /\ RequestsTyped /\ MessagesTyped /\ AttestationsSigned /\ EpochsEndorsed

\* What a reader of the schedule sees.
view == <<block, activeNow, stagedNow, IF rolledOver THEN 0 ELSE rolloverBlock, groups>>

\* What stageEpoch and its callback do to the schedule.
Staging(e, b, g) ==
    /\ validRollover(e, b)
    /\ active' = activeNow
    /\ staged' = e
    /\ rolloverBlock' = b
    /\ groups' = [groups EXCEPT ![e] = g]
    /\ block' = block

\* At deployment nothing is staged, requested or attested.
LEMMA InitConsensus == COInit => ConsensusInv
<1> SUFFICES ASSUME COInit PROVE ConsensusInv
  OBVIOUS
<1> USE DEF COInit
<1>1. EpochInv
  BY GroupsAssumption, ConsensusBounds DEF EpochInv, EpochTypes, Epochs64, latest
<1>2. RequestsTyped /\ MessagesTyped /\ AttestationsSigned
  BY DEF RequestsTyped, MessagesTyped, AttestationsSigned
<1>3. EpochsEndorsed
  BY DEF EpochsEndorsed, Epochs64
<1> QED BY <1>1, <1>2, <1>3 DEF ConsensusInv

----------------------------------------------------------------------------
(* The schedule                                                            *)

\* Catching up is invisible.
LEMMA CatchUp ==
  ASSUME EpochInv, processRollover, UNCHANGED <<block, groups>>
  PROVE  EpochInv' /\ view' = view
<1> USE ConsensusBounds DEF EpochInv, EpochTypes, Epochs64, processRollover, activeNow, stagedNow, rolledOver
<1>1. EpochTypes'
  OBVIOUS
<1>2. (staged # 0 => active < staged)'
  OBVIOUS
<1>3. latest' = latest
  BY DEF latest
<1>4. view' = view
  BY DEF view
<1> QED BY <1>1, <1>2, <1>3, <1>4

\* A transaction that touches no epoch does not move the schedule.
LEMMA Resting ==
  ASSUME EpochInv, UNCHANGED <<block, epochVars, groups>>
  PROVE  EpochInv' /\ view' = view
  BY DEF EpochInv, EpochTypes, epochVars, latest, view, activeNow, stagedNow, rolledOver

\* Staging takes a number that never had a group, ahead of the running block.
LEMMA StagingKeeps ==
  ASSUME EpochInv, NEW e \in Epochs64, NEW b \in Nat, NEW g \in Groups, Staging(e, b, g)
  PROVE  /\ EpochInv'
         /\ groups[e] = NoGroup
         /\ activeNow \in Epochs64 /\ activeNow < e
         /\ stagedNow = 0 /\ b > block
         /\ activeNow' = activeNow
         /\ stagedNow' = e
         /\ ~ rolledOver'
<1> USE ConsensusBounds DEF EpochInv, EpochTypes, Epochs64
<1>1. activeNow \in Epochs64 /\ activeNow < e /\ b > block /\ stagedNow = 0
  BY DEF Staging, validRollover, activeNow, rolledOver
<1>2. latest = activeNow
  BY <1>1 DEF latest, activeNow, stagedNow, rolledOver
<1>3. groups[e] = NoGroup
  BY <1>1, <1>2
<1>4. ~ rolledOver'
  BY <1>1 DEF Staging, rolledOver
<1>5. activeNow' = activeNow /\ stagedNow' = e
  BY <1>4 DEF activeNow, stagedNow, Staging
<1>6. EpochTypes'
  BY <1>1 DEF Staging
<1>7. (staged # 0 => active < staged)'
  BY <1>1 DEF Staging
<1>8. \A t \in Epochs64 : t > latest' => groups'[t] = NoGroup
  <2>1. latest' = e
    BY <1>1 DEF latest, Staging
  <2> QED BY <1>1, <1>2, <2>1 DEF Staging
<1> QED BY <1>1, <1>3, <1>4, <1>5, <1>6, <1>7, <1>8

\* A new block rolls the schedule over when its time has come, stored or not.
LEMMA Mining ==
  ASSUME EpochInv, mineBlock
  PROVE  EpochInv' /\ Schedule!NextBlock
<1> USE ConsensusBounds DEF EpochInv, EpochTypes, Epochs64, mineBlock, epochVars
<1>1. EpochInv'
  BY DEF latest
<1>2. CASE rolledOver
  <2>1. rolledOver'
    BY <1>2 DEF rolledOver
  <2> QED BY <1>1, <1>2, <2>1 DEF Schedule!NextBlock, activeNow, stagedNow
<1>3. CASE ~ rolledOver /\ staged # 0 /\ rolloverBlock = block + 1
  <2>1. rolledOver'
    BY <1>3 DEF rolledOver
  <2> QED BY <1>1, <1>3, <2>1 DEF Schedule!NextBlock, activeNow, stagedNow
<1>4. CASE ~ rolledOver /\ ~ (staged # 0 /\ rolloverBlock = block + 1)
  <2>1. ~ rolledOver'
    BY <1>4 DEF rolledOver
  <2> QED BY <1>1, <1>4, <2>1 DEF Schedule!NextBlock, activeNow, stagedNow
<1> QED BY <1>2, <1>3, <1>4

\* stageEpoch is the Stage of the eager schedule.
LEMMA StagingStages ==
  ASSUME EpochInv, NEW e \in Epochs64, NEW b \in Nat, NEW g \in Groups, Staging(e, b, g)
  PROVE  Schedule!Stage
<1>1. /\ groups[e] = NoGroup /\ activeNow < e /\ stagedNow = 0 /\ b > block
      /\ activeNow' = activeNow /\ stagedNow' = e /\ ~ rolledOver'
  BY StagingKeeps
<1> QED BY <1>1 DEF Schedule!Stage, Staging

\* Every step of the contract, by what it does to the schedule.
LEMMA StepKinds ==
  ASSUME [CONext]_coVars
  PROVE  \/ mineBlock
         \/ processRollover /\ UNCHANGED <<block, groups>>
         \/ UNCHANGED <<block, epochVars, groups>>
         \/ \E e \in Epochs64, b \in Nat, g \in Groups : Staging(e, b, g)
<1>1. ASSUME NEW g \in Groups, NEW e \in Epochs64, NEW b \in 0 .. MaxBlock,
             \/ keyGenConfirmWithCallback(g, e, b)
             \/ proposeEpoch(e, b, g)
      PROVE  processRollover /\ UNCHANGED <<block, groups>>
  BY <1>1 DEF keyGenConfirmWithCallback, proposeEpoch, proposeEpochWith
<1>2. ASSUME NEW g \in Groups, NEW e \in Epochs64, NEW b \in 0 .. MaxBlock, NEW sid \in requests,
             stageEpoch(e, b, g, sid) \/ signShareStaging(e, b, g, sid)
      PROVE  b \in Nat /\ Staging(e, b, g)
  BY <1>2, ConsensusBounds DEF stageEpoch, signShareStaging, stageEpochWith, Staging
<1>3. ASSUME NEW tx \in Transactions, proposeTransaction(tx)
      PROVE  processRollover /\ UNCHANGED <<block, groups>>
  BY <1>3 DEF proposeTransaction
<1>4. ASSUME NEW e \in Epochs64, NEW tx \in Transactions, NEW sid \in requests,
             attestTransaction(e, tx, sid) \/ signShareAttesting(e, tx, sid)
      PROVE  UNCHANGED <<block, epochVars, groups>>
  BY <1>4 DEF attestTransaction, signShareAttesting
<1>5. ASSUME \/ \E g \in Groups : coordinatorKeyGenConfirm(g)
             \/ \E g \in Groups, m \in proposals : signByAnybody(g, m)
             \/ \E sid \in requests : coordinatorSignShare(sid)
             \/ UNCHANGED coVars
      PROVE  UNCHANGED <<block, epochVars, groups>>
  BY <1>5 DEF coordinatorKeyGenConfirm, signByAnybody, coordinatorSignShare, coVars
<1> QED BY <1>1, <1>2, <1>3, <1>4, <1>5 DEF CONext

\* Every transaction is a step of the schedule or leaves it alone.
LEMMA NextEpoch ==
  ASSUME EpochInv, [CONext]_coVars
  PROVE  EpochInv' /\ [Schedule!ESNext]_view
<1>1. CASE mineBlock
  BY <1>1, Mining DEF Schedule!ESNext
<1>2. CASE processRollover /\ UNCHANGED <<block, groups>>
  BY <1>2, CatchUp
<1>3. CASE UNCHANGED <<block, epochVars, groups>>
  BY <1>3, Resting
<1>4. CASE \E e \in Epochs64, b \in Nat, g \in Groups : Staging(e, b, g)
  BY <1>4, StagingKeeps, StagingStages DEF Schedule!ESNext
<1> QED BY <1>1, <1>2, <1>3, <1>4, StepKinds

\* The lazily updated storage, as _epochsWithRollover reads it, switches
\* epochs exactly at the roll-over block and never gives an epoch another
\* group, whatever is called when.
THEOREM StorageImplementsSchedule == COSpec => ImplementsSchedule
<1>1. COInit => EpochInv
  BY InitConsensus DEF ConsensusInv
<1>2. EpochInv /\ [CONext]_coVars => EpochInv'
  BY NextEpoch
<1>3. COInit => Schedule!ESInit
  BY DEF COInit, Schedule!ESInit, activeNow, stagedNow, rolledOver, Epochs64
<1>4. EpochInv /\ [CONext]_coVars => [Schedule!ESNext]_(Schedule!esVars)
  BY NextEpoch DEF view, Schedule!esVars
<1> QED BY <1>1, <1>2, <1>3, <1>4, PTL DEF COSpec, ImplementsSchedule, Schedule!ESSpec

----------------------------------------------------------------------------
(* Signatures                                                              *)

\* The group of an epoch stays, once there is one.
GroupsStay == \A e \in Epochs64 : groups[e] # NoGroup => groups'[e] = groups[e]

\* No transaction replaces the group of an epoch.
LEMMA GroupsKept ==
  ASSUME EpochInv, [CONext]_coVars
  PROVE  GroupsStay
<1>1. CASE mineBlock \/ UNCHANGED groups
  BY <1>1 DEF mineBlock, GroupsStay
<1>2. CASE \E e \in Epochs64, b \in Nat, g \in Groups : Staging(e, b, g)
  <2>1. PICK e \in Epochs64, b \in Nat, g \in Groups : Staging(e, b, g)
    BY <1>2
  <2>2. groups[e] = NoGroup
    BY <2>1, StagingKeeps
  <2> QED BY <2>1, <2>2 DEF Staging, GroupsStay, EpochInv, EpochTypes
<1> QED BY <1>1, <1>2, StepKinds

\* A recorded attestation stays valid while groups, signatures and requests
\* only grow.
SignedBy(a, done) ==
    /\ a.sid \in done
    /\ a.sid.message = a.message
    /\ a.sid.gid = signersOf(a.message)

\* What was signed by the group of its epoch remains so.
LEMMA SignersStay ==
  ASSUME EpochInv, RequestsTyped, MessagesTyped, AttestationsSigned, GroupsStay,
         NEW a \in attestations, completed \subseteq completed'
  PROVE  SignedBy(a, completed)'
<1>1. a.sid \in completed /\ a.sid.message = a.message /\ a.sid.gid = signersOf(a.message)
  BY DEF AttestationsSigned
<1>2. signersOf(a.message) # NoGroup
  BY <1>1, GroupsAssumption DEF RequestsTyped
<1>3. signersOf(a.message)' = signersOf(a.message)
  BY <1>2 DEF signersOf, MessagesTyped, GroupsStay
<1> QED BY <1>1, <1>3 DEF SignedBy

\* A step that records m with a signature of the group it names.
LEMMA Recording ==
  ASSUME ConsensusInv, GroupsStay, completed \subseteq completed', ready \subseteq ready',
         NEW m, NEW sid, setAttestation(m, sid),
         sid \in completed', sid.message = m, sid.gid = signersOf(m)',
         IF m.kind = "epochRollover" THEN m.active \in Epochs64 ELSE m.epoch \in Epochs64
  PROVE  /\ MessagesTyped' /\ AttestationsSigned'
         /\ \A a \in attestations : \E c \in attestations' : c.message = a.message
         /\ \E c \in attestations' : c.message = m
<1> DEFINE new == [message |-> m, sid |-> sid]
<1>1. attestations' = {a \in attestations : a.message # m} \cup {new}
  BY DEF setAttestation
<1>2. new.message = m /\ new.sid = sid
  OBVIOUS
<1> HIDE DEF new
<1>3. MessagesTyped'
  BY <1>1, <1>2 DEF MessagesTyped, ConsensusInv
<1>4. ASSUME NEW a \in attestations' PROVE SignedBy(a, completed)'
  <2>1. CASE a = new
    BY <1>2, <2>1 DEF SignedBy
  <2>2. CASE a \in attestations
    BY <2>2, SignersStay DEF ConsensusInv
  <2> QED BY <1>1, <2>1, <2>2
<1>5. AttestationsSigned'
  BY <1>4 DEF AttestationsSigned, SignedBy
<1> QED BY <1>1, <1>2, <1>3, <1>5

\* What endorses the key of an epoch.
EndorsedBy(m, e, g) ==
    /\ m.kind = "epochRollover" /\ m.proposed = e /\ m.groupKey = KeyOf[g] /\ m.active < e

\* Endorsements stay while no attested message is forgotten.
LEMMA EndorsementsStay ==
  ASSUME ConsensusInv, ready \subseteq ready',
         \A a \in attestations : \E c \in attestations' : c.message = a.message,
         NEW e \in Epochs64 \ {0}, groups[e] # NoGroup, groups'[e] = groups[e]
  PROVE  \E c \in attestations' : EndorsedBy(c.message, e, groups'[e]) /\ groups'[e] \in ready'
<1>1. PICK a \in attestations : EndorsedBy(a.message, e, groups[e]) /\ groups[e] \in ready
  BY DEF ConsensusInv, EpochsEndorsed, EndorsedBy
<1>2. PICK c \in attestations' : c.message = a.message
  OBVIOUS
<1> QED BY <1>1, <1>2

\* A transaction that attests nothing and keeps all signatures is harmless.
LEMMA NothingRecorded ==
  ASSUME ConsensusInv, EpochInv', RequestsTyped', UNCHANGED <<groups, attestations>>,
         completed \subseteq completed', ready \subseteq ready'
  PROVE  ConsensusInv'
<1>1. GroupsStay
  BY DEF GroupsStay
<1>2. MessagesTyped'
  BY DEF ConsensusInv, MessagesTyped
<1>3. AttestationsSigned'
  BY <1>1, SignersStay DEF ConsensusInv, AttestationsSigned, SignedBy
<1>4. EpochsEndorsed'
  BY EndorsementsStay DEF EpochsEndorsed, EndorsedBy
<1> QED BY <1>2, <1>3, <1>4 DEF ConsensusInv

\* stageEpoch records a message that the active group signed.
LEMMA StageRecords ==
  ASSUME ConsensusInv, EpochInv', RequestsTyped', GroupsStay,
         completed \subseteq completed', ready' = ready, block' = block,
         NEW e \in Epochs64, NEW b \in Nat, NEW g \in Groups, NEW sid,
         stageEpochWith(e, b, g, sid, completed')
  PROVE  ConsensusInv'
<1>0. PICK m : m = RolloverMessage(activeNow, e, b, g)
  OBVIOUS
<1>1. Staging(e, b, g)
  BY DEF stageEpochWith, Staging
<1>2. /\ activeNow \in Epochs64 /\ activeNow < e /\ groups[e] = NoGroup
  BY <1>1, StagingKeeps DEF ConsensusInv
<1>3. /\ m.kind = "epochRollover" /\ m.active = activeNow /\ m.proposed = e
      /\ m.groupKey = KeyOf[g]
  BY <1>0 DEF RolloverMessage
<1>4. /\ setAttestation(m, sid) /\ g \in ready
      /\ sid \in completed' /\ sid.gid = groups[activeNow] /\ sid.message = m
      /\ groups' = [groups EXCEPT ![e] = g]
  BY <1>0 DEF stageEpochWith, signatureVerify
<1>5. sid.gid = signersOf(m)'
  <2>1. groups'[activeNow] = groups[activeNow]
    BY <1>2, <1>4, ConsensusBounds DEF ConsensusInv, EpochInv, EpochTypes, Epochs64
  <2> QED BY <1>3, <1>4, <2>1 DEF signersOf
<1>6. /\ MessagesTyped' /\ AttestationsSigned'
      /\ \A a \in attestations : \E c \in attestations' : c.message = a.message
      /\ \E c \in attestations' : c.message = m
  BY <1>2, <1>3, <1>4, <1>5, Recording
<1>7. ASSUME NEW t \in Epochs64 \ {0}, groups'[t] # NoGroup
      PROVE  \E c \in attestations' : EndorsedBy(c.message, t, groups'[t]) /\ groups'[t] \in ready'
  <2>1. CASE t = e
    BY <1>2, <1>3, <1>4, <1>6, <2>1 DEF EndorsedBy, ConsensusInv, EpochInv, EpochTypes
  <2>2. CASE t # e
    <3>1. groups'[t] = groups[t]
      BY <1>4, <2>2 DEF ConsensusInv, EpochInv, EpochTypes
    <3> QED BY <1>6, <1>7, <3>1, EndorsementsStay
  <2> QED BY <2>1, <2>2
<1>8. EpochsEndorsed'
  BY <1>7 DEF EpochsEndorsed, EndorsedBy
<1> QED BY <1>6, <1>8 DEF ConsensusInv

\* attestTransaction records a message that its epoch's group signed.
LEMMA AttestRecords ==
  ASSUME ConsensusInv, EpochInv', RequestsTyped', UNCHANGED groups,
         completed \subseteq completed', ready' = ready,
         NEW e \in Epochs64, NEW tx, NEW sid,
         attestTransactionWith(e, tx, sid, completed')
  PROVE  ConsensusInv'
<1> DEFINE m == ProposalMessage(e, tx)
<1>1. m.kind # "epochRollover" /\ m.epoch = e
  BY DEF ProposalMessage
<1>2. /\ setAttestation(m, sid)
      /\ sid \in completed' /\ sid.gid = groups[e] /\ sid.message = m
  BY DEF attestTransactionWith, signatureVerify
<1> HIDE DEF m
<1>3. sid.gid = signersOf(m)' /\ GroupsStay
  BY <1>1, <1>2 DEF signersOf, GroupsStay
<1>4. /\ MessagesTyped' /\ AttestationsSigned'
      /\ \A a \in attestations : \E c \in attestations' : c.message = a.message
  BY <1>1, <1>2, <1>3, Recording
<1>5. EpochsEndorsed'
  BY <1>4, EndorsementsStay DEF EpochsEndorsed, EndorsedBy
<1> QED BY <1>4, <1>5 DEF ConsensusInv

\* The coordinator's side only grows, and keeps its types.
LEMMA CoordinatorGrows ==
  ASSUME RequestsTyped, [CONext]_coVars
  PROVE  RequestsTyped' /\ completed \subseteq completed' /\ ready \subseteq ready'
<1>1. ASSUME NEW g, NEW m, NEW R \in SUBSET Groups, coordinatorSign(g, m, R),
             completed' = completed, ready \subseteq ready', ready' \subseteq Groups
      PROVE  RequestsTyped'
  BY <1>1 DEF RequestsTyped, coordinatorSign
<1>2. ASSUME NEW g \in Groups, NEW e \in Epochs64, NEW b \in 0 .. MaxBlock,
             keyGenConfirmWithCallback(g, e, b)
      PROVE  RequestsTyped' /\ completed \subseteq completed' /\ ready \subseteq ready'
  <2>1. ready \cup {g} \in SUBSET Groups
    BY <1>2 DEF RequestsTyped
  <2> QED BY <1>1, <1>2, <2>1 DEF keyGenConfirmWithCallback, proposeEpochWith
<1>3. ASSUME \/ \E g \in Groups, e \in Epochs64, b \in 0 .. MaxBlock : proposeEpoch(e, b, g)
             \/ \E tx \in Transactions : proposeTransaction(tx)
             \/ \E g \in Groups, m \in proposals : signByAnybody(g, m)
      PROVE  RequestsTyped' /\ completed \subseteq completed' /\ ready \subseteq ready'
  <2>1. ready \in SUBSET Groups
    BY DEF RequestsTyped
  <2> QED BY <1>1, <1>3, <2>1 DEF proposeEpoch, proposeEpochWith, proposeTransaction, signByAnybody
<1>4. ASSUME NEW sid \in requests,
             \/ \E g \in Groups, e \in Epochs64, b \in 0 .. MaxBlock :
                    stageEpoch(e, b, g, sid) \/ signShareStaging(e, b, g, sid)
             \/ \E e \in Epochs64, tx \in Transactions :
                    attestTransaction(e, tx, sid) \/ signShareAttesting(e, tx, sid)
             \/ coordinatorSignShare(sid)
      PROVE  RequestsTyped' /\ completed \subseteq completed' /\ ready \subseteq ready'
  <2>1. requests' = requests /\ ready' = ready /\ completed' \in {completed, completed \cup {sid}}
    BY <1>4 DEF stageEpoch, signShareStaging, attestTransaction, signShareAttesting, coordinatorSignShare
  <2> QED BY <2>1 DEF RequestsTyped
<1>5. ASSUME mineBlock \/ (\E g \in Groups : coordinatorKeyGenConfirm(g)) \/ UNCHANGED coVars
      PROVE  RequestsTyped' /\ completed \subseteq completed' /\ ready \subseteq ready'
  BY <1>5 DEF mineBlock, coordinatorKeyGenConfirm, coVars, RequestsTyped
<1> QED BY <1>2, <1>3, <1>4, <1>5 DEF CONext

\* Every transaction preserves the invariant.
LEMMA NextConsensus == ConsensusInv /\ [CONext]_coVars => ConsensusInv'
<1> SUFFICES ASSUME ConsensusInv, [CONext]_coVars PROVE ConsensusInv'
  OBVIOUS
<1>1. EpochInv' /\ GroupsStay
  BY NextEpoch, GroupsKept DEF ConsensusInv
<1>2. RequestsTyped' /\ completed \subseteq completed' /\ ready \subseteq ready'
  BY CoordinatorGrows DEF ConsensusInv
<1>3. ASSUME UNCHANGED <<groups, attestations>> PROVE ConsensusInv'
  BY <1>1, <1>2, <1>3, NothingRecorded
<1>4. ASSUME NEW g \in Groups, NEW e \in Epochs64, NEW b \in 0 .. MaxBlock, NEW sid \in requests,
             stageEpoch(e, b, g, sid) \/ signShareStaging(e, b, g, sid)
      PROVE  ConsensusInv'
  <2>1. stageEpochWith(e, b, g, sid, completed') /\ ready' = ready /\ block' = block
    BY <1>4 DEF stageEpoch, signShareStaging
  <2>2. b \in Nat
    BY ConsensusBounds
  <2> QED BY <1>1, <1>2, <2>1, <2>2, StageRecords
<1>5. ASSUME NEW e \in Epochs64, NEW tx \in Transactions, NEW sid \in requests,
             attestTransaction(e, tx, sid) \/ signShareAttesting(e, tx, sid)
      PROVE  ConsensusInv'
  <2>1. attestTransactionWith(e, tx, sid, completed') /\ ready' = ready /\ groups' = groups
    BY <1>5 DEF attestTransaction, signShareAttesting
  <2> QED BY <1>1, <1>2, <2>1, AttestRecords
<1>6. ASSUME \/ mineBlock
             \/ \E g \in Groups : coordinatorKeyGenConfirm(g)
             \/ \E g \in Groups, e \in Epochs64, b \in 0 .. MaxBlock :
                    keyGenConfirmWithCallback(g, e, b) \/ proposeEpoch(e, b, g)
             \/ \E tx \in Transactions : proposeTransaction(tx)
             \/ \E g \in Groups, m \in proposals : signByAnybody(g, m)
             \/ \E sid \in requests : coordinatorSignShare(sid)
             \/ UNCHANGED coVars
      PROVE  UNCHANGED <<groups, attestations>>
  BY <1>6 DEF mineBlock, coordinatorKeyGenConfirm, keyGenConfirmWithCallback, proposeEpoch,
              proposeTransaction, signByAnybody, coordinatorSignShare, coVars
<1> QED BY <1>3, <1>4, <1>5, <1>6 DEF CONext

\* Whatever Consensus vouches for has a completed signature of the group of
\* the message's epoch behind it, however late it is recorded.
THEOREM AttestationsAreSigned == COSpec => []AttestationsSigned
<1>1. ConsensusInv => AttestationsSigned
  BY DEF ConsensusInv
<1> QED BY <1>1, InitConsensus, NextConsensus, PTL DEF COSpec

\* The chain of trust from genesis on: the key of every later epoch was
\* endorsed by a signature for an earlier one, whichever groups share keys.
THEOREM EpochsAreEndorsed == COSpec => []EpochsEndorsed
<1>1. ConsensusInv => EpochsEndorsed
  BY DEF ConsensusInv
<1> QED BY <1>1, InitConsensus, NextConsensus, PTL DEF COSpec
=============================================================================
