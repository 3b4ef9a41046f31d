---------------------------- MODULE FROSTKeyGen ----------------------------
(***************************************************************************)
(* The distributed key generation ceremony of one FROST group, as the      *)
(* contract FROSTCoordinator keeps it together with the library            *)
(* FROSTParticipantMap.  The storage of a group is keyed by its group ID   *)
(* and no operation touches two groups, so one group is modelled.          *)
(*                                                                         *)
(* Every action is one transaction of one sender: a call that a `require`  *)
(* rejects changes nothing and is a disabled action.  Points, scalars and  *)
(* Merkle proofs are abstracted: a proof of participation exists exactly   *)
(* for the leaves of the participants tree, and a participant's            *)
(* verification share is the fact that it has been set.  The group key is  *)
(* the sum of the commitments of the registered participants, so it is a   *)
(* function of pstatus.                                                    *)
(***************************************************************************)
EXTENDS Integers, FiniteSets

CONSTANTS
    Participants,  \* the addresses that may send a transaction
    Members,       \* the leaves of the participants' Merkle tree
    Count,         \* the `count` the group ID was derived from
    Threshold      \* the `threshold` the group ID was derived from

ASSUME ParticipantsAssumption == IsFiniteSet(Participants)

ASSUME MembersAssumption == Members \subseteq Participants

ASSUME CountAssumption == Count \in Nat /\ Threshold \in Nat

VARIABLES
    status,       \* GroupState.status
    pending,      \* GroupState.pending: who is still missing in this phase
    pstatus,      \* ParticipantState.status, per participant
    complaints,   \* ParticipantState.complaints: unresolved ones it filed
    accusations,  \* ParticipantState.accusations: unresolved ones against it
    shared,       \* participants whose verification share is set
    complaint     \* ComplaintStatus, per plaintiff and accused

kgVars == <<status, pending, pstatus, complaints, accusations, shared, complaint>>

GroupStatus ==
    {"UNINITIALIZED", "COMMITTING", "SHARING", "CONFIRMING", "COMPROMISED", "FINALIZED"}

ParticipantStatus == {"NONE", "REGISTERED", "CONFIRMED"}

ComplaintStatus == {"NONE", "SUBMITTED", "RESPONDED"}

KGInit ==
    /\ status = "UNINITIALIZED"
    /\ pending = 0
    /\ pstatus = [p \in Participants |-> "NONE"]
    /\ complaints = [p \in Participants |-> 0]
    /\ accusations = [p \in Participants |-> 0]
    /\ shared = {}
    /\ complaint = [pl \in Participants |-> [ac \in Participants |-> "NONE"]]

----------------------------------------------------------------------------
(* Phase changes.  Each phase counts `pending` down from Count and the     *)
(* transaction that brings it to zero opens the next phase.                *)

\* A wrong CountDown: the next phase starts with the old counter.
CountDownNoReset == pending' = pending - 1

\* `--state.pending`, and the reset to `count` when a next phase follows.
CountDown == pending' = IF pending = 1 THEN Count ELSE pending - 1

\* The phase `next` opens with the last missing participant.
Advance(next) == status' = IF pending = 1 THEN next ELSE status

\* keyGen: anybody opens the ceremony, once per group ID.
keyGen ==
    /\ Count >= Threshold
    /\ Threshold > 1
    /\ status = "UNINITIALIZED"
    /\ status' = "COMMITTING"
    /\ pending' = Count
    /\ UNCHANGED <<pstatus, complaints, accusations, shared, complaint>>

\* FROSTParticipantMap.register: a leaf of the tree, and only once.
register(p) ==
    /\ pstatus[p] = "NONE"
    /\ p \in Members
    /\ pstatus' = [pstatus EXCEPT ![p] = "REGISTERED"]

\* keyGenCommit: round 1, the public commitment of participant p.
keyGenCommit(p) ==
    /\ status = "COMMITTING"
    /\ CountDown
    /\ Advance("SHARING")
    /\ register(p)
    /\ UNCHANGED <<complaints, accusations, shared, complaint>>

\* keyGenAndCommit: opens the ceremony if nobody did, then commits, in one
\* transaction.  Threshold > 1 makes a ceremony of a single commitment
\* impossible, so a first commitment never opens the sharing phase.
keyGenAndCommit(p) ==
    \/ /\ status # "UNINITIALIZED"
       /\ keyGenCommit(p)
    \/ /\ status = "UNINITIALIZED"
       /\ Count >= Threshold
       /\ Threshold > 1
       /\ status' = "COMMITTING"
       /\ pending' = Count - 1
       /\ register(p)
       /\ UNCHANGED <<complaints, accusations, shared, complaint>>

\* keyGenSecretShare: round 2, the encrypted shares and the verification
\* share of participant p (FROSTParticipantMap.set).
keyGenSecretShare(p) ==
    /\ status = "SHARING"
    /\ CountDown
    /\ Advance("CONFIRMING")
    /\ pstatus[p] = "REGISTERED"
    /\ p \notin shared
    /\ shared' = shared \cup {p}
    /\ UNCHANGED <<pstatus, complaints, accusations, complaint>>

\* A wrong confirm: outstanding complaints of the sender are ignored.
confirmDisputed(p) ==
    /\ pstatus[p] = "REGISTERED"
    /\ pstatus' = [pstatus EXCEPT ![p] = "CONFIRMED"]

\* FROSTParticipantMap.confirm: no unresolved complaint of p may remain.
confirm(p) ==
    /\ pstatus[p] = "REGISTERED"
    /\ complaints[p] = 0
    /\ pstatus' = [pstatus EXCEPT ![p] = "CONFIRMED"]

\* keyGenConfirm: the last confirmation finalizes the group.
keyGenConfirm(p) ==
    /\ status = "CONFIRMING"
    /\ confirm(p)
    /\ pending' = pending - 1
    /\ Advance("FINALIZED")
    /\ UNCHANGED <<complaints, accusations, shared, complaint>>

\* A wrong complain: a settled complaint may be filed again.
complainAgain(pl, ac) ==
    /\ pl # ac
    /\ complaint[pl][ac] # "SUBMITTED"
    /\ pstatus[pl] = "REGISTERED"
    /\ pstatus[ac] # "NONE"
    /\ complaint' = [complaint EXCEPT ![pl][ac] = "SUBMITTED"]
    /\ complaints' = [complaints EXCEPT ![pl] = @ + 1]
    /\ accusations' = [accusations EXCEPT ![ac] = @ + 1]

\* FROSTParticipantMap.complain: once per pair, never after confirming.
complain(pl, ac) ==
    /\ pl # ac
    /\ complaint[pl][ac] = "NONE"
    /\ pstatus[pl] = "REGISTERED"
    /\ pstatus[ac] # "NONE"
    /\ complaint' = [complaint EXCEPT ![pl][ac] = "SUBMITTED"]
    /\ complaints' = [complaints EXCEPT ![pl] = @ + 1]
    /\ accusations' = [accusations EXCEPT ![ac] = @ + 1]

\* Whether one more unresolved accusation of `ac` compromises the group.
compromises(ac) == accusations[ac] + 1 >= Threshold

\* keyGenComplain: Threshold unresolved accusations of one participant end
\* the ceremony.
keyGenComplain(pl, ac) ==
    /\ status \in {"SHARING", "CONFIRMING"}
    /\ complain(pl, ac)
    /\ status' = IF compromises(ac) THEN "COMPROMISED" ELSE status
    /\ UNCHANGED <<pending, pstatus, shared>>

\* A wrong respond: the plaintiff's counter is not given back.
respondKeepsComplaint(pl, ac) ==
    /\ complaint[pl][ac] = "SUBMITTED"
    /\ complaint' = [complaint EXCEPT ![pl][ac] = "RESPONDED"]
    /\ accusations' = [accusations EXCEPT ![ac] = @ - 1]
    /\ UNCHANGED complaints

\* FROSTParticipantMap.respond: settles one complaint and both counters.
respond(pl, ac) ==
    /\ complaint[pl][ac] = "SUBMITTED"
    /\ complaint' = [complaint EXCEPT ![pl][ac] = "RESPONDED"]
    /\ complaints' = [complaints EXCEPT ![pl] = @ - 1]
    /\ accusations' = [accusations EXCEPT ![ac] = @ - 1]

\* keyGenComplaintResponse: the accused reveals the disputed share.
keyGenComplaintResponse(pl, ac) ==
    /\ status \in {"SHARING", "CONFIRMING"}
    /\ respond(pl, ac)
    /\ UNCHANGED <<status, pending, pstatus, shared>>

KGNext ==
    \/ keyGen
    \/ \E p \in Participants :
        \/ keyGenCommit(p)
        \/ keyGenAndCommit(p)
        \/ keyGenSecretShare(p)
        \/ keyGenConfirm(p)
    \/ \E pl, ac \in Participants :
        \/ keyGenComplain(pl, ac)
        \/ keyGenComplaintResponse(pl, ac)

KGSpec == KGInit /\ [][KGNext]_kgVars

\* A live ceremony: every member answers what is asked of it, because its
\* transaction queue resubmits a transaction until it is executed.  Nothing
\* makes anybody complain.
KGFairness ==
    \A p \in Participants :
        /\ WF_kgVars(keyGenAndCommit(p))
        /\ WF_kgVars(keyGenSecretShare(p))
        /\ WF_kgVars(keyGenConfirm(p))
        /\ \A pl \in Participants : WF_kgVars(keyGenComplaintResponse(pl, p))

----------------------------------------------------------------------------
(* Invariants                                                              *)

\* The storage has its declared types; the counters are never negative.
KGTypeOK ==
    /\ status \in GroupStatus
    /\ pending \in Nat
    /\ pstatus \in [Participants -> ParticipantStatus]
    /\ complaints \in [Participants -> Nat]
    /\ accusations \in [Participants -> Nat]
    /\ shared \in SUBSET Participants
    /\ complaint \in [Participants -> [Participants -> ComplaintStatus]]

Registered == {p \in Participants : pstatus[p] # "NONE"}

Confirmed == {p \in Participants : pstatus[p] = "CONFIRMED"}

FiledBy(pl) == {ac \in Participants : complaint[pl][ac] = "SUBMITTED"}

FiledAgainst(ac) == {pl \in Participants : complaint[pl][ac] = "SUBMITTED"}

\* The two counters a participant carries are exactly the number of its
\* unresolved complaints and accusations, although complaints and responses
\* of all pairs interleave: neither counter drifts or underflows.
CountersExact ==
    \A p \in Participants :
        /\ complaints[p] = Cardinality(FiledBy(p))
        /\ accusations[p] = Cardinality(FiledAgainst(p))

\* `pending` is the number of participants the open phase still waits for,
\* so a phase closes when, and only when, exactly Count of them have acted.
PendingExact ==
    /\ status = "COMMITTING" => pending + Cardinality(Registered) = Count
    /\ status = "SHARING" => pending + Cardinality(shared) = Count
    /\ status = "CONFIRMING" => pending + Cardinality(Confirmed) = Count
    /\ status \in {"COMMITTING", "SHARING", "CONFIRMING"} => pending > 0

\* What a finalized group guarantees to those who sign with it: no dispute
\* is left open, and exactly Count members registered, shared and confirmed
\* ("This ensures all disputes are resolved before the group is finalized").
FinalizedIsClean ==
    status = "FINALIZED" =>
        /\ \A pl, ac \in Participants : complaint[pl][ac] # "SUBMITTED"
        /\ Cardinality(Confirmed) = Count
        /\ Registered = Confirmed
        /\ shared = Confirmed
        /\ Confirmed \subseteq Members

\* A ceremony that is still running, or that succeeded, never had a
\* participant with Threshold unresolved accusations.
ToleratedAccusations ==
    status # "COMPROMISED" =>
        \A p \in Participants : accusations[p] < Threshold \/ accusations[p] = 0

\* How the phases build on one another: shares come from registered members,
\* complaints are between two different registered members, a member that
\* confirmed has nothing unresolved, and a phase only opens when all Count
\* members finished the one before.
CeremonyShape ==
    /\ shared \subseteq Registered
    /\ Registered \subseteq Members
    /\ \A pl, ac \in Participants :
        complaint[pl][ac] # "NONE" => pl # ac /\ {pl, ac} \subseteq Registered
    /\ \A p \in Confirmed : FiledBy(p) = {}
    /\ status = "UNINITIALIZED" => Registered = {}
    /\ status \in {"UNINITIALIZED", "COMMITTING"} =>
        /\ shared = {}
        /\ Confirmed = {}
        /\ \A p \in Participants : FiledBy(p) = {}
    /\ status = "SHARING" => Confirmed = {}
    /\ status \in {"CONFIRMING", "FINALIZED"} => shared = Registered
    /\ status \in {"SHARING", "CONFIRMING", "COMPROMISED", "FINALIZED"} =>
        Cardinality(Registered) = Count
    /\ status # "UNINITIALIZED" => Count >= Threshold /\ Threshold > 1

\* The inductive invariant behind the proofs of ContractProofs.
KGInv ==
    /\ KGTypeOK
    /\ CountersExact
    /\ PendingExact
    /\ CeremonyShape
    /\ FinalizedIsClean
    /\ ToleratedAccusations

----------------------------------------------------------------------------
(* Action properties                                                       *)

\* FINALIZED and COMPROMISED are final, a participant never loses a step it
\* has taken, and a settled complaint is never reopened: no late complaint,
\* response or commitment undoes a finished ceremony.
NothingUndone ==
    [][ /\ status \in {"FINALIZED", "COMPROMISED"} => UNCHANGED kgVars
        /\ \A p \in Participants :
            /\ pstatus[p] = "CONFIRMED" => pstatus'[p] = "CONFIRMED"
            /\ pstatus[p] = "REGISTERED" => pstatus'[p] # "NONE"
        /\ shared \subseteq shared'
        /\ \A pl, ac \in Participants :
            complaint[pl][ac] = "RESPONDED" => complaint'[pl][ac] = "RESPONDED"
      ]_kgVars

----------------------------------------------------------------------------
(* Liveness                                                                *)

\* If every member answers, complaints cannot keep a ceremony from ending:
\* each pair has one complaint, and each response gives the plaintiff its
\* confirmation back.
CeremonyEnds == <>(status \in {"FINALIZED", "COMPROMISED"})
============================================================================
