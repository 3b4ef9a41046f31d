----------------------------- MODULE Consensus -----------------------------
(***************************************************************************)
(* The contract Consensus: the schedule of epochs with their FROST groups  *)
(* and the attestations of Safe transactions, together with the part of    *)
(* the coordinator it depends on.                                          *)
(*                                                                         *)
(* The coordinator is used through the promise GroupSigner states for each *)
(* group: a group becomes ready once, requests are numbered per group, and *)
(* a request completes for the message it was opened with.  A signature ID *)
(* is modelled as the request itself.  The message of a roll-over binds    *)
(* the key of the new group and not its ID; the coordinator does not keep  *)
(* two groups from having the same key.  Anybody may run a group of its    *)
(* own and ask any group to sign, so a request exists for any group, and   *)
(* its members may complete it; the messages are those that were proposed  *)
(* once, to whichever group.                                               *)
(***************************************************************************)
EXTENDS Integers, FiniteSets

CONSTANTS
    Groups,        \* FROST group IDs
    Genesis,       \* the group of epoch 0, given to the constructor
    NoGroup,       \* the zero group ID
    KeyOf,         \* coordinator: the key a group has once it is finalized
    Transactions,  \* Safe transactions with their oracle and oracle data
    MaxEpoch,      \* bound: the largest epoch number proposed
    MaxBlock,      \* bound: blocks mined
    MaxRequests    \* bound: signing requests of all groups

ASSUME GroupsAssumption == Genesis \in Groups /\ NoGroup \notin Groups

ASSUME ConsensusBounds == MaxEpoch \in Nat /\ MaxBlock \in Nat /\ MaxRequests \in Nat

VARIABLES
    block,          \* block.number
    previous,       \* Epochs.previous
    active,         \* Epochs.active
    staged,         \* Epochs.staged
    rolloverBlock,  \* Epochs.rolloverBlock
    groups,         \* $groups
    attestations,   \* $attestations: pairs of a message and a signature ID
    ready,          \* coordinator: the FINALIZED groups
    requests,       \* coordinator: the signing requests
    completed,      \* coordinator: the requests with a valid signature
    proposals       \* the messages Consensus asked some group to sign

epochVars == <<previous, active, staged, rolloverBlock>>

coVars == <<block, epochVars, groups, attestations, ready, requests, completed, proposals>>

Epochs64 == 0 .. MaxEpoch

\* The EIP-712 messages of ConsensusMessages, as what their hash binds.
RolloverMessage(a, e, b, g) ==
    [kind |-> "epochRollover", active |-> a, proposed |-> e, block |-> b,
     groupKey |-> KeyOf[g]]

ProposalMessage(e, tx) ==
    [kind |-> "transactionProposal", epoch |-> e, tx |-> tx]

COInit ==
    /\ block = 0
    /\ previous = 0
    /\ active = 0
    /\ staged = 0
    /\ rolloverBlock = 0
    /\ groups = [e \in Epochs64 |-> IF e = 0 THEN Genesis ELSE NoGroup]
    /\ attestations = {}
    /\ ready = {}
    /\ requests = {}
    /\ completed = {}
    /\ proposals = {}

----------------------------------------------------------------------------
(* The coordinator, as its callers see it                                  *)

requestsOf(g) == {r \in requests : r.gid = g}

\* FROSTCoordinator.sign when the groups in `finalized` are ready.
coordinatorSign(g, m, finalized) ==
    /\ g \in finalized
    /\ Cardinality(requests) < MaxRequests
    /\ requests' = requests \cup
        {[gid |-> g, seq |-> Cardinality(requestsOf(g)), message |-> m]}

\* A wrong signatureVerify: a signature of any group is accepted.
signatureVerifyAnyGroup(sid, g, m, done) == sid \in done /\ sid.message = m

\* FROSTCoordinator.signatureVerify when the requests in `done` are complete.
signatureVerify(sid, g, m, done) == sid \in done /\ sid.gid = g /\ sid.message = m

attested(m) == \E a \in attestations : a.message = m

setAttestation(m, sid) ==
    attestations' = {a \in attestations : a.message # m} \cup {[message |-> m, sid |-> sid]}

----------------------------------------------------------------------------
(* Epochs                                                                  *)

\* _epochsWithRollover: the staged epoch is in force from its block on.
rolledOver == staged # 0 /\ rolloverBlock <= block

activeNow == IF rolledOver THEN staged ELSE active

stagedNow == IF rolledOver THEN 0 ELSE staged

\* _processRollover: the storage catches up with the block number.
processRollover ==
    /\ active' = activeNow
    /\ previous' = IF rolledOver THEN active ELSE previous
    /\ staged' = stagedNow
    /\ rolloverBlock' = IF rolledOver THEN 0 ELSE rolloverBlock

\* A wrong check: the epoch need not advance.
validRolloverAnyEpoch(e, b) == b > block /\ stagedNow = 0

\* A wrong check: the roll-over may be for the current block.
validRolloverNow(e, b) == activeNow < e /\ b >= block /\ stagedNow = 0

\* _requireValidRollover
validRollover(e, b) == activeNow < e /\ b > block /\ stagedNow = 0

\* proposeEpoch in a state where the groups in `finalized` are ready.
proposeEpochWith(e, b, g, finalized) ==
    LET m == RolloverMessage(activeNow, e, b, g)
    IN  /\ validRollover(e, b)
        /\ g \in finalized
        /\ processRollover
        /\ coordinatorSign(groups[activeNow], m, finalized)
        /\ proposals' = proposals \cup {m}

\* proposeEpoch: ask the active group to hand over to group g.
proposeEpoch(e, b, g) ==
    /\ proposeEpochWith(e, b, g, ready)
    /\ UNCHANGED <<block, groups, attestations, ready, completed>>

\* stageEpoch when the requests in `done` are complete.
stageEpochWith(e, b, g, sid, done) ==
    LET m == RolloverMessage(activeNow, e, b, g)
    IN  /\ validRollover(e, b)
        /\ g \in ready
        /\ signatureVerify(sid, groups[activeNow], m, done)
        /\ active' = activeNow
        /\ previous' = IF rolledOver THEN active ELSE previous
        /\ staged' = e
        /\ rolloverBlock' = b
        /\ groups' = [groups EXCEPT ![e] = g]
        /\ setAttestation(m, sid)

\* stageEpoch: the active group's signature stages the next epoch.
stageEpoch(e, b, g, sid) ==
    /\ stageEpochWith(e, b, g, sid, completed)
    /\ UNCHANGED <<block, ready, requests, completed, proposals>>

----------------------------------------------------------------------------
(* Transactions                                                            *)

\* proposeTransaction: ask the active group to attest a transaction.  The
\* oracle of the transaction is told last (IOracle.postRequest).
proposeTransaction(tx) ==
    LET m == ProposalMessage(activeNow, tx)
    IN  /\ processRollover
        /\ ~ attested(m)
        /\ coordinatorSign(groups[activeNow], m, ready)
        /\ proposals' = proposals \cup {m}
        /\ UNCHANGED <<block, groups, attestations, ready, completed>>

\* attestTransaction when the requests in `done` are complete.
attestTransactionWith(e, tx, sid, done) ==
    LET m == ProposalMessage(e, tx)
    IN  /\ ~ attested(m)
        /\ signatureVerify(sid, groups[e], m, done)
        /\ setAttestation(m, sid)

\* attestTransaction: of any epoch, also one that is no longer active.
attestTransaction(e, tx, sid) ==
    /\ attestTransactionWith(e, tx, sid, completed)
    /\ UNCHANGED <<block, epochVars, groups, ready, requests, completed, proposals>>

----------------------------------------------------------------------------
(* The environment: blocks, key generation and the signers                 *)

mineBlock ==
    /\ block < MaxBlock
    /\ block' = block + 1
    /\ UNCHANGED <<epochVars, groups, attestations, ready, requests, completed, proposals>>

\* keyGenConfirm by the last participant, without a callback.
coordinatorKeyGenConfirm(g) ==
    /\ g \notin ready
    /\ ready' = ready \cup {g}
    /\ UNCHANGED <<block, epochVars, groups, attestations, requests, completed, proposals>>

\* keyGenConfirmWithCallback by the last participant: onKeyGenCompleted
\* proposes the epoch in the same transaction, or reverts the confirmation.
keyGenConfirmWithCallback(g, e, b) ==
    /\ g \notin ready
    /\ proposeEpochWith(e, b, g, ready \cup {g})
    /\ ready' = ready \cup {g}
    /\ UNCHANGED <<block, groups, attestations, completed>>

\* sign by anybody: a validator that opens a new ceremony after a timeout,
\* or an outsider that asks a group for a message meant for another one.
signByAnybody(g, m) ==
    /\ m \in proposals
    /\ coordinatorSign(g, m, ready)
    /\ UNCHANGED <<block, epochVars, groups, attestations, ready, completed, proposals>>

\* signShare by the last signer of a selection, without a callback.
coordinatorSignShare(sid) ==
    /\ sid \in requests \ completed
    /\ completed' = completed \cup {sid}
    /\ UNCHANGED <<block, epochVars, groups, attestations, ready, requests, proposals>>

\* signShareWithCallback by the last signer: onSignCompleted stages the
\* epoch in the same transaction, or reverts the share.
signShareStaging(e, b, g, sid) ==
    /\ sid \in requests \ completed
    /\ completed' = completed \cup {sid}
    /\ stageEpochWith(e, b, g, sid, completed')
    /\ UNCHANGED <<block, ready, requests, proposals>>

\* signShareWithCallback by the last signer: onSignCompleted attests the
\* transaction in the same transaction, or reverts the share.
signShareAttesting(e, tx, sid) ==
    /\ sid \in requests \ completed
    /\ completed' = completed \cup {sid}
    /\ attestTransactionWith(e, tx, sid, completed')
    /\ UNCHANGED <<block, epochVars, groups, ready, requests, proposals>>

CONext ==
    \/ mineBlock
    \/ \E g \in Groups : coordinatorKeyGenConfirm(g)
    \/ \E g \in Groups, e \in Epochs64, b \in 0 .. MaxBlock :
        \/ keyGenConfirmWithCallback(g, e, b)
        \/ proposeEpoch(e, b, g)
        \/ \E sid \in requests : stageEpoch(e, b, g, sid) \/ signShareStaging(e, b, g, sid)
    \/ \E tx \in Transactions :
        \/ proposeTransaction(tx)
        \/ \E e \in Epochs64, sid \in requests :
            attestTransaction(e, tx, sid) \/ signShareAttesting(e, tx, sid)
    \/ \E g \in Groups, m \in proposals : signByAnybody(g, m)
    \/ \E sid \in requests : coordinatorSignShare(sid)

COSpec == COInit /\ [][CONext]_coVars

----------------------------------------------------------------------------
(* Invariants                                                              *)

\* Whose signature stands behind a message that Consensus recorded.
signersOf(m) == IF m.kind = "epochRollover" THEN groups[m.active] ELSE groups[m.epoch]

\* Every attestation that the contract vouches for is a completed signature
\* over exactly that message by the group of the message's epoch, although
\* the attestation may be recorded many epochs later.
AttestationsSigned ==
    \A a \in attestations :
        /\ a.sid \in completed
        /\ a.sid.message = a.message
        /\ a.sid.gid = signersOf(a.message)

\* The chain of trust: the key of every epoch after genesis was endorsed, by
\* a recorded signature, by the group of an earlier epoch, and belongs to a
\* finalized group.  The endorsement is of the key: a second group with the
\* same key may be the one that stageEpoch stores.
EpochsEndorsed ==
    \A e \in Epochs64 \ {0} : groups[e] # NoGroup =>
        \E a \in attestations :
            /\ a.message.kind = "epochRollover"
            /\ a.message.proposed = e
            /\ a.message.groupKey = KeyOf[groups[e]]
            /\ a.message.active < e
            /\ groups[e] \in ready

----------------------------------------------------------------------------
(* Refinement                                                              *)

Schedule == INSTANCE EpochSchedule WITH
    height <- block,
    current <- activeNow,
    upcoming <- stagedNow,
    switchAt <- IF rolledOver THEN 0 ELSE rolloverBlock,
    groupOf <- groups

\* The lazily updated storage, read through _epochsWithRollover, is a
\* schedule that switches exactly at the roll-over block.
ImplementsSchedule == Schedule!ESSpec
============================================================================
