-------------------------- MODULE ValidatorNonces --------------------------
(***************************************************************************)
(* The life of one validator's secret nonces for one group: sampled in     *)
(* trees by an effect, committed onchain, linked to a chunk when the event *)
(* arrives, selected by Sign events, revealed and finally used for one     *)
(* signature share.                                                        *)
(*                                                                         *)
(* A block is one action: the transition of Message::NewBlock, then one    *)
(* event, then the snapshot of the resulting state; several events are     *)
(* several blocks, and so is a resume between the two.  Effects run aside, *)
(* may be performed again or fail, and their resumes are applied to the    *)
(* live state in any order.  A reorganisation restores a snapshot and      *)
(* leaves the secret store, running effects and queued transactions as     *)
(* they are; a restart restores one too and loses all running effects.     *)
(* Blocks that a restart replays are blocks of the chain again, so the     *)
(* chain is rolled back with the state, to be extended in the same way or  *)
(* another one.                                                            *)
(*                                                                         *)
(* Deadlines are abstracted: any session may time out with any block.  The *)
(* other signers appear only through the events they cause.                *)
(***************************************************************************)
EXTENDS Integers, FiniteSets, Sequences

CONSTANTS
    Roots,            \* the Merkle roots of the nonce trees ever sampled
    Messages,         \* the messages the group may be asked to sign
    OracleMessages,   \* those of transactions; the others are roll-overs
    ChunkSize,        \* SEQUENCE_CHUNK_SIZE, 1024 in the code
    TopUpThreshold,   \* NONCE_TOPUP_THRESHOLD, 100 in the code
    MaxReorgDepth,    \* the deepest reorganisation the indexer follows
    MaxSequence,      \* bound: signing ceremonies of the group
    MaxChunk,         \* bound: the last chunk of nonces
    MaxTrees,         \* bound: NonceTree effects running at a time
    Absent,           \* no entry in NonceState.chunks
    Pending           \* a reserved chunk: an entry without a root

ASSUME SizeAssumption == ChunkSize \in Nat \ {0} /\ TopUpThreshold \in Nat

ASSUME BoundsAssumption ==
    /\ MaxReorgDepth \in Nat
    /\ MaxSequence \in Nat
    /\ MaxChunk \in Nat
    /\ MaxTrees \in Nat

ASSUME SlotAssumption == Absent # Pending /\ Absent \notin Roots /\ Pending \notin Roots

VARIABLES
    val,          \* the live state: [active, tracked, nextSequence, chunks, signing]
    snaps,        \* the last blocks: the chain and the committed state of each
    fresh,        \* roots that have not been sampled
    store,        \* the table `nonces`
    trees,        \* effects: NonceTree, how many are running
    uses,         \* effects: UseNonce
    reveals,      \* effects: RevealNonceCommitments
    dropping,     \* effects: a ReconcileGroupSecrets without this group runs
    sampled,      \* resumes: NonceTree
    taken,        \* resumes: Nonce
    opened,       \* resumes: NonceCommitments
    preprocessTx, \* queued transactions: Preprocess, per root
    revealTx,     \* queued transactions: RevealNonceCommitments
    spent         \* history: signature shares computed with each nonce

effects == <<trees, uses, reveals, dropping>>

resumes == <<sampled, taken, opened>>

queued == <<preprocessTx, revealTx>>

secrets == <<fresh, store, spent>>

vars == <<val, snaps, secrets, effects, resumes, queued>>

Chunks == 0 .. MaxChunk

Nonces == Roots \X (0 .. ChunkSize - 1)

chunkOf(s) == s \div ChunkSize

offsetOf(s) == s % ChunkSize

\* A signing session: `seq` is its signature ID and `root` the tree its nonce
\* comes from, once a Sign event has chosen them.
NoSession == [stage |-> "None", seq |-> 0, root |-> Absent]

WaitingForRequest == [NoSession EXCEPT !.stage = "WaitingForRequest"]

\* The nonce a session signs with.
nonceOf(session) == <<session.root, offsetOf(session.seq)>>

----------------------------------------------------------------------------
(* The contract's side: FROSTNonceCommitmentSet for this validator         *)

chain == snaps[Len(snaps)].chain

commitChunk(c) == IF c.next > chunkOf(c.sequence) THEN c.next ELSE chunkOf(c.sequence)

startOffset(c) == IF c.next > chunkOf(c.sequence) THEN 0 ELSE offsetOf(c.sequence)

committed(c, root) ==
    [c EXCEPT !.next = commitChunk(c) + 1,
              !.roots[commitChunk(c)] = root,
              !.starts[commitChunk(c)] = startOffset(c)]

\* signRevealNonces accepts the nonce of tree `root` for sequence s.
accepts(c, s, root) ==
    /\ s < c.sequence
    /\ c.roots[chunkOf(s)] = root
    /\ offsetOf(s) >= c.starts[chunkOf(s)]

----------------------------------------------------------------------------
(* NonceState                                                              *)

reserved(v) == {c \in Chunks : v.chunks[c] # Absent}

lastReserved(v) == CHOOSE c \in reserved(v) : \A d \in reserved(v) : d <= c

\* The chunk the contract is expected to assign next; the code gives up when
\* chunk numbers run out, which MaxChunk stands for.
expectedChunk(v) ==
    LET current == chunkOf(v.nextSequence)
    IN  IF reserved(v) = {} \/ lastReserved(v) < current THEN current
        ELSE lastReserved(v) + 1

reserveChunk(v) ==
    IF expectedChunk(v) \in Chunks
    THEN [v EXCEPT !.chunks[expectedChunk(v)] = Pending]
    ELSE v

ensureChunkReservation(v) ==
    IF reserved(v) # {} /\ v.chunks[lastReserved(v)] = Pending THEN v ELSE reserveChunk(v)

\* Linked and pending capacity from the next sequence on.
available(v) ==
    LET current == chunkOf(v.nextSequence)
        ahead == {c \in reserved(v) : c >= current}
    IN  ChunkSize * Cardinality(ahead)
            - (IF current \in ahead THEN offsetOf(v.nextSequence) ELSE 0)

\* The root of the nonce for sequence s, if its chunk is linked.
observedRoot(v, s) == IF chunkOf(s) \in Chunks THEN v.chunks[chunkOf(s)] ELSE Absent

\* NonceState.observe: the sequence moves on and past chunks are forgotten.
observe(v, s) ==
    [v EXCEPT !.nextSequence = s + 1,
              !.chunks = [c \in Chunks |-> IF c < chunkOf(s + 1) THEN Absent ELSE v.chunks[c]]]

----------------------------------------------------------------------------
(* Message::NewBlock                                                       *)

\* handle_signing_timeouts: the sessions past their deadline are dropped or,
\* where the stage allows it and enough signers are left, tried again.
onTimeouts(v, dropped, retried) ==
    [v EXCEPT !.signing = [m \in Messages |->
        CASE m \in dropped -> NoSession
          [] m \in retried -> WaitingForRequest
          [] OTHER -> v.signing[m]]]

open(v) == {m \in Messages : v.signing[m] # NoSession}

retriable(v) ==
    {m \in Messages : v.signing[m].stage \in
        {"WaitingForRequest", "CollectNonceCommitments", "CollectSigningShares"}}

needsTopUp(v) ==
    /\ v.active
    /\ v.tracked
    /\ available(v) < TopUpThreshold
    /\ expectedChunk(v) \in Chunks

\* handle_group_reconciliation: a group is kept while it is active or some
\* session still signs with it.
reconciled(v) ==
    [v EXCEPT !.tracked = v.tracked /\ (v.active \/ open(v) # {})]

\* The transition of a new block.  b.retire: the next epoch becomes active.
beforeTopUp(b) ==
    onTimeouts([val EXCEPT !.active = val.active /\ ~b.retire], b.dropped, b.retried)

onNewBlock(b) ==
    LET v == beforeTopUp(b)
    IN  reconciled(IF needsTopUp(v) THEN reserveChunk(v) ELSE v)

newBlockEffects(b) ==
    /\ trees' = IF needsTopUp(beforeTopUp(b)) /\ trees < MaxTrees THEN trees + 1 ELSE trees
    /\ dropping' = (dropping \/ ~onNewBlock(b).tracked)

\* What a block may bring besides its event.
Blocks ==
    {b \in [retire : {FALSE, val.active}, dropped : SUBSET open(val), retried : SUBSET retriable(val)] :
        b.dropped \cap b.retried = {}}

lastN(s, n) == IF Len(s) > n THEN SubSeq(s, Len(s) - n + 1, Len(s)) ELSE s

\* The block's chain c and state v are committed as a snapshot, and the
\* snapshots of blocks that can no longer be reorganised are pruned.
commitBlock(c, v) ==
    /\ val' = v
    /\ snaps' = lastN(Append(snaps, [chain |-> c, val |-> v]), MaxReorgDepth + 1)

----------------------------------------------------------------------------
(* Blocks, by the event they carry                                         *)

blockWithoutEvent(b) ==
    /\ commitBlock(chain, onNewBlock(b))
    /\ newBlockEffects(b)
    /\ UNCHANGED <<secrets, uses, reveals, resumes, queued>>

\* handle_preprocess: a queued commitment was executed.
blockPreprocess(b, root) ==
    LET v == onNewBlock(b)
        c == commitChunk(chain)
    IN  /\ root \in preprocessTx
        /\ \A d \in Chunks : chain.roots[d] # root
        /\ c \in Chunks
        /\ commitBlock(committed(chain, root),
                       IF v.tracked THEN [v EXCEPT !.chunks[c] = root] ELSE v)
        /\ newBlockEffects(b)
        /\ UNCHANGED <<secrets, uses, reveals, resumes, queued>>

\* handle_transaction_proposed, and the session a key generation opens for
\* its roll-over: at most one session per message.
blockProposed(b, m) ==
    LET v == onNewBlock(b)
    IN  /\ v.tracked
        /\ v.signing[m] = NoSession
        /\ commitBlock(chain, [v EXCEPT !.signing[m] = WaitingForRequest])
        /\ newBlockEffects(b)
        /\ UNCHANGED <<secrets, uses, reveals, resumes, queued>>

\* handle_sign: somebody opened a ceremony.  Without a linked nonce the
\* session is dropped; a session that is already further on stays.
blockSign(b, m) ==
    LET v == onNewBlock(b)
        s == chain.sequence
        root == observedRoot(v, s)
        w == IF v.tracked THEN observe(v, s) ELSE v
        requested == v.tracked /\ v.signing[m] = WaitingForRequest
        first == IF m \in OracleMessages THEN "WaitingForOracle" ELSE "CollectNonceCommitments"
        session == IF root \in Roots THEN [stage |-> first, seq |-> s, root |-> root]
                                     ELSE NoSession
    IN  /\ s < MaxSequence
        /\ commitBlock([chain EXCEPT !.sequence = s + 1],
                       IF requested THEN [w EXCEPT !.signing[m] = session] ELSE w)
        /\ newBlockEffects(b)
        /\ reveals' = IF requested /\ session.stage = "CollectNonceCommitments"
                      THEN reveals \cup {[message |-> m, seq |-> s, root |-> root]}
                      ELSE reveals
        /\ UNCHANGED <<secrets, uses, resumes, queued>>

\* handle_sign for a group that is not tracked here: it has no nonce linked,
\* so a session that waits for its own group's ceremony is dropped.
blockForeignSign(b, m) ==
    LET v == onNewBlock(b)
    IN  /\ v.signing[m] = WaitingForRequest
        /\ commitBlock(chain, [v EXCEPT !.signing[m] = NoSession])
        /\ newBlockEffects(b)
        /\ UNCHANGED <<secrets, uses, reveals, resumes, queued>>

\* handle_oracle_result: go on with the ceremony or drop it.
blockOracleResult(b, m, approved) ==
    LET v == onNewBlock(b)
        session == v.signing[m]
    IN  /\ session.stage = "WaitingForOracle"
        /\ commitBlock(chain, [v EXCEPT !.signing[m] =
                IF approved THEN [session EXCEPT !.stage = "CollectNonceCommitments"]
                            ELSE NoSession])
        /\ newBlockEffects(b)
        /\ reveals' = IF approved
                      THEN reveals \cup {[message |-> m, seq |-> session.seq, root |-> session.root]}
                      ELSE reveals
        /\ UNCHANGED <<secrets, uses, resumes, queued>>

\* handle_sign_revealed_nonces: the last of the signers revealed, and this
\* validator did too.  The nonce revealed onchain is what counts from here.
blockAllRevealed(b, m, t) ==
    LET v == onNewBlock(b)
        session == v.signing[m]
    IN  /\ session.stage = "CollectNonceCommitments"
        /\ t \in revealTx
        /\ t.seq = session.seq
        /\ accepts(chain, t.seq, t.root)
        /\ commitBlock(chain, [v EXCEPT !.signing[m] =
                [stage |-> "CollectSigningShares", seq |-> t.seq, root |-> t.root]])
        /\ newBlockEffects(b)
        /\ uses' = uses \cup {[message |-> m, nonce |-> nonceOf(session)]}
        /\ UNCHANGED <<secrets, reveals, resumes, queued>>

\* handle_sign_completed
blockCompleted(b, m) ==
    LET v == onNewBlock(b)
    IN  /\ v.signing[m].stage = "CollectSigningShares"
        /\ commitBlock(chain, [v EXCEPT !.signing[m].stage = "WaitingForAttestation"])
        /\ newBlockEffects(b)
        /\ UNCHANGED <<secrets, uses, reveals, resumes, queued>>

\* handle_sign_attested: whatever the session was doing, it is over.
blockAttested(b, m) ==
    LET v == onNewBlock(b)
    IN  /\ v.signing[m] # NoSession
        /\ commitBlock(chain, [v EXCEPT !.signing[m] = NoSession])
        /\ newBlockEffects(b)
        /\ UNCHANGED <<secrets, uses, reveals, resumes, queued>>

----------------------------------------------------------------------------
(* Effects.  An effect that was performed may run again: the state machine *)
(* emits it for the same chain message after a reorganisation or restart.  *)

\* register_nonces_chunk: a sampled tree is stored, or the effect fails or
\* is a duplicate of one that is still running.
performNonceTree(root) ==
    /\ trees > 0
    /\ trees' = trees - 1
    /\ root \in fresh
    /\ fresh' = fresh \ {root}
    /\ store' = store \cup ({root} \X (0 .. ChunkSize - 1))
    /\ sampled' = sampled \cup {root}
    /\ UNCHANGED <<val, snaps, spent, uses, reveals, dropping, taken, opened, queued>>

failNonceTree ==
    /\ trees > 0
    /\ trees' = trees - 1
    /\ UNCHANGED <<val, snaps, secrets, uses, reveals, dropping, resumes, queued>>

\* A wrong take_nonce: the nonce is read and stays in the table.
storeAfterTakeUnchanged(n) == store

\* The DELETE ... RETURNING of take_nonce.
storeAfterTake(n) == store \ {n}

\* take_nonce: the nonce is deleted as it is read.
performUseNonce(e) ==
    /\ uses' \in {uses, uses \ {e}}
    /\ e.nonce \in store
    /\ store' = storeAfterTake(e.nonce)
    /\ taken' = taken \cup {e}
    /\ UNCHANGED <<val, snaps, fresh, spent, trees, reveals, dropping, sampled, opened, queued>>

\* The nonce is gone, or the effect fails: Resume::Noop.
failUseNonce(e) ==
    /\ uses' = uses \ {e}
    /\ UNCHANGED <<val, snaps, secrets, trees, reveals, dropping, resumes, queued>>

\* nonces_reveal: the public half is read, nothing is consumed.
performReveal(e) ==
    /\ reveals' = reveals \ {e}
    /\ opened' = IF <<e.root, offsetOf(e.seq)>> \in store THEN opened \cup {e} ELSE opened
    /\ UNCHANGED <<val, snaps, secrets, trees, uses, dropping, sampled, taken, queued>>

\* retain_nonces without this group: all its nonces are deleted.
performReconcile ==
    /\ dropping
    /\ dropping' = FALSE
    /\ store' = {}
    /\ UNCHANGED <<val, snaps, fresh, spent, trees, uses, reveals, resumes, queued>>

----------------------------------------------------------------------------
(* Resumes                                                                 *)

\* handle_nonce_tree: queue the commitment of a tracked group.
resumeNonceTree(root) ==
    /\ root \in sampled
    /\ sampled' = sampled \ {root}
    /\ IF val.tracked
       THEN /\ val' = ensureChunkReservation(val)
            /\ preprocessTx' = preprocessTx \cup {root}
       ELSE UNCHANGED <<val, preprocessTx>>
    /\ UNCHANGED <<snaps, secrets, effects, taken, opened, revealTx>>

\* handle_nonce_commitments: reveal if the same ceremony still collects.
resumeReveal(e) ==
    LET session == val.signing[e.message]
    IN  /\ e \in opened
        /\ opened' = opened \ {e}
        /\ revealTx' = IF session.stage = "CollectNonceCommitments" /\ session.seq = e.seq
                       THEN revealTx \cup {[seq |-> e.seq, root |-> e.root]}
                       ELSE revealTx
        /\ UNCHANGED <<val, snaps, secrets, effects, sampled, taken, preprocessTx>>

\* A wrong signature_share: any nonce that arrives for the message is used.
signsWithAny(session, n) == session.stage = "CollectSigningShares"

\* handle_nonces finds a session that collects shares, and signature_share
\* only signs with the nonce this validator revealed in that ceremony.
signsWith(session, n) == session.stage = "CollectSigningShares" /\ nonceOf(session) = n

\* handle_nonces: the share is computed and the nonce is gone either way.
resumeNonce(e) ==
    /\ e \in taken
    /\ taken' = taken \ {e}
    /\ spent' = IF signsWith(val.signing[e.message], e.nonce)
                THEN [spent EXCEPT ![e.nonce] = @ + 1]
                ELSE spent
    /\ UNCHANGED <<val, snaps, fresh, store, effects, sampled, opened, queued>>

----------------------------------------------------------------------------
(* Reorganisations and restarts                                            *)

\* A wrong reorganisation: the blocks are gone, the state made of them stays.
rollbackKeepsState(d) ==
    /\ d < Len(snaps)
    /\ val' = val
    /\ snaps' = SubSeq(snaps, 1, Len(snaps) - d)

\* The last d blocks are uncles: back to the snapshot before them.
rollback(d) ==
    /\ d < Len(snaps)
    /\ val' = snaps[Len(snaps) - d].val
    /\ snaps' = SubSeq(snaps, 1, Len(snaps) - d)

reorg(d) ==
    /\ rollback(d)
    /\ UNCHANGED <<secrets, effects, resumes, queued>>

\* A restart loses the effects and rolls back to the safe block.
restart(d) ==
    /\ rollback(d)
    /\ trees' = 0
    /\ uses' = {}
    /\ reveals' = {}
    /\ dropping' = FALSE
    /\ sampled' = {}
    /\ taken' = {}
    /\ opened' = {}
    /\ UNCHANGED <<secrets, queued>>

----------------------------------------------------------------------------

initialChain ==
    [sequence |-> 0, next |-> 0,
     roots |-> [c \in Chunks |-> Absent], starts |-> [c \in Chunks |-> 0]]

\* finalize_key_gen: the first chunk is reserved and its tree requested.
initialVal ==
    [active |-> TRUE, tracked |-> TRUE, nextSequence |-> 0,
     chunks |-> [c \in Chunks |-> IF c = 0 THEN Pending ELSE Absent],
     signing |-> [m \in Messages |-> NoSession]]

Init ==
    /\ val = initialVal
    /\ snaps = <<[chain |-> initialChain, val |-> initialVal]>>
    /\ fresh = Roots
    /\ store = {}
    /\ trees = 1
    /\ uses = {}
    /\ reveals = {}
    /\ dropping = FALSE
    /\ sampled = {}
    /\ taken = {}
    /\ opened = {}
    /\ preprocessTx = {}
    /\ revealTx = {}
    /\ spent = [n \in Nonces |-> 0]

NewBlock ==
    \E b \in Blocks :
        \/ blockWithoutEvent(b)
        \/ \E root \in Roots : blockPreprocess(b, root)
        \/ \E m \in Messages :
            \/ blockProposed(b, m)
            \/ blockSign(b, m)
            \/ blockForeignSign(b, m)
            \/ \E approved \in BOOLEAN : blockOracleResult(b, m, approved)
            \/ \E t \in revealTx : blockAllRevealed(b, m, t)
            \/ blockCompleted(b, m)
            \/ blockAttested(b, m)

Effects ==
    \/ \E root \in Roots : performNonceTree(root)
    \/ failNonceTree
    \/ \E e \in uses : performUseNonce(e) \/ failUseNonce(e)
    \/ \E e \in reveals : performReveal(e)
    \/ performReconcile

Resumes ==
    \/ \E root \in sampled : resumeNonceTree(root)
    \/ \E e \in opened : resumeReveal(e)
    \/ \E e \in taken : resumeNonce(e)

Next ==
    \/ NewBlock
    \/ Effects
    \/ Resumes
    \/ \E d \in 1 .. MaxReorgDepth : reorg(d)
    \/ \E d \in 0 .. MaxReorgDepth : restart(d)

Spec == Init /\ [][Next]_vars

----------------------------------------------------------------------------
(* Invariants                                                              *)

\* No nonce ever makes two signature shares, whatever is reorganised,
\* restarted, performed twice or resumed late (two shares with one nonce
\* give the secret key share away).
NonceSignsOnce == \A n \in Nonces : spent[n] <= 1

\* A nonce is in one place at most: still in the store, taken by exactly one
\* effect, or spent; and none of a tree that was not sampled yet.
NonceInOnePlace ==
    /\ \A e \in taken : e.nonce \notin store /\ spent[e.nonce] = 0
    /\ \A e, f \in taken : e.nonce = f.nonce => e = f
    /\ \A n \in store : spent[n] = 0
    /\ \A n \in Nonces : n[1] \in fresh =>
        n \notin store /\ spent[n] = 0 /\ \A e \in taken : e.nonce # n

InCeremony == {"WaitingForOracle", "CollectNonceCommitments", "CollectSigningShares"}

\* The nonce a session selected, without ever asking the contract, is the one
\* the contract accepts for that ceremony on the current chain.
SelectedNonceAccepted ==
    \A m \in Messages : val.signing[m].stage \in InCeremony =>
        accepts(chain, val.signing[m].seq, val.signing[m].root)

----------------------------------------------------------------------------
(* Action properties                                                       *)

\* A share is only made with the nonce that this chain accepted for the
\* ceremony, never with one taken for an earlier attempt at the message.
ShareMatchesCeremony ==
    [][ \A n \in Nonces : spent'[n] # spent[n] =>
            \E m \in Messages :
                /\ val.signing[m].stage = "CollectSigningShares"
                /\ nonceOf(val.signing[m]) = n
                /\ accepts(chain, val.signing[m].seq, n[1])
      ]_vars
============================================================================
