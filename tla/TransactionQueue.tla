-------------------------- MODULE TransactionQueue -------------------------
(***************************************************************************)
(* The transaction queue of crates/core/src/tx: it gives every action of   *)
(* the service an account nonce, submits it, submits it again when it goes *)
(* unexecuted, and forgets it when the block that executed it is final.    *)
(*                                                                         *)
(* Every request to the node is a step of its own that may fail, and the   *)
(* chain, the mempool and the process may change or stop between any two.  *)
(* Of a block only the account's transaction matters, one at most; `fork`  *)
(* tells blocks of different forks apart.  Fees are abstracted to the       *)
(* node's verdict on them.  The block watcher is abstracted to the          *)
(* sequence of blocks it has announced (module Indexer has its detail).     *)
(***************************************************************************)
EXTENDS Integers, SequencesExt

CONSTANTS
    MaxInFlight,      \* Config::max_in_flight_transactions
    ResubmitAfter,    \* Config::blocks_before_resubmit
    MaxReorgDepth,    \* index Config::max_reorg_depth
    Lifetimes,        \* the numbers of blocks actions are queued for; 0: forever
    MaxRows,          \* bounds: the transactions queued,
    MaxHead,          \*         the height of the chain,
    MaxReorgs,        \*         its reorganisations,
    MaxStops          \*         and the times the process stops

ASSUME QueueAssumption ==
    /\ MaxInFlight \in Nat \ {0} /\ ResubmitAfter \in Nat
    /\ MaxReorgDepth \in Nat /\ Lifetimes \subseteq Nat
    /\ MaxRows \in Nat /\ MaxHead \in Nat /\ MaxReorgs \in Nat /\ MaxStops \in Nat

VARIABLES
    chain,    \* the blocks of the canonical chain
    highest,  \* the greatest height it has reached
    reorgs,   \* its reorganisations so far
    mempool,  \* the account's transactions at the node: nonce -> row
    seen,     \* the chain as the block watcher announced it
    status,   \* TransactionQueue::block_status
    cache,    \* TransactionQueue::nonce_cache
    rows,     \* the transactions table: row id -> columns
    queued,   \* rows inserted so far, the last id
    stage,    \* what the queue is doing
    stops,    \* times the process has stopped
    undone    \* history: rows marked on a block that a reorg has taken away and
              \* that the watcher has not uncled

envVars == <<chain, highest, reorgs, mempool>>
vars == <<envVars, seen, status, cache, rows, queued, stage, stops, undone>>

Null == -1
NoStatus == [latest |-> Null, safe |-> Null]

Down == [kind |-> "down"]
Fresh == [kind |-> "fresh"]
Waiting == [kind |-> "waiting"]
Marking == [kind |-> "marking"]
Resubmitting(todo) == [kind |-> "resubmitting", todo |-> todo]
Submitting(left) == [kind |-> "submitting", left |-> left]
Sending(id, left) == [kind |-> "sending", id |-> id, left |-> left]

----------------------------------------------------------------------------
(* The account's nonce after the first `number` blocks, and the nonces.     *)

NonceAt(blocks, number) == Cardinality({i \in 1 .. number : blocks[i].tx # 0})
AccountNonce == NonceAt(chain, Len(chain))
SafeNumber(latest) ==
    IF latest > MaxReorgDepth THEN latest - MaxReorgDepth ELSE 0

Allocated == {id \in DOMAIN rows : rows[id].nonce # Null}
MarkedFrom(block) == {id \in DOMAIN rows : rows[id].executed >= block}
Expired(id, block) == rows[id].expires # Null /\ rows[id].expires <= block

(* count_outstanding *)
Outstanding(table, block) ==
    {id \in DOMAIN table :
        /\ table[id].executed = Null
        /\ \/ table[id].nonce # Null
           \/ table[id].expires = Null
           \/ table[id].expires > block}

(* prune and unmark_executed *)
(* Wrong: an expired row is dropped even if it was submitted. *)
prunedSubmitted(table, safe) ==
    Restrict(table,
        {id \in DOMAIN table :
            /\ table[id].executed = Null \/ table[id].executed > safe
            /\ table[id].expires = Null \/ table[id].expires > safe})
pruned(table, safe) ==
    Restrict(table,
        {id \in DOMAIN table :
            /\ table[id].executed = Null \/ table[id].executed > safe
            /\ table[id].nonce # Null \/ table[id].expires = Null
                                      \/ table[id].expires > safe})
(* Wrong: one block too few. *)
unmarkedAfter(table, block) ==
    [id \in DOMAIN table |->
        IF table[id].executed > block
        THEN [table[id] EXCEPT !.executed = Null] ELSE table[id]]
unmarked(table, block) ==
    [id \in DOMAIN table |->
        IF table[id].executed >= block
        THEN [table[id] EXCEPT !.executed = Null] ELSE table[id]]
marked(table, block, nonce) ==
    [id \in DOMAIN table |->
        IF /\ table[id].nonce # Null /\ table[id].nonce < nonce
           /\ table[id].executed = Null
        THEN [table[id] EXCEPT !.executed = block] ELSE table[id]]

(* stale_submissions; Resend takes them in the order of their nonces.       *)
stale(table, block) ==
    {id \in DOMAIN table :
        /\ table[id].nonce # Null /\ table[id].executed = Null
        /\ \/ table[id].submitted = Null
           \/ table[id].submitted <= block - ResubmitAfter}

(* next_transaction: the oldest row that is queued and not expired, and the *)
(* first nonce that is free for it.                                          *)
(* Wrong: a row whose submission was not recorded is queued again. *)
candidatesUnrecorded(block) ==
    {id \in DOMAIN rows :
        /\ rows[id].nonce = Null
              \/ (rows[id].submitted = Null /\ rows[id].executed = Null)
        /\ ~Expired(id, block)}
candidates(block) ==
    {id \in DOMAIN rows : rows[id].nonce = Null /\ ~Expired(id, block)}
freeNonce(nonce) ==
    Max({nonce} \cup {rows[id].nonce + 1 : id \in Allocated})

----------------------------------------------------------------------------
(* The chain and the mempool. *)

(* What the next block of `blocks` may hold for the account. *)
Includable(blocks) ==
    LET next == NonceAt(blocks, Len(blocks))
    IN  {0} \cup (IF next \in DOMAIN mempool THEN {mempool[next]} ELSE {})

Mine ==
    /\ Len(chain) < MaxHead
    /\ \E tx \in Includable(chain) :
          chain' = Append(chain, [fork |-> 0, tx |-> tx])
    /\ highest' = IF Len(chain') > highest THEN Len(chain') ELSE highest
    /\ UNCHANGED <<reorgs, mempool, seen, status, cache, rows, queued, stage, stops, undone>>

(* A reorg replaces blocks that are not final yet, by a new fork or by one   *)
(* that was given up before.  The watcher misses a reorg that happens while  *)
(* the process is stopped, or that the chain takes back before it looks.     *)
Forks(n) == (0 .. reorgs + 1) \ {chain[n].fork}
Reorg(n) ==
    /\ reorgs < MaxReorgs
    /\ n > highest - MaxReorgDepth
    /\ LET kept == SubSeq(chain, 1, n - 1)
       IN  \E tx \in Includable(kept), fork \in Forks(n) :
              chain' = Append(kept, [fork |-> fork, tx |-> tx])
    /\ reorgs' = reorgs + 1
    /\ undone' = undone \cup MarkedFrom(n)
    /\ UNCHANGED <<highest, mempool, seen, status, cache, rows, queued, stage, stops>>

(* The node forgets a pending transaction. *)
Evict(nonce) ==
    /\ mempool' = Restrict(mempool, DOMAIN mempool \ {nonce})
    /\ UNCHANGED <<chain, highest, reorgs, seen, status, cache, rows, queued,
                   stage, stops, undone>>

----------------------------------------------------------------------------
(* update_block_status, up to its first request: prune, then unmark, then   *)
(* go on to the submissions only if there is a new block and work to do.    *)

update_block_status(now) ==
    LET afterPrune == IF status.safe # now.safe
                      THEN pruned(rows, now.safe) ELSE rows
        table == IF status = NoStatus
                 THEN unmarked(afterPrune, now.safe + 1)
                 ELSE IF status.latest > now.latest
                 THEN unmarked(afterPrune, now.latest + 1)
                 ELSE afterPrune
    IN  /\ status' = now
        /\ cache' = IF status.latest # now.latest THEN Null ELSE cache
        /\ rows' = table
        /\ stage' = IF /\ status.latest < now.latest
                       /\ Outstanding(table, now.latest) # {}
                    THEN Marking ELSE Waiting
        /\ UNCHANGED <<envVars, queued, stops>>

StatusOf(blocks, safe) == [latest |-> Len(blocks), safe |-> safe]

(* The watcher announces a block, ... *)
ObserveNew ==
    /\ stage = Waiting
    /\ Len(seen) < Len(chain)
    /\ IsPrefix(seen, chain)
    /\ seen' = SubSeq(chain, 1, Len(seen) + 1)
    /\ update_block_status(
          StatusOf(seen', Max({status.safe, SafeNumber(Len(seen'))})))
    /\ UNCHANGED undone

(* ... or uncles the last one. *)
ObserveUncle ==
    /\ stage = Waiting
    /\ ~IsPrefix(seen, chain)
    /\ seen' = Front(seen)
    /\ update_block_status(StatusOf(seen', status.safe))
    /\ undone' = undone \ MarkedFrom(Len(seen))

(* The process starts: the watcher initializes on the latest block, and the *)
(* first update brings its status to a queue that knows none.               *)
Start ==
    /\ stage = Down
    /\ seen' = chain
    /\ status' = NoStatus
    /\ cache' = Null
    /\ stage' = Fresh
    /\ UNCHANGED <<envVars, rows, queued, stops, undone>>

FirstUpdate ==
    /\ stage = Fresh
    /\ update_block_status(StatusOf(seen, SafeNumber(Len(seen))))
    /\ undone' = undone \ MarkedFrom(SafeNumber(Len(seen)) + 1)
    /\ UNCHANGED seen

Stop ==
    /\ stage # Down
    /\ stops < MaxStops
    /\ stops' = stops + 1
    /\ stage' = Down /\ seen' = <<>> /\ status' = NoStatus /\ cache' = Null
    /\ UNCHANGED <<envVars, rows, queued, undone>>

----------------------------------------------------------------------------
(* The requests of an update. *)

(* nonce(): from the cache, or of the canonical block with that number.     *)
NonceKnown == cache # Null \/ status.latest <= Len(chain)
Nonce == IF cache # Null THEN cache ELSE NonceAt(chain, status.latest)

BeginSubmit(table) ==
    LET inFlight == Cardinality({id \in DOMAIN table :
                        table[id].nonce # Null /\ table[id].executed = Null})
    IN  Submitting(IF inFlight < MaxInFlight THEN MaxInFlight - inFlight ELSE 0)

Mark ==
    /\ stage = Marking
    /\ NonceKnown
    /\ cache' = Nonce
    /\ rows' = marked(rows, status.latest, Nonce)
    /\ stage' = Resubmitting(stale(rows', status.latest))
    /\ UNCHANGED <<envVars, seen, status, queued, stops, undone>>

(* submit_pending: allocate a nonce to the next row, or stop.               *)
Allocate ==
    /\ stage.kind = "submitting"
    /\ stage.left > 0
    /\ NonceKnown
    /\ candidates(status.latest) # {}
    /\ LET id == Min(candidates(status.latest))
       IN  /\ rows' = [rows EXCEPT ![id].nonce = freeNonce(Nonce)]
           /\ stage' = Sending(id, stage.left - 1)
    /\ cache' = Nonce
    /\ UNCHANGED <<envVars, seen, status, queued, stops, undone>>

SubmitEnds ==
    /\ stage.kind = "submitting"
    /\ stage.left = 0 \/ (NonceKnown /\ candidates(status.latest) = {})
    /\ cache' = IF stage.left > 0 THEN Nonce ELSE cache
    /\ stage' = Waiting
    /\ UNCHANGED <<envVars, seen, status, rows, queued, stops, undone>>

ResubmitEnds ==
    /\ stage = Resubmitting({})
    /\ stage' = BeginSubmit(rows)
    /\ UNCHANGED <<envVars, seen, status, cache, rows, queued, stops, undone>>

(* submit_transaction and record_submission.  The node takes it, and then   *)
(* the answer may be lost; or rejects it as an underpriced replacement; or  *)
(* for another reason, which changes nothing.                               *)
record_submission(nonce, block) ==
    [id \in DOMAIN rows |->
        IF rows[id].nonce = nonce
        THEN [rows[id] EXCEPT !.submitted = block] ELSE rows[id]]

submit_transaction(id) ==
    LET nonce == rows[id].nonce
        taken == [n \in DOMAIN mempool \cup {nonce} |->
                    IF n = nonce THEN id ELSE mempool[n]]
    IN  \/ /\ nonce >= AccountNonce
           /\ mempool' = taken
           /\ rows' \in {record_submission(nonce, status.latest), rows}
        \/ /\ nonce \in DOMAIN mempool /\ nonce >= AccountNonce
           /\ rows' = record_submission(nonce, Null)
           /\ UNCHANGED mempool
        \/ UNCHANGED <<mempool, rows>>

Send ==
    /\ stage.kind = "sending"
    /\ submit_transaction(stage.id)
    /\ stage' = Submitting(stage.left)
    /\ UNCHANGED <<chain, highest, reorgs, seen, status, cache, queued, stops, undone>>

Resend ==
    /\ stage.kind = "resubmitting"
    /\ \E id \in stage.todo :
          /\ \A other \in stage.todo : rows[id].nonce <= rows[other].nonce
          /\ submit_transaction(id)
          /\ stage' = Resubmitting(stage.todo \ {id})
    /\ UNCHANGED <<chain, highest, reorgs, seen, status, cache, queued, stops, undone>>

(* An intermittent error, of the nonce or of the fee estimate: the driver   *)
(* goes on without the rest of the update.                                  *)
RequestFails ==
    /\ stage.kind \in {"marking", "submitting", "sending", "resubmitting"}
    /\ stage' = Waiting
    /\ UNCHANGED <<envVars, seen, status, cache, rows, queued, stops, undone>>

(* queue: a new row, submitted at once if a block status is known.          *)
Enqueue(lifetime) ==
    /\ stage \in {Waiting, Fresh}
    /\ queued < MaxRows
    /\ queued' = queued + 1
    /\ LET id == queued + 1
           row == [nonce |-> Null, submitted |-> Null, executed |-> Null,
                   expires |-> IF lifetime = 0 THEN Null ELSE Len(seen) + lifetime]
       IN  rows' = [i \in DOMAIN rows \cup {id} |->
                       IF i = id THEN row ELSE rows[i]]
    /\ stage' = IF stage = Waiting THEN BeginSubmit(rows') ELSE Fresh
    /\ UNCHANGED <<envVars, seen, status, cache, stops, undone>>

----------------------------------------------------------------------------
Init ==
    /\ chain = <<[fork |-> 0, tx |-> 0]>>
    /\ highest = 1 /\ reorgs = 0
    /\ mempool = <<>>
    /\ seen = <<>> /\ status = NoStatus /\ cache = Null
    /\ rows = <<>> /\ queued = 0
    /\ stage = Down
    /\ stops = 0 /\ undone = {}

Next ==
    \/ Mine \/ \E n \in DOMAIN chain : Reorg(n)
    \/ \E nonce \in DOMAIN mempool : Evict(nonce)
    \/ Start \/ FirstUpdate \/ Stop
    \/ ObserveNew \/ ObserveUncle
    \/ Mark \/ ResubmitEnds \/ Resend \/ Allocate \/ Send \/ SubmitEnds
    \/ RequestFails
    \/ \E lifetime \in Lifetimes : Enqueue(lifetime)

Spec == Init /\ [][Next]_vars

----------------------------------------------------------------------------
(* Properties *)

(* An action is executed once at most, whatever is submitted again after a  *)
(* lost answer, a reorg or a restart.                                       *)
ExecutedOnce ==
    \A i, j \in DOMAIN chain : chain[i].tx # 0 /\ chain[i].tx = chain[j].tx => i = j

(* Every nonce the account still has to use below an allocated one belongs  *)
(* to a row that can be submitted again: one missing nonce would hold up    *)
(* every later transaction for good.  This lasts until the queue forgets a  *)
(* row that a reorg has undone (see PrunedIsExecuted).                      *)
AllKept == undone \subseteq DOMAIN rows
NoNonceGap ==
    AllKept => \A id \in Allocated : \A nonce \in AccountNonce .. rows[id].nonce :
                   \E other \in Allocated : rows[other].nonce = nonce

(* Only what a reorg can no longer undo is forgotten: a row that was         *)
(* submitted is pruned when the final part of the chain has executed it, or  *)
(* its mark rests on a block that a reorg took away unseen by the watcher.    *)
(* The queue does forget such a row, because it prunes before it unmarks;     *)
(* the nonce can then be given to another row and nothing is said any more.  *)
PrunedIsExecuted ==
    [][AllKept => \A id \in DOMAIN rows \ DOMAIN rows' :
          rows[id].nonce = Null \/ id \in undone \/
              \E i \in DOMAIN chain : chain[i].tx = id /\ i <= highest - MaxReorgDepth]_vars

====
