------------------------------ MODULE Indexer ------------------------------
(***************************************************************************)
(* The indexer of crates/core/src/index: the block watcher, which follows  *)
(* the head of a chain that reorganises, and the event watcher, which      *)
(* fetches the logs of the blocks it announces.                            *)
(*                                                                         *)
(* A block hash commits to the block's whole history, so a hash is modelled*)
(* as the sequence of versions from block 1 to the block: its number is    *)
(* its length and its parent's hash is its front.  Every request to the    *)
(* node is a step of its own, and the chain may change between any two.    *)
(* All that happens between two requests is one step, which also covers a  *)
(* cancelled `next()`: its state only changes after its last await.        *)
(***************************************************************************)
EXTENDS Integers, SequencesExt

CONSTANTS
    MaxReorgDepth,  \* Config::max_reorg_depth
    PageSize        \* Config::block_page_size

ASSUME IndexerAssumption ==
    /\ MaxReorgDepth \in Nat
    /\ PageSize \in Nat \ {0}

VARIABLES
    start_block,  \* Config::start_block, -1 when it is not configured
    chain,        \* the hash of the canonical head
    scan,         \* the range scan of `initialize`
    watcher,      \* the fields of BlockWatcher
    step,         \* EventWatcher::step
    update        \* the update `Watcher::next` returned last

indexerVars == <<scan, watcher, step, update>>

----------------------------------------------------------------------------
(* Updates, and the steps of the event watcher. *)

Warp(from, to) == [kind |-> "warp", from |-> from, to |-> to]
Uncle(number) == [kind |-> "uncle", number |-> number]
New(hash) == [kind |-> "new", hash |-> hash]
Logs(from, hashes) == [kind |-> "logs", from |-> from, hashes |-> hashes]
Exceeded == [kind |-> "exceeded"]
NoUpdate == [kind |-> "none"]

Idle == [kind |-> "idle"]
Warping(from, to, size) ==
    [kind |-> "warping", from |-> from, to |-> to, size |-> size]
Fetching(hash) == [kind |-> "block", hash |-> hash]

NoScan == [latest |-> <<>>, cached |-> FALSE, from |-> -1]
NoWatcher == [pending |-> 0, safe |-> <<>>, recent |-> <<>>, queue |-> <<>>]

BlockAt(number) == SubSeq(chain, 1, number)
SafeNumber(latest) ==
    IF latest > MaxReorgDepth THEN latest - MaxReorgDepth ELSE 0

----------------------------------------------------------------------------
(* BlockWatcher::initialize.  The first block that is not indexed yet is    *)
(* the one after the earliest snapshot, or the configured start block.      *)

(* Wrong: resume after the latest snapshot. *)
FirstUnindexedLatest(indexed) ==
    IF indexed = {} THEN start_block ELSE Max(indexed) + 1
FirstUnindexed(indexed) ==
    IF indexed = {} THEN start_block ELSE Min(indexed) + 1

(* The request for the latest block, and the updates it already decides.   *)
initialize(indexed) ==
    LET from == FirstUnindexed(indexed)
        safe == SafeNumber(Len(chain))
        uncles == IF indexed # {} /\ from <= Max(indexed)
                  THEN <<Uncle(from)>> ELSE <<>>
        warps == IF from >= 0 /\ from <= safe
                 THEN <<Warp(from, safe)>> ELSE <<>>
    IN  /\ scan' = [latest |-> chain, cached |-> TRUE, from |-> from]
        /\ watcher' = [NoWatcher EXCEPT !.pending = Len(chain) + 1,
                                        !.queue = uncles \o warps]
        /\ step' = Idle
        /\ update' = NoUpdate

ScanNumber == SafeNumber(Len(scan.latest)) + Len(watcher.recent)
ScanCached == scan.cached /\ ScanNumber = Len(scan.latest)
ScanBlock == IF ScanCached THEN scan.latest ELSE BlockAt(ScanNumber)
ScanLinked == watcher.recent # <<>> => Last(watcher.recent) = Front(ScanBlock)

(* The node no longer has a block of the range: `new` fails.               *)
ScanMissing == ~ScanCached /\ ScanNumber > Len(chain)

(* The next block of the range from the safe block to the latest one.  The *)
(* last one completes the initialization: the blocks after the safe one    *)
(* that are not indexed yet are announced, and they are those from the     *)
(* `first` of the range on, because the range has one block per number.    *)
ScanNext ==
    /\ ~ScanMissing
    /\ ScanLinked
    /\ LET range == Append(watcher.recent, ScanBlock)
           first == Max({2, scan.from - SafeNumber(Len(scan.latest)) + 1})
           news == SubSeq(range, first, Len(range))
       IN  IF ScanNumber < Len(scan.latest)
           THEN /\ watcher' = [watcher EXCEPT !.recent = range]
                /\ UNCHANGED scan
           ELSE /\ watcher' = [watcher EXCEPT
                                 !.safe = Head(range),
                                 !.recent = Tail(range),
                                 !.queue = @ \o [i \in DOMAIN news |-> New(news[i])]]
                /\ scan' = NoScan
    /\ UNCHANGED <<step, update>>

(* A reorg during the scan: the range is fetched again.                    *)
ScanRestart ==
    /\ ~ScanMissing
    /\ ~ScanLinked
    /\ scan' = [scan EXCEPT !.cached = FALSE]
    /\ watcher' = [watcher EXCEPT !.recent = <<>>]
    /\ UNCHANGED <<step, update>>

----------------------------------------------------------------------------
(* BlockWatcher::status and ::next. *)

SafeStatus == Len(watcher.safe)

(* The watcher after it saw `block` at the pending number, and the update   *)
(* this returns.                                                            *)
(* Wrong: the uncled block is not fetched again. *)
UncledKeepsPending(w) == [w EXCEPT !.recent = Front(w.recent)]
Uncled(w) ==
    [w EXCEPT !.pending = Len(Last(w.recent)), !.recent = Front(w.recent)]
Extended(w, block) ==
    LET recent == Append(w.recent, block)
        full == Len(recent) > MaxReorgDepth
    IN  [w EXCEPT !.pending = Len(block) + 1,
                  !.safe = IF full THEN Head(recent) ELSE @,
                  !.recent = IF full THEN Tail(recent) ELSE recent]

nextBlock(block) ==
    CASE watcher.recent # <<>> /\ Last(watcher.recent) # Front(block) ->
           /\ watcher' = Uncled(watcher)
           /\ update' = Uncle(Len(Last(watcher.recent)))
      [] watcher.recent = <<>> /\ watcher.safe # Front(block) ->
           /\ update' = Exceeded
           /\ UNCHANGED watcher
      [] OTHER ->
           /\ watcher' = Extended(watcher, block)
           /\ update' = New(block)

(* EventWatcher::on_block_update. *)
on_block_update(u) ==
    CASE u.kind = "warp" -> Warping(u.from, u.to, PageSize)
      [] u.kind = "new" -> Fetching(u.hash)
      [] OTHER -> Idle

----------------------------------------------------------------------------
(* Watcher::next, one action for each way it comes to an update. *)

NextQueued ==
    /\ step = Idle
    /\ watcher.queue # <<>>
    /\ watcher' = [watcher EXCEPT !.queue = Tail(@)]
    /\ update' = Head(watcher.queue)
    /\ step' = on_block_update(Head(watcher.queue))
    /\ UNCHANGED scan

NextBlock ==
    /\ step = Idle
    /\ watcher.queue = <<>>
    /\ watcher.pending <= Len(chain)
    /\ nextBlock(BlockAt(watcher.pending))
    /\ step' = on_block_update(update')
    /\ UNCHANGED scan

(* EventWatcher::warp: one page by number, from the chain of that moment.  *)
PageEnd == LET last == step.from + step.size - 1
           IN  IF last < step.to THEN last ELSE step.to

WarpPage ==
    /\ step.kind = "warping"
    /\ PageEnd <= Len(chain)
    /\ update' = Logs(step.from,
                      [i \in 1 .. PageEnd - step.from + 1 |-> BlockAt(step.from + i - 1)])
    /\ step' = IF PageEnd = step.to THEN Idle
               ELSE Warping(PageEnd + 1, step.to, PageSize)
    /\ UNCHANGED <<scan, watcher>>

(* The query failed: the next one is for half as many blocks.              *)
WarpNarrows ==
    /\ step.kind = "warping"
    /\ step' = [step EXCEPT !.size = (@ + 1) \div 2]
    /\ UNCHANGED <<scan, watcher, update>>

(* EventWatcher::block: by hash, so a node may serve it after a reorg too.  *)
BlockLogs ==
    /\ step.kind = "block"
    /\ update' = Logs(Len(step.hash), <<step.hash>>)
    /\ step' = Idle
    /\ UNCHANGED <<scan, watcher>>

(* next_logs and BlockWatcher::revalidate_last_block: the node has no logs  *)
(* for the block, and the last block that was emitted is not canonical.     *)
Emitted(block) ==
    watcher.queue = <<>> \/ Len(block) < Len(Head(watcher.queue).hash)
LastEmitted == SelectLastInSeq(watcher.recent, Emitted)

Revalidates ==
    /\ watcher.queue # <<>> => Head(watcher.queue).kind = "new"
    /\ LastEmitted > 0
    /\ ~IsPrefix(watcher.recent[LastEmitted], chain)

BlockInvalidated ==
    /\ step.kind \in {"warping", "block"}
    /\ Revalidates
    /\ LET last == watcher.recent[LastEmitted]
       IN  IF step = Fetching(last)
           THEN /\ watcher' = [watcher EXCEPT
                                 !.pending = Len(last),
                                 !.recent = SubSeq(@, 1, LastEmitted - 1),
                                 !.queue = <<>>]
                /\ update' = Uncle(Len(last))
                /\ step' = Idle
           ELSE \* UnexpectedBlockInvalidation: the queue keeps the uncle
                /\ watcher' = [watcher EXCEPT
                                 !.pending = Len(last),
                                 !.recent = SubSeq(@, 1, LastEmitted - 1),
                                 !.queue = <<Uncle(Len(last))>>]
                /\ UNCHANGED <<step, update>>
    /\ UNCHANGED scan
============================================================================
