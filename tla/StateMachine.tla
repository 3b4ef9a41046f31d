--------------------------- MODULE StateMachine ----------------------------
(***************************************************************************)
(* The state machine of crates/core/src/state: it applies the indexer's    *)
(* updates to the service's state, keeps a snapshot of the state for every *)
(* block (or warped page) it completed, and restores one when a block is   *)
(* uncled.  The service's state is abstracted to the list of the messages  *)
(* it was transitioned with.                                               *)
(***************************************************************************)
EXTENDS Indexer

VARIABLES
    live,       \* the state in memory: the messages it was transitioned with
    status,     \* which update comes next
    snapshots   \* the table of snapshots: block number -> state

machineVars == <<live, status, snapshots>>

NewBlock(hash) == [kind |-> "block", hash |-> hash]
Events(hash) == [kind |-> "events", hash |-> hash]

Initialized == [kind |-> "initialized"]
BlockPending(pending) == [kind |-> "block_pending", pending |-> pending]
BlockEvents(latest) == [kind |-> "block_events", latest |-> latest]
WarpEvents(from, to) == [kind |-> "warp_events", from |-> from, to |-> to]

----------------------------------------------------------------------------
(* SnapshotStore: current, status (its bounds are those of the table), and  *)
(* the three statements that change the table.                              *)

current == snapshots[Max(DOMAIN snapshots)]

commit(number, state) ==
    [n \in DOMAIN snapshots \cup {number} |->
        IF n = number THEN state ELSE snapshots[n]]
reorg(uncle) == Restrict(snapshots, {n \in DOMAIN snapshots : n < uncle})
(* Wrong: the safe block is pruned too. *)
prunedSafe(safe) ==
    Restrict(snapshots,
             {n \in DOMAIN snapshots : n > safe \/ n = Max(DOMAIN snapshots)})
pruned(safe) ==
    Restrict(snapshots,
             {n \in DOMAIN snapshots : n >= safe \/ n = Max(DOMAIN snapshots)})

(* StateMachine::with_init: resume from the latest snapshot. *)
with_init ==
    /\ live' = IF DOMAIN snapshots = {} THEN <<>> ELSE current
    /\ status' = IF DOMAIN snapshots = {} THEN Initialized
                 ELSE BlockPending(Max(DOMAIN snapshots) + 1)
    /\ UNCHANGED snapshots

----------------------------------------------------------------------------
(* StateMachine::handle_update: the updates each status takes.  Any other  *)
(* one is an error that leaves the machine poisoned.                        *)

Follows(number) ==
    status = Initialized \/ status = BlockPending(number)

TakesWarp(u) == u.kind = "warp" /\ Follows(u.from) /\ u.from <= u.to
TakesUncle(u) ==
    /\ u.kind = "uncle"
    /\ \/ status.kind = "block_pending" /\ u.number < status.pending
       \/ status.kind = "block_events" /\ u.number <= status.latest
TakesNew(u) == u.kind = "new" /\ Follows(Len(u.hash))
LogsEnd(u) == u.from + Len(u.hashes) - 1
TakesLogs(u) ==
    /\ u.kind = "logs"
    /\ \/ status.kind = "block_events" /\ u.from = status.latest
                                       /\ LogsEnd(u) = status.latest
       \/ status.kind = "warp_events" /\ u.from = status.from
                                      /\ LogsEnd(u) <= status.to

handle_warp(u) ==
    /\ TakesWarp(u)
    /\ status' = WarpEvents(u.from, u.to)
    /\ UNCHANGED <<live, snapshots>>

handle_uncle(u) ==
    /\ TakesUncle(u)
    /\ u.number - 1 \in DOMAIN snapshots
    /\ snapshots' = reorg(u.number)
    /\ live' = snapshots[u.number - 1]
    /\ status' = BlockPending(u.number)

handle_new(u) ==
    /\ TakesNew(u)
    /\ live' = Append(live, NewBlock(u.hash))
    /\ status' = BlockEvents(Len(u.hash))
    /\ UNCHANGED snapshots

handle_logs(u) ==
    /\ TakesLogs(u)
    /\ live' = live \o [i \in DOMAIN u.hashes |-> Events(u.hashes[i])]
    /\ status' = IF status.kind = "warp_events" /\ LogsEnd(u) < status.to
                 THEN WarpEvents(LogsEnd(u) + 1, status.to)
                 ELSE BlockPending(LogsEnd(u) + 1)
    /\ snapshots' = commit(LogsEnd(u), live')

MissingSnapshot(u) == TakesUncle(u) /\ u.number - 1 \notin DOMAIN snapshots
BadUpdate(u) ==
    ~(TakesWarp(u) \/ TakesUncle(u) \/ TakesNew(u) \/ TakesLogs(u))
============================================================================
