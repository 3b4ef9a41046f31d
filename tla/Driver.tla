------------------------------- MODULE Driver ------------------------------
(***************************************************************************)
(* The driver of crates/core/src/driver.rs, which feeds the state machine  *)
(* from the indexer, in a process that may stop between any two steps and  *)
(* is started again, over a chain that grows and reorganises.              *)
(*                                                                         *)
(* Stopping is a crash or the shutdown signal: both leave only the         *)
(* snapshots.  The commit of a snapshot and the pruning after it are two   *)
(* statements, so that the process may also stop between them.             *)
(***************************************************************************)
EXTENDS StateMachine

CONSTANTS
    InitialHead,  \* the height of the chain in the beginning
    Settings,     \* pairs of a start_block and a depth
    MaxHead,      \* bounds: the height of the chain,
    MaxReorgs,    \*         its reorganisations,
    MaxStops      \*         and the times the process stops

ASSUME DriverAssumption ==
    /\ InitialHead \in Nat /\ MaxHead \in Nat /\ InitialHead <= MaxHead
    /\ MaxReorgs \in Nat /\ MaxStops \in Nat
    /\ Settings \subseteq (Nat \cup {-1}) \X Nat

VARIABLES
    depth,    \* how many of the latest blocks the chain may replace
    mode,     \* where Driver::run is
    highest,  \* the greatest height the chain has reached
    reorgs,   \* reorganisations so far
    stops     \* stops of the process so far

chainVars == <<start_block, depth, chain, highest, reorgs>>
vars == <<chainVars, indexerVars, machineVars, mode, stops>>

Init ==
    /\ \E s \in Settings : start_block = s[1] /\ depth = s[2]
    /\ chain = [i \in 1 .. InitialHead |-> 0]
    /\ highest = InitialHead
    /\ reorgs = 0
    /\ scan = NoScan /\ watcher = NoWatcher /\ step = Idle /\ update = NoUpdate
    /\ live = <<>> /\ status = Initialized /\ snapshots = <<>>
    /\ mode = "down"
    /\ stops = 0

----------------------------------------------------------------------------
(* The chain.  A reorganisation replaces a suffix of it, at most the       *)
(* `depth` latest blocks below the greatest height so far, and may leave   *)
(* it shorter; it may also bring back a block it replaced before.          *)

Mine ==
    /\ Len(chain) < MaxHead
    /\ chain' = Append(chain, 0)
    /\ highest' = IF Len(chain') > highest THEN Len(chain') ELSE highest
    /\ UNCHANGED <<start_block, depth, reorgs, indexerVars, machineVars, mode, stops>>

Reorg(n) ==
    /\ reorgs < MaxReorgs
    /\ Len(chain) < MaxHead
    /\ n > highest - depth
    /\ chain' = Append(BlockAt(n - 1), 1 - chain[n])
    /\ reorgs' = reorgs + 1
    /\ UNCHANGED <<start_block, depth, highest, indexerVars, machineVars, mode, stops>>

----------------------------------------------------------------------------
(* Driver::new and ::run. *)

(* The process starts: the state machine loads its latest snapshot and the *)
(* indexer asks for the latest block.                                      *)
Start ==
    /\ mode = "down"
    /\ with_init
    /\ initialize(DOMAIN snapshots)
    /\ mode' = "init"
    /\ UNCHANGED <<chainVars, stops>>

Scan ==
    /\ mode = "init"
    /\ ScanNext \/ ScanRestart
    /\ mode' = IF scan' = NoScan THEN "next" ELSE "init"
    /\ UNCHANGED <<chainVars, machineVars, stops>>

Down ==
    /\ mode' = "down"
    /\ scan' = NoScan /\ watcher' = NoWatcher /\ step' = Idle /\ update' = NoUpdate
    /\ live' = <<>> /\ status' = Initialized
    /\ UNCHANGED <<chainVars, snapshots>>

(* `Driver::new` failed on a block that is gone; the process is restarted. *)
StartFails ==
    /\ mode = "init"
    /\ ScanMissing
    /\ Down
    /\ UNCHANGED stops

Stop ==
    /\ mode # "down"
    /\ stops < MaxStops
    /\ stops' = stops + 1
    /\ Down

(* next_input: the watcher's next update, or an error it retries after.    *)
NextUpdate ==
    /\ mode = "next"
    /\ NextQueued \/ NextBlock \/ WarpPage \/ BlockLogs
    /\ mode' = IF update' = Exceeded THEN "exceeded" ELSE "update"
    /\ UNCHANGED <<chainVars, machineVars, stops>>

NextInvalidated ==
    /\ mode = "next"
    /\ BlockInvalidated
    /\ mode' = IF step' = Idle THEN "update" ELSE "invalid"
    /\ UNCHANGED <<chainVars, machineVars, stops>>

NextNarrows ==
    /\ mode = "next"
    /\ WarpNarrows
    /\ UNCHANGED <<chainVars, machineVars, mode, stops>>

(* update: the state machine takes the update, or refuses it, which ends    *)
(* the process, ...                                                         *)
HandleUpdate ==
    /\ mode = "update"
    /\ IF BadUpdate(update) \/ MissingSnapshot(update)
       THEN mode' = "refused" /\ UNCHANGED machineVars
       ELSE /\ mode' = "prune"
            /\ \/ handle_warp(update) \/ handle_uncle(update)
               \/ handle_new(update) \/ handle_logs(update)
    /\ update' = NoUpdate
    /\ UNCHANGED <<chainVars, scan, watcher, step, stops>>

(* ... and the snapshots below the watcher's safe block are pruned. *)
Prune ==
    /\ mode = "prune"
    /\ snapshots' = pruned(SafeStatus)
    /\ mode' = "next"
    /\ UNCHANGED <<chainVars, indexerVars, live, status, stops>>

Process ==
    \/ Start \/ Scan \/ StartFails
    \/ NextUpdate \/ NextInvalidated \/ NextNarrows
    \/ HandleUpdate \/ Prune

Next == Process \/ Stop \/ Mine \/ \E n \in DOMAIN chain : Reorg(n)

(* A request that is retried succeeds in the end, a process that ended is  *)
(* started again, and the chain goes on to the height of the model.        *)
Spec == Init /\ [][Next]_vars /\ WF_vars(Process) /\ WF_vars(Mine)

----------------------------------------------------------------------------
(* Properties *)

(* One history: each block's handler runs right before its events, and the *)
(* next message is for the child of the block before.                      *)
Linked(state) ==
    \A i \in 1 .. Len(state) - 1 :
        IF state[i].kind = "block"
        THEN state[i + 1] = Events(state[i].hash)
        ELSE Front(state[i + 1].hash) = state[i].hash

(* The service's state, in memory and in every snapshot, is the result of  *)
(* one chain: no block is applied twice, out of order, left out or mixed    *)
(* with a block of another fork, whatever the chain did while the process   *)
(* was watching, warping, starting or down.  It begins with the configured *)
(* block, if one is configured.                                             *)
StateIsChain ==
    /\ Linked(live)
    /\ \A n \in DOMAIN snapshots :
          /\ Linked(snapshots[n])
          /\ Last(snapshots[n]).kind = "events"
          /\ Len(Last(snapshots[n]).hash) = n
          /\ start_block \in {-1, Len(Head(snapshots[n]).hash)}

(* The indexer and the state machine never disagree about what comes next: *)
(* no update is refused, no uncled block lacks the snapshot to go back to,  *)
(* and a reorg within the window is never mistaken for one beyond it.       *)
NeverRefused == mode \notin {"refused", "exceeded", "invalid"}

(* Once the chain settles the state comes to be that of its head.           *)
CatchesUp ==
    <>[](mode = "next" /\ live # <<>> /\ Last(live) = Events(chain))
============================================================================
