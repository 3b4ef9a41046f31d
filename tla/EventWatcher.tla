---------------------------- MODULE EventWatcher ----------------------------
(***************************************************************************)
(* The event watcher of crates/core/src/index/events.rs in front of a node *)
(* that fails, answers with only so many logs, or leaves some out: which   *)
(* query it sends, which answers it refuses, and what it hands on.  Indexer*)
(* takes each of its batches as complete; this module is about when that   *)
(* is so.  The blocks do not change here: a warp is over final blocks, and *)
(* a new block is queried by its hash (Indexer has the block that is       *)
(* uncled while its logs are fetched).                                     *)
(***************************************************************************)
EXTENDS Integers, Sequences, FiniteSets, FiniteSetsExt, SequencesExt

CONSTANTS
    MaxBlock,   \* bound: the number of blocks
    Addresses,  \* the watched addresses
    Topics,     \* the watched event signatures, Events::topics()
    Bits,       \* the bits of the bloom filter that an input sets
    Chains,     \* the sets of logs that the chain may consist of
    Configs,    \* the configurations of the watcher
    Nodes       \* the nodes it may be connected to

\* A log has its block, its index, its address, its topic0 and its other topics,
\* and `decodes`, that those and its data are those of the event.
Inputs(log) == {log.address, log.topic} \cup log.others

IsLog(log) ==
    /\ log.block \in 1 .. MaxBlock /\ log.index \in Nat /\ log.decodes \in BOOLEAN
    /\ Inputs(log) \subseteq DOMAIN Bits

\* A limit of 0 is None.
IsConfig(c) ==
    /\ c.block_page_size \in Nat \ {0}
    /\ c.block_single_query_retry_count \in Nat \ {0}
    /\ c.max_logs_per_query \in Nat
    /\ c.use_client_filtering \in BOOLEAN
    /\ c.fallible_events \subseteq Topics

\* A node answers with at most `cap` logs (0: with all), or, if it is `lossy`,
\* leaves any of them out.
ASSUME EventWatcherAssumption ==
    /\ MaxBlock \in Nat \ {0}
    /\ \A logs \in Chains :
        /\ IsFiniteSet(logs)
        /\ \A log \in logs : IsLog(log)
        /\ \A l, k \in logs : l.block = k.block /\ l.index = k.index => l = k
    /\ \A c \in Configs : IsConfig(c)
    /\ \A n \in Nodes : n.cap \in Nat /\ n.lossy \in BOOLEAN

VARIABLES
    chain,      \* the logs of all blocks
    config,     \* EventWatcher::config
    node,       \* the node
    announced,  \* the last block the block watcher announced
    step,       \* EventWatcher::step
    delivered   \* the EventUpdates that `next` returned

vars == <<chain, config, node, announced, step, delivered>>

Idle == [kind |-> "idle"]

Warping(from, to, size) ==
    [kind |-> "warping", from |-> from, to |-> to, size |-> size]

Fetching(block, retries) ==
    [kind |-> "block", block |-> block, retries |-> retries]

Init ==
    /\ chain \in Chains
    /\ config \in Configs
    /\ node \in Nodes
    /\ announced = 0
    /\ step = Idle
    /\ delivered = <<>>

----------------------------------------------------------------------------
(* Queries                                                                 *)

Before(l, k) ==
    \/ l.block < k.block
    \/ l.block = k.block /\ l.index < k.index

InBlocks(from, to) == {log \in chain : log.block \in from .. to}

Filtered(logs, topics) ==
    {log \in logs : log.address \in Addresses /\ log.topic \in topics}

Answer(logs) == [ok |-> TRUE, logs |-> logs]

Failed == [ok |-> FALSE, logs |-> {}]

First(n, logs) == {log \in logs : Cardinality({k \in logs : Before(k, log)}) < n}

\* eth_getLogs: the request fails, or the node answers in its own way.
get_logs(matching) ==
    {Failed} \cup
    IF node.lossy THEN {Answer(some) : some \in SUBSET matching}
    ELSE {Answer(IF node.cap = 0 THEN matching ELSE First(node.cap, matching))}

\* A wrong limit: a full answer still counts as complete.
check_logs_limitAbove(a) ==
    IF config.max_logs_per_query > 0 /\ Cardinality(a.logs) > config.max_logs_per_query
    THEN Failed ELSE a

\* An answer as long as the limit may have been cut off: TooManyLogs.
check_logs_limit(a) ==
    IF config.max_logs_per_query > 0 /\ Cardinality(a.logs) >= config.max_logs_per_query
    THEN Failed ELSE a

\* The bits of the addresses and topics of all the logs; those of different
\* inputs may be the same.
compute_logs_bloom(logs) == UNION {Bits[v] : v \in UNION {Inputs(log) : log \in logs}}

\* Fetch::SingleQuery: one query for all watched events.
SingleQuery(from, to) ==
    {check_logs_limit(a) : a \in get_logs(Filtered(InBlocks(from, to), Topics))}

\* A failed query for a fallible event counts as an empty answer.
forgiven(topic, a) ==
    IF ~a.ok /\ topic \in config.fallible_events THEN Answer({}) ELSE a

\* Fetch::MultipleQueries: one query for each watched event, all at once.
MultipleQueries(from, to) ==
    LET Answers(topic) ==
            {forgiven(topic, check_logs_limit(a)) :
                a \in get_logs(Filtered(InBlocks(from, to), {topic}))}
        Joined(answer) ==
            IF \A topic \in Topics : answer[topic].ok
            THEN Answer(UNION {answer[topic].logs : topic \in Topics})
            ELSE Failed
    IN  {Joined(answer) : answer \in
            {f \in [Topics -> UNION {Answers(topic) : topic \in Topics}] :
                \A topic \in Topics : f[topic] \in Answers(topic)}}

\* Fetch::ClientFiltered: all logs of the block, whose bloom filter must be
\* that of the block's header.
ClientFiltered(block) ==
    LET all == InBlocks(block, block)
        Verified(a) ==
            IF a.ok /\ compute_logs_bloom(a.logs) = compute_logs_bloom(all)
            THEN Answer(Filtered(a.logs, Topics)) ELSE Failed
    IN  {Verified(a) : a \in get_logs(all)}

\* A log of another layout fails the whole fetch: DecodeLog.
decodable(a) == \A log \in a.logs : log.decodes

\* The logs in the order of their keys: the i-th has i - 1 before it.
decode_and_sort(logs) ==
    [i \in 1 .. Cardinality(logs) |->
        CHOOSE log \in logs : Cardinality({k \in logs : Before(k, log)}) = i - 1]

----------------------------------------------------------------------------
(* EventWatcher::on_block_update.  The block watcher announces a warp first,*)
(* if at all, and then one block after the other (an uncled block leaves    *)
(* the watcher idle).                                                       *)

on_warp(to) ==
    /\ step = Idle
    /\ announced = 0
    /\ announced' = to
    /\ step' = Warping(1, to, config.block_page_size)
    /\ UNCHANGED <<chain, config, node, delivered>>

on_new ==
    /\ step = Idle
    /\ announced < MaxBlock
    /\ announced' = announced + 1
    /\ step' = Fetching(announced + 1, 0)
    /\ UNCHANGED <<chain, config, node, delivered>>

----------------------------------------------------------------------------
(* EventWatcher::next                                                      *)

\* `a` is handed on for the blocks from .. to.
deliver(from, to, a, how) ==
    delivered' = Append(delivered,
        [from |-> from, to |-> to, logs |-> decode_and_sort(a.logs), how |-> how])

pageEnd == Min({step.to, step.from + step.size - 1})

\* A wrong page: the next one starts a configured page further on.
afterPageSkips ==
    IF step.from + config.block_page_size > step.to THEN Idle
    ELSE Warping(step.from + config.block_page_size, step.to, config.block_page_size)

\* The next page starts after the blocks that were queried.
afterPage ==
    IF pageEnd = step.to THEN Idle
    ELSE Warping(pageEnd + 1, step.to, config.block_page_size)

\* A wrong narrowing: two blocks are the smallest page.
narrowedToTwo == Max({2, (step.size + 1) \div 2})

narrowed == (step.size + 1) \div 2

warpQuery == IF step.size > 1 THEN "single" ELSE "multiple"

\* warp: one page, or half a page the next time.
warp(a) ==
    /\ step.kind = "warping"
    /\ IF a.ok /\ decodable(a)
       THEN deliver(step.from, pageEnd, a, warpQuery) /\ step' = afterPage
       ELSE step' = [step EXCEPT !.size = narrowed] /\ UNCHANGED delivered
    /\ UNCHANGED <<chain, config, node, announced>>

blockQuery ==
    IF step.retries >= config.block_single_query_retry_count THEN "multiple"
    ELSE IF config.use_client_filtering THEN "client" ELSE "single"

\* Retries beyond the configured number make no difference.
retried == Min({step.retries + 1, config.block_single_query_retry_count})

\* block: the logs of a new block, or the same block again.
block(a) ==
    /\ step.kind = "block"
    /\ IF a.ok /\ decodable(a)
       THEN deliver(step.block, step.block, a, blockQuery) /\ step' = Idle
       ELSE step' = Fetching(step.block, retried) /\ UNCHANGED delivered
    /\ UNCHANGED <<chain, config, node, announced>>

\* fetch_logs: the answers to the query that is due.
fetch_logs ==
    CASE step.kind = "warping" /\ warpQuery = "single" -> SingleQuery(step.from, pageEnd)
      [] step.kind = "warping" /\ warpQuery = "multiple" -> MultipleQueries(step.from, pageEnd)
      [] step.kind = "block" /\ blockQuery = "single" -> SingleQuery(step.block, step.block)
      [] step.kind = "block" /\ blockQuery = "multiple" -> MultipleQueries(step.block, step.block)
      [] step.kind = "block" /\ blockQuery = "client" -> ClientFiltered(step.block)
      [] OTHER -> {}

Next ==
    \/ \E to \in 1 .. MaxBlock : on_warp(to)
    \/ on_new
    \/ \E a \in fetch_logs : warp(a)
    \/ \E a \in fetch_logs : block(a)

Spec == Init /\ [][Next]_vars

\* No request fails for ever: again and again the node answers all queries of
\* a fetch, and the watcher is polled until it is idle.
Answered == \E a \in fetch_logs : a.ok /\ (warp(a) \/ block(a))

Refused == Failed \in fetch_logs /\ (warp(Failed) \/ block(Failed))

Fairness == WF_vars(on_new) /\ WF_vars(Refused) /\ SF_vars(Answered)

FairSpec == Spec /\ Fairness

----------------------------------------------------------------------------
(* Properties                                                              *)

Handed == FlattenSeq([i \in DOMAIN delivered |-> delivered[i].logs])

\* However often pages are narrowed and blocks retried, the batches follow one
\* another without a gap or an overlap, and the logs come in the order of the
\* chain, each at most once, and only those that are watched.
InChainOrder ==
    /\ \A i \in DOMAIN delivered :
        delivered[i].from = IF i = 1 THEN 1 ELSE delivered[i - 1].to + 1
    /\ \A i \in 2 .. Len(Handed) : Before(Handed[i - 1], Handed[i])
    /\ Range(Handed) \subseteq Filtered(chain, Topics)

\* The node cut off the query's answer, and the watcher knows of no such limit:
\* max_logs_per_query is unset, as by default, or above the node's.
Truncated(from, to, asked) ==
    /\ node.cap > 0 /\ config.max_logs_per_query \notin 1 .. node.cap
    /\ Cardinality(Filtered(InBlocks(from, to), asked)) > node.cap

\* A watched log of a block that was handed on is missing for one of four
\* reasons only: its event is fallible and was asked for on its own; the node
\* is lossy and the query one that cannot be verified (of a warp, or after the
\* retries of a block); the node cut off the answer at a limit that the watcher
\* was not configured with; or the node left it out of the whole block's logs,
\* and the others set all of its bits, so that the bloom filter is the same
\* without it (how many logs an answer holds is not checked there).
NothingLost ==
    \A i \in DOMAIN delivered :
        LET batch == delivered[i]
            missing == Filtered(InBlocks(batch.from, batch.to), Topics) \ Range(batch.logs)
        IN  \A log \in missing :
                \/ batch.how = "multiple" /\ log.topic \in config.fallible_events
                \/ batch.how # "client" /\ node.lossy
                \/ batch.how = "single" /\ Truncated(batch.from, batch.to, Topics)
                \/ batch.how = "multiple" /\ Truncated(batch.from, batch.to, {log.topic})
                \/ /\ batch.how = "client" /\ (node.lossy \/ node.cap > 0)
                   /\ compute_logs_bloom({log}) \subseteq
                        compute_logs_bloom(InBlocks(log.block, log.block) \ {log})

\* What the watcher can get through at all: all logs decode, and a critical
\* event has fewer logs in each block than one answer may have.
Servable ==
    /\ \A log \in Filtered(chain, Topics) : log.decodes
    /\ config.max_logs_per_query > 0 =>
        \A b \in 1 .. MaxBlock, topic \in Topics \ config.fallible_events :
            Cardinality(Filtered(InBlocks(b, b), {topic})) < config.max_logs_per_query

\* The watcher gets through every block that it can: narrowing a page and
\* falling back to one query per event reach a query the node answers in full.
Drains == Servable ~> (announced = MaxBlock /\ step = Idle)
=============================================================================
