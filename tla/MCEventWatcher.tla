--------------------------- MODULE MCEventWatcher ---------------------------
(* Four blocks in front of an honest, a capped and a lossy node. *)
EXTENDS EventWatcher

CONSTANTS a, x, t, f, u, p

Log(b, i, addr, topic) ==
    [block |-> b, index |-> i, address |-> addr, topic |-> topic, others |-> {},
     decodes |-> TRUE]

\* More logs in block 2 than an answer holds, of an event that is fallible;
\* logs of other contracts and other events among them.
MCBusy ==
    {Log(1, 0, a, t), Log(1, 1, x, t), Log(2, 0, a, f), Log(2, 1, a, t),
     Log(2, 2, a, f), Log(3, 0, a, u), Log(3, 1, a, t), Log(4, 0, a, f)}

\* Two logs of the critical event in one block.
MCTwice == {Log(1, 0, a, f), Log(2, 0, a, t), Log(2, 1, x, u), Log(2, 2, a, t)}

\* A log that does not decode.
MCForeign == {[Log(1, 0, a, t) EXCEPT !.decodes = FALSE], Log(3, 0, a, f)}

\* A watched log whose bits are set by a transfer of another token: no other log
\* has its address or its event.
MCHidden ==
    {Log(2, 0, a, t), [Log(2, 1, x, u) EXCEPT !.others = {p}], Log(3, 0, a, f)}

MCChains == {{}, MCBusy, MCTwice, MCForeign, MCHidden}

MCBits == [v \in {a, x, t, f, u, p} |->
    CASE v = a -> {1, 2} [] v = x -> {2, 3} [] v = t -> {4} [] v = f -> {1, 5}
      [] v = u -> {4, 6} [] v = p -> {1, 6}]

Config(size, retries, client, limit, fallible) ==
    [block_page_size |-> size, block_single_query_retry_count |-> retries,
     use_client_filtering |-> client, max_logs_per_query |-> limit,
     fallible_events |-> fallible]

MCConfigs ==
    {Config(3, 2, FALSE, 0, {}), Config(4, 1, FALSE, 2, {f}),
     Config(2, 2, FALSE, 3, {}), Config(3, 2, TRUE, 0, {f}),
     Config(3, 2, TRUE, 2, {})}

MCNodes ==
    {[cap |-> 0, lossy |-> FALSE], [cap |-> 2, lossy |-> FALSE],
     [cap |-> 3, lossy |-> FALSE], [cap |-> 0, lossy |-> TRUE]}
=============================================================================
