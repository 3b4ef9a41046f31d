-------------------------- MODULE SentinelService --------------------------
(***************************************************************************)
(* The service that sentinels run: it asks an engine about every proposed  *)
(* transaction, and commits, reveals, finalizes and claims on the oracle   *)
(* by what it reads from the oracle's events.  Several services share one  *)
(* oracle, the contract of module SentinelOracle, with sentinels that do   *)
(* as they like.                                                           *)
(*                                                                         *)
(* A block is the transactions between two `endBlock`s.  A service reads   *)
(* it once it is complete, sooner or later: first NewBlock, then its       *)
(* events.  Its transactions are mined in their order; its engine answers  *)
(* at any time.  A process may stop at any point and start again, at once  *)
(* or some blocks later: it goes back to the earliest snapshot it retains  *)
(* and reads all blocks since once more, with the transactions it had      *)
(* queued, but without its engine checks.                                  *)
(***************************************************************************)
EXTENDS Integers, FiniteSets, Sequences, SequencesExt

CONSTANTS
    Requests, Sentinels, Hashes, CommitWindow, RevealWindow, GovernanceDelay,
    ArbitrationTimeout, Denominator, Fees, BondConfigs, Shares, Receivers,
    Governed, MaxCommits, RosterBlock, MaxBlock,  \* of SentinelOracle
    Services,      \* the sentinels that run the service
    VotingWindow,  \* blocks that a proposal without a request is kept
    MaxReorgDepth, \* blocks a service can go back
    ProposalBlock, \* bound: the last block with a proposal
    MaxTrouble     \* bound: blocks a service is late in, and stops of services

ASSUME ServiceAssumption ==
    /\ Services \subseteq Sentinels
    /\ VotingWindow \in Nat
    /\ MaxReorgDepth \in Nat
    /\ ProposalBlock \in Nat
    /\ MaxTrouble \in Nat

VARIABLES
    now, schedule, config, requests, commitments, pot, result,  \* of SentinelOracle
    logs,       \* the events of the block so far
    past,       \* the events of the blocks before, as far back as anyone reads
    down,       \* the services that are stopped
    behind,     \* how many complete blocks each service has yet to read
    entry,      \* State: its tracked requests
    snapshots,  \* its snapshots, the last one that of the last block it read
    running,    \* the engine checks it waits for
    queue,      \* its transactions that are not mined yet
    allowance,  \* what the oracle may take of its fee tokens
    delayed,    \* blocks that left out a transaction or a read of the service
    stops,      \* how often it was stopped
    trouble,    \* those blocks and stops of all services
    lapsed      \* the requests of which the service missed something, see below

Oracle == INSTANCE SentinelOracle

oracleVars == <<now, schedule, config, requests, commitments, pot, result>>
readerVars == <<down, behind, snapshots, stops>>
serviceVars == <<readerVars, entry, running, queue, lapsed>>
vars == <<oracleVars, serviceVars, logs, past, allowance, delayed, trouble>>

----------------------------------------------------------------------------
(* The tracked state of a request, SentinelRequestState.  The tallies by    *)
(* side and the slash amount only feed metrics.                             *)

NoTerms == [bond |-> 0, commitDeadline |-> 0, revealDeadline |-> 0]

NoEntry ==
    [phase |-> "None", approve |-> FALSE, deadline |-> 0, terms |-> NoTerms,
     committed |-> 0, selfCommitted |-> FALSE, revealed |-> 0, selfRevealed |-> FALSE]

NoEntries == [r \in Requests |-> NoEntry]

\* approve_and_slash_amount: is there a bond of ours behind the entry?
hasBond(e) ==
    \/ e.phase = "CollectingCommitments" /\ e.selfCommitted
    \/ e.phase \in {"CollectingVotes", "WaitingForOutcome", "WaitingForDisputeResolution"}

\* What a handler returns: the new entry, and the commands it emits.
step(e, commands) == [entry |-> e, commands |-> commands]

keep(e) == step(e, <<>>)

\* Commands: the engine check is an effect, the others are transactions, kept
\* until the block `expires` (0: for ever).
command(kind, r, approve, bond, expires) ==
    [kind |-> kind, request |-> r, approve |-> approve, bond |-> bond, expires |-> expires]

\* commit_hash with the account's own salt for the request: only this vote of
\* this sentinel opens it.
commit_hash(approve) == IF approve THEN "Approve" ELSE "Deny"

claimOf(r) == command("Claim", r, FALSE, 0, 0)

----------------------------------------------------------------------------
(* The handlers of SentinelTransition *)

handle_oracle_transaction_proposed(r, e, block) ==
    IF e.phase # "None" THEN keep(e)
    ELSE step([NoEntry EXCEPT !.phase = "WaitingForEngineCheck", !.deadline = block + VotingWindow],
              <<command("EngineCheck", r, FALSE, 0, 0)>>)

commit_vote(r, approve, terms) ==
    step([NoEntry EXCEPT !.phase = "CollectingCommitments", !.approve = approve, !.terms = terms],
         <<command("ApproveToken", r, FALSE, terms.bond, terms.commitDeadline),
           command("Commit", r, approve, 0, terms.commitDeadline)>>)

handle_engine_check_result(r, e, outcome) ==
    IF e.phase # "WaitingForEngineCheck" THEN keep(e)
    ELSE IF outcome = "Unknown" THEN keep(NoEntry)
    ELSE IF e.terms # NoTerms THEN commit_vote(r, outcome = "Approved", e.terms)
    ELSE keep([NoEntry EXCEPT !.phase = "WaitingForRequest", !.approve = outcome = "Approved",
                              !.deadline = e.deadline])

handle_new_request(r, e, terms) ==
    CASE e.phase = "WaitingForRequest" -> commit_vote(r, e.approve, terms)
      [] e.phase = "WaitingForEngineCheck" /\ e.terms = NoTerms -> keep([e EXCEPT !.terms = terms])
      [] OTHER -> keep(e)

\* Wrong: whoever commits, it counts as our own commitment.
handle_committedAny(s, e, sentinel) ==
    IF e.phase # "CollectingCommitments" THEN keep(e)
    ELSE keep([e EXCEPT !.committed = @ + 1, !.selfCommitted = TRUE])

handle_committed(s, e, sentinel) ==
    IF e.phase # "CollectingCommitments" THEN keep(e)
    ELSE keep([e EXCEPT !.committed = @ + 1, !.selfCommitted = @ \/ sentinel = s])

\* Wrong: the request is dropped although nobody revealed.
finalizeRevealedOnly(r, e) ==
    IF ~e.selfRevealed THEN keep(NoEntry)
    ELSE step([NoEntry EXCEPT !.phase = "WaitingForOutcome", !.approve = e.approve],
              <<command("Finalize", r, FALSE, 0, 0)>>)

finalize(r, e) ==
    IF ~e.selfRevealed /\ e.revealed > 0 THEN keep(NoEntry)
    ELSE step([NoEntry EXCEPT !.phase = "WaitingForOutcome", !.approve = e.approve],
              <<command("Finalize", r, FALSE, 0, 0)>>)

handle_revealed(s, r, e, sentinel) ==
    LET tallied == [e EXCEPT !.revealed = @ + 1, !.selfRevealed = @ \/ sentinel = s]
    IN  IF e.phase # "CollectingVotes" THEN keep(e)
        ELSE IF tallied.revealed < e.committed THEN keep(tallied)
        ELSE finalize(r, tallied)

\* Wrong: the vote is revealed in the last block of the window at best.
revealDueLate(e, block) == block > e.terms.commitDeadline + 1

revealDue(e, block) == block > e.terms.commitDeadline

\* Wrong: the vote is lost on the way to CollectingVotes.
revealedApproving(r, e) ==
    IF ~e.selfCommitted THEN keep(NoEntry)
    ELSE step([e EXCEPT !.phase = "CollectingVotes", !.selfCommitted = FALSE],
              <<command("Reveal", r, TRUE, 0, e.terms.revealDeadline)>>)

revealed(r, e) ==
    IF ~e.selfCommitted THEN keep(NoEntry)
    ELSE step([e EXCEPT !.phase = "CollectingVotes", !.selfCommitted = FALSE],
              <<command("Reveal", r, e.approve, 0, e.terms.revealDeadline)>>)

handle_block_advance(r, e, block) ==
    CASE e.phase = "WaitingForEngineCheck" ->
            keep(IF block <= (IF e.terms = NoTerms THEN e.deadline ELSE e.terms.commitDeadline)
                 THEN e ELSE NoEntry)
      [] e.phase = "WaitingForRequest" -> keep(IF block <= e.deadline THEN e ELSE NoEntry)
      [] e.phase = "CollectingCommitments" /\ revealDue(e, block) -> revealed(r, e)
      [] e.phase = "CollectingVotes" /\ block > e.terms.revealDeadline -> finalize(r, e)
      [] OTHER -> keep(e)

handle_resolved(r, e) ==
    IF e.phase = "WaitingForDisputeResolution" THEN step(NoEntry, <<claimOf(r)>>) ELSE keep(e)

handle_arbitration_timeout(r, e) ==
    IF e.phase = "None" THEN keep(e) ELSE step(NoEntry, <<claimOf(r)>>)

\* handle_request_timed_out and handle_oracle_result
handle_outcome(r, e) == step(NoEntry, IF hasBond(e) THEN <<claimOf(r)>> ELSE <<>>)

handle_dispute_triggered(e) ==
    keep(IF hasBond(e)
         THEN [NoEntry EXCEPT !.phase = "WaitingForDisputeResolution", !.approve = e.approve]
         ELSE NoEntry)

onEvent(s, e, m) ==
    CASE m.kind = "TransactionProposed" -> handle_oracle_transaction_proposed(m.request, e, m.block)
      [] m.kind = "NewRequest" -> handle_new_request(m.request, e, m.terms)
      [] m.kind = "Committed" -> handle_committed(s, e, m.sentinel)
      [] m.kind = "Revealed" -> handle_revealed(s, m.request, e, m.sentinel)
      [] m.kind \in {"RequestTimedOut", "OracleResult"} -> handle_outcome(m.request, e)
      [] m.kind = "DisputeTriggered" -> handle_dispute_triggered(e)
      [] m.kind = "DisputeResolved" -> handle_resolved(m.request, e)
      [] m.kind \in {"ArbitrationTimedOut", "DisputeOutOfScope"} ->
            handle_arbitration_timeout(m.request, e)
      [] m.kind = "Claimed" -> keep(e)

\* A service while it works through a block: its entries, and the commands
\* so far.
onNewBlock(tracked, block) ==
    LET done(r) == handle_block_advance(r, tracked[r], block)
    IN  [tracked |-> [r \in Requests |-> done(r).entry],
         commands |-> FoldLeft(LAMBDA commands, r : commands \o done(r).commands,
                               <<>>, SetToSeq(Requests))]

onLogs(s, tracked, events) ==
    FoldLeft(LAMBDA st, m :
                LET done == onEvent(s, st.tracked[m.request], m)
                IN  [tracked |-> [st.tracked EXCEPT ![m.request] = done.entry],
                     commands |-> st.commands \o done.commands],
             [tracked |-> tracked, commands |-> <<>>], events)

----------------------------------------------------------------------------
(* The chain: the oracle's transactions, with the events they emit.         *)

Nobody == "nobody"

event(kind, r, sentinel) ==
    [kind |-> kind, block |-> now, request |-> r, sentinel |-> sentinel, terms |-> NoTerms]

emit(kind, r, sentinel) == logs' = Append(logs, event(kind, r, sentinel))

\* Consensus announces the proposal, then posts the request.
proposeTransaction(r) ==
    /\ now <= ProposalBlock
    /\ Oracle!postRequest(r)
    /\ LET q == requests'[r]
           terms == [bond |-> q.bondTarget, commitDeadline |-> q.commitDeadline,
                     revealDeadline |-> q.revealDeadline]
       IN  logs' = logs \o <<event("TransactionProposed", r, Nobody),
                             [event("NewRequest", r, Nobody) EXCEPT !.terms = terms]>>
    /\ UNCHANGED <<serviceVars, past, allowance, delayed, trouble>>

finalized(r) ==
    \/ Oracle!finalizeAgreed(r) /\ emit("OracleResult", r, Nobody)
    \/ Oracle!finalizeDisputed(r) /\ emit("DisputeTriggered", r, Nobody)
    \/ Oracle!finalizeUnanswered(r) /\ emit("RequestTimedOut", r, Nobody)

\* The other sentinels, and whoever calls finalize.
otherwise(r) ==
    /\ \/ finalized(r)
       \/ \E s \in Sentinels \ Services :
            \/ \E hash \in Hashes : Oracle!commit(r, s, hash) /\ emit("Committed", r, s)
            \/ \E approve \in BOOLEAN : Oracle!reveal(r, s, approve) /\ emit("Revealed", r, s)
    /\ UNCHANGED <<serviceVars, past, allowance, delayed, trouble>>

arbitrate(r) ==
    /\ \/ \E wins \in BOOLEAN : Oracle!resolveDispute(r, wins) /\ emit("DisputeResolved", r, Nobody)
       \/ Oracle!markOutOfScope(r) /\ emit("DisputeOutOfScope", r, Nobody)
    /\ UNCHANGED <<serviceVars, past, allowance, delayed, trouble>>

timeoutArbitration(r) ==
    /\ Oracle!timeoutArbitration(r)
    /\ emit("ArbitrationTimedOut", r, Nobody)
    /\ UNCHANGED <<serviceVars, past, allowance, delayed, trouble>>

\* A transaction of a service, as encode_action_kind encodes it.  The token
\* is only seen through its allowance; the accounts are funded.
execute(s, a) ==
    \/ /\ a.kind = "ApproveToken"
       /\ allowance' = [allowance EXCEPT ![s] = a.bond]
       /\ UNCHANGED <<oracleVars, logs>>
    \/ /\ a.kind = "Commit"
       /\ allowance[s] >= requests[a.request].bondTarget
       /\ Oracle!commit(a.request, s, commit_hash(a.approve))
       /\ emit("Committed", a.request, s)
       /\ allowance' = [allowance EXCEPT ![s] = @ - requests[a.request].bondTarget]
    \/ /\ a.kind = "Reveal"
       /\ Oracle!reveal(a.request, s, a.approve)
       /\ emit("Revealed", a.request, s)
       /\ UNCHANGED allowance
    \/ /\ a.kind = "Finalize"
       /\ finalized(a.request)
       /\ UNCHANGED allowance
    \/ /\ a.kind = "Claim"
       /\ Oracle!claim(a.request, s)
       /\ emit("Claimed", a.request, s)
       /\ UNCHANGED allowance

\* The first transaction of the service is mined; one that reverts is gone.
mine(s) ==
    /\ queue[s] # <<>>
    /\ \/ execute(s, Head(queue[s]))
       \/ ~ENABLED execute(s, Head(queue[s])) /\ UNCHANGED <<oracleVars, logs, allowance>>
    /\ queue' = [queue EXCEPT ![s] = Tail(@)]
    /\ UNCHANGED <<readerVars, entry, running, lapsed, past, delayed, trouble>>

\* The transaction queue gives up what was not submitted in time.
expire(s) ==
    /\ queue[s] # <<>>
    /\ Head(queue[s]).expires \in 1 .. now - 1
    /\ queue' = [queue EXCEPT ![s] = Tail(@)]
    /\ UNCHANGED <<oracleVars, logs, past, allowance, readerVars, entry, running, lapsed,
                   delayed, trouble>>

----------------------------------------------------------------------------
(* The services *)

isEffect(c) == c.kind = "EngineCheck"

transactions(commands) == SelectSeq(commands, LAMBDA c : ~isEffect(c))

effects(commands) == {c.request : c \in {d \in ToSet(commands) : isEffect(d)}}

\* What the engine's client makes of a response; a request that failed or
\* timed out is no verdict.
Responses == {"Secure", "Insecure", "Abstain", "Error"}

checkOutcome(response) ==
    CASE response = "Secure" -> "Approved"
      [] response = "Insecure" -> "Denied"
      [] OTHER -> "Unknown"

latest(seq, n) == SubSeq(seq, Max({Len(seq) - n + 1, 1}), Len(seq))

\* The complete blocks that the service has yet to read, and how many
\* commitments it has read of.
unread(s) == latest(past, behind[s])

commitmentsRead(s, r) ==
    requests[r].committed
        - Len(SelectSeq(FlattenSeq(unread(s)) \o logs,
                        LAMBDA m : m.kind = "Committed" /\ m.request = r))

\* A service misses something of a request in three ways.  First, commitments
\* that it reads while it waits for its engine are not counted.
answer(s, r, response) ==
    LET done == handle_engine_check_result(r, entry[s][r], checkOutcome(response))
    IN  /\ r \in running[s]
        /\ running' = [running EXCEPT ![s] = @ \ {r}]
        /\ entry' = [entry EXCEPT ![s][r] = done.entry]
        /\ queue' = [queue EXCEPT ![s] = @ \o done.commands]
        /\ lapsed' = IF done.commands # <<>> /\ commitmentsRead(s, r) > 0
                     THEN [lapsed EXCEPT ![s] = @ \cup {r}] ELSE lapsed
        /\ UNCHANGED <<oracleVars, logs, past, allowance, readerVars, delayed, trouble>>

\* The commands of a step: transactions are queued, effects spawned.
perform(s, commands) ==
    /\ queue' = [queue EXCEPT ![s] = @ \o transactions(commands)]
    /\ running' = [running EXCEPT ![s] = @ \cup effects(commands)]

\* Only the snapshots and the queue outlive the process.
goDown(s) ==
    /\ trouble < MaxTrouble
    /\ trouble' = trouble + 1
    /\ stops' = [stops EXCEPT ![s] = @ + 1]
    /\ down' = down \cup {s}
    /\ entry' = [entry EXCEPT ![s] = NoEntries]
    /\ running' = [running EXCEPT ![s] = {}]

\* The next block is read: NewBlock, then its events, and the snapshot; the
\* snapshots older than MaxReorgDepth blocks are pruned.
isReading(s) == s \notin down /\ behind[s] > 0

newBlock(s) == onNewBlock(entry[s], now - behind[s])

blockLogs(s) == onLogs(s, newBlock(s).tracked, Head(unread(s)))

store(s) ==
    /\ snapshots' = [snapshots EXCEPT
                        ![s] = latest(Append(@, blockLogs(s).tracked), MaxReorgDepth + 1)]
    /\ behind' = [behind EXCEPT ![s] = @ - 1]

readBlock(s) ==
    /\ isReading(s)
    /\ store(s)
    /\ entry' = [entry EXCEPT ![s] = blockLogs(s).tracked]
    /\ perform(s, newBlock(s).commands \o blockLogs(s).commands)
    /\ UNCHANGED <<oracleVars, logs, past, allowance, down, stops, lapsed, delayed, trouble>>

\* The process stops: at any time, ...
stop(s) ==
    /\ s \notin down
    /\ goDown(s)
    /\ UNCHANGED <<oracleVars, logs, past, allowance, behind, snapshots, queue, lapsed, delayed>>

\* ... between NewBlock and the events of the block, ...
stopAfterNewBlock(s) ==
    /\ isReading(s)
    /\ goDown(s)
    /\ queue' = [queue EXCEPT ![s] = @ \o transactions(newBlock(s).commands)]
    /\ snapshots' = [snapshots EXCEPT ![s] = latest(@, Max({MaxReorgDepth, 1}))]
    /\ UNCHANGED <<oracleVars, logs, past, allowance, behind, lapsed, delayed>>

\* ... or between the snapshot and the commands of the events.
stopAfterStore(s) ==
    /\ isReading(s)
    /\ goDown(s)
    /\ store(s)
    /\ queue' = [queue EXCEPT ![s] = @ \o transactions(newBlock(s).commands)]
    /\ UNCHANGED <<oracleVars, logs, past, allowance, lapsed, delayed>>

\* What a process that starts has to read: the blocks after its earliest
\* snapshot.  The events of those that are MaxReorgDepth blocks old come in
\* bulk, the others block by block.
toRead(s) == Len(snapshots[s]) - 1 + behind[s]

warps(s) == Max({toRead(s) - MaxReorgDepth, 0})

eventsOf(kind, r, events) == {m \in ToSet(events) : m.kind = kind /\ m.request = r}

hasCommitment(s, r) ==
    \/ commitments[r][s].vote # "NONE"
    \/ \E a \in ToSet(queue[s]) : a.kind = "Commit" /\ a.request = r

\* Second, when the engine answered after that snapshot, the service forgets
\* the vote of a commitment that it made; if it asks again, it does not count
\* the commitments it reads before the answer.  Third, the bulk comes without
\* NewBlock: who collected commitments does not count the reveals in there.
start(s) ==
    LET anchor == Head(snapshots[s])
        again == latest(past, toRead(s))
        bulk == FlattenSeq(SubSeq(again, 1, warps(s)))
        done == onLogs(s, anchor, bulk)
        undecided(r) == \/ anchor[r].phase = "WaitingForEngineCheck"
                        \/ eventsOf("TransactionProposed", r, FlattenSeq(again)) # {}
        uncounted(r) == /\ anchor[r].phase # "CollectingVotes"
                        /\ eventsOf("Revealed", r, bulk) # {}
    IN  /\ s \in down
        /\ down' = down \ {s}
        /\ entry' = [entry EXCEPT ![s] = done.tracked]
        /\ snapshots' = [snapshots EXCEPT ![s] = <<done.tracked>>]
        /\ behind' = [behind EXCEPT ![s] = toRead(s) - warps(s)]
        /\ perform(s, done.commands)
        /\ lapsed' = [lapsed EXCEPT ![s] = @ \cup {r \in Requests :
                            (undecided(r) /\ hasCommitment(s, r)) \/ uncounted(r)}]
        /\ UNCHANGED <<oracleVars, logs, past, allowance, stops, delayed, trouble>>

\* Blocks that no service reads again are forgotten.
endBlock ==
    LET late == {s \in Services : s \in down \/ behind[s] > 0 \/ queue[s] # <<>>}
        kept == Max({toRead(s) : s \in Services}) + 1
    IN  /\ trouble + Cardinality(late) <= MaxTrouble
        /\ trouble' = trouble + Cardinality(late)
        /\ Oracle!tick
        /\ logs' = <<>>
        /\ past' = latest(Append(past, logs), kept)
        /\ behind' = [s \in Services |-> behind[s] + 1]
        /\ delayed' = [s \in Services |-> IF s \in late THEN delayed[s] + 1 ELSE delayed[s]]
        /\ UNCHANGED <<allowance, down, entry, snapshots, stops, running, queue, lapsed>>

----------------------------------------------------------------------------

Init ==
    /\ now = 1
    /\ schedule = [s \in Sentinels |-> 1]
    /\ \E fee \in Fees, bond \in BondConfigs, share \in Shares, receiver \in Receivers :
        LET initial == [fee |-> fee, bond |-> bond, share |-> share, receiver |-> receiver]
        IN  /\ \A p \in DOMAIN initial : Oracle!valid(p, initial[p])
            /\ config = [p \in DOMAIN initial |->
                            [value |-> initial[p], pending |-> initial[p], activeAt |-> 0]]
    /\ requests = [r \in Requests |-> Oracle!NoRequest]
    /\ commitments = [r \in Requests |-> [s \in Sentinels |-> Oracle!NoCommitment]]
    /\ pot = [r \in Requests |-> 0]
    /\ result = [r \in Requests |-> "None"]
    /\ logs = <<>>
    /\ past = <<>>
    /\ down = {}
    /\ behind = [s \in Services |-> 0]
    /\ entry = [s \in Services |-> NoEntries]
    /\ snapshots = [s \in Services |-> <<NoEntries>>]
    /\ stops = [s \in Services |-> 0]
    /\ running = [s \in Services |-> {}]
    /\ queue = [s \in Services |-> <<>>]
    /\ allowance = [s \in Services |-> 0]
    /\ delayed = [s \in Services |-> 0]
    /\ trouble = 0
    /\ lapsed = [s \in Services |-> {}]

Next ==
    \/ \E r \in Requests :
        \/ proposeTransaction(r) \/ otherwise(r) \/ arbitrate(r) \/ timeoutArbitration(r)
        \/ \E s \in Services, response \in Responses : answer(s, r, response)
    \/ \E s \in Services :
        \/ mine(s) \/ expire(s) \/ readBlock(s)
        \/ stop(s) \/ stopAfterNewBlock(s) \/ stopAfterStore(s) \/ start(s)
    \/ endBlock

Spec == Init /\ [][Next]_vars

----------------------------------------------------------------------------
(* Properties *)

\* A service follows the oracle, however often it stops and reads blocks
\* again: once it has read the last block, its entry for a request it did not
\* miss anything of agrees with the contract in phase and in every count, and
\* a bond that is not tracked any more is claimed, about to be claimed, or
\* was silently given up with a vote that others outran.
MirrorsOracle ==
    logs = <<>> =>
        \A s \in {t \in Services \ down : behind[t] = 0}, r \in Requests :
            LET e == entry[s][r]
                q == requests[r]
                c == commitments[r][s]
            IN  r \in lapsed[s] \/
                CASE e.phase = "CollectingCommitments" ->
                        /\ q.state = "PENDING" /\ now - 1 <= q.commitDeadline
                        /\ e.committed = q.committed /\ e.selfCommitted = (c.vote # "NONE")
                  [] e.phase = "CollectingVotes" ->
                        /\ q.state = "PENDING" /\ now - 1 <= q.revealDeadline
                        /\ e.committed = q.committed /\ e.revealed = q.revealed
                        /\ e.selfRevealed = (c.vote # "PENDING") /\ c.vote # "NONE"
                  [] e.phase = "WaitingForOutcome" ->
                        q.state = "PENDING" /\ c.vote # "NONE"
                  [] e.phase = "WaitingForDisputeResolution" ->
                        q.state = "FROZEN" /\ c.vote # "NONE"
                  [] OTHER ->
                        \/ c.vote = "NONE" \/ c.claimed
                        \/ claimOf(r) \in ToSet(queue[s])
                        \/ c.vote = "PENDING" /\ q.revealed > 0

\* The transactions work.  A claim is queued when it pays, and once: only a
\* service that stopped may repeat a claim, once per stop, by reading again
\* of the outcome.  A reveal is the vote that was committed to, also when the
\* service was stopped since; after a stop that made it forget the vote, it
\* may ask its engine again and get another answer.
TransactionsWork ==
    \A s \in Services : \A i \in DOMAIN queue[s] :
        LET a == queue[s][i]
            q == requests[a.request]
            c == commitments[a.request][s]
            claims == {j \in DOMAIN queue[s] : queue[s][j] = a}
        IN  /\ a.kind = "Claim" =>
                /\ q.state \in {"RESOLVED_APPROVED", "RESOLVED_DENIED", "TIMED_OUT"}
                /\ c.bond > 0 \/ a.request \in lapsed[s]
                /\ Cardinality(claims) + (IF c.claimed THEN 1 ELSE 0) <= 1 + stops[s]
            /\ a.kind = "Reveal" => c.hash = commit_hash(a.approve) \/ a.request \in lapsed[s]

\* A service that committed reveals in time, also if it stopped meanwhile,
\* unless it was late in as many blocks as the reveal window has, less one
\* (the first of them is the one that tells it to reveal), or a stop soon
\* after the engine's answer made it forget its vote.
RevealsInTime ==
    \A s \in Services, r \in Requests :
        commitments[r][s].vote = "PENDING" /\ now > requests[r].revealDeadline
            => r \in lapsed[s] \/ delayed[s] >= RevealWindow - 1

\* The services settle a request without help, and their bonds come back: two
\* blocks after the reveal window some service's finalize is mined, the next
\* block has the claim, later only by the blocks that the service is late in,
\* stopped or not.  This is for a request without dispute (in one the
\* arbitrator takes his time, and MirrorsOracle says that the claim follows),
\* unless the service missed something of the request, or its vote was outrun.
BondsReturn ==
    \A s \in Services, r \in Requests :
        LET c == commitments[r][s]
            q == requests[r]
        IN  /\ c.vote # "NONE" /\ r \notin lapsed[s] /\ q.arbitrationDeadline = 0
            /\ now > q.revealDeadline + 3 + delayed[s]
            => c.claimed \/ (c.vote = "PENDING" /\ q.revealed > 0)

\* What handle_revealed promises: a request is finalized before the end of
\* its reveal window only once every commitment has been revealed.
FinalizesOnceRevealed ==
    \A s \in Services : \A i \in DOMAIN queue[s] :
        LET a == queue[s][i]
            q == requests[a.request]
        IN  a.kind = "Finalize" /\ q.state = "PENDING" /\ now <= q.revealDeadline
                => q.revealed = q.committed
=============================================================================
