--------------------------- MODULE SentinelOracle ---------------------------
(***************************************************************************)
(* The oracle contract: sentinels commit and reveal bonded votes on a      *)
(* request, agreement resolves it, disagreement goes to an arbitrator, and *)
(* fees, bonds and slashes are paid out.  A transaction is one action; one *)
(* that a `require` or checked arithmetic rejects is a disabled action.    *)
(*                                                                         *)
(* `pot[r]` is the part of the contract's token balance that was paid in   *)
(* for request r and has not been paid out: the contract has one balance,  *)
(* and a request that overdraws its pot spends the money of another one.   *)
(***************************************************************************)
EXTENDS Integers, FiniteSets

CONSTANTS
    Requests,            \* request IDs, hashes of proposals
    Sentinels,           \* addresses that may be made sentinels
    Hashes,              \* the commitments that sentinels send, see Votes
    CommitWindow,        \* COMMIT_WINDOW
    RevealWindow,        \* REVEAL_WINDOW
    GovernanceDelay,     \* GOVERNANCE_DELAY
    ArbitrationTimeout,  \* ARBITRATION_TIMEOUT
    Denominator,         \* FEE_SHARE_DENOMINATOR
    Fees,                \* values for the request fee
    BondConfigs,         \* values for the multipliers, [bond, slashing]
    Shares,              \* values for the protocol's share of a fee
    Receivers,           \* values for the protocol funds receiver
    Governed,            \* bound: the parameters that governance changes
    MaxCommits,          \* bound: commitments per request
    RosterBlock,         \* bound: the last block that changes who is a sentinel
    MaxBlock             \* bound: the last block

ASSUME HashAssumption == Hashes \subseteq {"Approve", "Deny", "Other", "Zero"}

\* Addresses are 20 bytes: there are finitely many.
ASSUME SentinelAssumption == IsFiniteSet(Sentinels)

ASSUME WindowAssumption ==
    /\ CommitWindow \in Nat \ {0}
    /\ RevealWindow \in Nat \ {0}
    /\ GovernanceDelay \in Nat
    /\ ArbitrationTimeout \in Nat \ {0}
    /\ MaxCommits \in Nat
    /\ RosterBlock \in Nat
    /\ MaxBlock \in Nat

ASSUME ConfigAssumption ==
    /\ Denominator \in Nat \ {0}
    /\ Fees \subseteq Nat
    /\ BondConfigs \subseteq [bond : Nat, slashing : Nat]
    /\ Shares \subseteq Nat
    /\ Governed \subseteq {"fee", "bond", "share", "receiver"}

VARIABLES
    now,          \* block.number
    schedule,     \* SentinelMap: the block from which an address is a sentinel
    config,       \* the delayed values, see Params
    requests,     \* SentinelOracleRequestMap
    commitments,  \* SentinelOracleCommitmentMap
    pot,          \* tokens held for each request
    result        \* the OracleResult emitted for each request

vars == <<now, schedule, config, requests, commitments, pot, result>>

States == {"NONE", "PENDING", "FROZEN", "RESOLVED_APPROVED", "RESOLVED_DENIED", "TIMED_OUT"}

Resolved == {"RESOLVED_APPROVED", "RESOLVED_DENIED"}

NoRequest ==
    [state |-> "NONE", commitDeadline |-> 0, revealDeadline |-> 0, arbitrationDeadline |-> 0,
     bondTarget |-> 0, slashAmount |-> 0, daoFeeShare |-> 0, fee |-> 0,
     committed |-> 0, revealed |-> 0, approve |-> 0, deny |-> 0]

\* A hash stands for the vote it can be opened to: "Other" is a hash nobody
\* can open, and "Zero" is the empty storage slot.
NoCommitment == [hash |-> "Zero", bond |-> 0, vote |-> "NONE", claimed |-> FALSE]

----------------------------------------------------------------------------
(* Governed values: DelayedUint96, DelayedAddress and BondConfig           *)

Params == {"fee", "bond", "share", "receiver"}

Choices(p) ==
    CASE p = "fee" -> Fees
      [] p = "bond" -> BondConfigs
      [] p = "share" -> Shares
      [] p = "receiver" -> Receivers

\* A wrong check: the slash is not compared with anything.
validUnchecked(p, v) == p = "share" => v <= Denominator

\* What the constructor and the schedule functions require; the receiver is
\* only required not to be the zero address.
valid(p, v) ==
    /\ p = "fee" => v > 0
    /\ p = "bond" => v.bond > 0 /\ v.slashing > 0 /\ v.slashing <= v.bond
    /\ p = "share" => v <= Denominator

due(c) == c.activeAt # 0 /\ now >= c.activeAt

\* applyPending: what is due is stored, and nothing is pending any more (a
\* pending value without a block repeats the stored one).
applyPending(c) ==
    IF due(c) THEN [value |-> c.pending, pending |-> c.pending, activeAt |-> 0] ELSE c

\* A wrong schedule: a change that is already due is lost with the old one.
scheduledOver(c, v) == [c EXCEPT !.pending = v, !.activeAt = now + GovernanceDelay]

scheduled(c, v) == [applyPending(c) EXCEPT !.pending = v, !.activeAt = now + GovernanceDelay]

\* The value everybody reads: `current`.
current(p) == IF due(config[p]) THEN config[p].pending ELSE config[p].value

\* scheduleFee, scheduleBondConfig, scheduleDaoFeeShare, and
\* scheduleProtocolFundsReceiver
scheduleParam(p, v) ==
    /\ valid(p, v)
    /\ config' = [config EXCEPT ![p] = scheduled(@, v)]
    /\ UNCHANGED <<now, schedule, requests, commitments, pot, result>>

applyParam(p) ==
    /\ config' = [config EXCEPT ![p] = applyPending(@)]
    /\ UNCHANGED <<now, schedule, requests, commitments, pot, result>>

isActive(s) == schedule[s] # 0 /\ now >= schedule[s]

addSentinel(s) ==
    /\ schedule[s] = 0
    /\ schedule' = [schedule EXCEPT ![s] = now + GovernanceDelay]
    /\ UNCHANGED <<now, config, requests, commitments, pot, result>>

removeSentinel(s) ==
    /\ schedule[s] # 0
    /\ schedule' = [schedule EXCEPT ![s] = 0]
    /\ UNCHANGED <<now, config, requests, commitments, pot, result>>

----------------------------------------------------------------------------
(* Voting                                                                  *)

\* Consensus posts a request, and the sponsor pays its fee.
postRequest(r) ==
    LET fee == current("fee")
        bond == current("bond")
    IN  /\ requests[r].state = "NONE"
        /\ config' = [p \in Params |-> IF p = "receiver" THEN config[p] ELSE applyPending(config[p])]
        /\ requests' = [requests EXCEPT ![r] =
            [NoRequest EXCEPT
                !.state = "PENDING",
                !.commitDeadline = now + CommitWindow,
                !.revealDeadline = now + CommitWindow + RevealWindow,
                !.bondTarget = fee * bond.bond,
                !.slashAmount = fee * bond.slashing,
                !.daoFeeShare = current("share"),
                !.fee = fee]]
        /\ pot' = [pot EXCEPT ![r] = @ + fee]
        /\ UNCHANGED <<now, schedule, commitments, result>>

commit(r, s, hash) ==
    /\ isActive(s)
    /\ requests[r].state = "PENDING"
    /\ now <= requests[r].commitDeadline
    /\ commitments[r][s].hash = "Zero"
    /\ requests' = [requests EXCEPT ![r].committed = @ + 1]
    /\ commitments' = [commitments EXCEPT ![r][s] =
        [hash |-> hash, bond |-> requests[r].bondTarget, vote |-> "PENDING", claimed |-> FALSE]]
    /\ pot' = [pot EXCEPT ![r] = @ + requests[r].bondTarget]
    /\ UNCHANGED <<now, schedule, config, result>>

inRevealWindow(r) == now > requests[r].commitDeadline /\ now <= requests[r].revealDeadline

reveal(r, s, approve) ==
    LET q == requests[r]
        c == commitments[r][s]
    IN  /\ q.state = "PENDING"
        /\ c.vote = "PENDING"
        /\ c.hash = (IF approve THEN "Approve" ELSE "Deny")
        /\ inRevealWindow(r)
        /\ commitments' = [commitments EXCEPT ![r][s].vote = IF approve THEN "APPROVED" ELSE "DENIED"]
        /\ requests' = [requests EXCEPT ![r] =
            [q EXCEPT !.revealed = @ + 1,
                      !.approve = IF approve THEN @ + 1 ELSE @,
                      !.deny = IF approve THEN @ ELSE @ + 1]]
        /\ UNCHANGED <<now, schedule, config, pot, result>>

----------------------------------------------------------------------------
(* Finalisation                                                            *)

\* applyDaoFeeCut
daoCut(q) == (q.fee * q.daoFeeShare) \div Denominator

\* A wrong finalize: silent sentinels are waited for.
mayFinalizeComplete(q) == q.committed > 0 /\ q.revealed = q.committed

mayFinalize(q) ==
    \/ now > q.revealDeadline
    \/ q.committed > 0 /\ q.revealed = q.committed
    \/ q.committed = 0 /\ now > q.commitDeadline

\* What silence costs, once some vote was revealed.
unrevealedBond(q) == (q.committed - q.revealed) * q.slashAmount

\* A wrong finalize: approvals outvote denials.
disputedMinority(q) == q.approve > 0 /\ q.deny >= q.approve

disputed(q) == q.approve > 0 /\ q.deny > 0

applyReceiver == [config EXCEPT !["receiver"] = applyPending(@)]

\* Votes on one side only: the fee is split and the outcome announced.
finalizeAgreed(r) ==
    LET q == requests[r]
        approved == q.approve > 0
    IN  /\ q.state = "PENDING"
        /\ mayFinalize(q)
        /\ q.approve > 0 \/ q.deny > 0
        /\ ~disputed(q)
        /\ requests' = [requests EXCEPT
            ![r].state = IF approved THEN "RESOLVED_APPROVED" ELSE "RESOLVED_DENIED",
            ![r].fee = q.fee - daoCut(q)]
        /\ pot' = [pot EXCEPT ![r] = @ - unrevealedBond(q) - daoCut(q)]
        /\ result' = [result EXCEPT ![r] = IF approved THEN "Approved" ELSE "Rejected"]
        /\ config' = applyReceiver
        /\ UNCHANGED <<now, schedule, commitments>>

\* Votes on both sides: the arbitrator's clock starts.
finalizeDisputed(r) ==
    LET q == requests[r]
    IN  /\ q.state = "PENDING"
        /\ mayFinalize(q)
        /\ disputed(q)
        /\ requests' = [requests EXCEPT ![r].state = "FROZEN",
                                        ![r].arbitrationDeadline = now + ArbitrationTimeout]
        /\ pot' = [pot EXCEPT ![r] = @ - unrevealedBond(q)]
        /\ config' = applyReceiver
        /\ UNCHANGED <<now, schedule, commitments, result>>

\* No votes: the sponsor gets the fee back.
finalizeUnanswered(r) ==
    LET q == requests[r]
    IN  /\ q.state = "PENDING"
        /\ mayFinalize(q)
        /\ q.approve = 0 /\ q.deny = 0
        /\ requests' = [requests EXCEPT ![r].state = "TIMED_OUT", ![r].fee = 0]
        /\ pot' = [pot EXCEPT ![r] = @ - q.fee]
        /\ config' = applyReceiver
        /\ UNCHANGED <<now, schedule, commitments, result>>

finalize(r) == finalizeAgreed(r) \/ finalizeDisputed(r) \/ finalizeUnanswered(r)

\* The vote that earns the fee.
winning(q, vote) ==
    \/ q.state = "RESOLVED_APPROVED" /\ vote = "APPROVED"
    \/ q.state = "RESOLVED_DENIED" /\ vote = "DENIED"

winners(q) == IF q.state = "RESOLVED_APPROVED" THEN q.approve ELSE q.deny

calcFeeReward(q, vote) == IF winning(q, vote) THEN q.fee \div winners(q) ELSE 0

\* A wrong slashAmountFor: silence is charged even if nobody revealed.
slashAmountForSilence(q, vote) ==
    IF \/ vote = "PENDING"
       \/ vote # "PENDING" /\ q.state \in Resolved /\ q.approve > 0 /\ q.deny > 0 /\ ~winning(q, vote)
    THEN q.slashAmount
    ELSE 0

\* Silence is charged once any vote was revealed, a revealed vote only when
\* it lost an arbitrated dispute.
slashAmountFor(q, vote) ==
    IF \/ vote = "PENDING" /\ (q.approve > 0 \/ q.deny > 0)
       \/ vote # "PENDING" /\ q.state \in Resolved /\ q.approve > 0 /\ q.deny > 0 /\ ~winning(q, vote)
    THEN q.slashAmount
    ELSE 0

bondReturn(q, c) == c.bond - slashAmountFor(q, c.vote)

totalClaim(q, c) == bondReturn(q, c) + calcFeeReward(q, c.vote)

claimable(c) == c.bond > 0 /\ ~c.claimed

claim(r, s) ==
    LET q == requests[r]
        c == commitments[r][s]
    IN  /\ q.state \in Resolved \cup {"TIMED_OUT"}
        /\ claimable(c)
        /\ bondReturn(q, c) >= 0
        /\ commitments' = [commitments EXCEPT ![r][s].claimed = TRUE]
        /\ pot' = [pot EXCEPT ![r] = @ - totalClaim(q, c)]
        /\ UNCHANGED <<now, schedule, config, requests, result>>

----------------------------------------------------------------------------
(* Arbitration                                                             *)

slashedBy(q, approveWins) == (IF approveWins THEN q.deny ELSE q.approve) * q.slashAmount

\* The losers pay the sponsor's refund and the protocol; the winners are paid
\* from the fee.
resolveDispute(r, approveWins) ==
    LET q == requests[r]
        slashed == slashedBy(q, approveWins)
    IN  /\ q.state = "FROZEN"
        /\ slashed - q.fee >= 0
        /\ requests' = [requests EXCEPT
            ![r].state = IF approveWins THEN "RESOLVED_APPROVED" ELSE "RESOLVED_DENIED",
            ![r].fee = q.fee - daoCut(q)]
        /\ pot' = [pot EXCEPT ![r] = @ - q.fee - (slashed - q.fee + daoCut(q))]
        /\ config' = applyReceiver
        /\ UNCHANGED <<now, schedule, commitments, result>>

outOfScope(r) ==
    /\ requests[r].state = "FROZEN"
    /\ requests' = [requests EXCEPT ![r].state = "TIMED_OUT", ![r].fee = 0]
    /\ pot' = [pot EXCEPT ![r] = @ - requests[r].fee]
    /\ UNCHANGED <<now, schedule, config, commitments, result>>

markOutOfScope(r) == outOfScope(r)

timeoutArbitration(r) ==
    /\ now > requests[r].arbitrationDeadline
    /\ outOfScope(r)

----------------------------------------------------------------------------

tick ==
    /\ now < MaxBlock
    /\ now' = now + 1
    /\ UNCHANGED <<schedule, config, requests, commitments, pot, result>>

Init ==
    /\ now = 1
    /\ schedule = [s \in Sentinels |-> 0]
    /\ \E fee \in Fees, bond \in BondConfigs, share \in Shares, receiver \in Receivers :
        LET initial == [fee |-> fee, bond |-> bond, share |-> share, receiver |-> receiver]
        IN  /\ \A p \in Params : valid(p, initial[p])
            /\ config = [p \in Params |->
                            [value |-> initial[p], pending |-> initial[p], activeAt |-> 0]]
    /\ requests = [r \in Requests |-> NoRequest]
    /\ commitments = [r \in Requests |-> [s \in Sentinels |-> NoCommitment]]
    /\ pot = [r \in Requests |-> 0]
    /\ result = [r \in Requests |-> "None"]

Governance ==
    \/ \E p \in Governed : applyParam(p) \/ \E v \in Choices(p) : scheduleParam(p, v)
    \/ now <= RosterBlock /\ \E s \in Sentinels : addSentinel(s) \/ removeSentinel(s)

Voting ==
    \E r \in Requests :
        \/ postRequest(r)
        \/ \E s \in Sentinels :
            \/ requests[r].committed < MaxCommits /\ \E hash \in Hashes : commit(r, s, hash)
            \/ \E approve \in BOOLEAN : reveal(r, s, approve)
            \/ claim(r, s)
        \/ finalize(r)

Arbitration ==
    \E r \in Requests :
        \/ \E approveWins \in BOOLEAN : resolveDispute(r, approveWins)
        \/ markOutOfScope(r)
        \/ timeoutArbitration(r)

Next == tick \/ Governance \/ Voting \/ Arbitration

Spec == Init /\ [][Next]_vars

\* Blocks go by, and finalize and timeoutArbitration are open to everybody:
\* the sentinels' service calls the first; the sponsor and the sentinels have
\* their money to gain from the second.  Nothing is assumed of votes, claims
\* or the arbitrator.
Fairness ==
    /\ WF_vars(tick)
    /\ \A r \in Requests : WF_vars(finalize(r)) /\ WF_vars(timeoutArbitration(r))

FairSpec == Spec /\ Fairness
----------------------------------------------------------------------------
(* Invariants                                                              *)

Voters(r, vote) == {s \in Sentinels : commitments[r][s].vote = vote}

Committers(r) == {s \in Sentinels : commitments[r][s].vote # "NONE"}

Votes == {"PENDING", "APPROVED", "DENIED"}

Commitment ==
    [hash : Hashes \cup {"Zero"}, bond : Nat, vote : Votes \cup {"NONE"}, claimed : BOOLEAN]

\* What the contract still has to pay for a request: its fee and the bonds
\* until it is finalized, then what each sentinel may claim.
Unclaimed(r, vote) == {s \in Voters(r, vote) : ~commitments[r][s].claimed}

ClaimOf(q, vote) == q.bondTarget - slashAmountFor(q, vote) + calcFeeReward(q, vote)

Owed(r) ==
    LET q == requests[r]
    IN  CASE q.state = "NONE" -> 0
          [] q.state = "PENDING" -> q.fee + Cardinality(Committers(r)) * q.bondTarget
          [] q.state = "FROZEN" ->
                q.fee + Cardinality(Committers(r)) * q.bondTarget - unrevealedBond(q)
          [] OTHER ->
                Cardinality(Unclaimed(r, "PENDING")) * ClaimOf(q, "PENDING")
                + Cardinality(Unclaimed(r, "APPROVED")) * ClaimOf(q, "APPROVED")
                + Cardinality(Unclaimed(r, "DENIED")) * ClaimOf(q, "DENIED")

\* What finalize, the arbitration and the claims pay out adds up: when every
\* sentinel of a settled request has claimed, no request has paid more than
\* was paid in for it, and nothing is left of it but the remainder of
\* dividing the fee, less than one unit per winner.  The property does not
\* say whose bonds are charged, only that finalize and claim agree on it.
OnlyDustStays ==
    \A r \in Requests :
        LET q == requests[r]
        IN  (\A s \in Committers(r) : commitments[r][s].claimed) =>
                /\ q.state = "TIMED_OUT" => pot[r] = 0
                /\ q.state \in Resolved => pot[r] \in 0 .. winners(q) - 1

\* No payout reverts: the arbitrator can rule either way on every dispute
\* (what the losers pay covers the sponsor's refund), and no slash exceeds
\* the bond it is taken from.
PayoutsNeverRevert ==
    \A r \in Requests :
        LET q == requests[r]
        IN  /\ q.state = "FROZEN" => \A wins \in BOOLEAN : slashedBy(q, wins) >= q.fee
            /\ q.state \in Resolved \cup {"TIMED_OUT"} =>
                \A s \in Committers(r) : bondReturn(q, commitments[r][s]) >= 0

\* The validators hear of an outcome only if every vote that was revealed
\* agrees with it, and there was one.
ResultUnanimous ==
    \A r \in Requests :
        /\ result[r] = "Approved" => Voters(r, "APPROVED") # {} /\ Voters(r, "DENIED") = {}
        /\ result[r] = "Rejected" => Voters(r, "DENIED") # {} /\ Voters(r, "APPROVED") = {}

----------------------------------------------------------------------------
(* Action and temporal properties                                          *)

\* The delayed values are stored lazily, yet what everybody reads changes
\* only as blocks go by, never with a call of governance or anybody else.
EffectiveByTime ==
    [][ GovernanceDelay > 0 /\ now' = now => \A p \in Params : current(p)' = current(p) ]_vars

\* Every request is settled, even if no sentinel reveals and the arbitrator
\* never rules (for the deadlines that the last block leaves time for).
Settles ==
    \A r \in Requests :
        /\ requests[r].state = "PENDING" /\ requests[r].revealDeadline < MaxBlock
                ~> requests[r].state # "PENDING"
        /\ requests[r].state = "FROZEN" /\ requests[r].arbitrationDeadline < MaxBlock
                ~> requests[r].state # "FROZEN"
=============================================================================
