--------------------------- MODULE SentinelEngine --------------------------
(***************************************************************************)
(* The engine that sentinels ask about a proposed Safe transaction: a chain*)
(* of checkers, of which the first that does not abstain decides.  Most    *)
(* checkers look only at the transaction; two read the token's events in   *)
(* chunks of blocks and one asks an order book, and those reads can fail.  *)
(*                                                                         *)
(* Calldata is a record of the function called and those of its arguments  *)
(* that a checker reads: an argument list that does not decode is the      *)
(* function "garbage".  Contracts and accounts are named by what they are. *)
(***************************************************************************)
EXTENDS Integers, Sequences, SequencesExt

CONSTANTS
    Transactions,   \* the proposed transactions
    Histories,      \* the sets of token events that may have happened before
    Orders,         \* the order book
    Shape,          \* what a wallet shows of an address: its first and last digits
    Blocklist,      \* the operator's list of malicious destinations
    ProviderChain,  \* the chain that the engine's provider is connected to
    Lookback,       \* address_poisoning_lookback_blocks
    MaxRange,       \* address_poisoning_max_block_range
    Block,          \* the block that the sentinel considers current
    MaxAmount       \* the greatest amount, U256::MAX

ASSUME EngineAssumption ==
    /\ Lookback \in Nat /\ Block \in Nat /\ MaxAmount \in Nat
    /\ MaxRange \in Nat \ {0}

VARIABLES
    tx,       \* the transaction that is checked
    history,  \* the Safe's own transfers and approvals: [block, token, target, amount]
    next,     \* the checker that runs next, an index of Chain
    verdict,  \* of the last checker that ran
    scan,     \* how far established_recipients has read, or NoScan
    failed    \* whether a read of the events failed

vars == <<tx, history, next, verdict, scan, failed>>

Abstain == "Abstain"
Secure == "Secure"
Insecure(rule) == rule
Rules == {"R-4.1", "R-4.2", "R-4.3", "R-4.4", "R-4.5", "R-4.6"}

----------------------------------------------------------------------------
(* Transactions.  SAFE is the Safe that executes them; every batched call   *)
(* has the default values of the fields that only a Safe transaction has.   *)

ZERO == "zero"
SAFE == "safe"

NoOrder == [owner |-> ZERO, receiver |-> ZERO, token |-> ZERO, amount |-> 0]

Default ==
    [chain |-> 0, to |-> ZERO, value |-> 0, operation |-> "Call",
     fn |-> "none", who |-> ZERO, amount |-> 0, flag |-> FALSE,
     token |-> ZERO, n |-> 0, order |-> NoOrder, calls |-> <<>>,
     gas |-> 0, gasPrice |-> 0, gasToken |-> ZERO, refundReceiver |-> ZERO]

\* U256: the arithmetic that does not wrap.
saturatingAdd(x, y) == IF x + y > MaxAmount THEN MaxAmount ELSE x + y
saturatingMul(x, y) == IF x * y > MaxAmount THEN MaxAmount ELSE x * y

----------------------------------------------------------------------------
(* MultiSend *)

DEPLOYMENTS ==
    [multiSend150 |-> [v150 |-> TRUE, allowsDelegateCalls |-> TRUE],
     multiSendCallOnly150 |-> [v150 |-> TRUE, allowsDelegateCalls |-> FALSE],
     multiSend |-> [v150 |-> FALSE, allowsDelegateCalls |-> TRUE],
     multiSendCallOnly |-> [v150 |-> FALSE, allowsDelegateCalls |-> FALSE]]

\* Wrong: the zero address is left as it is by every version.
decode_multi_sendLegacy(calls, v150) == calls

decode_multi_send(calls, v150) ==
    [i \in DOMAIN calls |->
        IF v150 /\ calls[i].to = ZERO THEN [calls[i] EXCEPT !.to = SAFE] ELSE calls[i]]

is_multi_send(t) ==
    t.operation = "DelegateCall" /\ t.to \in DOMAIN DEPLOYMENTS /\ t.fn = "multiSend"

decode_multi_send_call(t) == decode_multi_send(t.calls, DEPLOYMENTS[t.to].v150)

sub_transactions(t) == IF is_multi_send(t) THEN decode_multi_send_call(t) ELSE <<t>>

----------------------------------------------------------------------------
(* The checkers that look only at the transaction *)

CancellationChecker(t) ==
    IF t = [Default EXCEPT !.chain = t.chain, !.to = SAFE] THEN Secure ELSE Abstain

ESCAPE_HATCH == {"announceTransaction", "cancelAnnouncement"}

EscapeHatchChecker(t) ==
    IF t.operation = "Call" /\ t.value = 0 /\ t.gasPrice = 0 /\ t.fn \in ESCAPE_HATCH
    THEN Secure ELSE Abstain

MANAGEMENT ==
    {"addOwnerWithThreshold", "removeOwner", "swapOwner", "changeThreshold", "disableModule"}

\* The settings whose new value has to be on a list.
SUPPORTED ==
    [setFallbackHandler |-> {ZERO, "fallbackHandler"}, setGuard |-> {ZERO},
     enableModule |-> {"module"}, setModuleGuard |-> {ZERO}]

check_self_calls(t) ==
    \/ t.fn \in MANAGEMENT
    \/ t.fn \in DOMAIN SUPPORTED /\ t.who \in SUPPORTED[t.fn]

check_calls(t) ==
    t.operation = "Call" /\ (t.to # SAFE \/ t.fn = "none" \/ check_self_calls(t))

\* The contracts that may be delegated to, with their functions.
DELEGATES ==
    [migration |-> {"migrateSingleton", "migrateWithFallbackHandler", "migrateL2Singleton",
                    "migrateL2WithFallbackHandler"},
     signMessageLib |-> {"signMessage"},
     createCall |-> {"performCreate", "performCreate2"}]

check_delegate_calls(t) ==
    t.operation = "DelegateCall" /\ t.to \in DOMAIN DELEGATES /\ t.fn \in DELEGATES[t.to]

check_multi_send(t) ==
    /\ is_multi_send(t)
    /\ LET calls == decode_multi_send_call(t)
       IN  \A i \in DOMAIN calls :
            \/ check_calls(calls[i])
            \/ DEPLOYMENTS[t.to].allowsDelegateCalls /\ check_delegate_calls(calls[i])

BaseChecker(t) ==
    IF t.operation = "Call"
    THEN IF check_calls(t) THEN Abstain ELSE Insecure("R-4.1")
    ELSE IF check_delegate_calls(t) \/ check_multi_send(t) THEN Abstain ELSE Insecure("R-4.2")

BlocklistChecker(t) == IF t.to \in Blocklist THEN Insecure("R-4.6") ELSE Abstain

NestedSafeChecker(t) ==
    IF t.operation = "Call" /\ t.to # SAFE /\ t.fn = "execTransaction" THEN Secure ELSE Abstain

\* The approvals among the effects of the transaction, in all its batched
\* calls.  Nothing reads the transfers.
RECURSIVE decode_target_effects(_)
decode_target_effects(t) ==
    IF is_multi_send(t)
    THEN UNION {decode_target_effects(c) : c \in ToSet(decode_multi_send_call(t))}
    ELSE CASE t.fn = "approve" -> {[kind |-> "Erc20Approval", amount |-> t.amount]}
           [] t.fn = "setApprovalForAll" -> {[kind |-> "OperatorApproval", approved |-> t.flag]}
           [] OTHER -> {}

ExcessiveApprovalChecker(t) ==
    IF \E effect \in decode_target_effects(t) :
        \/ effect.kind = "Erc20Approval" /\ effect.amount = MaxAmount
        \/ effect.kind = "OperatorApproval" /\ effect.approved
    THEN Insecure("R-4.5") ELSE Abstain

----------------------------------------------------------------------------
(* CoW Swap *)

SUPPORTED_CHAIN_IDS == {1, 100, 42161}

plainCall(t, to) == t.operation = "Call" /\ t.value = 0 /\ t.to = to

approves_vault_relayer(t) ==
    plainCall(t, t.to) /\ t.fn = "approve" /\ t.who = "vaultRelayer"

is_presignature(t) == plainCall(t, "settlement") /\ t.fn = "setPreSignature"

\* createWithContext with the TWAP handler and the timestamp factory.
is_twap_create(t) == plainCall(t, "composableCow") /\ t.fn = "createTwap"

check_dangling_approval(calls) ==
    IF (\E c \in ToSet(calls) : approves_vault_relayer(c))
        /\ ~\E c \in ToSet(calls) : is_presignature(c) \/ is_twap_create(c)
    THEN Insecure("R-4.4") ELSE Abstain

\* The approval and the order of a batch of two, in either order.
pairs(calls) ==
    IF Len(calls) # 2 THEN {}
    ELSE {p \in {<<calls[1], calls[2]>>, <<calls[2], calls[1]>>} : approves_vault_relayer(p[1])}

receiver(order) == IF order.receiver = ZERO THEN order.owner ELSE order.receiver

\* compute_order_uid: an order's identifier is a hash of all its terms.
orderMatches(uid, order) == uid = order

\* A lookup that fails or is malformed answers NoOrder.
check_presignature_batch(calls, response) ==
    LET found == {p \in pairs(calls) : is_presignature(p[2]) /\ p[2].flag}
        p == CHOOSE q \in found : TRUE
    IN  IF found = {} THEN Abstain
        ELSE IF response = NoOrder THEN Abstain
        ELSE IF ~orderMatches(p[2].order, response) THEN Abstain
        ELSE IF receiver(response) # SAFE THEN Insecure("R-4.4")
        ELSE IF p[1].to = response.token /\ p[1].amount = response.amount THEN Secure
        ELSE Insecure("R-4.5")

max_approval_for_twap_total(total, n) == saturatingAdd(total, IF n = 0 THEN 0 ELSE n - 1)

check_twap_batch(calls) ==
    LET found == {p \in pairs(calls) : is_twap_create(p[2]) /\ p[2].amount * p[2].n <= MaxAmount}
        p == CHOOSE q \in found : TRUE
    IN  IF found = {} THEN Abstain
        ELSE IF p[2].who \notin {SAFE, ZERO} THEN Insecure("R-4.4")
        ELSE IF \/ p[1].to # p[2].token
                \/ p[1].amount > max_approval_for_twap_total(p[2].amount * p[2].n, p[2].n)
             THEN Insecure("R-4.5")
        ELSE Secure

CowChecker(t, response) ==
    LET calls == sub_transactions(t)
        first == check_dangling_approval(calls)
        second == check_presignature_batch(calls, response)
    IN  IF t.chain \notin SUPPORTED_CHAIN_IDS THEN Abstain
        ELSE IF first # Abstain THEN first
        ELSE IF second # Abstain THEN second
        ELSE check_twap_batch(calls)

----------------------------------------------------------------------------
(* Staking *)

is_claim(t) == plainCall(t, "rewardsDistributor") /\ t.fn = "claim"

is_staking_approval(t) == plainCall(t, "safeToken") /\ t.fn = "approve" /\ t.who = "staking"

is_stake(t) == plainCall(t, "staking") /\ t.fn = "stake"

check_pair(first, second) ==
    IF ~(is_staking_approval(first) /\ is_stake(second)) THEN Abstain
    ELSE IF first.amount > second.amount THEN Insecure("R-4.5") ELSE Secure

StakingChecker(t) ==
    LET calls == sub_transactions(t)
        claims == {c \in ToSet(calls) : is_claim(c)}
        remaining == SelectSeq(calls, LAMBDA c : ~is_claim(c))
    IN  IF t.chain # 1 THEN Abstain
        ELSE IF \E c \in claims : c.who # SAFE THEN Insecure("R-4.3")
        ELSE CASE Len(remaining) = 0 -> IF claims # {} THEN Secure ELSE Abstain
               [] Len(remaining) = 1 -> IF is_stake(remaining[1]) THEN Secure ELSE Abstain
               [] Len(remaining) = 2 -> check_pair(remaining[1], remaining[2])
               [] OTHER -> Abstain

----------------------------------------------------------------------------
(* Address poisoning, and the refund that is checked like a transfer.       *)

is_lookalike(established, candidate) ==
    established # candidate /\ Shape[established] = Shape[candidate]

\* The token transfers and approvals of a plain call, and the rule they are
\* checked by.
has_target(t) ==
    /\ t.operation = "Call" /\ t.amount # 0
    /\ \/ t.fn \in {"transfer", "approve"}
       \/ t.fn = "transferFrom" /\ t.token = SAFE

rule(t) == IF t.fn = "approve" THEN "R-4.4" ELSE "R-4.3"

has_refund(t) == t.gasPrice # 0 /\ t.gasToken # ZERO /\ t.refundReceiver # ZERO

\* The transfer that pays the refund; the fields that are not set have their
\* default values.
refund_transfer(t) ==
    [Default EXCEPT !.to = t.gasToken, !.fn = "transfer", !.who = t.refundReceiver,
                    !.amount = saturatingMul(t.gasPrice, t.gas)]

\* Only a denial gets through.
deny_or_abstain(v) == IF v = Secure THEN Abstain ELSE v

NoScan == [active |-> FALSE]

fromBlock == IF Block < Lookback THEN 0 ELSE Block - Lookback

\* block_chunks: the chunk that starts at a block, and the next start.
chunkEnd(start) == IF start + MaxRange < Block THEN start + MaxRange ELSE Block

\* Wrong: the span of a chunk is taken for its number of blocks.
chunkAfterSkips(start) == start + MaxRange + 2

chunkAfter(start) == chunkEnd(start) + 1

\* decode_target_and_amount: zero amounts are no evidence.
targetsIn(token, from, to) ==
    {h.target : h \in {e \in history : e.token = token /\ e.amount # 0 /\ e.block \in from .. to}}

----------------------------------------------------------------------------
(* security_check: the chain of main.rs, up to the first verdict.           *)

\* Wrong: the cheap history check runs ahead of the protocols.
ChainPoisoningFirst ==
    <<"cancellation", "escape_hatch", "base", "blocklist", "nested_safe",
      "address_poisoning", "excessive_approval", "cow", "staking", "refund">>

Chain ==
    <<"cancellation", "escape_hatch", "base", "blocklist", "nested_safe",
      "excessive_approval", "cow", "staking", "refund", "address_poisoning">>

Finished == verdict # Abstain \/ next > Len(Chain)

Runs(name) == ~Finished /\ ~scan.active /\ Chain[next] = name

finish(v) ==
    /\ verdict' = v
    /\ next' = next + 1
    /\ scan' = NoScan
    /\ UNCHANGED <<tx, history>>

check_locally ==
    \/ Runs("cancellation") /\ finish(CancellationChecker(tx)) /\ UNCHANGED failed
    \/ Runs("escape_hatch") /\ finish(EscapeHatchChecker(tx)) /\ UNCHANGED failed
    \/ Runs("base") /\ finish(BaseChecker(tx)) /\ UNCHANGED failed
    \/ Runs("blocklist") /\ finish(BlocklistChecker(tx)) /\ UNCHANGED failed
    \/ Runs("nested_safe") /\ finish(NestedSafeChecker(tx)) /\ UNCHANGED failed
    \/ Runs("excessive_approval") /\ finish(ExcessiveApprovalChecker(tx)) /\ UNCHANGED failed
    \/ Runs("staking") /\ finish(StakingChecker(tx)) /\ UNCHANGED failed

check_cow(response) ==
    /\ Runs("cow")
    /\ finish(CowChecker(tx, response))
    /\ UNCHANGED failed

\* AddressPoisoningChecker::check for a transaction, for its own sake or for
\* the refund's.
check_poisoning(t) ==
    IF has_target(t) /\ t.chain = ProviderChain
    THEN /\ scan' = [active |-> TRUE, token |-> t.to, candidate |-> t.who, rule |-> rule(t),
                     start |-> fromBlock, recipients |-> {}]
         /\ UNCHANGED <<tx, history, next, verdict, failed>>
    ELSE finish(Abstain) /\ UNCHANGED failed

check_address_poisoning == Runs("address_poisoning") /\ check_poisoning(tx)

check_refund ==
    /\ Runs("refund")
    /\ IF has_refund(tx) THEN check_poisoning(refund_transfer(tx))
       ELSE finish(Abstain) /\ UNCHANGED failed

\* The verdict of a scan, as the checker that started it passes it on.
conclude(v) == finish(IF Chain[next] = "refund" THEN deny_or_abstain(v) ELSE v)

\* One request for the events of a chunk.
read_chunk ==
    LET end == chunkEnd(scan.start)
        found == targetsIn(scan.token, scan.start, end)
        recipients == scan.recipients \cup found
    IN  /\ scan.active
        /\ IF scan.candidate \in found THEN conclude(Secure)
           ELSE IF end < Block
           THEN /\ scan' = [scan EXCEPT !.start = chunkAfter(scan.start), !.recipients = recipients]
                /\ UNCHANGED <<tx, history, next, verdict>>
           ELSE conclude(IF \E r \in recipients : is_lookalike(r, scan.candidate)
                         THEN Insecure(scan.rule) ELSE Abstain)
        /\ UNCHANGED failed

\* An incomplete scan abstains, whether it has found addresses or none.
verdictOnFailure == Abstain

fail_chunk ==
    /\ scan.active
    /\ conclude(verdictOnFailure)
    /\ failed' = TRUE

Init ==
    /\ tx \in Transactions
    /\ history \in Histories
    /\ next = 1 /\ verdict = Abstain /\ scan = NoScan /\ failed = FALSE

Next ==
    \/ check_locally
    \/ \E response \in Orders \cup {NoOrder} : check_cow(response)
    \/ check_address_poisoning \/ check_refund
    \/ read_chunk \/ fail_chunk

Spec == Init /\ [][Next]_vars

----------------------------------------------------------------------------
(* Properties *)

\* The calls that the Safe makes, by what the MultiSend contracts do: since
\* version 1.5.0 the zero address stands for the Safe.
Made(t) ==
    IF ~is_multi_send(t) THEN {t}
    ELSE {IF t.to \in {"multiSend150", "multiSendCallOnly150"} /\ c.to = ZERO
          THEN [c EXCEPT !.to = SAFE] ELSE c : c \in ToSet(t.calls)}

\* Batching launders nothing: a transaction that is not denied changes no
\* setting of the Safe that is not allowed and delegates to nobody unknown,
\* in any of the calls that the Safe comes to make.
SettingsGuarded ==
    Finished /\ verdict \notin Rules =>
        \A c \in Made(tx) :
            \/ c.operation = "Call" /\ c.to # SAFE
            \/ c.operation = "Call" /\ c.fn \in {"none"} \cup ESCAPE_HATCH
            \/ c.operation = "Call" /\ check_self_calls(c)
            \/ check_delegate_calls(c)

\* What a call of the transaction takes from an allowance of a token.
Sells(t, token) ==
    LET calls == Made(t)
        orders == {c.order : c \in {d \in calls : is_presignature(d) /\ d.flag}}
    IN  {o.amount : o \in {q \in orders : q.token = token /\ receiver(q) = SAFE}}
        \cup {c.amount * c.n + c.n - 1 :
                c \in {d \in calls : is_twap_create(d) /\ d.token = token /\ d.who \in {SAFE, ZERO}}}

\* The addresses that the Safe really paid or approved in the window.
Established == targetsIn(tx.to, IF Block < Lookback THEN 0 ELSE Block - Lookback, Block)

\* Where the protocols are known, a transaction found secure grants no
\* unlimited approval, and its approvals are backed: the relayer may take
\* what an order of the same transaction sells for the Safe, up to rounding,
\* whatever the order book answers and however often the relayer was paid
\* before; the staking contract may take what is staked in the same batch.
\* An approval of the staking contract that is the whole transaction is
\* checked like any other one: the staking checker abstains, and it is found
\* secure, with nothing staked, exactly because the Safe paid or approved the
\* staking contract before.  (An approval that carries value reverts.)
ApprovalsBacked ==
    verdict = Secure /\ tx.chain = 1 =>
        \A c \in Made(tx) :
            /\ ~(c.fn = "setApprovalForAll" /\ c.flag)
            /\ plainCall(c, c.to) /\ c.fn = "approve" =>
                /\ c.amount < MaxAmount
                /\ c.who = "vaultRelayer" => \E x \in Sells(tx, c.to) : c.amount <= x
                /\ c.who = "staking" /\ c.to = "safeToken" =>
                        \/ \E d \in Made(tx) : is_stake(d) /\ c.amount <= d.amount
                        \/ c = tx /\ c.who \in Established

\* The history check by itself, however the window is cut into chunks and
\* whichever read fails: an address is known only if the Safe paid it in the
\* window, it is denied only if it resembles such an address and is not one
\* itself, and if no read fails nothing in the window escapes it.
ScanExact ==
    next > Len(Chain) /\ has_target(tx) /\ tx.chain = ProviderChain /\ Finished =>
        LET known == tx.who \in Established
            lookalike == \E r \in Established : is_lookalike(r, tx.who)
        IN  /\ verdict = Secure => known
            /\ verdict \in Rules => lookalike /\ ~known
            /\ ~failed => /\ known => verdict = Secure
                          /\ lookalike /\ ~known => verdict = rule(tx)

=============================================================================
