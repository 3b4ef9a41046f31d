-------------------------- MODULE MCSentinelEngine -------------------------
EXTENDS SentinelEngine

Call(to, fn) == [Default EXCEPT !.to = to, !.fn = fn]
Paying(to, fn, who, amount) == [Call(to, fn) EXCEPT !.who = who, !.amount = amount]
Delegated(c) == [c EXCEPT !.operation = "DelegateCall"]
OnChain(c, chain) == [c EXCEPT !.chain = chain]

\* What an order sells; the second pays its proceeds to somebody else.
Order == [owner |-> SAFE, receiver |-> ZERO, token |-> "coin", amount |-> 4]
MCOrders == {Order, [Order EXCEPT !.receiver = "stranger"], [Order EXCEPT !.amount = 6]}

Presign(order, signed) ==
    [Call("settlement", "setPreSignature") EXCEPT !.order = order, !.flag = signed]
Twap(who, token, part, n) ==
    [Paying("composableCow", "createTwap", who, part) EXCEPT !.token = token, !.n = n]

\* Calls that touch the Safe's settings, or reach code in its context.
Sensitive ==
    {Call(SAFE, "none"), Call(SAFE, "garbage"), Call(SAFE, "addOwnerWithThreshold"),
     Call(ZERO, "setGuard"), Paying(ZERO, "setGuard", "stranger", 0),
     Paying(ZERO, "enableModule", "stranger", 0), Call(ZERO, "none"),
     Paying(SAFE, "enableModule", "module", 0), Paying(SAFE, "enableModule", "stranger", 0),
     Delegated(Call("signMessageLib", "signMessage")), Delegated(Call("stranger", "garbage")),
     Delegated(Call("createCall", "garbage"))}

\* Calls of tokens and protocols.
Payments ==
    {Paying("coin", "approve", "vaultRelayer", a) : a \in {4, 5, 6, 7, MaxAmount}}
    \cup {Paying("other", "approve", "vaultRelayer", 4),
          [Paying("coin", "approve", "vaultRelayer", 4) EXCEPT !.value = 1],
          [Call("coin", "setApprovalForAll") EXCEPT !.flag = TRUE],
          Twap(ZERO, "coin", 2, 2), Twap(SAFE, "coin", 2, 3), Twap("stranger", "coin", 2, 2),
          Twap(SAFE, "coin", 8, 2), Twap(SAFE, "coin", 0, 0)}
    \cup {Presign(o, b) : o \in MCOrders, b \in BOOLEAN}
    \cup {Paying("safeToken", "approve", "staking", a) : a \in {2, 3}}
    \cup {Paying("staking", "stake", ZERO, 2),
          Paying("rewardsDistributor", "claim", SAFE, 1),
          Paying("rewardsDistributor", "claim", "stranger", 1)}

Targets ==
    {Paying("coin", fn, who, a) :
        fn \in {"transfer", "approve"}, who \in {"friend", "twin", "stranger"}, a \in {0, 1}}
    \cup {[Paying("coin", "transferFrom", "twin", 1) EXCEPT !.token = from] :
            from \in {SAFE, "stranger"}}

Others ==
    {Call("stranger", "announceTransaction"), Call("nestedSafe", "execTransaction"),
     Call("blocked", "none"), Delegated(Call("migration", "migrateSingleton")),
     [Call("stranger", "announceTransaction") EXCEPT !.value = 1]}

Batch(to, calls) ==
    [Delegated(Call(to, "multiSend")) EXCEPT !.calls = calls]

Pairs(S) == {<<c, d>> : c \in S, d \in S}

\* Every pair of payments, sensitive calls among and after harmless ones, and
\* batches of batches.
Batches ==
    {Batch("multiSend", p) : p \in Pairs(Payments)}
    \cup {Batch(to, p) : to \in DOMAIN DEPLOYMENTS,
            p \in {<<c>> : c \in Sensitive}
                  \cup {<<Paying("rewardsDistributor", "claim", SAFE, 1), c>> : c \in Sensitive}
                  \cup {<<c, Paying("rewardsDistributor", "claim", SAFE, 1)>> : c \in Sensitive}}
    \cup {Batch("multiSend", <<>>),
          Batch("multiSend", <<Batch("multiSend", <<Paying("coin", "approve", "friend", 1)>>)>>),
          Batch("multiSend", <<Paying("safeToken", "approve", "staking", 2),
                Paying("rewardsDistributor", "claim", SAFE, 1), Paying("staking", "stake", ZERO, 2)>>),
          [Batch("multiSend", <<>>) EXCEPT !.operation = "Call"],
          [Batch("multiSend", <<>>) EXCEPT !.fn = "garbage"]}

\* A refund in a token on top of a harmless call.
Refunds ==
    {[Call("stranger", "none") EXCEPT !.gasPrice = 1, !.gas = 2, !.gasToken = token,
                                     !.refundReceiver = who] :
        token \in {ZERO, "coin"}, who \in {"friend", "twin", ZERO}}

MCTransactions ==
    {OnChain(t, 1) : t \in Sensitive \cup Payments \cup Targets \cup Others \cup Batches \cup Refunds}
    \cup {OnChain(t, chain) : chain \in {100, 5}, t \in {Paying("coin", "approve", "vaultRelayer", 4),
            Paying("staking", "stake", ZERO, 2), Paying("coin", "transfer", "twin", 1)}}

\* Payments at the edges of the window and of its chunks, and one of nothing.
Paid(who, amount, block) == [block |-> block, token |-> "coin", target |-> who, amount |-> amount]
Events ==
    {Paid(who, 1, b) : who \in {"friend", "twin"}, b \in {1, 2, 4, 5, 6}}
    \cup {Paid("vaultRelayer", 1, 4), Paid("friend", 0, 4)}
    \cup {[Paid("staking", 1, b) EXCEPT !.token = "safeToken"] : b \in {1, 4}}
MCHistories == {{}} \cup {{e, f} : e \in Events, f \in Events}

MCShape ==
    [who \in {"friend", "twin", "stranger", "vaultRelayer", "staking"} |->
        IF who \in {"friend", "twin"} THEN 0 ELSE IF who = "stranger" THEN 1
        ELSE IF who = "vaultRelayer" THEN 2 ELSE 3]
=============================================================================
