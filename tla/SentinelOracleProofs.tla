------------------------ MODULE SentinelOracleProofs ------------------------
(***************************************************************************)
(* What holds of the oracle for every set of requests, sentinels and       *)
(* governed values.  First, no payout reverts: the bounds of the           *)
(* multipliers are checked where they are scheduled, used when a request   *)
(* is posted and needed when it is ruled on, and the invariant carries     *)
(* them along that way.  Last, where the money is: the pot of a request    *)
(* covers what is owed for it, to the unit but for the remainder of        *)
(* dividing its fee.                                                       *)
(***************************************************************************)
EXTENDS SentinelOracle, FiniteSetTheorems, TLAPS

Values == Fees \cup BondConfigs \cup Shares \cup Receivers

\* Every value that is, or is going to be, in effect passed its check.
ConfigOK ==
    /\ config \in [Params -> [value : Values, pending : Values, activeAt : Nat]]
    /\ \A p \in Params : /\ config[p].value \in Choices(p) /\ valid(p, config[p].value)
                         /\ config[p].pending \in Choices(p) /\ valid(p, config[p].pending)

Record ==
    [state : States, commitDeadline : Nat, revealDeadline : Nat, arbitrationDeadline : Nat,
     bondTarget : Nat, slashAmount : Nat, daoFeeShare : Nat, fee : Int,
     committed : Nat, revealed : Nat, approve : Nat, deny : Nat]

\* One loser of a dispute covers the fee, and a bond covers its slash.
Covered(q) ==
    /\ q.slashAmount <= q.bondTarget
    /\ q.state \in {"PENDING", "FROZEN"} => q.fee <= q.slashAmount
    /\ q.state = "FROZEN" => q.approve > 0 /\ q.deny > 0

RequestsOK ==
    /\ requests \in [Requests -> Record]
    /\ \A r \in Requests : Covered(requests[r])

\* Every bond that was taken is the request's.
BondsOK ==
    /\ commitments \in [Requests -> [Sentinels -> Commitment]]
    /\ \A r \in Requests, s \in Sentinels : commitments[r][s].vote # "NONE" =>
        /\ commitments[r][s].bond = requests[r].bondTarget
        /\ requests[r].state # "NONE"

PayInv == now \in Nat /\ ConfigOK /\ RequestsOK /\ BondsOK

\* A positive factor does not make a number smaller.
LEMMA Multiple == \A a, b \in Nat : b > 0 => a <= a * b
<1> SUFFICES ASSUME NEW a \in Nat, NEW b \in Nat, b > 0 PROVE a <= a * b
  OBVIOUS
<1>1. PICK c \in Nat : b = c + 1
  <2>1. b - 1 \in Nat /\ b = (b - 1) + 1
    OBVIOUS
  <2> QED BY <2>1
<1>2. a * b = a * c + a
  BY <1>1
<1>3. a * c \in Nat
  OBVIOUS
<1> QED BY <1>2, <1>3

\* Multiplication is monotone.
LEMMA Larger == \A a, b, c \in Nat : b <= c => a * b <= a * c
<1> SUFFICES ASSUME NEW a \in Nat, NEW b \in Nat, NEW c \in Nat, b <= c PROVE a * b <= a * c
  OBVIOUS
<1>1. PICK d \in Nat : c = b + d
  <2>1. c - b \in Nat /\ c = b + (c - b)
    OBVIOUS
  <2> QED BY <2>1
<1>2. a * c = a * b + a * d
  BY <1>1
<1>3. a * d \in Nat /\ a * b \in Nat
  OBVIOUS
<1> QED BY <1>2, <1>3

\* What the steps assign to a request or a commitment is one.
LEMMA UpdateOutcome ==
  \A q \in Record, st \in States, f \in Int :
    LET w == [q EXCEPT !.state = st, !.fee = f]
    IN  w \in Record /\ w.bondTarget = q.bondTarget /\ w.slashAmount = q.slashAmount /\ w.state = st
<1> SUFFICES ASSUME NEW q \in Record, NEW st \in States, NEW f \in Int
    PROVE  LET w == [q EXCEPT !.state = st, !.fee = f]
           IN  /\ w \in Record /\ w.bondTarget = q.bondTarget
               /\ w.slashAmount = q.slashAmount /\ w.state = st
  OBVIOUS
<1>1. [q EXCEPT !.state = st, !.fee = f] \in Record
  BY DEF Record
<1> QED BY <1>1 DEF Record

Tallied(q, a, b, c) == [q EXCEPT !.revealed = a, !.approve = b, !.deny = c]

\* Counting a vote changes the counts only.
LEMMA UpdateTally ==
  ASSUME NEW q \in Record, NEW a \in Nat, NEW b \in Nat, NEW c \in Nat
  PROVE  /\ Tallied(q, a, b, c) \in Record
         /\ Tallied(q, a, b, c).bondTarget = q.bondTarget
         /\ Tallied(q, a, b, c).slashAmount = q.slashAmount
         /\ Tallied(q, a, b, c).state = q.state
         /\ Tallied(q, a, b, c).fee = q.fee
<1>1. Tallied(q, a, b, c) \in Record
  BY DEF Record, Tallied
<1> QED BY <1>1 DEF Record, Tallied

Fresh(cd, rd, bt, sa, sh, f) ==
    [NoRequest EXCEPT !.state = "PENDING", !.commitDeadline = cd, !.revealDeadline = rd,
         !.bondTarget = bt, !.slashAmount = sa, !.daoFeeShare = sh, !.fee = f]

\* The record of a request that was just posted.
LEMMA FreshRequest ==
  ASSUME NEW cd \in Nat, NEW rd \in Nat, NEW bt \in Nat, NEW sa \in Nat, NEW sh \in Nat, NEW f \in Int
  PROVE  /\ Fresh(cd, rd, bt, sa, sh, f) \in Record
         /\ Fresh(cd, rd, bt, sa, sh, f).bondTarget = bt
         /\ Fresh(cd, rd, bt, sa, sh, f).slashAmount = sa
         /\ Fresh(cd, rd, bt, sa, sh, f).state = "PENDING"
         /\ Fresh(cd, rd, bt, sa, sh, f).fee = f
<1> DEFINE w == Fresh(cd, rd, bt, sa, sh, f)
<1>1. w = [state |-> "PENDING", commitDeadline |-> cd, revealDeadline |-> rd,
           arbitrationDeadline |-> 0, bondTarget |-> bt, slashAmount |-> sa, daoFeeShare |-> sh,
           fee |-> f, committed |-> 0, revealed |-> 0, approve |-> 0, deny |-> 0]
  <2>1. w = [NoRequest EXCEPT !.state = "PENDING", !.commitDeadline = cd, !.revealDeadline = rd,
                 !.bondTarget = bt, !.slashAmount = sa, !.daoFeeShare = sh, !.fee = f]
    BY DEF Fresh
  <2> HIDE DEF w
  <2> QED BY <2>1 DEF NoRequest
<1>2. "PENDING" \in States
  BY DEF States
<1> QED BY <1>1, <1>2 DEF Record

\* Claiming changes neither bond nor vote.
LEMMA MarkClaimed ==
  \A c \in Commitment :
    LET w == [c EXCEPT !.claimed = TRUE]
    IN  w \in Commitment /\ w.bond = c.bond /\ w.vote = c.vote
  BY DEF Commitment

\* At deployment the configuration is valid and nothing was posted.
LEMMA InitPay == Init => PayInv
<1> SUFFICES ASSUME Init PROVE PayInv
  OBVIOUS
<1> USE DEF Init
<1>1. ConfigOK
  <2>1. PICK fee \in Fees, bond \in BondConfigs, share \in Shares, receiver \in Receivers :
        LET initial == [fee |-> fee, bond |-> bond, share |-> share, receiver |-> receiver]
        IN  /\ \A p \in Params : valid(p, initial[p])
            /\ config = [p \in Params |->
                            [value |-> initial[p], pending |-> initial[p], activeAt |-> 0]]
    OBVIOUS
  <2> DEFINE initial == [fee |-> fee, bond |-> bond, share |-> share, receiver |-> receiver]
  <2>2. \A p \in Params : initial[p] \in Values /\ initial[p] \in Choices(p)
    BY DEF Params, Values, Choices
  <2> QED BY <2>1, <2>2 DEF ConfigOK
<1>2. RequestsOK
  BY DEF RequestsOK, Record, Covered, NoRequest, States
<1>3. BondsOK
  BY DEF BondsOK, Commitment, NoCommitment, Votes
<1> QED BY <1>1, <1>2, <1>3 DEF PayInv

\* The lazily stored values.
LEMMA Applied ==
  ASSUME PayInv, NEW p \in Params
  PROVE  /\ applyPending(config[p]) \in [value : Values, pending : Values, activeAt : Nat]
         /\ applyPending(config[p]).value \in Choices(p) /\ valid(p, applyPending(config[p]).value)
         /\ applyPending(config[p]).pending \in Choices(p) /\ valid(p, applyPending(config[p]).pending)
         /\ current(p) \in Choices(p) /\ valid(p, current(p))
  BY DEF PayInv, ConfigOK, applyPending, current, due

\* Only values that pass their check are scheduled.
LEMMA SchedulePay ==
  ASSUME PayInv, NEW p \in Params, NEW v \in Choices(p), scheduleParam(p, v)
  PROVE  PayInv'
<1>1. v \in Values
  BY DEF Values, Choices, Params
<1>2. now + GovernanceDelay \in Nat
  BY WindowAssumption DEF PayInv
<1>3. ConfigOK'
  <2>1. scheduled(config[p], v) \in [value : Values, pending : Values, activeAt : Nat]
    BY Applied, <1>1, <1>2 DEF scheduled
  <2>2. /\ scheduled(config[p], v).pending = v
        /\ scheduled(config[p], v).value = applyPending(config[p]).value
    BY Applied DEF scheduled
  <2>3. config' = [config EXCEPT ![p] = scheduled(config[p], v)] /\ valid(p, v)
    BY DEF scheduleParam
  <2> QED BY <2>1, <2>2, <2>3, Applied DEF PayInv, ConfigOK, valid
<1> QED BY <1>3 DEF scheduleParam, PayInv, RequestsOK, BondsOK

\* A call that only stores what is due, for the parameters in P.
LEMMA ApplySome ==
  ASSUME PayInv, NEW P \in SUBSET Params,
         config' = [p \in Params |-> IF p \in P THEN applyPending(config[p]) ELSE config[p]]
  PROVE  ConfigOK'
<1>1. ASSUME NEW p \in Params
      PROVE  /\ config'[p] \in [value : Values, pending : Values, activeAt : Nat]
             /\ config'[p].value \in Choices(p) /\ valid(p, config'[p].value)
             /\ config'[p].pending \in Choices(p) /\ valid(p, config'[p].pending)
  BY <1>1, Applied DEF PayInv, ConfigOK
<1>2. DOMAIN config' = Params
  OBVIOUS
<1> QED BY <1>1, <1>2 DEF ConfigOK, valid

\* A request is posted with a slash that covers its fee and a bond that covers its slash.
LEMMA PostPay ==
  ASSUME PayInv, NEW r \in Requests, postRequest(r)
  PROVE  PayInv'
<1> DEFINE fee == current("fee")
           bond == current("bond")
           share == current("share")
           q == requests'[r]
<1>1. /\ fee \in Nat /\ fee > 0
      /\ bond.bond \in Nat /\ bond.slashing \in Nat
      /\ bond.slashing > 0 /\ bond.slashing <= bond.bond
      /\ share \in Nat
  <2>1. fee \in Fees /\ valid("fee", fee)
    BY Applied DEF Params, Choices
  <2>2. bond \in BondConfigs /\ valid("bond", bond)
    BY Applied DEF Params, Choices
  <2>3. share \in Shares
    BY Applied DEF Params, Choices
  <2> QED BY <2>1, <2>2, <2>3, ConfigAssumption DEF valid
<1> HIDE DEF fee, bond, share
<1>2. /\ fee * bond.bond \in Nat
      /\ fee * bond.slashing \in Nat
      /\ fee <= fee * bond.slashing
      /\ fee * bond.slashing <= fee * bond.bond
  BY <1>1, Multiple, Larger
<1>3. requests' = [requests EXCEPT ![r] =
            [NoRequest EXCEPT
                !.state = "PENDING",
                !.commitDeadline = now + CommitWindow,
                !.revealDeadline = now + CommitWindow + RevealWindow,
                !.bondTarget = fee * bond.bond,
                !.slashAmount = fee * bond.slashing,
                !.daoFeeShare = share,
                !.fee = fee]]
  BY DEF postRequest, fee, bond, share
<1> HIDE DEF q
<1>4. /\ q \in Record
      /\ q.state = "PENDING"
      /\ q.fee = fee
      /\ q.slashAmount = fee * bond.slashing
      /\ q.bondTarget = fee * bond.bond
  <2>1. now + CommitWindow \in Nat /\ now + CommitWindow + RevealWindow \in Nat
    BY WindowAssumption DEF PayInv
  <2>2. fee \in Int
    BY <1>1
  <2>3. r \in DOMAIN requests
    BY DEF PayInv, RequestsOK
  <2> DEFINE cd == now + CommitWindow
             rd == now + CommitWindow + RevealWindow
             bt == fee * bond.bond
             sa == fee * bond.slashing
  <2>4. q = Fresh(cd, rd, bt, sa, share, fee)
    BY <1>3, <2>3 DEF q, Fresh
  <2>5. cd \in Nat /\ rd \in Nat /\ bt \in Nat /\ sa \in Nat /\ share \in Nat
    BY <1>1, <1>2, <2>1
  <2> HIDE DEF cd, rd, bt, sa
  <2>6. q \in Record /\ q.bondTarget = bt /\ q.slashAmount = sa /\ q.state = "PENDING" /\ q.fee = fee
    <3>1. /\ Fresh(cd, rd, bt, sa, share, fee) \in Record
          /\ Fresh(cd, rd, bt, sa, share, fee).bondTarget = bt
          /\ Fresh(cd, rd, bt, sa, share, fee).slashAmount = sa
          /\ Fresh(cd, rd, bt, sa, share, fee).state = "PENDING"
          /\ Fresh(cd, rd, bt, sa, share, fee).fee = fee
      BY ONLY <2>2, <2>5, FreshRequest, SMT
    <3> QED BY <2>4, <3>1
  <2> QED BY <2>6 DEF bt, sa
<1>5. RequestsOK'
  <2>1. Covered(q)
    BY <1>2, <1>4 DEF Covered
  <2>2. requests' = [requests EXCEPT ![r] = q]
    BY <1>3 DEF q, PayInv, RequestsOK
  <2> QED BY <1>4, <2>1, <2>2 DEF PayInv, RequestsOK
<1>6. BondsOK'
  <2>1. requests[r].state = "NONE" /\ commitments' = commitments
    BY DEF postRequest
  <2> QED BY <1>3, <2>1 DEF PayInv, BondsOK, RequestsOK
<1>7. ConfigOK'
  <2>1. config' = [p \in Params |->
            IF p \in Params \ {"receiver"} THEN applyPending(config[p]) ELSE config[p]]
    BY DEF postRequest
  <2> QED BY <2>1, ApplySome
<1> QED BY <1>5, <1>6, <1>7 DEF PayInv, postRequest

\* finalize applies a due change of the receiver only.
LEMMA ReceiverOK ==
  ASSUME PayInv, config' = applyReceiver
  PROVE  ConfigOK'
<1>1. config' = [p \in Params |-> IF p \in {"receiver"} THEN applyPending(config[p]) ELSE config[p]]
  BY DEF PayInv, ConfigOK, applyReceiver, Params
<1> QED BY <1>1, ApplySome DEF Params

\* A step that leaves commitments alone and changes one request's state, fee
\* and arbitration deadline.
LEMMA MoveState ==
  ASSUME PayInv, NEW r \in Requests, NEW q \in Record,
         requests' = [requests EXCEPT ![r] = q],
         q.bondTarget = requests[r].bondTarget,
         Covered(q), q.state # "NONE",
         commitments' = commitments
  PROVE  RequestsOK' /\ BondsOK'
<1>1. RequestsOK'
  BY DEF PayInv, RequestsOK
<1>2. BondsOK'
  BY DEF PayInv, RequestsOK, BondsOK
<1> QED BY <1>1, <1>2

\* A commitment bonds exactly what its request asks for.
LEMMA CommitPay ==
  ASSUME PayInv, NEW r \in Requests, NEW s \in Sentinels, NEW hash \in Hashes, commit(r, s, hash)
  PROVE  PayInv'
<1>1. requests' = [requests EXCEPT ![r].committed = @ + 1] /\ requests[r].state = "PENDING"
  BY DEF commit
<1>2. requests[r] \in Record /\ Covered(requests[r])
  BY DEF PayInv, RequestsOK
<1>3. RequestsOK'
  BY <1>1, <1>2 DEF PayInv, RequestsOK, Record, Covered
<1> DEFINE c == [hash |-> hash, bond |-> requests[r].bondTarget, vote |-> "PENDING", claimed |-> FALSE]
<1>4. c \in Commitment /\ c.bond = requests[r].bondTarget
  BY <1>2 DEF Commitment, Votes, Record
<1>5. commitments' = [commitments EXCEPT ![r] = [commitments[r] EXCEPT ![s] = c]]
  BY DEF commit, PayInv, BondsOK
<1> HIDE DEF c
<1>6. commitments' \in [Requests -> [Sentinels -> Commitment]]
  BY <1>4, <1>5 DEF PayInv, BondsOK
<1>7. \A t \in Requests : requests'[t].bondTarget = requests[t].bondTarget
                          /\ requests'[t].state = requests[t].state
  BY <1>1, <1>2 DEF PayInv, RequestsOK, Record
<1>8. BondsOK'
  BY <1>1, <1>4, <1>5, <1>6, <1>7 DEF PayInv, BondsOK
<1> QED BY <1>3, <1>8 DEF PayInv, commit, ConfigOK

\* A reveal moves one vote from silent to one of the sides.
LEMMA RevealPay ==
  ASSUME PayInv, NEW r \in Requests, NEW s \in Sentinels, NEW approve \in BOOLEAN,
         reveal(r, s, approve)
  PROVE  PayInv'
<1> DEFINE q == requests[r]
           yes == IF approve THEN q.approve + 1 ELSE q.approve
           no == IF approve THEN q.deny ELSE q.deny + 1
           w == [q EXCEPT !.revealed = q.revealed + 1, !.approve = yes, !.deny = no]
           vote == IF approve THEN "APPROVED" ELSE "DENIED"
<1>1. q \in Record /\ Covered(q) /\ q.state = "PENDING"
  BY DEF PayInv, RequestsOK, reveal
<1>2. requests' = [requests EXCEPT ![r] = w]
  BY <1>1 DEF reveal, Record
<1>3. w \in Record /\ w.state = "PENDING" /\ w.bondTarget = q.bondTarget
      /\ w.slashAmount = q.slashAmount /\ w.fee = q.fee
  <2> DEFINE more == q.revealed + 1
  <2>1. more \in Nat /\ yes \in Nat /\ no \in Nat
    BY <1>1 DEF Record
  <2> HIDE DEF q, yes, no, more
  <2>2. w = Tallied(q, more, yes, no)
    BY DEF more, Tallied
  <2> HIDE DEF w
  <2>3. /\ Tallied(q, more, yes, no) \in Record
        /\ Tallied(q, more, yes, no).bondTarget = q.bondTarget
        /\ Tallied(q, more, yes, no).slashAmount = q.slashAmount
        /\ Tallied(q, more, yes, no).state = q.state
        /\ Tallied(q, more, yes, no).fee = q.fee
    BY <1>1, <2>1, UpdateTally, Zenon
  <2> QED BY <1>1, <2>2, <2>3
<1>4. Covered(w)
  BY <1>1, <1>3 DEF Covered
<1> HIDE DEF w
<1>5. RequestsOK'
  BY <1>2, <1>3, <1>4 DEF PayInv, RequestsOK
<1>6. commitments' = [commitments EXCEPT ![r][s].vote = vote]
  BY DEF reveal
<1>7. vote \in Votes /\ vote # "NONE"
  BY DEF Votes
<1> HIDE DEF vote
<1>8. commitments[r][s] \in Commitment /\ commitments[r][s].vote # "NONE"
  BY DEF PayInv, BondsOK, reveal
<1>9. commitments' \in [Requests -> [Sentinels -> Commitment]]
  BY <1>6, <1>7, <1>8 DEF PayInv, BondsOK, Commitment
<1>10. \A t \in Requests, u \in Sentinels :
         /\ commitments'[t][u].bond = commitments[t][u].bond
         /\ commitments'[t][u].vote # "NONE" => commitments[t][u].vote # "NONE"
  BY <1>6, <1>8 DEF PayInv, BondsOK, Commitment
<1>11. \A t \in Requests : requests'[t].bondTarget = requests[t].bondTarget
                           /\ (requests[t].state # "NONE" => requests'[t].state # "NONE")
  BY <1>2, <1>3 DEF PayInv, RequestsOK
<1>12. BondsOK'
  BY <1>9, <1>10, <1>11 DEF PayInv, BondsOK
<1> QED BY <1>5, <1>12 DEF PayInv, reveal, ConfigOK

\* A claim changes no terms.
LEMMA ClaimPay ==
  ASSUME PayInv, NEW r \in Requests, NEW s \in Sentinels, claim(r, s)
  PROVE  PayInv'
<1>1. commitments' = [commitments EXCEPT ![r][s].claimed = TRUE]
  BY DEF claim
<1> DEFINE c == [commitments[r][s] EXCEPT !.claimed = TRUE]
<1>5. c \in Commitment
  BY MarkClaimed DEF PayInv, BondsOK
<1>6. commitments' = [commitments EXCEPT ![r] = [commitments[r] EXCEPT ![s] = c]]
  BY <1>1 DEF PayInv, BondsOK
<1> HIDE DEF c
<1>2. commitments' \in [Requests -> [Sentinels -> Commitment]]
  BY <1>5, <1>6 DEF PayInv, BondsOK
<1>3. \A t \in Requests, u \in Sentinels :
         /\ commitments'[t][u].bond = commitments[t][u].bond
         /\ commitments'[t][u].vote = commitments[t][u].vote
  BY <1>1 DEF PayInv, BondsOK, Commitment
<1> QED BY <1>2, <1>3 DEF PayInv, BondsOK, claim, ConfigOK, RequestsOK

\* The share of the fee that is cut is an integer.
LEMMA CutIsInteger == \A q \in Record : daoCut(q) \in Int
  BY ConfigAssumption DEF Record, daoCut

\* A request is frozen only with a vote on each side.
LEMMA FinalizePay ==
  ASSUME PayInv, NEW r \in Requests, finalize(r)
  PROVE  PayInv'
<1> DEFINE q == requests[r]
<1>1. q \in Record /\ Covered(q)
  BY DEF PayInv, RequestsOK
<1>2. config' = applyReceiver /\ commitments' = commitments /\ now' = now
  BY DEF finalize, finalizeAgreed, finalizeDisputed, finalizeUnanswered
<1>3. ConfigOK'
  BY <1>2, ReceiverOK
<1>4. RequestsOK' /\ BondsOK'
  <2>1. CASE finalizeAgreed(r)
    <3> DEFINE outcome == IF q.approve > 0 THEN "RESOLVED_APPROVED" ELSE "RESOLVED_DENIED"
               w == [q EXCEPT !.state = outcome, !.fee = q.fee - daoCut(q)]
    <3>1. requests' = [requests EXCEPT ![r] = w]
      BY <2>1 DEF finalizeAgreed, PayInv, RequestsOK, Record
    <3>2. outcome \in States /\ outcome \notin {"PENDING", "FROZEN", "NONE"}
      BY DEF States
    <3> HIDE DEF outcome
    <3>3. /\ w \in Record /\ w.bondTarget = q.bondTarget /\ w.slashAmount = q.slashAmount
          /\ w.state = outcome
      <4>1. q.fee - daoCut(q) \in Int
        BY <1>1, CutIsInteger DEF Record
      <4> HIDE DEF q
      <4> QED BY <1>1, <3>2, <4>1, UpdateOutcome
    <3>4. Covered(w)
      BY <1>1, <3>2, <3>3 DEF Covered
    <3> HIDE DEF w
    <3> QED BY <1>2, <3>1, <3>2, <3>3, <3>4, MoveState
  <2>2. CASE finalizeDisputed(r)
    <3> DEFINE w == [q EXCEPT !.state = "FROZEN", !.arbitrationDeadline = now + ArbitrationTimeout]
    <3>1. requests' = [requests EXCEPT ![r] = w]
      BY <2>2 DEF finalizeDisputed, PayInv, RequestsOK, Record
    <3>2. now + ArbitrationTimeout \in Nat
      BY WindowAssumption DEF PayInv
    <3>3. /\ w \in Record /\ w.bondTarget = q.bondTarget /\ w.slashAmount = q.slashAmount
          /\ w.fee = q.fee /\ w.approve = q.approve /\ w.deny = q.deny /\ w.state = "FROZEN"
      BY <1>1, <3>2 DEF Record, States
    <3>4. Covered(w)
      BY <1>1, <2>2, <3>3 DEF Covered, finalizeDisputed, disputed
    <3> HIDE DEF w
    <3> QED BY <1>2, <3>1, <3>3, <3>4, MoveState
  <2>3. CASE finalizeUnanswered(r)
    <3> DEFINE w == [q EXCEPT !.state = "TIMED_OUT", !.fee = 0]
    <3>1. requests' = [requests EXCEPT ![r] = w]
      BY <2>3 DEF finalizeUnanswered, PayInv, RequestsOK, Record
    <3>2. /\ w \in Record /\ w.bondTarget = q.bondTarget /\ w.slashAmount = q.slashAmount
          /\ w.state = "TIMED_OUT"
      <4>1. "TIMED_OUT" \in States /\ 0 \in Int
        BY DEF States
      <4> HIDE DEF q
      <4> QED BY <1>1, <4>1, UpdateOutcome
    <3>3. Covered(w)
      BY <1>1, <3>2 DEF Covered
    <3> HIDE DEF w
    <3> QED BY <1>2, <3>1, <3>2, <3>3, MoveState
  <2> QED BY <2>1, <2>2, <2>3 DEF finalize
<1> QED BY <1>2, <1>3, <1>4 DEF PayInv

\* A ruling pays and closes the request.
LEMMA ResolvePay ==
  ASSUME PayInv, NEW r \in Requests, NEW wins \in BOOLEAN, resolveDispute(r, wins)
  PROVE  PayInv'
<1> DEFINE q == requests[r]
           outcome == IF wins THEN "RESOLVED_APPROVED" ELSE "RESOLVED_DENIED"
           w == [q EXCEPT !.state = outcome, !.fee = q.fee - daoCut(q)]
<1>1. q \in Record /\ Covered(q)
  BY DEF PayInv, RequestsOK
<1>2. config' = applyReceiver /\ commitments' = commitments /\ now' = now
  BY DEF resolveDispute
<1>3. ConfigOK'
  BY <1>2, ReceiverOK
<1>4. requests' = [requests EXCEPT ![r] = w]
  BY DEF resolveDispute, PayInv, RequestsOK, Record
<1>5. outcome \in States /\ outcome \notin {"PENDING", "FROZEN", "NONE"}
  BY DEF States
<1> HIDE DEF outcome
<1>6. /\ w \in Record /\ w.bondTarget = q.bondTarget /\ w.slashAmount = q.slashAmount
      /\ w.state = outcome
  <2>1. q.fee - daoCut(q) \in Int
    BY <1>1, CutIsInteger DEF Record
  <2> HIDE DEF q
  <2> QED BY <1>1, <1>5, <2>1, UpdateOutcome
<1>7. Covered(w)
  BY <1>1, <1>5, <1>6 DEF Covered
<1> HIDE DEF w
<1>8. RequestsOK' /\ BondsOK'
  BY <1>2, <1>4, <1>5, <1>6, <1>7, MoveState
<1> QED BY <1>2, <1>3, <1>8 DEF PayInv

\* A ruling of neither side closes the request.
LEMMA OutOfScopePay ==
  ASSUME PayInv, NEW r \in Requests, outOfScope(r)
  PROVE  PayInv'
<1> DEFINE q == requests[r]
           w == [q EXCEPT !.state = "TIMED_OUT", !.fee = 0]
<1>1. q \in Record /\ Covered(q)
  BY DEF PayInv, RequestsOK
<1>2. requests' = [requests EXCEPT ![r] = w]
  BY DEF outOfScope, PayInv, RequestsOK, Record
<1>3. /\ w \in Record /\ w.bondTarget = q.bondTarget /\ w.slashAmount = q.slashAmount
      /\ w.state = "TIMED_OUT"
  <2>1. "TIMED_OUT" \in States /\ 0 \in Int
    BY DEF States
  <2> HIDE DEF q
  <2> QED BY <1>1, <2>1, UpdateOutcome
<1>4. Covered(w)
  BY <1>1, <1>3 DEF Covered
<1> HIDE DEF w
<1>5. RequestsOK' /\ BondsOK'
  BY <1>2, <1>3, <1>4, MoveState DEF outOfScope
<1> QED BY <1>5 DEF PayInv, outOfScope, ConfigOK

\* Every transaction preserves the invariant.
LEMMA NextPay == PayInv /\ [Next]_vars => PayInv'
<1> SUFFICES ASSUME PayInv, [Next]_vars PROVE PayInv'
  OBVIOUS
<1>1. CASE tick
  BY <1>1 DEF tick, PayInv, ConfigOK, RequestsOK, BondsOK
<1>2. CASE Governance
  <2>1. ASSUME NEW p \in Params, applyParam(p) PROVE PayInv'
    <3>1. config' = [t \in Params |-> IF t \in {p} THEN applyPending(config[t]) ELSE config[t]]
      BY <2>1 DEF applyParam, PayInv, ConfigOK
    <3>2. ConfigOK'
      BY <3>1, ApplySome
    <3> QED BY <2>1, <3>2 DEF applyParam, PayInv, RequestsOK, BondsOK
  <2>2. ASSUME NEW p \in Params, NEW v \in Choices(p), scheduleParam(p, v) PROVE PayInv'
    BY <2>2, SchedulePay
  <2>3. ASSUME NEW s \in Sentinels, addSentinel(s) \/ removeSentinel(s) PROVE PayInv'
    BY <2>3 DEF addSentinel, removeSentinel, PayInv, ConfigOK, RequestsOK, BondsOK
  <2>4. Governed \subseteq Params
    BY ConfigAssumption DEF Params
  <2> QED BY <1>2, <2>1, <2>2, <2>3, <2>4 DEF Governance
<1>3. CASE Voting
  BY <1>3, PostPay, CommitPay, RevealPay, ClaimPay, FinalizePay DEF Voting
<1>4. CASE Arbitration
  BY <1>4, ResolvePay, OutOfScopePay DEF Arbitration, markOutOfScope, timeoutArbitration
<1>5. CASE UNCHANGED vars
  BY <1>5 DEF vars, PayInv, ConfigOK, RequestsOK, BondsOK
<1> QED BY <1>1, <1>2, <1>3, <1>4, <1>5 DEF Next

\* Under the invariant no payout underflows.
LEMMA PayInvSuffices == PayInv => PayoutsNeverRevert
<1> SUFFICES ASSUME PayInv, NEW r \in Requests
             PROVE  /\ requests[r].state = "FROZEN" =>
                        \A wins \in BOOLEAN : slashedBy(requests[r], wins) >= requests[r].fee
                    /\ requests[r].state \in Resolved \cup {"TIMED_OUT"} =>
                        \A s \in Committers(r) : bondReturn(requests[r], commitments[r][s]) >= 0
  BY DEF PayoutsNeverRevert
<1> DEFINE q == requests[r]
<1>1. q \in Record /\ Covered(q)
  BY DEF PayInv, RequestsOK
<1> HIDE DEF q
<1>2. ASSUME q.state = "FROZEN", NEW wins \in BOOLEAN
      PROVE  slashedBy(q, wins) >= q.fee
  <2> DEFINE n == IF wins THEN q.deny ELSE q.approve
  <2>1. n \in Nat /\ n > 0 /\ q.slashAmount \in Nat /\ q.fee \in Int /\ q.fee <= q.slashAmount
    BY <1>1, <1>2 DEF Record, Covered
  <2>2. slashedBy(q, wins) = n * q.slashAmount
    BY DEF slashedBy
  <2> HIDE DEF n
  <2>3. q.slashAmount <= q.slashAmount * n /\ n * q.slashAmount = q.slashAmount * n
        /\ n * q.slashAmount \in Nat
    BY <2>1, Multiple
  <2> QED BY <2>1, <2>2, <2>3
<1>3. ASSUME NEW s \in Committers(r)
      PROVE  bondReturn(q, commitments[r][s]) >= 0
  <2>1. commitments[r][s].bond = q.bondTarget
    BY DEF q, PayInv, BondsOK, Committers
  <2>2. slashAmountFor(q, commitments[r][s].vote) \in {0, q.slashAmount}
    BY DEF slashAmountFor
  <2> QED BY <1>1, <2>1, <2>2 DEF bondReturn, Record, Covered
<1> QED BY <1>2, <1>3 DEF q

\* resolveDispute and claim never fail in their checked subtractions: every
\* dispute can be ruled on either way and every bond can be claimed, for all
\* multipliers that BondConfig accepts.
THEOREM PayoutsGoThrough == Spec => []PayoutsNeverRevert
<1> QED BY InitPay, NextPay, PayInvSuffices, PTL DEF Spec
----------------------------------------------------------------------------
(* Delayed values                                                          *)

CurrentOf(c) == IF due(c) THEN c.pending ELSE c.value

\* Storing a due value, or scheduling another, leaves what is read as it is.
LEMMA StoringKeepsCurrent ==
  ASSUME PayInv, GovernanceDelay > 0, now' = now, NEW p \in Params, NEW v \in Choices(p)
  PROVE  /\ CurrentOf(applyPending(config[p])) = CurrentOf(config[p])
         /\ CurrentOf(scheduled(config[p], v)) = CurrentOf(config[p])
<1> DEFINE c == config[p]
           a == applyPending(c)
           w == scheduled(c, v)
<1>1. c \in [value : Values, pending : Values, activeAt : Nat] /\ now \in Nat
  BY DEF PayInv, ConfigOK
<1>2. a \in [value : Values, pending : Values, activeAt : Nat]
  BY Applied
<1>3. CurrentOf(a) = CurrentOf(c) /\ a.value = CurrentOf(c)
  BY <1>1 DEF CurrentOf, applyPending, due
<1>4. w = [a EXCEPT !.pending = v, !.activeAt = now + GovernanceDelay]
  BY DEF scheduled
<1> HIDE DEF a
<1>5. w.value = a.value /\ w.activeAt = now + GovernanceDelay
  BY <1>2, <1>4
<1>6. ~ due(w)
  BY <1>1, <1>5, WindowAssumption DEF due
<1> HIDE DEF w
<1>7. CurrentOf(w) = CurrentOf(c)
  BY <1>3, <1>5, <1>6 DEF CurrentOf
<1> QED BY <1>3, <1>7 DEF a, w

\* What a step of somebody may store: nothing, what is due, or a schedule.
LEMMA StepsStore ==
  ASSUME PayInv, Next, now' = now, NEW p \in Params
  PROVE  \/ config'[p] = config[p]
         \/ config'[p] = applyPending(config[p])
         \/ \E v \in Choices(p) : config'[p] = scheduled(config[p], v)
<1>0. DOMAIN config = Params /\ now \in Nat
  BY DEF PayInv, ConfigOK
<1>1. CASE tick
  BY <1>0, <1>1 DEF tick
<1>2. CASE Governance
  <2>1. ASSUME NEW t \in Governed, applyParam(t) PROVE config'[p] \in {config[p], applyPending(config[p])}
    BY <1>0, <2>1 DEF applyParam
  <2>2. ASSUME NEW t \in Governed, NEW v \in Choices(t), scheduleParam(t, v)
        PROVE  config'[p] = config[p] \/ \E u \in Choices(p) : config'[p] = scheduled(config[p], u)
    <3>1. CASE t = p
      BY <1>0, <2>2, <3>1 DEF scheduleParam
    <3>2. CASE t # p
      BY <1>0, <2>2, <3>2 DEF scheduleParam
    <3> QED BY <3>1, <3>2
  <2>3. ASSUME NEW s \in Sentinels, addSentinel(s) \/ removeSentinel(s) PROVE config' = config
    BY <2>3 DEF addSentinel, removeSentinel
  <2> QED BY <1>2, <2>1, <2>2, <2>3 DEF Governance
<1>3. CASE Voting
  <2>1. ASSUME NEW r \in Requests, postRequest(r)
        PROVE  config'[p] \in {config[p], applyPending(config[p])}
    BY <2>1 DEF postRequest
  <2>2. ASSUME NEW r \in Requests, finalize(r)
        PROVE  config'[p] \in {config[p], applyPending(config[p])}
    BY <1>0, <2>2 DEF finalize, finalizeAgreed, finalizeDisputed, finalizeUnanswered, applyReceiver
  <2>3. ASSUME NEW r \in Requests, NEW s \in Sentinels,
               \/ \E hash \in Hashes : commit(r, s, hash)
               \/ \E approve \in BOOLEAN : reveal(r, s, approve)
               \/ claim(r, s)
        PROVE  config' = config
    BY <2>3 DEF commit, reveal, claim
  <2> QED BY <1>3, <2>1, <2>2, <2>3 DEF Voting
<1>4. CASE Arbitration
  BY <1>0, <1>4 DEF Arbitration, resolveDispute, markOutOfScope, timeoutArbitration, outOfScope, applyReceiver
<1> QED BY <1>1, <1>2, <1>3, <1>4 DEF Next

\* Within a block no transaction changes a value in force.
LEMMA CurrentKept ==
  ASSUME PayInv, [Next]_vars
  PROVE  GovernanceDelay > 0 /\ now' = now => \A p \in Params : current(p)' = current(p)
<1> SUFFICES ASSUME GovernanceDelay > 0, now' = now, NEW p \in Params
             PROVE  current(p)' = current(p)
  OBVIOUS
<1>1. current(p) = CurrentOf(config[p])
  BY DEF current, CurrentOf
<1>2. current(p)' = CurrentOf(config'[p])
  BY DEF current, CurrentOf, due
<1>3. CASE UNCHANGED vars
  BY <1>1, <1>2, <1>3 DEF vars
<1>4. CASE Next
  <2>1. CASE config'[p] = config[p]
    BY <1>1, <1>2, <2>1
  <2>2. CASE config'[p] = applyPending(config[p])
    <3>1. config[p].value \in Choices(p)
      BY DEF PayInv, ConfigOK
    <3> QED BY <1>1, <1>2, <2>2, <3>1, StoringKeepsCurrent
  <2>3. CASE \E v \in Choices(p) : config'[p] = scheduled(config[p], v)
    BY <1>1, <1>2, <2>3, StoringKeepsCurrent
  <2> QED BY <1>4, <2>1, <2>2, <2>3, StepsStore
<1> QED BY <1>3, <1>4

\* The delayed values change for their readers as blocks go by and never
\* with a transaction, although due values are stored by whoever comes next.
THEOREM ChangesTakeEffectByTime == Spec => EffectiveByTime
<1>1. PayInv /\ [Next]_vars =>
        [GovernanceDelay > 0 /\ now' = now => \A p \in Params : current(p)' = current(p)]_vars
  BY CurrentKept
<1> QED BY <1>1, InitPay, NextPay, PTL DEF Spec, EffectiveByTime
----------------------------------------------------------------------------
(* Outcomes                                                                *)

Outcomes == {"None", "Approved", "Rejected"}

\* The tallies of a request count no vote that was not revealed, and miss
\* none; a vote that was revealed cannot be committed to again.
TallyOK(r) ==
    /\ requests[r].approve > 0 <=> \E s \in Sentinels : commitments[r][s].vote = "APPROVED"
    /\ requests[r].deny > 0 <=> \E s \in Sentinels : commitments[r][s].vote = "DENIED"
    /\ \A s \in Sentinels :
        commitments[r][s].vote \in {"APPROVED", "DENIED"} => commitments[r][s].hash # "Zero"

\* An outcome is announced after the last reveal, by the tallies.
ResultOK(r) ==
    /\ result[r] # "None" => requests[r].state \notin {"NONE", "PENDING"}
    /\ result[r] = "Approved" => requests[r].approve > 0 /\ ~(requests[r].deny > 0)
    /\ result[r] = "Rejected" => requests[r].deny > 0 /\ ~(requests[r].approve > 0)

VoteInv ==
    /\ PayInv
    /\ result \in [Requests -> Outcomes]
    /\ \A r \in Requests : TallyOK(r) /\ ResultOK(r)

\* At deployment nobody voted and nothing was announced.
LEMMA InitVote == Init => VoteInv
<1> SUFFICES ASSUME Init PROVE VoteInv
  OBVIOUS
<1>1. PayInv
  BY InitPay
<1>2. result \in [Requests -> Outcomes]
  BY DEF Init, Outcomes
<1>3. ASSUME NEW r \in Requests PROVE TallyOK(r) /\ ResultOK(r)
  <2>1. requests[r] = NoRequest /\ result[r] = "None"
        /\ \A s \in Sentinels : commitments[r][s] = NoCommitment
    BY <1>3 DEF Init
  <2> QED BY <2>1 DEF TallyOK, ResultOK, NoRequest, NoCommitment
<1> QED BY <1>1, <1>2, <1>3 DEF VoteInv

\* Steps that neither count nor reveal a vote and announce no outcome.
LEMMA VotesKept ==
  ASSUME VoteInv, PayInv', result' = result,
         \A r \in Requests :
            /\ requests'[r].approve = requests[r].approve
            /\ requests'[r].deny = requests[r].deny
            /\ requests[r].state \notin {"NONE", "PENDING"} =>
                    requests'[r].state \notin {"NONE", "PENDING"},
         \A r \in Requests, s \in Sentinels :
            /\ commitments'[r][s].vote = commitments[r][s].vote
            /\ commitments'[r][s].hash = commitments[r][s].hash
  PROVE  VoteInv'
<1>1. ASSUME NEW r \in Requests PROVE TallyOK(r)' /\ ResultOK(r)'
  BY <1>1 DEF VoteInv, TallyOK, ResultOK
<1> QED BY <1>1 DEF VoteInv

\* A new request starts without votes.
LEMMA PostVote ==
  ASSUME VoteInv, PayInv', NEW r \in Requests, postRequest(r)
  PROVE  VoteInv'
<1>1. /\ requests[r].state = "NONE"
      /\ result' = result /\ commitments' = commitments
      /\ \A t \in Requests \ {r} : requests'[t] = requests[t]
  BY DEF postRequest, VoteInv, PayInv, RequestsOK
<1>2. requests'[r].approve = 0 /\ requests'[r].deny = 0
  <2>1. PICK cd, rd, bt, sa, sh, f : requests'[r] = Fresh(cd, rd, bt, sa, sh, f)
    BY DEF postRequest, VoteInv, PayInv, RequestsOK, Fresh
  <2> QED BY <2>1 DEF Fresh, NoRequest
<1>3. \A s \in Sentinels : commitments[r][s].vote = "NONE"
  BY <1>1 DEF VoteInv, PayInv, BondsOK
<1>4. result[r] = "None"
  BY <1>1 DEF VoteInv, ResultOK
<1>5. TallyOK(r)' /\ ResultOK(r)'
  BY <1>1, <1>2, <1>3, <1>4 DEF TallyOK, ResultOK
<1>6. ASSUME NEW t \in Requests \ {r} PROVE TallyOK(t)' /\ ResultOK(t)'
  BY <1>1, <1>6 DEF VoteInv, TallyOK, ResultOK
<1> QED BY <1>1, <1>5, <1>6 DEF VoteInv

\* A sealed vote is not counted, and replaces none that was revealed.
LEMMA CommitVote ==
  ASSUME VoteInv, PayInv', NEW r \in Requests, NEW s \in Sentinels, NEW hash \in Hashes,
         commit(r, s, hash)
  PROVE  VoteInv'
<1> DEFINE c == [hash |-> hash, bond |-> requests[r].bondTarget, vote |-> "PENDING", claimed |-> FALSE]
<1>1. /\ commitments[r][s].hash = "Zero"
      /\ result' = result
      /\ commitments' = [commitments EXCEPT ![r] = [commitments[r] EXCEPT ![s] = c]]
  BY DEF commit, VoteInv, PayInv, BondsOK
<1>2. \A t \in Requests : /\ requests'[t].approve = requests[t].approve
                          /\ requests'[t].deny = requests[t].deny
                          /\ requests'[t].state = requests[t].state
  BY DEF commit, VoteInv, PayInv, RequestsOK, Record
<1>3. c.vote = "PENDING"
  OBVIOUS
<1> HIDE DEF c
<1>4. \A t \in Requests, u \in Sentinels :
        commitments'[t][u] = IF t = r /\ u = s THEN c ELSE commitments[t][u]
  BY <1>1 DEF VoteInv, PayInv, BondsOK
<1>5. commitments[r][s].vote \notin {"APPROVED", "DENIED"}
  BY <1>1 DEF VoteInv, TallyOK
<1>6. ASSUME NEW t \in Requests PROVE TallyOK(t)'
  <2>1. TallyOK(t)
    BY <1>6 DEF VoteInv
  <2>2. \A u \in Sentinels, vote \in {"APPROVED", "DENIED"} :
            /\ commitments'[t][u].vote = vote <=> commitments[t][u].vote = vote
            /\ commitments'[t][u].vote = vote => commitments'[t][u].hash = commitments[t][u].hash
    BY <1>3, <1>4, <1>5, <1>6
  <2> QED BY <1>2, <1>6, <2>1, <2>2 DEF TallyOK
<1>7. ASSUME NEW t \in Requests PROVE ResultOK(t)'
  BY <1>1, <1>2, <1>7 DEF VoteInv, ResultOK
<1> QED BY <1>1, <1>6, <1>7 DEF VoteInv

\* A revealed vote is counted on its side.
LEMMA RevealVote ==
  ASSUME VoteInv, PayInv', NEW r \in Requests, NEW s \in Sentinels, NEW approve \in BOOLEAN,
         reveal(r, s, approve)
  PROVE  VoteInv'
<1> DEFINE q == requests[r]
           vote == IF approve THEN "APPROVED" ELSE "DENIED"
<1>1. /\ q.state = "PENDING" /\ q.approve \in Nat /\ q.deny \in Nat
      /\ commitments[r][s].vote = "PENDING" /\ commitments[r][s].hash # "Zero"
      /\ result' = result
      /\ commitments' = [commitments EXCEPT ![r][s].vote = vote]
      /\ \A t \in Requests \ {r} : requests'[t] = requests[t]
  BY DEF reveal, VoteInv, PayInv, RequestsOK, Record
<1>2. /\ requests'[r].approve = IF approve THEN q.approve + 1 ELSE q.approve
      /\ requests'[r].deny = IF approve THEN q.deny ELSE q.deny + 1
  BY DEF reveal, VoteInv, PayInv, RequestsOK, Record
<1>3. \A t \in Requests, u \in Sentinels :
        /\ commitments'[t][u].hash = commitments[t][u].hash
        /\ commitments'[t][u].vote = IF t = r /\ u = s THEN vote ELSE commitments[t][u].vote
  BY <1>1 DEF VoteInv, PayInv, BondsOK, Commitment
<1>4. TallyOK(r)
  BY DEF VoteInv
<1>5. TallyOK(r)'
  <2>1. requests'[r].approve > 0 <=> \E u \in Sentinels : commitments'[r][u].vote = "APPROVED"
    BY <1>1, <1>2, <1>3, <1>4 DEF TallyOK
  <2>2. requests'[r].deny > 0 <=> \E u \in Sentinels : commitments'[r][u].vote = "DENIED"
    BY <1>1, <1>2, <1>3, <1>4 DEF TallyOK
  <2>3. \A u \in Sentinels :
          commitments'[r][u].vote \in {"APPROVED", "DENIED"} => commitments'[r][u].hash # "Zero"
    BY <1>1, <1>3, <1>4 DEF TallyOK
  <2> QED BY <2>1, <2>2, <2>3 DEF TallyOK
<1>6. result[r] = "None"
  BY <1>1 DEF VoteInv, ResultOK
<1>7. ResultOK(r)'
  BY <1>1, <1>6 DEF ResultOK
<1>8. ASSUME NEW t \in Requests \ {r} PROVE TallyOK(t)' /\ ResultOK(t)'
  BY <1>1, <1>3, <1>8 DEF VoteInv, TallyOK, ResultOK
<1> QED BY <1>1, <1>5, <1>7, <1>8 DEF VoteInv

\* The only step that announces an outcome: all revealed votes agree.
LEMMA AgreedVote ==
  ASSUME VoteInv, PayInv', NEW r \in Requests, finalizeAgreed(r)
  PROVE  VoteInv'
<1> DEFINE q == requests[r]
           outcome == IF q.approve > 0 THEN "Approved" ELSE "Rejected"
<1>1. /\ commitments' = commitments
      /\ result' = [result EXCEPT ![r] = outcome]
      /\ q.approve > 0 \/ q.deny > 0
      /\ ~(q.approve > 0 /\ q.deny > 0)
  BY DEF finalizeAgreed, disputed
<1>2. \A t \in Requests : /\ requests'[t].approve = requests[t].approve
                          /\ requests'[t].deny = requests[t].deny
                          /\ t # r => requests'[t].state = requests[t].state
  BY DEF finalizeAgreed, VoteInv, PayInv, RequestsOK, Record
<1>3. requests'[r].state \notin {"NONE", "PENDING"}
  BY DEF finalizeAgreed, VoteInv, PayInv, RequestsOK, Record
<1>4. result' \in [Requests -> Outcomes]
  BY <1>1 DEF VoteInv, Outcomes
<1>5. ASSUME NEW t \in Requests PROVE TallyOK(t)'
  BY <1>1, <1>2, <1>5 DEF VoteInv, TallyOK
<1>6. ASSUME NEW t \in Requests PROVE ResultOK(t)'
  <2>1. CASE t = r
    BY <1>1, <1>2, <1>3, <2>1 DEF VoteInv, ResultOK
  <2>2. CASE t # r
    BY <1>1, <1>2, <1>6, <2>2 DEF VoteInv, ResultOK
  <2> QED BY <2>1, <2>2
<1> QED BY <1>4, <1>5, <1>6 DEF VoteInv

\* Every transaction preserves the invariant.
LEMMA NextVote == VoteInv /\ [Next]_vars => VoteInv'
<1> SUFFICES ASSUME VoteInv, [Next]_vars PROVE VoteInv'
  OBVIOUS
<1>0. PayInv'
  BY NextPay DEF VoteInv
<1>1. ASSUME requests' = requests, commitments' = commitments, result' = result PROVE VoteInv'
  BY <1>0, <1>1, VotesKept
<1>2. CASE tick \/ Governance \/ UNCHANGED vars
  BY <1>1, <1>2 DEF tick, Governance, applyParam, scheduleParam, addSentinel, removeSentinel, vars
<1>3. ASSUME NEW r \in Requests, NEW s \in Sentinels, claim(r, s) PROVE VoteInv'
  <2>1. \A t \in Requests, u \in Sentinels :
            /\ commitments'[t][u].vote = commitments[t][u].vote
            /\ commitments'[t][u].hash = commitments[t][u].hash
    BY <1>3 DEF claim, VoteInv, PayInv, BondsOK, Commitment
  <2>2. requests' = requests /\ result' = result
    BY <1>3 DEF claim
  <2> QED BY <1>0, <2>1, <2>2, VotesKept
<1>4. ASSUME NEW r \in Requests,
             \/ finalizeDisputed(r) \/ finalizeUnanswered(r)
             \/ \E wins \in BOOLEAN : resolveDispute(r, wins)
             \/ outOfScope(r)
      PROVE  VoteInv'
  <2>1. commitments' = commitments /\ result' = result
    BY <1>4 DEF finalizeDisputed, finalizeUnanswered, resolveDispute, outOfScope
  <2>2. \A t \in Requests :
            /\ requests'[t].approve = requests[t].approve
            /\ requests'[t].deny = requests[t].deny
            /\ requests[t].state \notin {"NONE", "PENDING"} =>
                    requests'[t].state \notin {"NONE", "PENDING"}
    <3>1. CASE finalizeDisputed(r)
      BY <3>1 DEF finalizeDisputed, VoteInv, PayInv, RequestsOK, Record
    <3>2. CASE finalizeUnanswered(r)
      BY <3>2 DEF finalizeUnanswered, VoteInv, PayInv, RequestsOK, Record
    <3>3. CASE \E wins \in BOOLEAN : resolveDispute(r, wins)
      BY <3>3 DEF resolveDispute, VoteInv, PayInv, RequestsOK, Record
    <3>4. CASE outOfScope(r)
      BY <3>4 DEF outOfScope, VoteInv, PayInv, RequestsOK, Record
    <3> QED BY <1>4, <3>1, <3>2, <3>3, <3>4
  <2> QED BY <1>0, <2>1, <2>2, VotesKept
<1>5. CASE Voting
  BY <1>0, <1>3, <1>4, <1>5, PostVote, CommitVote, RevealVote, AgreedVote DEF Voting, finalize
<1>6. CASE Arbitration
  BY <1>4, <1>6 DEF Arbitration, markOutOfScope, timeoutArbitration
<1> QED BY <1>2, <1>5, <1>6 DEF Next

\* The validators are told an outcome only if some vote was revealed for it
\* and none against it: no vote is revealed later, and neither a ruling nor a
\* time-out announces anything.
THEOREM OutcomesAreUnanimous == Spec => []ResultUnanimous
<1>1. VoteInv => ResultUnanimous
  BY DEF VoteInv, TallyOK, ResultOK, ResultUnanimous, Voters
<1> QED BY <1>1, InitVote, NextVote, PTL DEF Spec
----------------------------------------------------------------------------
(* Money                                                                   *)

Count(r, vote) == Cardinality(Voters(r, vote))

Left(r, vote) == Cardinality(Unclaimed(r, vote))

Final == Resolved \cup {"TIMED_OUT"}

\* Bonds that nobody can claim: a commitment to the empty hash is paid for
\* and then overwritten by the sentinel's next one.
Overwritten(r) == requests[r].committed - requests[r].revealed - Count(r, "PENDING")

\* The counters count what was committed and revealed, nobody claims before
\* the end, and who did not commit has no bond.
CountOK(r) ==
    /\ requests[r].approve = Count(r, "APPROVED")
    /\ requests[r].deny = Count(r, "DENIED")
    /\ requests[r].revealed = requests[r].approve + requests[r].deny
    /\ Overwritten(r) >= 0
    /\ "Zero" \notin Hashes => Overwritten(r) = 0

SealOK(r) ==
    \A s \in Sentinels :
        LET c == commitments[r][s]
        IN  /\ c.vote = "NONE" => c.bond = 0
            /\ c.vote # "NONE" /\ c.hash = "Zero" => "Zero" \in Hashes
            /\ c.claimed => requests[r].state \in Final

\* What the winners, the losers and the silent may still claim.
ClaimsLeft(r) ==
    LET q == requests[r]
    IN  Left(r, "PENDING") * ClaimOf(q, "PENDING")
        + Left(r, "APPROVED") * ClaimOf(q, "APPROVED")
        + Left(r, "DENIED") * ClaimOf(q, "DENIED")

\* What is in the pot beyond that.
Rest(r) == pot[r] - ClaimsLeft(r)

RestOK(r) ==
    /\ Rest(r) >= 0
    /\ "Zero" \notin Hashes /\ requests[r].state = "TIMED_OUT" => Rest(r) = 0
    /\ "Zero" \notin Hashes /\ requests[r].state \in Resolved =>
            Rest(r) \in 0 .. winners(requests[r]) - 1

PotOK(r) ==
    LET q == requests[r]
    IN  /\ q.state = "NONE" => pot[r] = 0
        /\ q.state = "PENDING" => pot[r] = q.fee + q.committed * q.bondTarget
        /\ q.state = "FROZEN" => pot[r] = q.fee + q.committed * q.bondTarget - unrevealedBond(q)
        /\ q.state \in Final => RestOK(r)
        /\ q.state \in Resolved => winners(q) > 0

MoneyInv ==
    /\ VoteInv
    /\ pot \in [Requests -> Int]
    /\ \A r \in Requests : CountOK(r) /\ SealOK(r) /\ PotOK(r)

\* No request is paid for with the money of another one: its pot covers what
\* is owed for it, whatever the sentinels commit to.
Solvent == \A r \in Requests : pot[r] >= Owed(r)

\* Every set of sentinels can be counted.
LEMMA SentinelsCounted == \A S : S \subseteq Sentinels => IsFiniteSet(S) /\ Cardinality(S) \in Nat
  BY SentinelAssumption, FS_Subset, FS_CardinalityType

\* So can the voters.
LEMMA VotersCounted ==
  \A r, vote : /\ IsFiniteSet(Voters(r, vote)) /\ Count(r, vote) \in Nat
               /\ IsFiniteSet(Unclaimed(r, vote)) /\ Left(r, vote) \in Nat
<1> SUFFICES ASSUME NEW r, NEW vote
             PROVE  /\ IsFiniteSet(Voters(r, vote)) /\ Count(r, vote) \in Nat
                    /\ IsFiniteSet(Unclaimed(r, vote)) /\ Left(r, vote) \in Nat
  OBVIOUS
<1>1. Voters(r, vote) \subseteq Sentinels /\ Unclaimed(r, vote) \subseteq Sentinels
  BY DEF Voters, Unclaimed
<1> QED BY <1>1, SentinelsCounted DEF Count, Left

\* And the voters of the next state.
LEMMA VotersCountedNext ==
  \A r, vote : /\ IsFiniteSet(Voters(r, vote)') /\ Count(r, vote)' \in Nat
               /\ IsFiniteSet(Unclaimed(r, vote)') /\ Left(r, vote)' \in Nat
<1> SUFFICES ASSUME NEW r, NEW vote
             PROVE  /\ IsFiniteSet(Voters(r, vote)') /\ Count(r, vote)' \in Nat
                    /\ IsFiniteSet(Unclaimed(r, vote)') /\ Left(r, vote)' \in Nat
  OBVIOUS
<1>1. Voters(r, vote)' \subseteq Sentinels /\ Unclaimed(r, vote)' \subseteq Sentinels
  BY DEF Voters, Unclaimed
<1> QED BY <1>1, SentinelsCounted DEF Count, Left

\* Every committer is silent, for or against.
LEMMA CommittersCounted ==
  ASSUME PayInv, NEW r \in Requests
  PROVE  Cardinality(Committers(r)) = Count(r, "PENDING") + Count(r, "APPROVED") + Count(r, "DENIED")
<1> DEFINE P == Voters(r, "PENDING")
           A == Voters(r, "APPROVED")
           D == Voters(r, "DENIED")
<1>1. Committers(r) = (P \cup A) \cup D
  BY DEF PayInv, BondsOK, Commitment, Votes, Committers, Voters
<1>2. P \cap A = {} /\ (P \cup A) \cap D = {}
  BY DEF Voters
<1>3. IsFiniteSet(P) /\ IsFiniteSet(A) /\ IsFiniteSet(D)
  BY VotersCounted
<1>4. Count(r, "PENDING") = Cardinality(P) /\ Count(r, "APPROVED") = Cardinality(A)
      /\ Count(r, "DENIED") = Cardinality(D)
  BY DEF Count
<1>5. Cardinality(P) \in Nat /\ Cardinality(A) \in Nat /\ Cardinality(D) \in Nat
  BY <1>3, FS_CardinalityType
<1> HIDE DEF P, A, D
<1>6. IsFiniteSet(P \cup A) /\ Cardinality(P \cup A) = Cardinality(P) + Cardinality(A)
  BY <1>2, <1>3, <1>5, FS_Union, FS_EmptySet
<1>7. PICK B : B = P \cup A
  OBVIOUS
<1>8. Cardinality(B \cup D) = Cardinality(B) + Cardinality(D)
  <2>1. IsFiniteSet(B) /\ B \cap D = {} /\ Cardinality(B) \in Nat
    BY <1>2, <1>5, <1>6, <1>7
  <2>2. Cardinality(B \cup D) = Cardinality(B) + Cardinality(D) - Cardinality(B \cap D)
    BY <1>3, <2>1, FS_Union
  <2>3. Cardinality(B \cap D) = 0
    BY <2>1, FS_EmptySet
  <2> QED BY <1>5, <2>1, <2>2, <2>3
<1> QED BY <1>1, <1>4, <1>6, <1>7, <1>8

\* Division leaves less than the divisor.
LEMMA DustIsSmall == \A f \in Int, n \in Nat : n > 0 => f - n * (f \div n) \in 0 .. n - 1
<1> SUFFICES ASSUME NEW f \in Int, NEW n \in Nat, n > 0
             PROVE  f - n * (f \div n) \in 0 .. n - 1
  OBVIOUS
<1>1. n * (f \div n) <= f /\ f < n * (f \div n) + n
  OBVIOUS
<1>2. n * (f \div n) \in Int
  OBVIOUS
<1> QED BY <1>1, <1>2

\* Counted bonds.
LEMMA BondsCounted ==
  \A x, y \in Nat : x * y \in Nat /\ (x = 0 => x * y = 0)
  OBVIOUS

\* A request that was decided: the pot holds the claims, the bonds that were
\* overwritten and the remainder of the fee.
LEMMA DecidedRest ==
  ASSUME NEW f \in Int, NEW n \in Int, NEW b \in Int, NEW sl \in Int, NEW cut \in Int, NEW a \in Int,
         NEW d \in Int, NEW p \in Int, NEW x \in Int, NEW g \in Int, n = a + d + p + x
  PROVE  f + n * b - (n - (a + d)) * sl - cut - d * sl
           - (p * (b - sl) + a * (b + g) + d * (b - sl)) = x * (b - sl) + (f - cut - a * g)
  OBVIOUS

\* One that nobody decided.
LEMMA UndecidedRest ==
  ASSUME NEW f \in Int, NEW n \in Int, NEW b \in Int, NEW sl \in Int, NEW a \in Int,
         NEW d \in Int, NEW p \in Int, NEW x \in Int, n = a + d + p + x
  PROVE  f + n * b - (n - (a + d)) * sl - f - (p * (b - sl) + a * b + d * b) = x * (b - sl)
  OBVIOUS

\* One that nobody answered.
LEMMA UnansweredRest ==
  ASSUME NEW f \in Int, NEW n \in Int, NEW b \in Int, NEW p \in Int, NEW x \in Int, n = p + x
  PROVE  f + n * b - f - p * b = x * b
  OBVIOUS

\* What is owed before the end.
LEMMA OpenRest ==
  ASSUME NEW f \in Int, NEW n \in Int, NEW b \in Int, NEW c \in Int, NEW x \in Int, n = c + x
  PROVE  f + n * b = f + c * b + x * b
  OBVIOUS

\* At deployment there is no money and nothing is counted.
LEMMA InitMoney == Init => MoneyInv
<1> SUFFICES ASSUME Init PROVE MoneyInv
  OBVIOUS
<1>1. VoteInv
  BY InitVote
<1>2. pot \in [Requests -> Int]
  BY DEF Init
<1>3. ASSUME NEW r \in Requests PROVE CountOK(r) /\ SealOK(r) /\ PotOK(r)
  <2>1. requests[r] = NoRequest /\ pot[r] = 0 /\ \A s \in Sentinels : commitments[r][s] = NoCommitment
    BY <1>3 DEF Init
  <2>2. \A vote \in Votes : Voters(r, vote) = {}
    BY <2>1 DEF Voters, NoCommitment, Votes
  <2>3. \A vote \in Votes : Count(r, vote) = 0
    BY <2>2, FS_EmptySet DEF Count
  <2>4. CountOK(r)
    BY <2>1, <2>3 DEF CountOK, Overwritten, NoRequest, Votes
  <2>5. SealOK(r)
    BY <2>1 DEF SealOK, NoCommitment
  <2>6. PotOK(r)
    BY <2>1 DEF PotOK, NoRequest, Final, Resolved
  <2> QED BY <2>4, <2>5, <2>6
<1> QED BY <1>1, <1>2, <1>3 DEF MoneyInv

\* The votes of one request decide its counts.
LEMMA CountsKept ==
  ASSUME NEW r, commitments'[r] = commitments[r]
  PROVE  \A vote : /\ Count(r, vote)' = Count(r, vote)
                   /\ Left(r, vote)' = Left(r, vote)
<1> SUFFICES ASSUME NEW vote PROVE Count(r, vote)' = Count(r, vote) /\ Left(r, vote)' = Left(r, vote)
  OBVIOUS
<1>1. Voters(r, vote)' = Voters(r, vote)
  BY DEF Voters
<1>2. Unclaimed(r, vote)' = Unclaimed(r, vote)
  BY DEF Unclaimed, Voters
<1> QED BY <1>1, <1>2 DEF Count, Left

\* A transaction about another request.
LEMMA RequestKept ==
  ASSUME MoneyInv, NEW r \in Requests,
         requests'[r] = requests[r], commitments'[r] = commitments[r], pot'[r] = pot[r]
  PROVE  CountOK(r)' /\ SealOK(r)' /\ PotOK(r)'
<1>1. CountOK(r) /\ SealOK(r) /\ PotOK(r)
  BY DEF MoneyInv
<1>2. \A vote : Count(r, vote)' = Count(r, vote) /\ Left(r, vote)' = Left(r, vote)
  BY CountsKept
<1>3. Overwritten(r)' = Overwritten(r)
  BY <1>2 DEF Overwritten
<1>4. CountOK(r)'
  BY <1>1, <1>2, <1>3 DEF CountOK
<1>5. SealOK(r)'
  BY <1>1 DEF SealOK
<1>6. ClaimsLeft(r)' = ClaimsLeft(r)
  BY <1>2 DEF ClaimsLeft, ClaimOf, slashAmountFor, calcFeeReward, winning, winners
<1>7. Rest(r)' = Rest(r)
  BY <1>6 DEF Rest
<1>8. RestOK(r)' <=> RestOK(r)
  BY <1>7 DEF RestOK, winners
<1>9. PotOK(r)'
  BY <1>1, <1>8 DEF PotOK, unrevealedBond, winners
<1> QED BY <1>4, <1>5, <1>9

\* What a transaction about one request has to establish.
LEMMA OneRequest ==
  ASSUME MoneyInv, VoteInv', pot' \in [Requests -> Int], NEW r \in Requests,
         \A t \in Requests \ {r} :
            requests'[t] = requests[t] /\ commitments'[t] = commitments[t] /\ pot'[t] = pot[t],
         CountOK(r)', SealOK(r)', PotOK(r)'
  PROVE  MoneyInv'
<1>1. ASSUME NEW t \in Requests PROVE CountOK(t)' /\ SealOK(t)' /\ PotOK(t)'
  <2>1. CASE t = r
    BY <2>1
  <2>2. CASE t # r
    BY <1>1, <2>2, RequestKept
  <2> QED BY <2>1, <2>2
<1> QED BY <1>1 DEF MoneyInv

\* The types of what the money depends on.
LEMMA MoneyTypes ==
  ASSUME MoneyInv, NEW r \in Requests
  PROVE  /\ requests[r] \in Record /\ Covered(requests[r]) /\ pot[r] \in Int
         /\ requests \in [Requests -> Record]
         /\ commitments \in [Requests -> [Sentinels -> Commitment]]
         /\ requests[r].approve \in Nat /\ requests[r].deny \in Nat
         /\ requests[r].revealed \in Nat /\ requests[r].committed \in Nat
         /\ requests[r].bondTarget \in Nat /\ requests[r].slashAmount \in Nat
         /\ requests[r].fee \in Int /\ requests[r].slashAmount <= requests[r].bondTarget
<1>1. /\ requests[r] \in Record /\ Covered(requests[r]) /\ pot[r] \in Int
      /\ requests \in [Requests -> Record]
      /\ commitments \in [Requests -> [Sentinels -> Commitment]]
  BY DEF MoneyInv, VoteInv, PayInv, RequestsOK, BondsOK
<1> QED BY <1>1 DEF Record, Covered

\* A new request holds its fee.
LEMMA PostMoney ==
  ASSUME MoneyInv, VoteInv', NEW r \in Requests, postRequest(r)
  PROVE  MoneyInv'
<1>1. /\ requests[r].state = "NONE" /\ commitments' = commitments
      /\ pot' = [pot EXCEPT ![r] = @ + current("fee")]
  BY DEF postRequest
<1>2. PICK cd, rd, bt, sa, sh, f :
        requests' = [requests EXCEPT ![r] = Fresh(cd, rd, bt, sa, sh, f)] /\ f = current("fee")
  BY DEF postRequest, Fresh
<1>3. /\ requests'[r].state = "PENDING" /\ requests'[r].fee = f /\ requests'[r].committed = 0
      /\ requests'[r].revealed = 0 /\ requests'[r].approve = 0 /\ requests'[r].deny = 0
      /\ requests'[r].bondTarget = bt
  <2>1. requests'[r] = Fresh(cd, rd, bt, sa, sh, f)
    BY <1>2, MoneyTypes
  <2> QED BY <2>1 DEF Fresh, NoRequest
<1>4. f \in Int /\ bt \in Nat
  <2>1. requests'[r] \in Record
    BY DEF VoteInv, PayInv, RequestsOK
  <2> QED BY <1>3, <2>1 DEF Record
<1>5. pot[r] = 0 /\ pot'[r] = f /\ pot' \in [Requests -> Int]
  <2>1. pot[r] = 0 /\ pot \in [Requests -> Int]
    BY <1>1 DEF MoneyInv, PotOK
  <2> QED BY <1>1, <1>2, <1>4, <2>1
<1>6. \A s \in Sentinels : commitments[r][s].vote = "NONE"
  BY <1>1 DEF MoneyInv, VoteInv, PayInv, BondsOK
<1>7. \A vote \in Votes : Count(r, vote)' = 0
  <2>1. \A vote \in Votes : Voters(r, vote)' = {}
    BY <1>1, <1>6 DEF Voters, Votes
  <2> QED BY <2>1, FS_EmptySet DEF Count
<1>8. CountOK(r)'
  BY <1>3, <1>7 DEF CountOK, Overwritten, Votes
<1>9. SealOK(r)'
  <2>1. SealOK(r)
    BY DEF MoneyInv
  <2> QED BY <1>1, <1>6, <2>1 DEF SealOK, Final, Resolved
<1>10. PotOK(r)'
  BY <1>3, <1>4, <1>5 DEF PotOK, Final, Resolved
<1>11. \A t \in Requests \ {r} :
          requests'[t] = requests[t] /\ commitments'[t] = commitments[t] /\ pot'[t] = pot[t]
  BY <1>1, <1>2, MoneyTypes DEF MoneyInv
<1> QED BY <1>5, <1>8, <1>9, <1>10, <1>11, OneRequest

\* One more bond.
LEMMA OneMoreBond ==
  ASSUME NEW f \in Int, NEW n \in Int, NEW b \in Int
  PROVE  (f + n * b) + b = f + (n + 1) * b
  OBVIOUS

\* A commitment pays its bond into the pot; one over the empty hash leaves
\* the earlier bond to nobody.
LEMMA CommitMoney ==
  ASSUME MoneyInv, VoteInv', NEW r \in Requests, NEW s \in Sentinels, NEW hash \in Hashes,
         commit(r, s, hash)
  PROVE  MoneyInv'
<1> DEFINE q == requests[r]
           c == [hash |-> hash, bond |-> q.bondTarget, vote |-> "PENDING", claimed |-> FALSE]
<1>1. /\ q.state = "PENDING" /\ commitments[r][s].hash = "Zero"
      /\ requests' = [requests EXCEPT ![r].committed = @ + 1]
      /\ commitments' = [commitments EXCEPT ![r] = [commitments[r] EXCEPT ![s] = c]]
      /\ pot' = [pot EXCEPT ![r] = @ + q.bondTarget]
  BY MoneyTypes DEF commit
<1>2. q \in Record /\ q.committed \in Nat /\ q.revealed \in Nat /\ q.bondTarget \in Nat /\ q.fee \in Int
  BY MoneyTypes
<1>3. /\ requests'[r].committed = q.committed + 1
      /\ requests'[r].revealed = q.revealed /\ requests'[r].approve = q.approve
      /\ requests'[r].deny = q.deny /\ requests'[r].fee = q.fee
      /\ requests'[r].bondTarget = q.bondTarget /\ requests'[r].state = "PENDING"
  BY <1>1, <1>2, MoneyTypes DEF Record
<1>4. /\ \A u \in Sentinels \ {s} : commitments'[r][u] = commitments[r][u]
      /\ commitments'[r][s].vote = "PENDING" /\ commitments'[r][s].hash = hash
      /\ commitments'[r][s].claimed = FALSE
  BY <1>1, MoneyTypes
<1> HIDE DEF c
<1>5. commitments[r][s].vote \in {"NONE", "PENDING"}
  <2>1. commitments[r][s] \in Commitment
    BY MoneyTypes
  <2>2. commitments[r][s].vote \notin {"APPROVED", "DENIED"}
    BY <1>1 DEF MoneyInv, VoteInv, TallyOK
  <2> QED BY <2>1, <2>2 DEF Commitment, Votes
<1>6. Count(r, "APPROVED")' = Count(r, "APPROVED") /\ Count(r, "DENIED")' = Count(r, "DENIED")
  <2>1. Voters(r, "APPROVED")' = Voters(r, "APPROVED") /\ Voters(r, "DENIED")' = Voters(r, "DENIED")
    BY <1>4, <1>5 DEF Voters
  <2> QED BY <2>1 DEF Count
<1>7. Count(r, "PENDING")' = IF commitments[r][s].vote = "PENDING" THEN Count(r, "PENDING")
                             ELSE Count(r, "PENDING") + 1
  <2>1. Voters(r, "PENDING")' = Voters(r, "PENDING") \cup {s}
    BY <1>4 DEF Voters
  <2>2. s \in Voters(r, "PENDING") <=> commitments[r][s].vote = "PENDING"
    BY DEF Voters
  <2> QED BY <2>1, <2>2, VotersCounted, FS_AddElement DEF Count
<1>8. CountOK(r) /\ SealOK(r) /\ PotOK(r) /\ Count(r, "PENDING") \in Nat
  BY VotersCounted DEF MoneyInv
<1>9. CountOK(r)'
  <2>1. Overwritten(r)' = (q.committed + 1) - q.revealed - Count(r, "PENDING")'
    BY <1>3, Zenon DEF Overwritten
  <2>2. Overwritten(r) = q.committed - q.revealed - Count(r, "PENDING")
    BY DEF Overwritten
  <2>3. commitments[r][s].vote = "PENDING" => "Zero" \in Hashes
    BY <1>1, <1>8 DEF SealOK
  <2>4. Overwritten(r)' >= 0 /\ ("Zero" \notin Hashes => Overwritten(r)' = 0)
    BY <1>2, <1>7, <1>8, <2>1, <2>2, <2>3 DEF CountOK
  <2> QED BY <1>3, <1>6, <1>8, <2>4 DEF CountOK
<1>10. SealOK(r)'
  BY <1>1, <1>3, <1>4, <1>8 DEF SealOK
<1>11. pot'[r] = pot[r] + q.bondTarget /\ pot' \in [Requests -> Int]
  BY <1>1, <1>2 DEF MoneyInv
<1>12. PotOK(r)'
  <2>1. pot[r] = q.fee + q.committed * q.bondTarget
    BY <1>1, <1>8 DEF PotOK
  <2>2. (q.fee + q.committed * q.bondTarget) + q.bondTarget = q.fee + (q.committed + 1) * q.bondTarget
    BY <1>2, OneMoreBond
  <2>3. pot'[r] = requests'[r].fee + requests'[r].committed * requests'[r].bondTarget
    BY <1>3, <1>11, <2>1, <2>2
  <2> QED BY <1>3, <2>3 DEF PotOK, Final, Resolved
<1>13. \A t \in Requests \ {r} :
          requests'[t] = requests[t] /\ commitments'[t] = commitments[t] /\ pot'[t] = pot[t]
  BY <1>1, MoneyTypes DEF MoneyInv
<1> QED BY <1>9, <1>10, <1>11, <1>12, <1>13, OneRequest

\* A reveal moves a vote from the silent ones to its side.
LEMMA RevealMoney ==
  ASSUME MoneyInv, VoteInv', NEW r \in Requests, NEW s \in Sentinels, NEW approve \in BOOLEAN,
         reveal(r, s, approve)
  PROVE  MoneyInv'
<1> DEFINE q == requests[r]
           vote == IF approve THEN "APPROVED" ELSE "DENIED"
           other == IF approve THEN "DENIED" ELSE "APPROVED"
<1>1. /\ q.state = "PENDING" /\ commitments[r][s].vote = "PENDING"
      /\ commitments' = [commitments EXCEPT ![r][s].vote = vote]
      /\ pot' = pot
      /\ \A t \in Requests \ {r} : requests'[t] = requests[t]
  BY MoneyTypes DEF reveal
<1>2. /\ q.committed \in Nat /\ q.revealed \in Nat /\ q.bondTarget \in Nat /\ q.fee \in Int
      /\ q.approve \in Nat /\ q.deny \in Nat
  BY MoneyTypes
<1>3. /\ requests'[r].committed = q.committed /\ requests'[r].revealed = q.revealed + 1
      /\ requests'[r].approve = (IF approve THEN q.approve + 1 ELSE q.approve)
      /\ requests'[r].deny = (IF approve THEN q.deny ELSE q.deny + 1)
      /\ requests'[r].fee = q.fee
      /\ requests'[r].bondTarget = q.bondTarget /\ requests'[r].state = "PENDING"
  BY <1>1, MoneyTypes DEF reveal, Record
<1>4. /\ \A u \in Sentinels : /\ commitments'[r][u].hash = commitments[r][u].hash
                              /\ commitments'[r][u].bond = commitments[r][u].bond
                              /\ commitments'[r][u].claimed = commitments[r][u].claimed
                              /\ u # s => commitments'[r][u].vote = commitments[r][u].vote
      /\ commitments'[r][s].vote = vote
      /\ \A t \in Requests \ {r} : commitments'[t] = commitments[t]
  BY <1>1, MoneyTypes DEF Commitment
<1>5. Count(r, "PENDING")' = Count(r, "PENDING") - 1
  <2>1. Voters(r, "PENDING")' = Voters(r, "PENDING") \ {s}
    BY <1>4 DEF Voters
  <2>2. s \in Voters(r, "PENDING")
    BY <1>1 DEF Voters
  <2> QED BY <2>1, <2>2, VotersCounted, FS_RemoveElement DEF Count
<1>6. Count(r, vote)' = Count(r, vote) + 1
  <2>1. Voters(r, vote)' = Voters(r, vote) \cup {s}
    BY <1>4 DEF Voters
  <2>2. s \notin Voters(r, vote)
    BY <1>1 DEF Voters
  <2> QED BY <2>1, <2>2, VotersCounted, FS_AddElement DEF Count
<1>7. Count(r, other)' = Count(r, other)
  <2>1. Voters(r, other)' = Voters(r, other)
    BY <1>1, <1>4 DEF Voters
  <2> QED BY <2>1 DEF Count
<1>8. CountOK(r) /\ SealOK(r) /\ PotOK(r) /\ Count(r, "PENDING") \in Nat
  BY VotersCounted DEF MoneyInv
<1>9. CountOK(r)'
  <2>1. Overwritten(r)' = Overwritten(r)
    BY <1>2, <1>3, <1>5, <1>8 DEF Overwritten
  <2>2. requests'[r].approve = Count(r, "APPROVED")' /\ requests'[r].deny = Count(r, "DENIED")'
    BY <1>3, <1>6, <1>7, <1>8 DEF CountOK
  <2>3. requests'[r].revealed = requests'[r].approve + requests'[r].deny
    BY <1>2, <1>3, <1>8 DEF CountOK
  <2> QED BY <1>8, <2>1, <2>2, <2>3 DEF CountOK
<1>10. SealOK(r)'
  BY <1>1, <1>3, <1>4, <1>8 DEF SealOK
<1>11. PotOK(r)'
  BY <1>1, <1>3, <1>8 DEF PotOK, Final, Resolved
<1>12. pot' \in [Requests -> Int]
  BY <1>1 DEF MoneyInv
<1> QED BY <1>1, <1>4, <1>9, <1>10, <1>11, <1>12, OneRequest

\* What may be claimed is an integer.
LEMMA ClaimIsInteger ==
  ASSUME NEW q \in Record, q.state \in Resolved => winners(q) > 0
  PROVE  \A vote : ClaimOf(q, vote) \in Int
<1> SUFFICES ASSUME NEW vote PROVE ClaimOf(q, vote) \in Int
  OBVIOUS
<1>1. calcFeeReward(q, vote) \in Int
  <2>1. CASE winning(q, vote)
    <3>1. winners(q) \in Nat /\ winners(q) > 0 /\ q.fee \in Int
      BY <2>1 DEF Record, winning, winners, Resolved
    <3> HIDE DEF winners
    <3>2. q.fee \div winners(q) \in Int
      BY <3>1
    <3> QED BY <2>1, <3>2 DEF calcFeeReward
  <2>2. CASE ~winning(q, vote)
    BY <2>2 DEF calcFeeReward
  <2> QED BY <2>1, <2>2
<1>2. slashAmountFor(q, vote) \in Int
  BY DEF slashAmountFor, Record
<1> QED BY <1>1, <1>2 DEF ClaimOf, Record

\* A sum of three products of which one loses a factor.
LEMMA ThreeClaims ==
  ASSUME NEW x \in Int, NEW y \in Int, NEW z \in Int, NEW a \in Int, NEW b \in Int, NEW c \in Int
  PROVE  /\ (x - 1) * a + y * b + z * c = (x * a + y * b + z * c) - a
         /\ x * a + (y - 1) * b + z * c = (x * a + y * b + z * c) - b
         /\ x * a + y * b + (z - 1) * c = (x * a + y * b + z * c) - c
         /\ x * a + y * b + z * c \in Int
  OBVIOUS

\* A claim pays what was left for the one who claims.
LEMMA ClaimMoney ==
  ASSUME MoneyInv, VoteInv', NEW r \in Requests, NEW s \in Sentinels, claim(r, s)
  PROVE  MoneyInv'
<1> DEFINE q == requests[r]
           c == commitments[r][s]
<1>0. PICK v : v = commitments[r][s].vote
  OBVIOUS
<1>1. /\ q.state \in Final /\ c.bond > 0 /\ c.claimed # TRUE
      /\ requests' = requests
      /\ commitments' = [commitments EXCEPT ![r][s].claimed = TRUE]
      /\ pot' = [pot EXCEPT ![r] = @ - totalClaim(q, c)]
  BY DEF claim, claimable, Final
<1>2. q \in Record /\ c \in Commitment
  BY MoneyTypes
<1>3. CountOK(r) /\ SealOK(r) /\ RestOK(r) /\ (q.state \in Resolved => winners(q) > 0)
  BY <1>1 DEF MoneyInv, PotOK
<1>4. v \in Votes
  BY <1>0, <1>1, <1>2, <1>3 DEF SealOK, Commitment
<1>5. totalClaim(q, c) = ClaimOf(q, v)
  <2>1. c.bond = q.bondTarget
    BY <1>0, <1>4 DEF MoneyInv, VoteInv, PayInv, BondsOK, Votes
  <2> QED BY <1>0, <2>1 DEF totalClaim, bondReturn, ClaimOf
<1>6. /\ \A u \in Sentinels : /\ commitments'[r][u].hash = commitments[r][u].hash
                              /\ commitments'[r][u].bond = commitments[r][u].bond
                              /\ commitments'[r][u].vote = commitments[r][u].vote
                              /\ u # s => commitments'[r][u].claimed = commitments[r][u].claimed
      /\ commitments'[r][s].claimed = TRUE
      /\ \A t \in Requests \ {r} : commitments'[t] = commitments[t]
  <2>1. commitments' = [commitments EXCEPT ![r] =
            [commitments[r] EXCEPT ![s] = [commitments[r][s] EXCEPT !.claimed = TRUE]]]
    BY <1>1, MoneyTypes
  <2>2. /\ \A u \in Sentinels \ {s} : commitments'[r][u] = commitments[r][u]
        /\ commitments'[r][s] = [commitments[r][s] EXCEPT !.claimed = TRUE]
        /\ \A t \in Requests \ {r} : commitments'[t] = commitments[t]
    BY <2>1, MoneyTypes
  <2>3. /\ commitments'[r][s].hash = commitments[r][s].hash
        /\ commitments'[r][s].bond = commitments[r][s].bond
        /\ commitments'[r][s].vote = commitments[r][s].vote
        /\ commitments'[r][s].claimed = TRUE
    BY <1>2, <2>2 DEF Commitment
  <2> QED BY <2>2, <2>3
<1>7. \A vote : Count(r, vote)' = Count(r, vote)
  <2>1. \A vote : Voters(r, vote)' = Voters(r, vote)
    BY <1>6 DEF Voters
  <2> QED BY <2>1 DEF Count
<1>8. Left(r, v)' = Left(r, v) - 1
  <2>1. Unclaimed(r, v)' = Unclaimed(r, v) \ {s}
    BY <1>6 DEF Unclaimed, Voters
  <2>2. s \in Unclaimed(r, v)
    BY <1>0, <1>1, <1>2 DEF Unclaimed, Voters, Commitment
  <2> QED BY <2>1, <2>2, VotersCounted, FS_RemoveElement DEF Left
<1>9. \A vote : vote # v => Left(r, vote)' = Left(r, vote)
  <2>1. ASSUME NEW vote, vote # v PROVE Unclaimed(r, vote)' = Unclaimed(r, vote)
    BY <1>0, <1>6, <2>1 DEF Unclaimed, Voters
  <2> QED BY <2>1 DEF Left
<1>10. \A vote : ClaimOf(q, vote) \in Int
  <2> HIDE DEF q
  <2> QED BY <1>2, <1>3, ClaimIsInteger
<1>11. \A vote : ClaimOf(q, vote)' = ClaimOf(q, vote)
  BY <1>1 DEF ClaimOf, slashAmountFor, calcFeeReward, winning, winners
<1>12. ClaimsLeft(r)' = ClaimsLeft(r) - ClaimOf(q, v) /\ ClaimsLeft(r) \in Int
  <2>1. PICK x, y, z : x = Left(r, "PENDING") /\ y = Left(r, "APPROVED") /\ z = Left(r, "DENIED")
    OBVIOUS
  <2>2. PICK xx, yy, zz :
          xx = ClaimOf(q, "PENDING") /\ yy = ClaimOf(q, "APPROVED") /\ zz = ClaimOf(q, "DENIED")
    OBVIOUS
  <2>3. x \in Int /\ y \in Int /\ z \in Int /\ xx \in Int /\ yy \in Int /\ zz \in Int
    BY <1>10, <2>1, <2>2, VotersCounted
  <2>4. ClaimsLeft(r) = x * xx + y * yy + z * zz
    BY <2>1, <2>2 DEF ClaimsLeft
  <2>5. ClaimsLeft(r)' = Left(r, "PENDING")' * xx + Left(r, "APPROVED")' * yy + Left(r, "DENIED")' * zz
    BY <1>1, <1>11, <2>2 DEF ClaimsLeft
  <2>6. CASE v = "PENDING"
    <3>1. ClaimsLeft(r)' = (x - 1) * xx + y * yy + z * zz
      BY <1>8, <1>9, <2>1, <2>5, <2>6
    <3> QED BY <2>2, <2>3, <2>4, <2>6, <3>1, ThreeClaims
  <2>7. CASE v = "APPROVED"
    <3>1. ClaimsLeft(r)' = x * xx + (y - 1) * yy + z * zz
      BY <1>8, <1>9, <2>1, <2>5, <2>7
    <3> QED BY <2>2, <2>3, <2>4, <2>7, <3>1, ThreeClaims
  <2>8. CASE v = "DENIED"
    <3>1. ClaimsLeft(r)' = x * xx + y * yy + (z - 1) * zz
      BY <1>8, <1>9, <2>1, <2>5, <2>8
    <3> QED BY <2>2, <2>3, <2>4, <2>8, <3>1, ThreeClaims
  <2> QED BY <1>4, <2>6, <2>7, <2>8 DEF Votes
<1>13. pot'[r] = pot[r] - ClaimOf(q, v) /\ pot' \in [Requests -> Int]
  BY <1>1, <1>5, <1>10 DEF MoneyInv
<1>14. Rest(r)' = Rest(r)
  <2>1. pot[r] \in Int
    BY MoneyTypes
  <2> QED BY <1>10, <1>12, <1>13, <2>1 DEF Rest
<1>15. CountOK(r)'
  BY <1>1, <1>3, <1>7 DEF CountOK, Overwritten
<1>16. SealOK(r)'
  BY <1>1, <1>3, <1>6 DEF SealOK
<1>17. PotOK(r)'
  <2>1. RestOK(r)'
    BY <1>1, <1>3, <1>14 DEF RestOK, winners
  <2> QED BY <1>1, <1>3, <2>1 DEF PotOK, winners, Final, Resolved
<1>18. \A t \in Requests \ {r} : requests'[t] = requests[t] /\ pot'[t] = pot[t]
  BY <1>1 DEF MoneyInv
<1> QED BY <1>6, <1>13, <1>15, <1>16, <1>17, <1>18, OneRequest

\* A transaction that only changes the state, the fee and the arbitration
\* deadline of a request.
SameTerms(w, q) ==
    /\ w \in Record
    /\ w.committed = q.committed /\ w.revealed = q.revealed
    /\ w.approve = q.approve /\ w.deny = q.deny
    /\ w.bondTarget = q.bondTarget /\ w.slashAmount = q.slashAmount

\* It leaves the counts, and nobody has claimed yet.
LEMMA SettleMoney ==
  ASSUME MoneyInv, NEW r \in Requests, commitments' = commitments,
         requests[r].state \in {"PENDING", "FROZEN"}, SameTerms(requests'[r], requests[r])
  PROVE  /\ CountOK(r)' /\ SealOK(r)'
         /\ ClaimsLeft(r)' = Count(r, "PENDING") * ClaimOf(requests'[r], "PENDING")
                             + Count(r, "APPROVED") * ClaimOf(requests'[r], "APPROVED")
                             + Count(r, "DENIED") * ClaimOf(requests'[r], "DENIED")
<1>1. CountOK(r) /\ SealOK(r)
  BY DEF MoneyInv
<1>2. \A vote : Count(r, vote)' = Count(r, vote) /\ Left(r, vote)' = Left(r, vote)
  BY CountsKept
<1>3. \A s \in Sentinels : ~commitments[r][s].claimed
  BY <1>1 DEF SealOK, Final, Resolved
<1>4. \A vote : Left(r, vote) = Count(r, vote)
  <2>1. \A vote : Unclaimed(r, vote) = Voters(r, vote)
    BY <1>3 DEF Unclaimed, Voters
  <2> QED BY <2>1 DEF Left, Count
<1>5. Overwritten(r)' = Overwritten(r)
  BY <1>2 DEF Overwritten, SameTerms
<1>6. CountOK(r)'
  BY <1>1, <1>2, <1>5 DEF CountOK, SameTerms
<1>7. SealOK(r)'
  BY <1>1, <1>3 DEF SealOK
<1>8. \A vote : ClaimOf(requests[r], vote)' = ClaimOf(requests'[r], vote)
  BY DEF ClaimOf, slashAmountFor, calcFeeReward, winning, winners
<1> QED BY <1>2, <1>4, <1>6, <1>7, <1>8 DEF ClaimsLeft

Settled(q, st, f) == [q EXCEPT !.state = st, !.fee = f]

\* The record of a request that is settled.
LEMMA SettledTerms ==
  ASSUME NEW q \in Record, NEW st \in States, NEW f \in Int
  PROVE  SameTerms(Settled(q, st, f), q) /\ Settled(q, st, f).state = st /\ Settled(q, st, f).fee = f
<1>1. Settled(q, st, f) \in Record
  BY DEF Record, Settled
<1> QED BY <1>1 DEF SameTerms, Record, Settled

\* The claims on a request that was decided: the winners share the fee, and
\* the losers of a dispute and the silent are slashed.
LEMMA DecidedClaims ==
  ASSUME NEW w \in Record, NEW win \in {"APPROVED", "DENIED"}, NEW lose \in {"APPROVED", "DENIED"},
         win # lose,
         w.state = (IF win = "APPROVED" THEN "RESOLVED_APPROVED" ELSE "RESOLVED_DENIED"),
         winners(w) > 0
  PROVE  /\ ClaimOf(w, "PENDING") = w.bondTarget - w.slashAmount
         /\ ClaimOf(w, win) = w.bondTarget + w.fee \div winners(w)
         /\ ClaimOf(w, lose) = w.bondTarget - (IF w.approve > 0 /\ w.deny > 0 THEN w.slashAmount ELSE 0)
<1>1. /\ w.approve \in Nat /\ w.deny \in Nat /\ w.bondTarget \in Nat /\ w.slashAmount \in Nat
      /\ w.fee \in Int /\ w.state \in Resolved
  BY DEF Record, Resolved
<1>2. winning(w, win) /\ ~winning(w, lose) /\ ~winning(w, "PENDING")
  BY DEF winning
<1>3. /\ slashAmountFor(w, "PENDING") = w.slashAmount
      /\ slashAmountFor(w, win) = 0
      /\ slashAmountFor(w, lose) = IF w.approve > 0 /\ w.deny > 0 THEN w.slashAmount ELSE 0
  BY <1>1, <1>2 DEF slashAmountFor, winners
<1>4. /\ calcFeeReward(w, "PENDING") = 0 /\ calcFeeReward(w, lose) = 0
      /\ calcFeeReward(w, win) = w.fee \div winners(w)
  BY <1>2 DEF calcFeeReward
<1>5. winners(w) \in Nat
  BY <1>1 DEF winners
<1>6. w.fee \div winners(w) \in Int
  BY <1>1, <1>5
<1> QED BY <1>1, <1>3, <1>4, <1>6 DEF ClaimOf

\* The claims on one that was not.
LEMMA UndecidedClaims ==
  ASSUME NEW w \in Record, w.state = "TIMED_OUT"
  PROVE  /\ ClaimOf(w, "PENDING") =
                w.bondTarget - (IF w.approve > 0 \/ w.deny > 0 THEN w.slashAmount ELSE 0)
         /\ ClaimOf(w, "APPROVED") = w.bondTarget
         /\ ClaimOf(w, "DENIED") = w.bondTarget
<1>1. w.bondTarget \in Nat /\ w.slashAmount \in Nat
  BY DEF Record
<1> QED BY <1>1 DEF ClaimOf, slashAmountFor, calcFeeReward, winning, Resolved

\* What a decision leaves in the pot beyond the claims: the bonds that were
\* overwritten, less the slash that finalize paid for them, and the remainder
\* of the fee.
LEMMA DecideMoney ==
  ASSUME MoneyInv, VoteInv', NEW r \in Requests, commitments' = commitments,
         requests[r].state \in {"PENDING", "FROZEN"}, SameTerms(requests'[r], requests[r]),
         NEW win \in {"APPROVED", "DENIED"}, NEW lose \in {"APPROVED", "DENIED"}, win # lose,
         requests'[r].state = (IF win = "APPROVED" THEN "RESOLVED_APPROVED" ELSE "RESOLVED_DENIED"),
         Count(r, win) > 0,
         NEW f \in Int, NEW cut \in Int, requests'[r].fee = f - cut,
         pot'[r] = f + requests[r].committed * requests[r].bondTarget - unrevealedBond(requests[r])
                     - cut - Count(r, lose) * requests[r].slashAmount,
         \A t \in Requests \ {r} : requests'[t] = requests[t] /\ pot'[t] = pot[t],
         pot' \in [Requests -> Int]
  PROVE  MoneyInv'
<1> DEFINE w == requests'[r]
<1>1. /\ CountOK(r)' /\ SealOK(r)'
      /\ ClaimsLeft(r)' = Count(r, "PENDING") * ClaimOf(w, "PENDING")
                          + Count(r, "APPROVED") * ClaimOf(w, "APPROVED")
                          + Count(r, "DENIED") * ClaimOf(w, "DENIED")
  BY SettleMoney
<1>2. CountOK(r) /\ w \in Record /\ w.bondTarget \in Nat /\ w.slashAmount \in Nat
      /\ w.slashAmount <= w.bondTarget /\ requests[r].committed \in Nat
  BY MoneyTypes DEF MoneyInv, SameTerms
<1>3. PICK n, b, sl :
        n = requests[r].committed /\ b = requests[r].bondTarget /\ sl = requests[r].slashAmount
  OBVIOUS
<1>4. PICK a, d, p, x :
        a = Count(r, win) /\ d = Count(r, lose) /\ p = Count(r, "PENDING") /\ x = Overwritten(r)
  OBVIOUS
<1>5. n \in Nat /\ b \in Nat /\ sl \in Nat /\ sl <= b
  BY <1>3, MoneyTypes
<1>6. a \in Nat /\ d \in Nat /\ p \in Nat /\ a > 0
  BY <1>4, VotersCounted
<1>7. requests[r].revealed = a + d /\ w.bondTarget = b /\ w.slashAmount = sl /\ winners(w) = a
      /\ (d = 0 \/ (w.approve > 0 /\ w.deny > 0))
  <2>1. w.approve = Count(r, "APPROVED") /\ w.deny = Count(r, "DENIED")
        /\ requests[r].revealed = Count(r, "APPROVED") + Count(r, "DENIED")
    BY <1>2 DEF CountOK, SameTerms
  <2> QED BY <1>3, <1>4, <1>6, <2>1 DEF winners, SameTerms
<1>8. x \in Nat /\ n = a + d + p + x /\ ("Zero" \notin Hashes => x = 0)
  BY <1>2, <1>3, <1>4, <1>5, <1>6, <1>7 DEF CountOK, Overwritten
<1>9. PICK g : g = (f - cut) \div a
  OBVIOUS
<1>10. g \in Int /\ f - cut - a * g \in 0 .. a - 1
  <2>1. f - cut \in Int
    OBVIOUS
  <2> QED BY <1>6, <1>9, <2>1, DustIsSmall
<1>11. /\ ClaimOf(w, "PENDING") = b - sl
       /\ ClaimOf(w, win) = b + g
       /\ d * ClaimOf(w, lose) = d * (b - sl)
  <2>1. winners(w) > 0
    BY <1>6, <1>7
  <2>2. /\ ClaimOf(w, "PENDING") = w.bondTarget - w.slashAmount
        /\ ClaimOf(w, win) = w.bondTarget + w.fee \div winners(w)
        /\ ClaimOf(w, lose) = w.bondTarget - (IF w.approve > 0 /\ w.deny > 0 THEN w.slashAmount ELSE 0)
    BY <1>2, <2>1, DecidedClaims
  <2>3. CASE d = 0
    <3>1. ClaimOf(w, lose) \in Int
      BY <1>5, <1>7, <2>2
    <3> QED BY <1>5, <1>7, <1>9, <2>2, <2>3, <3>1
  <2>4. CASE w.approve > 0 /\ w.deny > 0
    BY <1>7, <1>9, <2>2, <2>4
  <2> QED BY <1>7, <2>3, <2>4
<1>12. ClaimsLeft(r)' = p * (b - sl) + a * (b + g) + d * (b - sl)
  <2>1. p * (b - sl) \in Int /\ a * (b + g) \in Int /\ d * (b - sl) \in Int
    BY <1>5, <1>6, <1>10
  <2>2. Count(r, win) * ClaimOf(w, win) = a * (b + g) /\ Count(r, lose) * ClaimOf(w, lose) = d * (b - sl)
        /\ Count(r, "PENDING") * ClaimOf(w, "PENDING") = p * (b - sl)
    BY <1>4, <1>11
  <2>3. CASE win = "APPROVED"
    BY <1>1, <2>1, <2>2, <2>3
  <2>4. CASE win = "DENIED"
    BY <1>1, <2>1, <2>2, <2>4
  <2> QED BY <2>3, <2>4
<1>13. pot'[r] = f + n * b - (n - (a + d)) * sl - cut - d * sl
  BY <1>3, <1>4, <1>7 DEF unrevealedBond
<1>14. Rest(r)' = x * (b - sl) + (f - cut - a * g)
  <2>1. f + n * b - (n - (a + d)) * sl - cut - d * sl
           - (p * (b - sl) + a * (b + g) + d * (b - sl)) = x * (b - sl) + (f - cut - a * g)
    BY <1>5, <1>6, <1>8, <1>10, DecidedRest
  <2>2. Rest(r)' = pot'[r] - ClaimsLeft(r)'
    BY DEF Rest
  <2>3. PICK u, v, z : /\ u = f + n * b - (n - (a + d)) * sl - cut - d * sl
                       /\ v = p * (b - sl) + a * (b + g) + d * (b - sl)
                       /\ z = x * (b - sl) + (f - cut - a * g)
    OBVIOUS
  <2>4. u - v = z
    BY <1>5, <1>6, <1>8, <1>10, <2>1, <2>3
  <2>5. pot'[r] = u /\ ClaimsLeft(r)' = v
    BY <1>12, <1>13, <2>3, Zenon
  <2>6. Rest(r)' = z
    BY <2>2, <2>4, <2>5, Zenon
  <2> QED BY <2>3, <2>6, Zenon
<1>15. x * (b - sl) \in Nat /\ (x = 0 => x * (b - sl) = 0)
  <2>1. b - sl \in Nat
    BY <1>5
  <2> QED BY <1>8, <2>1, BondsCounted
<1>16. PotOK(r)'
  <2>1. Rest(r)' >= 0 /\ ("Zero" \notin Hashes => Rest(r)' \in 0 .. a - 1)
    <3>1. PICK e, h : e = f - cut - a * g /\ h = x * (b - sl)
      OBVIOUS
    <3>2. Rest(r)' = h + e /\ e \in 0 .. a - 1 /\ h \in Nat /\ ("Zero" \notin Hashes => h = 0)
      BY <1>8, <1>10, <1>14, <1>15, <3>1
    <3> QED BY <1>6, <3>2
  <2>2. w.state \in Resolved /\ w.state \notin {"NONE", "PENDING", "FROZEN", "TIMED_OUT"}
    BY DEF Resolved
  <2>3. RestOK(r)'
    BY <1>7, <2>1, <2>2 DEF RestOK, winners
  <2> QED BY <1>6, <1>7, <2>2, <2>3 DEF PotOK, winners
<1>17. \A t \in Requests \ {r} : commitments'[t] = commitments[t]
  OBVIOUS
<1> QED BY <1>1, <1>16, <1>17, OneRequest

\* Agreement: nobody lost, the silent are slashed.
LEMMA AgreedMoney ==
  ASSUME MoneyInv, VoteInv', NEW r \in Requests, finalizeAgreed(r)
  PROVE  MoneyInv'
<1> DEFINE q == requests[r]
           st == IF q.approve > 0 THEN "RESOLVED_APPROVED" ELSE "RESOLVED_DENIED"
<1>1. /\ q.state = "PENDING" /\ (q.approve > 0 \/ q.deny > 0) /\ ~(q.approve > 0 /\ q.deny > 0)
      /\ commitments' = commitments
      /\ pot' = [pot EXCEPT ![r] = @ - unrevealedBond(q) - daoCut(q)]
  BY DEF finalizeAgreed, disputed
<1>2. /\ q \in Record /\ q.fee \in Int /\ q.approve \in Nat /\ q.deny \in Nat /\ pot[r] \in Int
      /\ q.committed \in Nat /\ q.revealed \in Nat /\ q.slashAmount \in Nat /\ q.bondTarget \in Nat
  BY MoneyTypes
<1>3. requests' = [requests EXCEPT ![r] = [q EXCEPT !.state = st, !.fee = q.fee - daoCut(q)]]
  BY <1>2, MoneyTypes DEF finalizeAgreed, Record
<1>4. st \in States /\ daoCut(q) \in Int /\ q.fee - daoCut(q) \in Int
  BY <1>2, CutIsInteger DEF States
<1>5. SameTerms(requests'[r], q) /\ requests'[r].state = st /\ requests'[r].fee = q.fee - daoCut(q)
  <2>1. PICK o, f : o = st /\ f = q.fee - daoCut(q)
    OBVIOUS
  <2>2. requests'[r] = Settled(q, o, f)
    BY <1>3, <2>1, MoneyTypes DEF Settled
  <2>3. o \in States /\ f \in Int
    BY <1>4, <2>1
  <2>4. SameTerms(Settled(q, o, f), q) /\ Settled(q, o, f).state = o /\ Settled(q, o, f).fee = f
    BY <1>2, <2>3, SettledTerms
  <2> QED BY <2>1, <2>2, <2>4
<1>6. q.approve = Count(r, "APPROVED") /\ q.deny = Count(r, "DENIED")
      /\ pot[r] = q.fee + q.committed * q.bondTarget
  BY <1>1 DEF MoneyInv, CountOK, PotOK
<1>7. PICK win \in {"APPROVED", "DENIED"}, lose \in {"APPROVED", "DENIED"} :
        /\ win # lose /\ Count(r, win) > 0 /\ Count(r, lose) = 0
        /\ st = IF win = "APPROVED" THEN "RESOLVED_APPROVED" ELSE "RESOLVED_DENIED"
  <2>1. CASE q.approve > 0
    BY <1>1, <1>2, <1>6, <2>1
  <2>2. CASE ~(q.approve > 0)
    BY <1>1, <1>2, <1>6, <2>2
  <2> QED BY <2>1, <2>2
<1>8. unrevealedBond(q) \in Int
  BY <1>2 DEF unrevealedBond
<1>9. /\ pot'[r] = pot[r] - unrevealedBond(q) - daoCut(q)
      /\ pot' \in [Requests -> Int]
      /\ \A t \in Requests \ {r} : requests'[t] = requests[t] /\ pot'[t] = pot[t]
  <2>1. pot \in [Requests -> Int] /\ pot[r] - unrevealedBond(q) - daoCut(q) \in Int
    BY <1>2, <1>4, <1>8 DEF MoneyInv
  <2> HIDE DEF q, st
  <2> QED BY <1>1, <1>3, <2>1
<1>10. PICK f, cut : f = q.fee /\ cut = daoCut(q)
  OBVIOUS
<1>11. pot'[r] = f + q.committed * q.bondTarget - unrevealedBond(q) - cut
                  - Count(r, lose) * q.slashAmount
  <2>1. Count(r, lose) * q.slashAmount = 0
    BY <1>2, <1>7
  <2>2. q.committed * q.bondTarget \in Int
    BY <1>2
  <2>3. PICK m, u, z : /\ m = q.committed * q.bondTarget /\ u = unrevealedBond(q)
                       /\ z = Count(r, lose) * q.slashAmount
    OBVIOUS
  <2>4. m \in Int /\ u \in Int /\ z = 0 /\ f \in Int /\ cut \in Int /\ pot[r] = f + m
        /\ pot'[r] = pot[r] - u - cut
    BY <1>2, <1>4, <1>6, <1>8, <1>9, <1>10, <2>1, <2>2, <2>3
  <2>5. pot'[r] = f + m - u - cut - z
    BY <2>4
  <2> QED BY <2>3, <2>5
<1>12. f \in Int /\ cut \in Int /\ requests'[r].fee = f - cut
  BY <1>2, <1>4, <1>5, <1>10
<1>13. requests'[r].state = IF win = "APPROVED" THEN "RESOLVED_APPROVED" ELSE "RESOLVED_DENIED"
  BY <1>5, <1>7
<1>14. q.state \in {"PENDING", "FROZEN"}
  BY <1>1
<1> QED BY <1>1, <1>5, <1>7, <1>9, <1>11, <1>12, <1>13, <1>14, DecideMoney

\* A ruling: the losers pay the refund of the sponsor and the protocol.
LEMMA ResolveMoney ==
  ASSUME MoneyInv, VoteInv', NEW r \in Requests, NEW wins \in BOOLEAN, resolveDispute(r, wins)
  PROVE  MoneyInv'
<1> DEFINE q == requests[r]
           st == IF wins THEN "RESOLVED_APPROVED" ELSE "RESOLVED_DENIED"
<1>1. /\ q.state = "FROZEN" /\ commitments' = commitments
      /\ pot' = [pot EXCEPT ![r] = @ - q.fee - (slashedBy(q, wins) - q.fee + daoCut(q))]
  BY DEF resolveDispute
<1>2. /\ q \in Record /\ q.fee \in Int /\ q.approve \in Nat /\ q.deny \in Nat /\ pot[r] \in Int
      /\ q.committed \in Nat /\ q.revealed \in Nat /\ q.slashAmount \in Nat /\ q.bondTarget \in Nat
      /\ Covered(q)
  BY MoneyTypes
<1>3. requests' = [requests EXCEPT ![r] = [q EXCEPT !.state = st, !.fee = q.fee - daoCut(q)]]
  BY <1>2, MoneyTypes DEF resolveDispute, Record
<1>4. st \in States /\ daoCut(q) \in Int /\ q.fee - daoCut(q) \in Int
  BY <1>2, CutIsInteger DEF States
<1>5. SameTerms(requests'[r], q) /\ requests'[r].state = st /\ requests'[r].fee = q.fee - daoCut(q)
  <2>1. PICK o, f : o = st /\ f = q.fee - daoCut(q)
    OBVIOUS
  <2>2. requests'[r] = Settled(q, o, f)
    BY <1>3, <2>1, MoneyTypes DEF Settled
  <2>3. o \in States /\ f \in Int
    BY <1>4, <2>1
  <2>4. SameTerms(Settled(q, o, f), q) /\ Settled(q, o, f).state = o /\ Settled(q, o, f).fee = f
    BY <1>2, <2>3, SettledTerms
  <2> QED BY <2>1, <2>2, <2>4
<1>6. q.approve = Count(r, "APPROVED") /\ q.deny = Count(r, "DENIED")
      /\ pot[r] = q.fee + q.committed * q.bondTarget - unrevealedBond(q)
  BY <1>1 DEF MoneyInv, CountOK, PotOK
<1>7. PICK win \in {"APPROVED", "DENIED"}, lose \in {"APPROVED", "DENIED"} :
        /\ win # lose /\ Count(r, win) > 0
        /\ slashedBy(q, wins) = Count(r, lose) * q.slashAmount
        /\ st = IF win = "APPROVED" THEN "RESOLVED_APPROVED" ELSE "RESOLVED_DENIED"
  <2>1. q.approve > 0 /\ q.deny > 0
    BY <1>1, <1>2 DEF Covered
  <2>2. CASE wins
    <3>1. slashedBy(q, wins) = Count(r, "DENIED") * q.slashAmount /\ st = "RESOLVED_APPROVED"
      BY <1>6, <2>2 DEF slashedBy
    <3> QED BY <1>6, <2>1, <3>1
  <2>3. CASE ~wins
    <3>1. slashedBy(q, wins) = Count(r, "APPROVED") * q.slashAmount /\ st = "RESOLVED_DENIED"
      BY <1>6, <2>3 DEF slashedBy
    <3> QED BY <1>6, <2>1, <3>1
  <2> QED BY <2>2, <2>3
<1>8. unrevealedBond(q) \in Int /\ slashedBy(q, wins) \in Int /\ q.committed * q.bondTarget \in Int
  BY <1>2 DEF unrevealedBond, slashedBy
<1>9. /\ pot'[r] = pot[r] - q.fee - (slashedBy(q, wins) - q.fee + daoCut(q))
      /\ pot' \in [Requests -> Int]
      /\ \A t \in Requests \ {r} : requests'[t] = requests[t] /\ pot'[t] = pot[t]
  <2>1. pot \in [Requests -> Int] /\ pot[r] - q.fee - (slashedBy(q, wins) - q.fee + daoCut(q)) \in Int
    BY <1>2, <1>4, <1>8 DEF MoneyInv
  <2> HIDE DEF q, st
  <2> QED BY <1>1, <1>3, <2>1
<1>10. PICK f, cut : f = q.fee /\ cut = daoCut(q)
  OBVIOUS
<1>11. pot'[r] = f + q.committed * q.bondTarget - unrevealedBond(q) - cut
                  - Count(r, lose) * q.slashAmount
  BY <1>2, <1>4, <1>6, <1>7, <1>8, <1>9, <1>10
<1>12. f \in Int /\ cut \in Int /\ requests'[r].fee = f - cut
  BY <1>2, <1>4, <1>5, <1>10
<1>13. requests'[r].state = IF win = "APPROVED" THEN "RESOLVED_APPROVED" ELSE "RESOLVED_DENIED"
  BY <1>5, <1>7
<1>14. q.state \in {"PENDING", "FROZEN"}
  BY <1>1
<1> QED BY <1>1, <1>5, <1>7, <1>9, <1>11, <1>12, <1>13, <1>14, DecideMoney

\* A request that ends without a decision: the sponsor has its fee back.
LEMMA UndecideMoney ==
  ASSUME MoneyInv, VoteInv', NEW r \in Requests, finalizeUnanswered(r) \/ outOfScope(r)
  PROVE  MoneyInv'
<1> DEFINE q == requests[r]
           w == requests'[r]
<1>1. /\ q.state \in {"PENDING", "FROZEN"} /\ (q.state = "PENDING" => q.approve = 0 /\ q.deny = 0)
      /\ commitments' = commitments
      /\ pot' = [pot EXCEPT ![r] = @ - q.fee]
      /\ requests' = [requests EXCEPT ![r].state = "TIMED_OUT", ![r].fee = 0]
  BY DEF finalizeUnanswered, outOfScope
<1>2. /\ q \in Record /\ q.fee \in Int /\ q.approve \in Nat /\ q.deny \in Nat /\ pot[r] \in Int
      /\ q.committed \in Nat /\ q.revealed \in Nat /\ q.slashAmount \in Nat /\ q.bondTarget \in Nat
      /\ q.slashAmount <= q.bondTarget /\ Covered(q)
  BY MoneyTypes
<1>3. SameTerms(w, q) /\ w.state = "TIMED_OUT" /\ w.fee = 0
  <2>1. w = Settled(q, "TIMED_OUT", 0)
    BY <1>1, MoneyTypes DEF Settled
  <2>2. "TIMED_OUT" \in States /\ 0 \in Int
    BY DEF States
  <2>3. /\ SameTerms(Settled(q, "TIMED_OUT", 0), q)
        /\ Settled(q, "TIMED_OUT", 0).state = "TIMED_OUT" /\ Settled(q, "TIMED_OUT", 0).fee = 0
    BY <1>2, <2>2, SettledTerms
  <2> QED BY <2>1, <2>3
<1>4. pot'[r] = pot[r] - q.fee /\ pot' \in [Requests -> Int]
      /\ \A t \in Requests \ {r} :
            requests'[t] = requests[t] /\ commitments'[t] = commitments[t] /\ pot'[t] = pot[t]
  <2>1. pot \in [Requests -> Int] /\ pot[r] - q.fee \in Int
    BY <1>2 DEF MoneyInv
  <2>2. pot'[r] = pot[r] - q.fee /\ pot' \in [Requests -> Int]
        /\ \A t \in Requests \ {r} : pot'[t] = pot[t]
    BY <1>1, <2>1
  <2>3. \A t \in Requests \ {r} : requests'[t] = requests[t]
    BY <1>1, MoneyTypes
  <2> QED BY <1>1, <2>2, <2>3
<1>5. /\ CountOK(r)' /\ SealOK(r)'
      /\ ClaimsLeft(r)' = Count(r, "PENDING") * ClaimOf(w, "PENDING")
                          + Count(r, "APPROVED") * ClaimOf(w, "APPROVED")
                          + Count(r, "DENIED") * ClaimOf(w, "DENIED")
  BY <1>1, <1>3, SettleMoney
<1>6. PICK n, b, sl, f : n = q.committed /\ b = q.bondTarget /\ sl = q.slashAmount /\ f = q.fee
  OBVIOUS
<1>7. PICK a, d, p, x :
        /\ a = Count(r, "APPROVED") /\ d = Count(r, "DENIED") /\ p = Count(r, "PENDING")
        /\ x = Overwritten(r)
  OBVIOUS
<1>8. CountOK(r) /\ PotOK(r)
  BY DEF MoneyInv
<1>9. a \in Nat /\ d \in Nat /\ p \in Nat /\ n \in Nat /\ b \in Nat /\ sl \in Nat /\ sl <= b /\ f \in Int
  BY <1>2, <1>6, <1>7, VotersCounted
<1>10. /\ q.approve = a /\ q.deny = d /\ q.revealed = a + d
       /\ x \in Nat /\ n = a + d + p + x /\ ("Zero" \notin Hashes => x = 0)
  BY <1>6, <1>7, <1>8, <1>9 DEF CountOK, Overwritten
<1>11. w \in Record /\ w.approve = a /\ w.deny = d /\ w.bondTarget = b /\ w.slashAmount = sl
  BY <1>3, <1>6, <1>10 DEF SameTerms
<1>12. /\ ClaimOf(w, "PENDING") = b - (IF a > 0 \/ d > 0 THEN sl ELSE 0)
       /\ ClaimOf(w, "APPROVED") = b /\ ClaimOf(w, "DENIED") = b
  <2> HIDE DEF w
  <2> QED BY <1>3, <1>11, UndecidedClaims
<1>13. Rest(r)' \in Nat /\ ("Zero" \notin Hashes => Rest(r)' = 0)
  <2>1. CASE q.state = "PENDING"
    <3>1. a = 0 /\ d = 0
      BY <1>1, <1>10, <2>1
    <3>2. ClaimsLeft(r)' = p * b
      BY <1>5, <1>7, <1>9, <1>12, <3>1
    <3>6. pot[r] = f + n * b
      BY <1>6, <1>8, <2>1 DEF PotOK
    <3>3. pot'[r] = f + n * b - f
      BY <1>4, <1>6, <1>9, <3>6
    <3>4. f + n * b - f - p * b = x * b
      BY <1>9, <1>10, <3>1, UnansweredRest
    <3>7. Rest(r)' = pot'[r] - ClaimsLeft(r)'
      BY DEF Rest
    <3>5. Rest(r)' = x * b
      BY <1>9, <1>10, <3>2, <3>3, <3>4, <3>7
    <3> QED BY <1>9, <1>10, <3>5, BondsCounted
  <2>2. CASE q.state = "FROZEN"
    <3>1. a > 0 /\ d > 0
      BY <1>2, <1>10, <2>2 DEF Covered
    <3>2. ClaimsLeft(r)' = p * (b - sl) + a * b + d * b
      BY <1>5, <1>7, <1>12, <3>1
    <3>7. pot[r] = f + n * b - (n - (a + d)) * sl
      BY <1>6, <1>8, <1>10, <2>2 DEF PotOK, unrevealedBond
    <3>3. pot'[r] = f + n * b - (n - (a + d)) * sl - f
      BY <1>4, <1>6, <1>9, <3>7
    <3>4. f + n * b - (n - (a + d)) * sl - f - (p * (b - sl) + a * b + d * b) = x * (b - sl)
      BY <1>9, <1>10, UndecidedRest
    <3>8. Rest(r)' = pot'[r] - ClaimsLeft(r)'
      BY DEF Rest
    <3>5. Rest(r)' = x * (b - sl)
      BY <1>9, <1>10, <3>2, <3>3, <3>4, <3>8
    <3>6. b - sl \in Nat
      BY <1>9
    <3> QED BY <1>10, <3>5, <3>6, BondsCounted
  <2> QED BY <1>1, <2>1, <2>2
<1>14. PotOK(r)'
  <2>1. RestOK(r)'
    BY <1>3, <1>13 DEF RestOK, Resolved
  <2> QED BY <1>3, <2>1 DEF PotOK, Resolved
<1> QED BY <1>4, <1>5, <1>14, OneRequest

\* A dispute leaves the pot to the ruling, less the slashes of the silent.
LEMMA FreezeMoney ==
  ASSUME MoneyInv, VoteInv', NEW r \in Requests, finalizeDisputed(r)
  PROVE  MoneyInv'
<1> DEFINE q == requests[r]
           w == requests'[r]
<1>1. /\ q.state = "PENDING" /\ commitments' = commitments
      /\ pot' = [pot EXCEPT ![r] = @ - unrevealedBond(q)]
      /\ requests' = [requests EXCEPT ![r].state = "FROZEN",
                                      ![r].arbitrationDeadline = now + ArbitrationTimeout]
  BY DEF finalizeDisputed
<1>2. /\ q \in Record /\ pot[r] \in Int
      /\ q.committed \in Nat /\ q.revealed \in Nat /\ q.slashAmount \in Nat
  BY MoneyTypes
<1>3. SameTerms(w, q) /\ w.state = "FROZEN" /\ w.fee = q.fee
  <2>1. w = [q EXCEPT !.state = "FROZEN", !.arbitrationDeadline = now + ArbitrationTimeout]
    BY <1>1, MoneyTypes
  <2>2. w \in Record
    BY DEF VoteInv, PayInv, RequestsOK
  <2> QED BY <1>2, <2>1, <2>2 DEF SameTerms, Record
<1>4. pot'[r] = pot[r] - unrevealedBond(q) /\ pot' \in [Requests -> Int]
      /\ \A t \in Requests \ {r} :
            requests'[t] = requests[t] /\ commitments'[t] = commitments[t] /\ pot'[t] = pot[t]
  <2>1. pot \in [Requests -> Int] /\ unrevealedBond(q) \in Int
    BY <1>2 DEF MoneyInv, unrevealedBond
  <2>2. pot[r] - unrevealedBond(q) \in Int
    BY <1>2, <2>1
  <2>3. /\ pot'[r] = pot[r] - unrevealedBond(q) /\ pot' \in [Requests -> Int]
        /\ \A t \in Requests \ {r} : pot'[t] = pot[t]
    BY <1>1, <2>1, <2>2
  <2>4. \A t \in Requests \ {r} : requests'[t] = requests[t]
    BY <1>1, MoneyTypes
  <2> QED BY <1>1, <2>3, <2>4
<1>5. CountOK(r)' /\ SealOK(r)'
  BY <1>1, <1>3, SettleMoney
<1>6. pot[r] = q.fee + q.committed * q.bondTarget
  BY <1>1 DEF MoneyInv, PotOK
<1>7. pot'[r] = w.fee + w.committed * w.bondTarget - unrevealedBond(w)
  <2>1. unrevealedBond(w) = unrevealedBond(q)
    BY <1>3 DEF SameTerms, unrevealedBond
  <2>2. w.fee = q.fee /\ w.committed = q.committed /\ w.bondTarget = q.bondTarget
    BY <1>3 DEF SameTerms
  <2>3. q.fee \in Int /\ q.committed \in Nat /\ q.bondTarget \in Nat
    BY MoneyTypes
  <2>4. unrevealedBond(q) \in Int
    BY <1>2 DEF unrevealedBond
  <2>5. PICK m, u : m = q.committed * q.bondTarget /\ u = unrevealedBond(q)
    OBVIOUS
  <2>6. m \in Int /\ u \in Int /\ pot'[r] = q.fee + m - u
    BY <1>4, <1>6, <2>3, <2>4, <2>5
  <2> QED BY <2>1, <2>2, <2>5, <2>6
<1>8. PotOK(r)'
  <2>1. unrevealedBond(requests[r])' = unrevealedBond(w)
    BY DEF unrevealedBond
  <2> QED BY <1>3, <1>7, <2>1 DEF PotOK, Final, Resolved
<1> QED BY <1>4, <1>5, <1>8, OneRequest

\* Every transaction preserves the invariant.
LEMMA NextMoney == MoneyInv /\ [Next]_vars => MoneyInv'
<1> SUFFICES ASSUME MoneyInv, [Next]_vars PROVE MoneyInv'
  OBVIOUS
<1>0. VoteInv'
  BY NextVote DEF MoneyInv
<1>1. CASE tick \/ Governance \/ UNCHANGED vars
  <2>1. requests' = requests /\ commitments' = commitments /\ pot' = pot
    BY <1>1 DEF tick, Governance, applyParam, scheduleParam, addSentinel, removeSentinel, vars
  <2>2. \A r \in Requests : CountOK(r)' /\ SealOK(r)' /\ PotOK(r)'
    BY <2>1, RequestKept
  <2> QED BY <1>0, <2>1, <2>2 DEF MoneyInv
<1>2. CASE Voting
  BY <1>0, <1>2, PostMoney, CommitMoney, RevealMoney, ClaimMoney, AgreedMoney, FreezeMoney, UndecideMoney
     DEF Voting, finalize
<1>3. CASE Arbitration
  BY <1>0, <1>3, ResolveMoney, UndecideMoney DEF Arbitration, markOutOfScope, timeoutArbitration
<1> QED BY <1>1, <1>2, <1>3 DEF Next

\* Before the end the pot is ahead of what is owed by the overwritten bonds.
LEMMA OpenOwed ==
  ASSUME MoneyInv, NEW r \in Requests, requests[r].state \in {"PENDING", "FROZEN"}
  PROVE  /\ pot[r] = Owed(r) + Overwritten(r) * requests[r].bondTarget
         /\ Owed(r) \in Int /\ Overwritten(r) \in Nat
         /\ "Zero" \notin Hashes => Overwritten(r) = 0
<1> DEFINE q == requests[r]
<1>1. CountOK(r) /\ PotOK(r) /\ PayInv
  BY DEF MoneyInv, VoteInv
<1>2. PICK n, b, f, x : n = q.committed /\ b = q.bondTarget /\ f = q.fee /\ x = Overwritten(r)
  OBVIOUS
<1>3. PICK c, u : c = Cardinality(Committers(r)) /\ u = unrevealedBond(q)
  OBVIOUS
<1>4. /\ n \in Nat /\ b \in Nat /\ f \in Int /\ q.revealed \in Nat /\ q.slashAmount \in Nat
  BY <1>2, MoneyTypes
<1>5. /\ c \in Nat /\ n = c + x /\ x \in Nat /\ ("Zero" \notin Hashes => x = 0)
  <2>1. c = Count(r, "PENDING") + Count(r, "APPROVED") + Count(r, "DENIED")
    BY <1>1, <1>3, CommittersCounted
  <2>2. Count(r, "PENDING") \in Nat /\ Count(r, "APPROVED") \in Nat /\ Count(r, "DENIED") \in Nat
    BY VotersCounted
  <2> QED BY <1>1, <1>2, <1>4, <2>1, <2>2 DEF CountOK, Overwritten
<1>6. u \in Int
  BY <1>2, <1>3, <1>4 DEF unrevealedBond
<1>7. f + n * b = f + c * b + x * b
  BY <1>4, <1>5, OpenRest
<1>8. c * b \in Int /\ x * b \in Int /\ n * b \in Int
  BY <1>4, <1>5
<1>9. CASE q.state = "PENDING"
  <2>1. Owed(r) = f + c * b /\ pot[r] = f + n * b
    BY <1>1, <1>2, <1>3, <1>9 DEF Owed, PotOK
  <2> QED BY <1>2, <1>4, <1>5, <1>7, <1>8, <2>1
<1>10. CASE q.state = "FROZEN"
  <2>1. Owed(r) = f + c * b - u /\ pot[r] = f + n * b - u
    BY <1>1, <1>2, <1>3, <1>10 DEF Owed, PotOK
  <2> QED BY <1>2, <1>4, <1>5, <1>6, <1>7, <1>8, <2>1
<1> QED BY <1>9, <1>10

\* At the end what is owed is what was not claimed.
LEMMA FinalOwed ==
  ASSUME MoneyInv, NEW r \in Requests, requests[r].state \in Final
  PROVE  Owed(r) = ClaimsLeft(r) /\ RestOK(r) /\ pot[r] \in Int /\ ClaimsLeft(r) \in Int
<1>1. requests[r] \in Record /\ RestOK(r) /\ pot[r] \in Int
      /\ (requests[r].state \in Resolved => winners(requests[r]) > 0)
  BY MoneyTypes DEF MoneyInv, PotOK
<1>2. \A vote : ClaimOf(requests[r], vote) \in Int /\ Left(r, vote) \in Nat
  BY <1>1, ClaimIsInteger, VotersCounted
<1>3. PICK x, y, z, a, b, c :
        /\ x = Left(r, "PENDING") /\ y = Left(r, "APPROVED") /\ z = Left(r, "DENIED")
        /\ a = ClaimOf(requests[r], "PENDING") /\ b = ClaimOf(requests[r], "APPROVED")
        /\ c = ClaimOf(requests[r], "DENIED")
  OBVIOUS
<1>4. ClaimsLeft(r) = x * a + y * b + z * c
  BY <1>3 DEF ClaimsLeft
<1>5. x \in Int /\ y \in Int /\ z \in Int /\ a \in Int /\ b \in Int /\ c \in Int
  BY <1>2, <1>3
<1>6. Owed(r) = x * a + y * b + z * c
  BY <1>3 DEF Owed, Left, Final, Resolved
<1> QED BY <1>1, <1>4, <1>5, <1>6, ThreeClaims

\* Before it is posted nothing is owed for a request.
LEMMA NothingOwed ==
  ASSUME MoneyInv, NEW r \in Requests, requests[r].state = "NONE"
  PROVE  Owed(r) = 0 /\ pot[r] = 0
  BY DEF MoneyInv, PotOK, Owed

\* The cases of a request.
LEMMA EveryState ==
  ASSUME MoneyInv, NEW r \in Requests
  PROVE  \/ requests[r].state = "NONE"
         \/ requests[r].state \in {"PENDING", "FROZEN"}
         \/ requests[r].state \in Final
  BY MoneyTypes DEF Record, States, Final, Resolved

\* The pot of a request covers what is owed for it in every state, also when
\* a sentinel commits to the empty hash, which the contract takes for no
\* commitment: the contract never pays one request with another one's money.
THEOREM PotsCoverClaims == Spec => []Solvent
<1>1. MoneyInv => Solvent
  <2> SUFFICES ASSUME MoneyInv, NEW r \in Requests PROVE pot[r] >= Owed(r)
    BY DEF Solvent
  <2>1. CASE requests[r].state \in {"PENDING", "FROZEN"}
    <3>1. PICK o, x, b : o = Owed(r) /\ x = Overwritten(r) /\ b = requests[r].bondTarget
      OBVIOUS
    <3>2. pot[r] = o + x * b /\ o \in Int /\ x \in Nat /\ b \in Nat
      BY <2>1, <3>1, OpenOwed, MoneyTypes
    <3>3. x * b \in Nat
      BY <3>2
    <3> QED BY <3>1, <3>2, <3>3
  <2>2. CASE requests[r].state \in Final
    BY <2>2, FinalOwed DEF RestOK, Rest
  <2>3. CASE requests[r].state = "NONE"
    BY <2>3, NothingOwed
  <2> QED BY <2>1, <2>2, <2>3, EveryState
<1> QED BY <1>1, InitMoney, NextMoney, PTL DEF Spec

\* Nothing is stranded in the contract but the remainder of dividing a fee,
\* when no sentinel commits to the empty hash: keccak256 gives the service
\* another one.
THEOREM OnlyRemaindersStay ==
  ASSUME "Zero" \notin Hashes
  PROVE  Spec => []OnlyDustStays
<1>1. MoneyInv => OnlyDustStays
  <2> SUFFICES ASSUME MoneyInv, NEW r \in Requests,
                      \A s \in Committers(r) : commitments[r][s].claimed,
                      requests[r].state \in Final
      PROVE  /\ requests[r].state = "TIMED_OUT" => pot[r] = 0
             /\ requests[r].state \in Resolved => pot[r] \in 0 .. winners(requests[r]) - 1
    BY DEF OnlyDustStays, Final
  <2>1. Unclaimed(r, "PENDING") = {} /\ Unclaimed(r, "APPROVED") = {} /\ Unclaimed(r, "DENIED") = {}
    BY DEF Unclaimed, Voters, Committers
  <2>2. ClaimsLeft(r) = 0
    <3>1. \A vote : ClaimOf(requests[r], vote) \in Int
      BY ClaimIsInteger, MoneyTypes DEF MoneyInv, PotOK
    <3>2. Left(r, "PENDING") = 0 /\ Left(r, "APPROVED") = 0 /\ Left(r, "DENIED") = 0
      BY <2>1, FS_EmptySet DEF Left
    <3> QED BY <3>1, <3>2 DEF ClaimsLeft
  <2> QED BY <2>2, FinalOwed DEF RestOK, Rest, Final
<1> QED BY <1>1, InitMoney, NextMoney, PTL DEF Spec
=============================================================================
