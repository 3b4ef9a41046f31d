---------------------------- MODULE DriverProofs ---------------------------
(***************************************************************************)
(* For any depth of reorganisations within the configured one, any page    *)
(* size and any number of stops, of a service that starts at a final block *)
(* (WithinDepth):                                                          *)
(*                                                                         *)
(*   StateIsOneChain       the state in memory and every snapshot are the  *)
(*                         result of one chain (StateIsChain);             *)
(*   UpdatesNeverRefused   the state machine takes every update, and no    *)
(*                         reorg is mistaken for one beyond the depth      *)
(*                         (NeverRefused).                                 *)
(*                                                                         *)
(* Both rest on DriverInv.  The blocks up to Final are never replaced, and *)
(* four things hang on that: the earliest snapshot, which a restart goes   *)
(* back to, is of such a block, so is the watcher's safe block, so is all  *)
(* that a warp covers, and so is the start block.  Above, the snapshots    *)
(* and the blocks the watcher knows need not be canonical, only of one     *)
(* history (Nested, WatcherOk), and the two sides are in step (Sync): what *)
(* the state machine has been told of is what the watcher announced, and   *)
(* none of the snapshots an uncled block needs is missing (Covered).  An   *)
(* update in flight is one the state machine takes, and they are in step   *)
(* after it (Taken).  A scan that starts over may find other blocks, but   *)
(* not other final ones (Scanning); the return to the earliest snapshot    *)
(* is queued before anything else (Resuming).                              *)
(*                                                                         *)
(* Lemmas on hashes and the final part of the chain come first, then one   *)
(* section per action.                                                     *)
(***************************************************************************)
EXTENDS Driver, SequenceTheorems, WellFoundedInduction, TLAPS

\* Every set of natural numbers that is not empty has a least element.
LEMMA LeastNatural ==
  ASSUME NEW T, T \subseteq Nat, T # {}
  PROVE  \E x \in T : \A y \in T : x <= y
<1>1. PICK R : R = OpToRel(<, Nat)
  OBVIOUS
<1>2. \A x, y \in Nat : <<x, y>> \in R <=> x < y
  BY <1>1 DEF OpToRel
<1>3. IsWellFoundedOn(R, Nat)
  BY <1>1, NatLessThanWellFounded
<1>4. \E x \in T : \A y \in T : ~(<<y, x>> \in R)
  BY <1>3, WFMin
<1>5. PICK x \in T : \A y \in T : ~(<<y, x>> \in R)
  BY <1>4
<1>6. \A y \in T : ~(y < x)
  BY <1>2, <1>5
<1> QED BY <1>6

\* The maximum of two numbers.
LEMMA MaxOfTwo ==
  ASSUME NEW a \in Int, NEW b \in Int
  PROVE  Max({a, b}) = IF a >= b THEN a ELSE b
  BY DEF Max

\* A bounded set of natural numbers that is not empty has a greatest element.
LEMMA MaxOfBounded ==
  ASSUME NEW T, T \subseteq Nat, T # {}, NEW b \in Nat, \A x \in T : x <= b
  PROVE  Max(T) \in T /\ \A x \in T : x <= Max(T)
<1>1. PICK U : U = {u \in Nat : \A x \in T : x <= u}
  OBVIOUS
<1>2. U \subseteq Nat /\ b \in U
  BY <1>1
<1>3. PICK u \in U : \A y \in U : u <= y
  BY <1>2, LeastNatural
<1>4. u \in Nat /\ \A x \in T : x <= u
  BY <1>1, <1>3
<1>5. u \in T
  <2>1. SUFFICES ASSUME u \notin T PROVE FALSE
    OBVIOUS
  <2>2. \A x \in T : x < u
    BY <1>4, <2>1
  <2>3. u - 1 \in Nat /\ \A x \in T : x <= u - 1
    <3>1. PICK t : t \in T /\ t \in Nat /\ t < u
      BY <2>2
    <3>2. u - 1 \in Nat
      BY <1>4, <3>1
    <3>3. \A x \in T : x \in Nat /\ x <= u - 1
      BY <1>4, <2>2
    <3> QED BY <3>2, <3>3
  <2>4. u - 1 \in U
    BY <1>1, <2>3
  <2> QED BY <1>3, <1>4, <2>4
<1>6. \E x \in T : \A y \in T : x >= y
  BY <1>4, <1>5
<1>7. Max(T) \in T /\ \A y \in T : Max(T) >= y
  BY <1>6 DEF Max
<1> QED BY <1>7

\* The least element of a set of natural numbers.
LEMMA MinOfNaturals ==
  ASSUME NEW T, T \subseteq Nat, T # {}
  PROVE  Min(T) \in T /\ \A x \in T : Min(T) <= x
  BY LeastNatural DEF Min

----------------------------------------------------------------------------
(* The invariant                                                           *)

Hashes == Seq({0, 1})
Messages == [kind : {"block", "events"}, hash : Hashes]
Updates ==
    [kind : {"new"}, hash : Hashes] \cup [kind : {"uncle"}, number : Nat]
      \cup [kind : {"warp"}, from : Nat, to : Nat]

\* Block h is in the history of block g.
Below(h, g) == Len(h) <= Len(g) /\ h = SubSeq(g, 1, Len(h))

\* The chain no longer replaces blocks up to this number.
Final == highest - depth

\* The state may begin with block n.
FromStart(n) == start_block \in {-1, n}
Canon(h) == Len(h) <= Final /\ Below(h, chain)

ChainOk ==
    /\ chain \in Hashes /\ highest \in Nat /\ <<start_block, depth>> \in Settings
    /\ InitialHead <= highest /\ Final <= Len(chain) /\ Len(chain) <= highest

\* A state of the service, and the last block it knows of.
StateOk(l) == l \in Seq(Messages) /\ l # <<>> /\ Linked(l) /\ FromStart(Len(l[1].hash))
Tip(l) == l[Len(l)].hash
Complete(l) == StateOk(l) /\ l[Len(l)].kind = "events"

\* The snapshots are those of one history, and the earliest one, which a
\* restart goes back to, is of a block that stays.
SnapshotsOk(sn) == \A n \in DOMAIN sn : Complete(sn[n]) /\ Len(Tip(sn[n])) = n
Nested(sn) == \A m, n \in DOMAIN sn : m <= n => Below(Tip(sn[m]), Tip(sn[n]))
Anchored(sn) ==
    \A n \in DOMAIN sn : (\A m \in DOMAIN sn : n <= m) => Canon(Tip(sn[n]))
Bounded(sn) == \A n \in DOMAIN sn : n <= highest
StoreOk(sn) == SnapshotsOk(sn) /\ Nested(sn) /\ Anchored(sn) /\ Bounded(sn)

\* The fields of the watcher.
Watchers == [pending : Nat, safe : Hashes, recent : Seq(Hashes), queue : Seq(Updates)]

\* The blocks the watcher knows, from the safe one on.
Known(w, i) == IF i = 0 THEN w.safe ELSE w.recent[i]
WatcherOk(w) ==
    /\ w \in Watchers
    /\ w.pending = Len(w.safe) + Len(w.recent) + 1 /\ Len(w.safe) + Len(w.recent) <= highest
    /\ Canon(w.safe)
    /\ \A i \in 0 .. Len(w.recent) : Len(Known(w, i)) = Len(w.safe) + i
    /\ \A i, j \in 0 .. Len(w.recent) : i <= j => Below(Known(w, i), Known(w, j))

\* q are the last of the known blocks, which are still to be announced.
News(w, q) ==
    /\ Len(q) <= Len(w.recent)
    /\ \A i \in 1 .. Len(q) : q[i] = New(w.recent[Len(w.recent) - Len(q) + i])
Announced(w, q) == Len(w.recent) - Len(q)

\* The snapshots are of the history of t; none above the safe block is missing.
Covered(w, sn, t) ==
    /\ DOMAIN sn # {}
    /\ \A n \in DOMAIN sn : n <= Len(t) /\ Below(Tip(sn[n]), t)
    /\ \A m \in DOMAIN sn : \A n \in Len(w.safe) .. Len(t) : m <= n => n \in DOMAIN sn

\* Nothing has been indexed yet, or all of the final blocks before f.
Behind(l, sn, f) ==
    \/ l = <<>> /\ DOMAIN sn = {} /\ f = start_block
    \/ /\ Complete(l) /\ Len(Tip(l)) = f - 1 /\ Canon(Tip(l))
       /\ DOMAIN sn # {}
       /\ \A n \in DOMAIN sn : n <= f - 1 /\ Canon(Tip(sn[n]))

\* The state machine, with state l, status st and snapshots sn, has been told of all
\* blocks up to the last announced one ...
Steady(w, q, l, st, sn) ==
    LET t == Known(w, Announced(w, q))
    IN  /\ News(w, q)
        /\ Complete(l) /\ Tip(l) = t /\ st = BlockPending(Len(t) + 1)
        /\ Covered(w, sn, t)
\* ... of none ...
Fresh(w, q, l, st, sn) ==
    /\ News(w, q) /\ Len(q) > 0
    /\ l = <<>> /\ st = Initialized /\ DOMAIN sn = {}
    /\ LET t == w.recent[Announced(w, q) + 1]
       IN  FromStart(Len(t)) /\ Canon(t)
\* ... is to be told of a range of final ones ...
WarpReady(w, q, l, st, sn) ==
    /\ Len(q) > 0 /\ q[1].kind = "warp" /\ q[1] = Warp(q[1].from, Len(w.safe))
    /\ News(w, Tail(q)) /\ Len(Tail(q)) = Len(w.recent)
    /\ q[1].from \in Nat /\ q[1].from <= Len(w.safe)
    /\ Behind(l, sn, q[1].from)
    /\ st = IF l = <<>> THEN Initialized ELSE BlockPending(q[1].from)
\* ... receives the events of that range ...
WarpRuns(w, sp, q, l, st, sn) ==
    /\ News(w, q) /\ Len(q) = Len(w.recent)
    /\ sp = Warping(sp.from, Len(w.safe), sp.size)
    /\ sp.from \in Nat /\ sp.from <= Len(w.safe) /\ sp.size \in Nat \ {0}
    /\ Behind(l, sn, sp.from)
    /\ st = WarpEvents(sp.from, Len(w.safe))
\* ... or of one block.
Fetches(w, sp, q, l, st, sn) ==
    LET a == Announced(w, q)
        h == Known(w, a)
    IN  /\ News(w, q)
        /\ sp = Fetching(h)
        /\ StateOk(l) /\ l[Len(l)] = NewBlock(h) /\ st = BlockEvents(Len(h))
        /\ \/ DOMAIN sn = {} /\ FromStart(Len(h)) /\ Canon(h)
           \/ Len(h) > 0 /\ Covered(w, sn, SubSeq(h, 1, Len(h) - 1))

Sync(w, sp, l, st, sn) ==
    /\ WatcherOk(w) /\ StoreOk(sn)
    /\ \/ /\ sp = Idle
          /\ \/ Steady(w, w.queue, l, st, sn)
             \/ Fresh(w, w.queue, l, st, sn)
             \/ WarpReady(w, w.queue, l, st, sn)
       \/ sp.kind = "warping" /\ WarpRuns(w, sp, w.queue, l, st, sn)
       \/ sp.kind = "block" /\ Fetches(w, sp, w.queue, l, st, sn)

Kept(sn, k) == [n \in {m \in DOMAIN sn : m < k} |-> sn[n]]

\* The watcher has yet to ask for the return to the earliest snapshot.
Resuming(w, sp, st, sn) ==
    /\ w \in Watchers /\ sp = Idle /\ Len(w.queue) > 0 /\ w.queue[1].kind = "uncle"
    /\ LET k == w.queue[1].number
       IN  /\ w.queue[1] = Uncle(k) /\ k \in Nat /\ k - 1 \in DOMAIN sn
           /\ st.kind = "block_pending" /\ k < st.pending
           /\ Sync([w EXCEPT !.queue = Tail(@)], Idle, sn[k - 1], BlockPending(k), Kept(sn, k))

\* The range scan: the blocks that are final when it begins are what it finds.
\* A service that is not configured to start at a block starts after the safe one.
ScanSafe == SafeNumber(Len(scan.latest))
FromOf(f, s) == IF f = -1 THEN s + 1 ELSE f
ScanFrom == FromOf(scan.from, ScanSafe)
Anchor == IF DOMAIN snapshots = {} THEN ScanFrom ELSE ScanFrom - 1
Queued ==
    (IF DOMAIN snapshots # {} /\ ScanFrom <= Max(DOMAIN snapshots) THEN <<Uncle(ScanFrom)>> ELSE <<>>)
      \o (IF ScanFrom <= ScanSafe THEN <<Warp(ScanFrom, ScanSafe)>> ELSE <<>>)
Scanning ==
    LET w == watcher
    IN  /\ step = Idle /\ update = NoUpdate
        /\ scan \in [latest : Hashes, cached : BOOLEAN, from : Nat \cup {-1}] /\ Len(scan.latest) <= highest
        /\ scan.from = FirstUnindexed(DOMAIN snapshots)
        /\ Anchor <= Final /\ ScanSafe <= Final
        /\ Anchor <= Len(scan.latest)
        /\ Len(scan.latest) <= Anchor \/ Len(scan.latest) <= ScanSafe => Canon(scan.latest)
        /\ w \in Watchers /\ Len(w.recent) <= Len(scan.latest) - ScanSafe
        /\ w.pending = Len(scan.latest) + 1
        /\ w.queue = Queued
        /\ \A i \in 1 .. Len(w.recent) :
             /\ Len(w.recent[i]) = ScanSafe + i - 1
             /\ Len(w.recent[i]) <= Anchor \/ Len(w.recent[i]) <= ScanSafe => Canon(w.recent[i])
        /\ \A i, j \in 1 .. Len(w.recent) : i <= j => Below(w.recent[i], w.recent[j])
        /\ live = IF DOMAIN snapshots = {} THEN <<>> ELSE snapshots[Max(DOMAIN snapshots)]
        /\ status = IF DOMAIN snapshots = {} THEN Initialized
                    ELSE BlockPending(Max(DOMAIN snapshots) + 1)

\* The state and the status after the logs u.
With(l, hs) == l \o [i \in DOMAIN hs |-> Events(hs[i])]
Longer(u) == With(live, u.hashes)
After(u) ==
    IF status.kind = "warp_events" /\ LogsEnd(u) < status.to
    THEN WarpEvents(LogsEnd(u) + 1, status.to) ELSE BlockPending(LogsEnd(u) + 1)

\* The state machine takes the update, and is in step with the watcher then.
Taken(w, sp, u) ==
    \/ /\ TakesUncle(u) /\ u.number - 1 \in DOMAIN snapshots
       /\ Sync(w, sp, snapshots[u.number - 1], BlockPending(u.number),
               Kept(snapshots, u.number))
    \/ /\ TakesWarp(u)
       /\ Sync(w, sp, live, WarpEvents(u.from, u.to), snapshots)
    \/ /\ TakesNew(u)
       /\ Sync(w, sp, Append(live, NewBlock(u.hash)), BlockEvents(Len(u.hash)), snapshots)
    \/ /\ TakesLogs(u)
       /\ Sync(w, sp, Longer(u), After(u), commit(LogsEnd(u), Longer(u)))

DriverInv ==
    /\ ChainOk /\ StoreOk(snapshots) /\ Linked(live)
    /\ \/ mode = "down"
       \/ mode = "init" /\ Scanning
       \/ mode = "next" /\ (Resuming(watcher, step, status, snapshots) \/ Sync(watcher, step, live, status, snapshots))
       \/ mode = "update" /\ Taken(watcher, step, update)
       \/ mode = "prune" /\ Sync(watcher, step, live, status, snapshots)

----------------------------------------------------------------------------
(* Hashes                                                                  *)

\* The block of number n in the history of h.
LEMMA AtIs ==
  ASSUME NEW h \in Hashes, NEW n \in 0 .. Len(h)
  PROVE  /\ SubSeq(h, 1, n) \in Hashes /\ Len(SubSeq(h, 1, n)) = n
         /\ \A i \in 1 .. n : SubSeq(h, 1, n)[i] = h[i]
  BY DEF Hashes

\* Below, element by element.
LEMMA BelowIs ==
  ASSUME NEW f \in Hashes, NEW g \in Hashes
  PROVE  Below(f, g) <=> Len(f) <= Len(g) /\ \A i \in 1 .. Len(f) : f[i] = g[i]
<1>1. SUFFICES ASSUME Len(f) <= Len(g)
               PROVE  f = SubSeq(g, 1, Len(f)) <=> \A i \in 1 .. Len(f) : f[i] = g[i]
  BY DEF Below
<1>2. PICK u : u = SubSeq(g, 1, Len(f))
  OBVIOUS
<1>3. Len(f) \in Nat /\ Len(f) \in 0 .. Len(g)
  BY <1>1 DEF Hashes
<1>4. u \in Hashes /\ Len(u) = Len(f) /\ \A i \in 1 .. Len(f) : u[i] = g[i]
  BY <1>2, <1>3, AtIs
<1>5. (\A i \in 1 .. Len(f) : f[i] = g[i]) => f = u
  BY <1>4, SeqEqual DEF Hashes
<1> QED BY <1>2, <1>4, <1>5

\* Every block is in its own history.
LEMMA BelowRefl ==
  ASSUME NEW h \in Hashes
  PROVE  Below(h, h)
  BY BelowIs DEF Hashes

\* The history of a block in the history is, too.
LEMMA BelowTrans ==
  ASSUME NEW f \in Hashes, NEW g \in Hashes, NEW h \in Hashes, Below(f, g), Below(g, h)
  PROVE  Below(f, h)
<1>1. Len(f) \in Nat /\ Len(g) \in Nat /\ Len(h) \in Nat
  BY DEF Hashes
<1> QED BY <1>1, BelowIs

\* Of two blocks of a history one is in that of the other.
LEMMA BelowOrder ==
  ASSUME NEW f \in Hashes, NEW g \in Hashes, NEW h \in Hashes, Below(f, h), Below(g, h), Len(f) <= Len(g)
  PROVE  Below(f, g)
<1>1. Len(f) \in Nat /\ Len(g) \in Nat /\ Len(h) \in Nat
  BY DEF Hashes
<1> QED BY <1>1, BelowIs

\* One history has one block of each number.
LEMMA BelowSame ==
  ASSUME NEW f, NEW g, NEW h, Below(f, h), Below(g, h), Len(f) = Len(g)
  PROVE  f = g
  BY DEF Below

\* The blocks of a history are below it.
LEMMA AtBelow ==
  ASSUME NEW h \in Hashes, NEW n \in 0 .. Len(h)
  PROVE  Below(SubSeq(h, 1, n), h)
<1>1. PICK u : u = SubSeq(h, 1, n)
  OBVIOUS
<1>2. u \in Hashes /\ Len(u) = n
  BY <1>1, AtIs
<1> QED BY <1>1, <1>2 DEF Below

\* The parent of a block.
LEMMA FrontIs ==
  ASSUME NEW h \in Hashes, Len(h) > 0
  PROVE  /\ Front(h) = SubSeq(h, 1, Len(h) - 1)
         /\ Front(h) \in Hashes /\ Len(Front(h)) = Len(h) - 1 /\ Below(Front(h), h)
<1>1. Front(h) = SubSeq(h, 1, Len(h) - 1)
  BY DEF Front
<1>2. Len(h) - 1 \in 0 .. Len(h)
  BY DEF Hashes
<1> QED BY <1>1, <1>2, AtIs, AtBelow

\* A block without a parent is the genesis block.
LEMMA FrontEmpty ==
  ASSUME NEW h \in Hashes, Len(h) = 0
  PROVE  h = <<>>
  BY DEF Hashes

\* The parent is the one block below that has the number before.
LEMMA FrontOf ==
  ASSUME NEW g \in Hashes, NEW h \in Hashes, Below(g, h), Len(h) = Len(g) + 1
  PROVE  Front(h) = g
<1>1. Len(g) \in Nat /\ Len(h) > 0
  BY DEF Hashes
<1>2. Below(Front(h), h) /\ Len(Front(h)) = Len(g)
  BY <1>1, FrontIs
<1> QED BY <1>2, BelowSame

----------------------------------------------------------------------------
(* The part of the chain that stays                                        *)

\* The assumption of the theorems: the chain never replaces more blocks than the
\* watcher is configured for, and the service starts at a block that stays.  A
\* service that is not configured to start at a block starts with the first one
\* after the safe block, which only stays when reorgs are one block shorter.
WithinDepth ==
    \A s \in Settings :
      \/ s[1] \in Nat /\ s[1] <= InitialHead - s[2] /\ s[2] <= MaxReorgDepth
      \/ s[1] = -1 /\ s[2] < InitialHead /\ s[2] < MaxReorgDepth

\* The final blocks have numbers.
LEMMA FinalIs ==
  ASSUME ChainOk, WithinDepth
  PROVE  /\ Final \in Nat /\ start_block <= Final /\ Final <= Len(chain) /\ Len(chain) \in Nat
         /\ highest \in Nat /\ Len(chain) <= highest /\ highest - MaxReorgDepth <= Final
         /\ MaxReorgDepth \in Nat /\ start_block \in Nat \cup {-1} /\ depth \in Nat
         /\ start_block = -1 => 1 <= Final /\ highest - MaxReorgDepth + 1 <= Final /\ MaxReorgDepth >= 1
<1>1. InitialHead \in Nat /\ MaxReorgDepth \in Nat
  BY DriverAssumption, IndexerAssumption
<1>2. Len(chain) \in Nat
  BY DEF ChainOk, Hashes
<1>3. depth \in Nat /\ start_block \in Nat \cup {-1}
  BY DriverAssumption DEF ChainOk
<1>4. PICK p \in Settings : p = <<start_block, depth>>
  BY DEF ChainOk
<1>5. p[1] = start_block /\ p[2] = depth
  BY <1>4
<1>6. \/ start_block \in Nat /\ start_block <= InitialHead - depth /\ depth <= MaxReorgDepth
      \/ start_block = -1 /\ depth < InitialHead /\ depth < MaxReorgDepth
  BY <1>5 DEF WithinDepth
<1> QED BY <1>1, <1>2, <1>3, <1>6 DEF ChainOk, Final

\* The chain has every block below its head.
LEMMA BlockAtIs ==
  ASSUME ChainOk, NEW n \in 0 .. Len(chain)
  PROVE  BlockAt(n) \in Hashes /\ Len(BlockAt(n)) = n /\ Below(BlockAt(n), chain)
  BY AtIs, AtBelow DEF ChainOk, BlockAt

\* The final ones are canonical for good.
LEMMA CanonAt ==
  ASSUME ChainOk, WithinDepth, NEW n \in 0 .. Final
  PROVE  Canon(BlockAt(n)) /\ BlockAt(n) \in Hashes /\ Len(BlockAt(n)) = n
<1>1. n \in 0 .. Len(chain) /\ n <= Final
  BY FinalIs
<1> QED BY <1>1, BlockAtIs DEF Canon

\* There is one of each number.
LEMMA CanonSame ==
  ASSUME NEW f, NEW g, Canon(f), Canon(g), Len(f) = Len(g)
  PROVE  f = g
  BY BelowSame DEF Canon

\* Their histories are final.
LEMMA CanonDown ==
  ASSUME ChainOk, WithinDepth, NEW f \in Hashes, NEW g \in Hashes, Canon(g), Below(f, g)
  PROVE  Canon(f)
<1>1. Len(f) \in Nat /\ Len(g) \in Nat /\ Len(f) <= Len(g) /\ Final \in Nat
  BY FinalIs DEF Hashes, Below
<1> QED BY <1>1, BelowTrans DEF Canon, ChainOk

\* What stays: the final blocks, whatever happens to the chain.
Keeps ==
    /\ highest <= highest' /\ highest' \in Nat /\ \A h \in Hashes : Canon(h) => Canon(h)'
    /\ start_block' = start_block /\ depth' = depth

\* A block is mined.
LEMMA MineKeeps ==
  ASSUME ChainOk, WithinDepth, Mine
  PROVE  ChainOk' /\ Keeps
<1>1. chain \in Hashes /\ chain' = Append(chain, 0) /\ Len(chain) \in Nat
  BY DEF ChainOk, Mine, Hashes
<1>2. chain' \in Hashes /\ Len(chain') = Len(chain) + 1 /\ \A i \in 1 .. Len(chain) : chain'[i] = chain[i]
  BY <1>1 DEF Hashes
<1>3. highest' = IF Len(chain') > highest THEN Len(chain') ELSE highest
  BY DEF Mine
<1>4. highest \in Nat /\ Len(chain) <= highest /\ depth \in Nat /\ InitialHead \in Nat
  BY DriverAssumption, FinalIs DEF ChainOk
<1>5. highest' \in Nat /\ highest <= highest' /\ Len(chain') <= highest' /\ highest' <= highest + 1
  BY <1>2, <1>3, <1>4
<1>0. start_block' = start_block /\ depth' = depth
  BY DEF Mine
<1>6. ChainOk'
  BY <1>0, <1>1, <1>2, <1>3, <1>4, <1>5 DEF ChainOk, Final
<1>7. ASSUME NEW h \in Hashes, Canon(h) PROVE Canon(h)'
  <2>0. Len(h) \in Nat /\ Len(h) <= Final /\ Below(h, chain)
    BY <1>7 DEF Canon, Hashes
  <2>1. Len(h) \in Nat /\ Len(h) <= Final /\ Len(h) <= Len(chain) /\ \A i \in 1 .. Len(h) : h[i] = chain[i]
    BY <1>1, <2>0, BelowIs
  <2>2. Len(h) <= Final'
    BY <1>0, <1>4, <1>5, <2>1 DEF Final
  <2>3. Below(h, chain')
    <3>1. Len(h) <= Len(chain') /\ \A i \in 1 .. Len(h) : h[i] = chain'[i]
      BY <1>1, <1>2, <2>1
    <3> QED BY <1>2, <3>1, BelowIs
  <2> QED BY <2>2, <2>3 DEF Canon, Below
<1> QED BY <1>0, <1>5, <1>6, <1>7 DEF Keeps

\* Blocks are replaced.
LEMMA ReorgKeeps ==
  ASSUME ChainOk, WithinDepth, NEW n \in DOMAIN chain, Reorg(n)
  PROVE  ChainOk' /\ Keeps
<1>1. chain \in Hashes /\ Len(chain) \in Nat /\ n \in 1 .. Len(chain) /\ chain[n] \in {0, 1}
  BY DEF ChainOk, Hashes
<1>2. PICK u : u = BlockAt(n - 1)
  OBVIOUS
<1>3. u \in Hashes /\ Len(u) = n - 1 /\ \A i \in 1 .. n - 1 : u[i] = chain[i]
  BY <1>1, <1>2, AtIs DEF BlockAt
<1>4. PICK x \in {0, 1} : x = 1 - chain[n]
  BY <1>1
<1>5. chain' = Append(u, x) /\ highest' = highest /\ n > highest - depth
  BY <1>2, <1>4 DEF Reorg
<1>6. chain' \in Hashes /\ Len(chain') = n /\ \A i \in 1 .. n - 1 : chain'[i] = chain[i]
  BY <1>1, <1>3, <1>5 DEF Hashes
<1>7. highest \in Nat /\ Len(chain) <= highest /\ depth \in Nat /\ InitialHead <= highest
  BY FinalIs DEF ChainOk
<1>0. start_block' = start_block /\ depth' = depth
  BY DEF Reorg
<1>8. ChainOk'
  BY <1>0, <1>1, <1>5, <1>6, <1>7 DEF ChainOk, Final
<1>9. ASSUME NEW h \in Hashes, Canon(h) PROVE Canon(h)'
  <2>1. Len(h) \in Nat /\ Len(h) <= Final /\ Len(h) <= Len(chain) /\ \A i \in 1 .. Len(h) : h[i] = chain[i]
    BY <1>1, <1>9, BelowIs DEF Canon, Hashes
  <2>2. Len(h) <= Final' /\ Len(h) <= n - 1
    BY <1>0, <1>1, <1>5, <1>7, <2>1 DEF Final
  <2>3. Below(h, chain')
    BY <1>1, <1>6, <2>1, <2>2, BelowIs
  <2> QED BY <2>2, <2>3 DEF Canon, Below
<1> QED BY <1>0, <1>5, <1>7, <1>8, <1>9 DEF Keeps

----------------------------------------------------------------------------
(* The invariant depends on the chain through final blocks only            *)

\* The last block of a state.
LEMMA TipIs ==
  ASSUME NEW l, StateOk(l)
  PROVE  /\ Tip(l) \in Hashes /\ Len(Tip(l)) \in Nat /\ Len(l) \in Nat \ {0}
         /\ \A i \in 1 .. Len(l) : l[i] \in Messages
<1>1. l \in Seq(Messages) /\ l # <<>>
  BY DEF StateOk
<1>2. Len(l) \in Nat \ {0} /\ \A i \in 1 .. Len(l) : l[i] \in Messages
  BY <1>1
<1>3. l[Len(l)] \in Messages
  BY <1>2
<1>4. l[Len(l)].hash \in Hashes
  BY <1>3 DEF Messages
<1> QED BY <1>2, <1>4 DEF Tip, Hashes

\* A snapshot.
LEMMA SnapshotIs ==
  ASSUME NEW sn, StoreOk(sn), NEW n \in DOMAIN sn
  PROVE  /\ Complete(sn[n]) /\ StateOk(sn[n]) /\ Tip(sn[n]) \in Hashes
         /\ Len(Tip(sn[n])) = n /\ n \in Nat /\ n <= highest
<1>1. Complete(sn[n]) /\ Len(Tip(sn[n])) = n /\ n <= highest
  BY DEF StoreOk, SnapshotsOk, Bounded
<1>2. StateOk(sn[n])
  BY <1>1 DEF Complete
<1> QED BY <1>1, <1>2, TipIs

\* The blocks of a watcher.
LEMMA KnownIs ==
  ASSUME ChainOk, NEW w, WatcherOk(w), NEW i \in 0 .. Len(w.recent)
  PROVE  /\ Known(w, i) \in Hashes /\ Len(Known(w, i)) = Len(w.safe) + i
         /\ Len(w.safe) \in Nat /\ Len(w.recent) \in Nat /\ Canon(w.safe)
         /\ Below(w.safe, Known(w, i)) /\ Len(Known(w, i)) <= highest
<1>1. w.safe \in Hashes /\ w.recent \in Seq(Hashes) /\ Canon(w.safe)
  BY DEF WatcherOk, Watchers
<1>2. Len(w.safe) \in Nat /\ Len(w.recent) \in Nat
  BY <1>1 DEF Hashes
<1>3. Known(w, i) \in Hashes
  BY <1>1, <1>2 DEF Known
<1>4. Len(Known(w, i)) = Len(w.safe) + i
  BY DEF WatcherOk, Watchers
<1>5. Below(Known(w, 0), Known(w, i))
  BY <1>2 DEF WatcherOk, Watchers
<1>6. Known(w, 0) = w.safe
  BY DEF Known
<1>7. Len(w.safe) + Len(w.recent) <= highest /\ highest \in Nat
  BY DEF WatcherOk, Watchers, ChainOk
<1>8. Len(w.safe) + i <= highest
  <2>1. PICK s \in Nat, r \in Nat : s = Len(w.safe) /\ r = Len(w.recent)
    BY <1>2
  <2>2. s \in Nat /\ r \in Nat /\ s + r <= highest /\ highest \in Nat /\ i \in 0 .. r
    BY <1>7, <2>1
  <2>3. s + i <= highest
    BY <2>2
  <2> QED BY <2>1, <2>3
<1>9. Len(Known(w, i)) <= highest
  BY <1>4, <1>8
<1> QED BY <1>1, <1>2, <1>3, <1>4, <1>5, <1>6, <1>9

\* The configuration stays.
LEMMA StateStable ==
  ASSUME Keeps
  PROVE  /\ \A l : StateOk(l) => StateOk(l)'
         /\ \A l : Complete(l) => Complete(l)'
         /\ \A n : FromStart(n) => FromStart(n)'
<1>1. start_block' = start_block
  BY DEF Keeps
<1> QED BY <1>1 DEF Complete, StateOk, Linked, FromStart

\* The snapshots.
LEMMA StoreStable ==
  ASSUME ChainOk, Keeps, NEW sn, StoreOk(sn)
  PROVE  StoreOk(sn)'
<1>1. \A n \in DOMAIN sn : Tip(sn[n]) \in Hashes /\ n \in Nat /\ n <= highest
  BY SnapshotIs
<1>2. highest \in Nat /\ highest' \in Nat /\ highest <= highest'
  BY DEF ChainOk, Keeps
<1>3. Anchored(sn)'
  BY <1>1 DEF StoreOk, Anchored, Keeps
<1>4. Bounded(sn)'
  BY <1>1, <1>2 DEF StoreOk, Bounded
<1>5. SnapshotsOk(sn)'
  BY StateStable DEF StoreOk, SnapshotsOk, Tip
<1> QED BY <1>3, <1>4, <1>5 DEF StoreOk, Nested, Tip, Below

\* The watcher.
LEMMA WatcherStable ==
  ASSUME ChainOk, Keeps, NEW w, WatcherOk(w)
  PROVE  WatcherOk(w)'
<1>1. highest \in Nat /\ highest' \in Nat /\ highest <= highest'
  BY DEF ChainOk, Keeps
<1>2. w.safe \in Hashes /\ Canon(w.safe) /\ w.recent \in Seq(Hashes)
  BY DEF WatcherOk, Watchers
<1>3. Canon(w.safe)'
  BY <1>2 DEF Keeps
<1>4. Len(w.safe) \in Nat /\ Len(w.recent) \in Nat
  BY <1>2 DEF Hashes
<1>5. Len(w.safe) + Len(w.recent) <= highest
  BY DEF WatcherOk, Watchers
<1>6. Len(w.safe) + Len(w.recent) <= highest'
  <2>1. PICK s \in Nat, r \in Nat : s = Len(w.safe) /\ r = Len(w.recent)
    BY <1>4
  <2>2. s \in Nat /\ r \in Nat /\ s + r <= highest
    BY <1>5, <2>1
  <2>3. s + r <= highest'
    BY <1>1, <2>2
  <2> QED BY <2>1, <2>3
<1> QED BY <1>3, <1>6 DEF WatcherOk, Known, Below

\* What the state machine was told.
LEMMA BehindStable ==
  ASSUME ChainOk, Keeps, NEW l, NEW sn, StoreOk(sn), NEW f, Behind(l, sn, f)
  PROVE  Behind(l, sn, f)'
<1>1. \A n \in DOMAIN sn : Tip(sn[n]) \in Hashes
  BY SnapshotIs
<1>2. CASE l = <<>> /\ DOMAIN sn = {} /\ f = start_block
  BY <1>2 DEF Behind, Keeps
<1>3. CASE ~(l = <<>> /\ DOMAIN sn = {} /\ f = start_block)
  <2>1. Complete(l) /\ Canon(Tip(l)) /\ Len(Tip(l)) = f - 1 /\ DOMAIN sn # {}
    BY <1>3 DEF Behind
  <2>2. \A n \in DOMAIN sn : n <= f - 1 /\ Canon(Tip(sn[n]))
    BY <1>3 DEF Behind
  <2>3. Tip(l) \in Hashes
    BY <2>1, TipIs DEF Complete
  <2>4. Canon(Tip(l))' /\ \A n \in DOMAIN sn : Canon(Tip(sn[n]))'
    BY <1>1, <2>1, <2>2, <2>3 DEF Keeps
  <2>5. Complete(l)'
    BY <2>1, StateStable
  <2> QED BY <2>1, <2>2, <2>4, <2>5 DEF Behind, Tip
<1> QED BY <1>2, <1>3

\* Both together.
LEMMA SyncStable ==
  ASSUME ChainOk, Keeps, NEW w, NEW sp, NEW l, NEW st, NEW sn, Sync(w, sp, l, st, sn)
  PROVE  Sync(w, sp, l, st, sn)'
<1>1. WatcherOk(w) /\ StoreOk(sn)
  BY DEF Sync
<1>2. WatcherOk(w)' /\ StoreOk(sn)'
  BY <1>1, WatcherStable, StoreStable
<1>3. PICK q : q = w.queue
  OBVIOUS
<1>4. w.recent \in Seq(Hashes)
  BY <1>1 DEF WatcherOk, Watchers
<1>10. Len(q) \in Nat
  BY <1>1, <1>3 DEF WatcherOk, Watchers
<1>5. ASSUME sp = Idle, Steady(w, q, l, st, sn) PROVE Steady(w, q, l, st, sn)'
  <2>1. Complete(l)'
    BY <1>5, StateStable DEF Steady
  <2> QED BY <1>5, <2>1 DEF Steady, Covered, News, Announced, Known, Tip, Below
<1>6. ASSUME sp = Idle, Fresh(w, q, l, st, sn) PROVE Fresh(w, q, l, st, sn)'
  <2>1. PICK t : t = w.recent[Announced(w, q) + 1]
    OBVIOUS
  <2>2. News(w, q) /\ Len(q) > 0 /\ FromStart(Len(t)) /\ Canon(t)
    BY <1>6, <2>1 DEF Fresh
  <2>9. Announced(w, q) + 1 \in 1 .. Len(w.recent)
    BY <1>4, <1>10, <2>2 DEF News, Announced
  <2>3. Canon(t)'
    BY <1>4, <2>1, <2>2, <2>9 DEF Keeps
  <2>4. News(w, q)'
    BY <2>2 DEF News
  <2>5. (w.recent[Announced(w, q) + 1])' = t
    BY <2>1 DEF Announced
  <2>6. FromStart(Len(t))'
    BY <2>2, StateStable
  <2> QED BY <1>6, <2>2, <2>3, <2>4, <2>5, <2>6 DEF Fresh
<1>7. ASSUME sp = Idle, WarpReady(w, q, l, st, sn) PROVE WarpReady(w, q, l, st, sn)'
  <2>1. PICK f : f = q[1].from
    OBVIOUS
  <2>2. Behind(l, sn, f)
    BY <1>7, <2>1 DEF WarpReady
  <2>3. Behind(l, sn, f)'
    BY <1>1, <2>2, BehindStable
  <2>4. News(w, Tail(q)) => News(w, Tail(q))'
    BY DEF News
  <2> QED BY <1>7, <2>1, <2>3, <2>4 DEF WarpReady
<1>8. ASSUME WarpRuns(w, sp, q, l, st, sn) PROVE WarpRuns(w, sp, q, l, st, sn)'
  <2>1. Behind(l, sn, sp.from) /\ News(w, q)
    BY <1>8 DEF WarpRuns
  <2>2. Behind(l, sn, sp.from)' /\ News(w, q)'
    BY <1>1, <2>1, BehindStable DEF News
  <2> QED BY <1>8, <2>2 DEF WarpRuns
<1>9. ASSUME Fetches(w, sp, q, l, st, sn) PROVE Fetches(w, sp, q, l, st, sn)'
  <2>1. PICK h : h = Known(w, Announced(w, q))
    OBVIOUS
  <2>2. /\ News(w, q) /\ sp = Fetching(h) /\ StateOk(l) /\ l[Len(l)] = NewBlock(h)
        /\ st = BlockEvents(Len(h))
        /\ \/ DOMAIN sn = {} /\ FromStart(Len(h)) /\ Canon(h)
           \/ Len(h) > 0 /\ Covered(w, sn, SubSeq(h, 1, Len(h) - 1))
    BY <1>9, <2>1 DEF Fetches
  <2>3. h \in Hashes
    <3>1. Tip(l) = h
      BY <2>2 DEF Tip, NewBlock
    <3> QED BY <2>2, <3>1, TipIs
  <2>4. Canon(h) => Canon(h)'
    BY <2>3 DEF Keeps
  <2>5. Covered(w, sn, SubSeq(h, 1, Len(h) - 1)) => Covered(w, sn, SubSeq(h, 1, Len(h) - 1))'
    BY DEF Covered, Below, Tip
  <2>6. News(w, q)' /\ StateOk(l)' /\ (Known(w, Announced(w, q)))' = h
    BY <2>1, <2>2, StateStable DEF News, Known, Announced
  <2>7. FromStart(Len(h)) => FromStart(Len(h))'
    BY StateStable
  <2> QED BY <2>2, <2>4, <2>5, <2>6, <2>7 DEF Fetches
<1> QED BY <1>2, <1>3, <1>5, <1>6, <1>7, <1>8, <1>9 DEF Sync

\* The restart that goes back.
LEMMA ResumingStable ==
  ASSUME ChainOk, Keeps, NEW w, NEW sp, NEW st, NEW sn, Resuming(w, sp, st, sn)
  PROVE  Resuming(w, sp, st, sn)'
<1>1. PICK k : k = w.queue[1].number
  OBVIOUS
<1>2. PICK v : v = [w EXCEPT !.queue = Tail(@)]
  OBVIOUS
<1>3. PICK r : r = Kept(sn, k)
  OBVIOUS
<1>4. Sync(v, Idle, sn[k - 1], BlockPending(k), r)
  BY <1>1, <1>2, <1>3 DEF Resuming
<1>5. PICK i, l, b : i = Idle /\ l = sn[k - 1] /\ b = BlockPending(k)
  OBVIOUS
<1>6. Sync(v, i, l, b, r)'
  BY <1>4, <1>5, SyncStable
<1>7. Sync(v, Idle, sn[k - 1], BlockPending(k), r)'
  BY <1>5, <1>6 DEF Idle, BlockPending
<1> QED BY <1>1, <1>2, <1>3, <1>7 DEF Resuming, Idle, Uncle, BlockPending, Kept

\* Where a start goes back to: the earliest snapshot.
LEMMA EarliestIs ==
  ASSUME NEW sn, StoreOk(sn), DOMAIN sn # {}
  PROVE  /\ Min(DOMAIN sn) \in DOMAIN sn /\ Min(DOMAIN sn) \in Nat
         /\ \A n \in DOMAIN sn : Min(DOMAIN sn) <= n
         /\ Canon(Tip(sn[Min(DOMAIN sn)])) /\ Len(Tip(sn[Min(DOMAIN sn)])) = Min(DOMAIN sn)
<1>1. DOMAIN sn \subseteq Nat
  BY SnapshotIs
<1>2. Min(DOMAIN sn) \in DOMAIN sn /\ \A n \in DOMAIN sn : Min(DOMAIN sn) <= n
  BY <1>1, MinOfNaturals
<1>3. PICK m \in DOMAIN sn : m = Min(DOMAIN sn)
  BY <1>2
<1>4. Canon(Tip(sn[m])) /\ Len(Tip(sn[m])) = m
  BY <1>2, <1>3, SnapshotIs DEF StoreOk, Anchored
<1> QED BY <1>1, <1>2, <1>3, <1>4

\* And the latest one, which holds the state it loads.
LEMMA LatestIs ==
  ASSUME ChainOk, NEW sn, StoreOk(sn), DOMAIN sn # {}
  PROVE  /\ Max(DOMAIN sn) \in DOMAIN sn /\ Max(DOMAIN sn) \in Nat
         /\ \A n \in DOMAIN sn : n <= Max(DOMAIN sn)
<1>1. DOMAIN sn \subseteq Nat /\ \A n \in DOMAIN sn : n <= highest
  BY SnapshotIs
<1>2. highest \in Nat
  BY DEF ChainOk
<1> QED BY <1>1, <1>2, MaxOfBounded

\* The numbers of a range scan.
LEMMA ScanningIs ==
  ASSUME ChainOk, WithinDepth, StoreOk(snapshots), Scanning
  PROVE  /\ Anchor \in Nat /\ ScanSafe \in Nat /\ Len(scan.latest) \in Nat /\ ScanSafe <= Len(scan.latest)
         /\ Len(scan.latest) - ScanSafe <= MaxReorgDepth
         /\ ScanFrom \in Nat
         /\ DOMAIN snapshots # {} => Anchor = Min(DOMAIN snapshots) /\ ScanFrom = Anchor + 1 /\ scan.from = ScanFrom
         /\ DOMAIN snapshots = {} => Anchor = ScanFrom /\ ScanFrom = FromOf(start_block, ScanSafe) /\ scan.from = start_block
<1>1. scan.latest \in Hashes /\ scan.from = FirstUnindexed(DOMAIN snapshots)
  BY DEF Scanning
<1>2. Len(scan.latest) \in Nat /\ MaxReorgDepth \in Nat /\ start_block \in Nat \cup {-1}
  BY <1>1, FinalIs DEF Hashes
<1>3. ScanSafe \in Nat /\ ScanSafe <= Len(scan.latest) /\ Len(scan.latest) - ScanSafe <= MaxReorgDepth
  BY <1>2 DEF ScanSafe, SafeNumber
<1>4. ASSUME DOMAIN snapshots = {}
      PROVE  /\ Anchor = ScanFrom /\ ScanFrom = FromOf(start_block, ScanSafe) /\ scan.from = start_block
             /\ Anchor \in Nat /\ ScanFrom \in Nat
  <2>1. Anchor = ScanFrom /\ ScanFrom = FromOf(start_block, ScanSafe) /\ scan.from = start_block
    BY <1>1, <1>4 DEF Anchor, FirstUnindexed, ScanFrom
  <2>2. FromOf(start_block, ScanSafe) \in Nat
    BY <1>2, <1>3 DEF FromOf
  <2> QED BY <2>1, <2>2
<1>5. ASSUME DOMAIN snapshots # {}
      PROVE  /\ Anchor = Min(DOMAIN snapshots) /\ ScanFrom = Anchor + 1 /\ Anchor \in Nat /\ ScanFrom \in Nat
             /\ scan.from = ScanFrom
  <2>1. PICK m \in Nat : m = Min(DOMAIN snapshots)
    BY <1>5, EarliestIs
  <2>2. scan.from = m + 1
    BY <1>1, <1>5, <2>1 DEF FirstUnindexed
  <2>3. ScanFrom = m + 1
    BY <2>1, <2>2 DEF ScanFrom, FromOf
  <2>4. Anchor = ScanFrom - 1
    BY <1>5 DEF Anchor
  <2> QED BY <2>1, <2>2, <2>3, <2>4
<1> QED BY <1>2, <1>3, <1>4, <1>5

\* The range scan.
LEMMA ScanningStable ==
  ASSUME ChainOk, WithinDepth, ChainOk', Keeps, StoreOk(snapshots), Scanning,
         UNCHANGED <<indexerVars, machineVars>>
  PROVE  Scanning'
<1>1. UNCHANGED <<scan, watcher, step, update, live, status, snapshots>>
  BY DEF indexerVars, machineVars
<1>2. /\ UNCHANGED <<Anchor, ScanSafe, Queued>>
      /\ FirstUnindexed(DOMAIN snapshots)' = FirstUnindexed(DOMAIN snapshots)
  BY <1>1 DEF Anchor, ScanSafe, ScanFrom, FromOf, Queued, FirstUnindexed, SafeNumber, Keeps
<1>3. highest \in Nat /\ highest' \in Nat /\ highest <= highest' /\ depth \in Nat /\ depth' = depth
  BY FinalIs DEF ChainOk, Keeps
<1>4. Final <= Final' /\ Final \in Int /\ Final' \in Int
  <2>1. PICK a \in Nat, b \in Nat, d \in Nat : a = highest /\ b = highest' /\ d = depth
    BY <1>3
  <2>2. a \in Nat /\ b \in Nat /\ d \in Nat /\ a <= b
    BY <1>3, <2>1
  <2>3. a - d <= b - d /\ a - d \in Int /\ b - d \in Int
    BY <2>2
  <2>4. Final = a - d /\ Final' = b - d
    BY <1>3, <2>1 DEF Final
  <2> QED BY <2>3, <2>4
<1>5. PICK a \in Nat, s \in Nat : a = Anchor /\ s = ScanSafe
  BY ScanningIs
<1>6. a <= Final /\ s <= Final
  BY <1>5 DEF Scanning
<1>7. Anchor' <= Final' /\ ScanSafe' <= Final'
  <2>1. a <= Final' /\ s <= Final'
    BY <1>4, <1>5, <1>6
  <2> QED BY <1>2, <1>5, <2>1
<1>8. Len(scan.latest) <= highest'
  <2>1. Len(scan.latest) \in Nat /\ Len(scan.latest) <= highest
    BY ScanningIs DEF Scanning
  <2> QED BY <1>3, <2>1
<1>9. Canon(scan.latest) => Canon(scan.latest)'
  BY <1>1 DEF Scanning, Keeps
<1>10. \A i \in 1 .. Len(watcher.recent) : Canon(watcher.recent[i]) => Canon(watcher.recent[i])'
  <2>1. watcher.recent \in Seq(Hashes)
    BY DEF Scanning, Watchers
  <2>2. \A i \in 1 .. Len(watcher.recent) : watcher.recent[i] \in Hashes
    BY <2>1
  <2> QED BY <1>1, <2>2 DEF Keeps
<1> QED BY <1>1, <1>2, <1>7, <1>8, <1>9, <1>10 DEF Scanning

\* The update the state machine takes.
LEMMA TakenStable ==
  ASSUME ChainOk, Keeps, NEW w, NEW sp, NEW u, Taken(w, sp, u), UNCHANGED machineVars
  PROVE  Taken(w, sp, u)'
<1>1. UNCHANGED <<live, status, snapshots>>
  BY DEF machineVars
<1>2. UNCHANGED <<TakesUncle(u), TakesWarp(u), TakesNew(u), TakesLogs(u), LogsEnd(u)>>
  BY <1>1 DEF TakesUncle, TakesWarp, TakesNew, TakesLogs, LogsEnd, Follows, BlockPending, Initialized
<1>3. ASSUME NEW l, NEW st, NEW sn, Sync(w, sp, l, st, sn)
      PROVE  Sync(w, sp, l, st, sn)'
  BY <1>3, SyncStable
<1>4. CASE /\ TakesUncle(u) /\ u.number - 1 \in DOMAIN snapshots
           /\ Sync(w, sp, snapshots[u.number - 1], BlockPending(u.number), Kept(snapshots, u.number))
  <2>1. PICK l, st, sn : /\ l = snapshots[u.number - 1] /\ st = BlockPending(u.number)
                         /\ sn = Kept(snapshots, u.number)
    OBVIOUS
  <2>2. Sync(w, sp, l, st, sn)'
    BY <1>3, <1>4, <2>1
  <2>3. /\ (snapshots[u.number - 1])' = l /\ (BlockPending(u.number))' = st
        /\ (Kept(snapshots, u.number))' = sn
    BY <1>1, <2>1 DEF BlockPending, Kept
  <2>4. Sync(w, sp, snapshots[u.number - 1], BlockPending(u.number), Kept(snapshots, u.number))'
    BY <2>2, <2>3
  <2> QED BY <1>1, <1>2, <1>4, <2>4 DEF Taken
<1>5. CASE /\ TakesWarp(u) /\ Sync(w, sp, live, WarpEvents(u.from, u.to), snapshots)
  <2>1. PICK l, st, sn : l = live /\ st = WarpEvents(u.from, u.to) /\ sn = snapshots
    OBVIOUS
  <2>2. Sync(w, sp, l, st, sn)'
    BY <1>3, <1>5, <2>1
  <2>3. live' = l /\ (WarpEvents(u.from, u.to))' = st /\ snapshots' = sn
    BY <1>1, <2>1 DEF WarpEvents
  <2>4. Sync(w, sp, live, WarpEvents(u.from, u.to), snapshots)'
    BY <2>2, <2>3
  <2> QED BY <1>2, <1>5, <2>4 DEF Taken
<1>6. CASE /\ TakesNew(u)
           /\ Sync(w, sp, Append(live, NewBlock(u.hash)), BlockEvents(Len(u.hash)), snapshots)
  <2>1. PICK l, st, sn : l = Append(live, NewBlock(u.hash)) /\ st = BlockEvents(Len(u.hash)) /\ sn = snapshots
    OBVIOUS
  <2>2. Sync(w, sp, l, st, sn)'
    BY <1>3, <1>6, <2>1
  <2>3. (Append(live, NewBlock(u.hash)))' = l /\ (BlockEvents(Len(u.hash)))' = st /\ snapshots' = sn
    BY <1>1, <2>1 DEF NewBlock, BlockEvents
  <2>4. Sync(w, sp, Append(live, NewBlock(u.hash)), BlockEvents(Len(u.hash)), snapshots)'
    BY <2>2, <2>3
  <2> QED BY <1>2, <1>6, <2>4 DEF Taken
<1>7. CASE /\ TakesLogs(u) /\ Sync(w, sp, Longer(u), After(u), commit(LogsEnd(u), Longer(u)))
  <2>1. PICK l, st, sn : l = Longer(u) /\ st = After(u) /\ sn = commit(LogsEnd(u), Longer(u))
    OBVIOUS
  <2>2. Sync(w, sp, l, st, sn)'
    BY <1>3, <1>7, <2>1
  <2>3. (Longer(u))' = l /\ (After(u))' = st /\ (LogsEnd(u))' = LogsEnd(u)
    BY <1>1, <1>2, <2>1 DEF Longer, With, Events, After, WarpEvents, BlockPending
  <2>4. (commit(LogsEnd(u), Longer(u)))' = sn
    BY <1>1, <2>1, <2>3 DEF commit
  <2>5. Sync(w, sp, Longer(u), After(u), commit(LogsEnd(u), Longer(u)))'
    BY <2>2, <2>3, <2>4
  <2> QED BY <1>2, <1>7, <2>5 DEF Taken
<1> QED BY <1>4, <1>5, <1>6, <1>7 DEF Taken

\* The chain changes, and the service does not.
LEMMA ChainStep ==
  ASSUME ChainOk, WithinDepth, ChainOk', Keeps, DriverInv,
         UNCHANGED <<indexerVars, machineVars, mode>>
  PROVE  DriverInv'
<1>1. UNCHANGED <<watcher, step, update, live, status, snapshots, mode>>
  BY DEF indexerVars, machineVars
<1>2. PICK w, sp, u, l, st, sn : /\ w = watcher /\ sp = step /\ u = update
                                 /\ l = live /\ st = status /\ sn = snapshots
  OBVIOUS
<1>3. StoreOk(snapshots)'
  <2>1. StoreOk(sn)'
    BY <1>2, StoreStable DEF DriverInv
  <2> QED BY <1>1, <1>2, <2>1
<1>4. Linked(live)'
  BY <1>1 DEF DriverInv, Linked, Events
<1>5. Sync(watcher, step, live, status, snapshots) => Sync(watcher, step, live, status, snapshots)'
  <2>1. Sync(w, sp, l, st, sn) => Sync(w, sp, l, st, sn)'
    BY SyncStable
  <2> QED BY <1>1, <1>2, <2>1
<1>6. Resuming(watcher, step, status, snapshots) => Resuming(watcher, step, status, snapshots)'
  <2>1. Resuming(w, sp, st, sn) => Resuming(w, sp, st, sn)'
    BY ResumingStable
  <2> QED BY <1>1, <1>2, <2>1
<1>7. Scanning => Scanning'
  BY ScanningStable DEF DriverInv
<1>8. Taken(watcher, step, update) => Taken(watcher, step, update)'
  <2>1. Taken(w, sp, u) => Taken(w, sp, u)'
    BY TakenStable
  <2> QED BY <1>1, <1>2, <2>1
<1> QED BY <1>1, <1>3, <1>4, <1>5, <1>6, <1>7, <1>8 DEF DriverInv

\* The chain is as it was.
LEMMA SameKeeps ==
  ASSUME ChainOk, UNCHANGED <<start_block, depth, chain, highest>>
  PROVE  ChainOk' /\ Keeps
<1>1. highest \in Nat /\ Final' = Final
  BY DEF ChainOk, Final
<1>2. \A h \in Hashes : Canon(h) => Canon(h)'
  BY <1>1 DEF Canon, Below
<1> QED BY <1>1, <1>2 DEF ChainOk, Keeps, Hashes

\* A service in step has a state of one chain.
LEMMA SyncLinked ==
  ASSUME NEW w, NEW sp, NEW l, NEW st, NEW sn, Sync(w, sp, l, st, sn)
  PROVE  Linked(l) /\ StoreOk(sn) /\ WatcherOk(w)
<1>1. \/ Steady(w, w.queue, l, st, sn)
      \/ Fresh(w, w.queue, l, st, sn)
      \/ WarpReady(w, w.queue, l, st, sn)
      \/ WarpRuns(w, sp, w.queue, l, st, sn)
      \/ Fetches(w, sp, w.queue, l, st, sn)
  BY DEF Sync
<1>2. Linked(<<>>)
  BY DEF Linked
<1>3. StateOk(l) \/ l = <<>>
  <2>1. \A f : Behind(l, sn, f) => StateOk(l) \/ l = <<>>
    BY DEF Behind, Complete
  <2>2. Steady(w, w.queue, l, st, sn) => StateOk(l)
    BY DEF Steady, Complete
  <2>3. Fresh(w, w.queue, l, st, sn) => l = <<>>
    BY DEF Fresh
  <2>4. WarpReady(w, w.queue, l, st, sn) => Behind(l, sn, w.queue[1].from)
    BY DEF WarpReady
  <2>5. WarpRuns(w, sp, w.queue, l, st, sn) => Behind(l, sn, sp.from)
    BY DEF WarpRuns
  <2>6. Fetches(w, sp, w.queue, l, st, sn) => StateOk(l)
    BY DEF Fetches
  <2> QED BY <1>1, <2>1, <2>2, <2>3, <2>4, <2>5, <2>6
<1> QED BY <1>2, <1>3 DEF Sync, StateOk

\* A step that leaves the chain alone and the service in step.
LEMMA SyncStep ==
  ASSUME ChainOk, UNCHANGED <<start_block, depth, chain, highest>>, NEW w, NEW sp, NEW l, NEW st, NEW sn,
         Sync(w, sp, l, st, sn),
         watcher' = w, step' = sp, live' = l, status' = st, snapshots' = sn
  PROVE  /\ ChainOk' /\ StoreOk(snapshots)' /\ Linked(live)'
         /\ Sync(watcher, step, live, status, snapshots)'
<1>1. ChainOk' /\ Keeps
  BY SameKeeps
<1>2. Sync(w, sp, l, st, sn)'
  BY <1>1, SyncStable
<1>3. Sync(watcher, step, live, status, snapshots)'
  BY <1>2
<1>4. Linked(l) /\ StoreOk(sn)
  BY SyncLinked
<1>5. StoreOk(sn)' /\ Linked(l)'
  BY <1>1, <1>4, StoreStable DEF Linked, Events
<1>6. StoreOk(snapshots)'
  BY <1>5
<1>7. Linked(live)'
  BY <1>5 DEF Linked, Events
<1> QED BY <1>1, <1>3, <1>6, <1>7

----------------------------------------------------------------------------
(* The state machine takes an update                                       *)

\* The update is one that comes next, and it keeps the two in step.
LEMMA HandleStep ==
  ASSUME DriverInv, HandleUpdate
  PROVE  DriverInv'
<1>1. ChainOk /\ Taken(watcher, step, update)
  BY DEF DriverInv, HandleUpdate
<1>2. PICK w, sp, u : w = watcher /\ sp = step /\ u = update
  OBVIOUS
<1>3. UNCHANGED <<start_block, depth, chain, highest, watcher, step>>
  BY DEF HandleUpdate, chainVars
<1>4. /\ TakesUncle(u) => u.kind = "uncle"
      /\ TakesWarp(u) => u.kind = "warp"
      /\ TakesNew(u) => u.kind = "new"
      /\ TakesLogs(u) => u.kind = "logs"
  BY DEF TakesUncle, TakesWarp, TakesNew, TakesLogs
<1>5. TakesWarp(u) \/ TakesUncle(u) \/ TakesNew(u) \/ TakesLogs(u)
  BY <1>1, <1>2 DEF Taken
<1>6. TakesUncle(u) => u.number - 1 \in DOMAIN snapshots
  BY <1>1, <1>2, <1>4 DEF Taken
<1>7. mode' = "prune" /\ (handle_warp(u) \/ handle_uncle(u) \/ handle_new(u) \/ handle_logs(u))
  BY <1>2, <1>5, <1>6 DEF HandleUpdate, BadUpdate, MissingSnapshot
<1>8. PICK l, st, sn : l = live' /\ st = status' /\ sn = snapshots'
  OBVIOUS
<1>9. Sync(w, sp, l, st, sn)
  <2>1. CASE handle_warp(u)
    <3>1. TakesWarp(u) /\ l = live /\ st = WarpEvents(u.from, u.to) /\ sn = snapshots
      BY <1>8, <2>1 DEF handle_warp
    <3>2. Sync(watcher, step, live, WarpEvents(u.from, u.to), snapshots)
      BY <1>1, <1>2, <1>4, <3>1 DEF Taken
    <3> QED BY <1>2, <3>1, <3>2
  <2>2. CASE handle_uncle(u)
    <3>1. TakesUncle(u) /\ l = snapshots[u.number - 1] /\ st = BlockPending(u.number) /\ sn = reorg(u.number)
      BY <1>8, <2>2 DEF handle_uncle
    <3>2. Sync(watcher, step, snapshots[u.number - 1], BlockPending(u.number), Kept(snapshots, u.number))
      BY <1>1, <1>2, <1>4, <3>1 DEF Taken
    <3>3. reorg(u.number) = Kept(snapshots, u.number)
      BY DEF reorg, Kept, Restrict
    <3> QED BY <1>2, <3>1, <3>2, <3>3
  <2>3. CASE handle_new(u)
    <3>1. /\ TakesNew(u) /\ l = Append(live, NewBlock(u.hash)) /\ st = BlockEvents(Len(u.hash))
          /\ sn = snapshots
      BY <1>8, <2>3 DEF handle_new
    <3>2. Sync(watcher, step, Append(live, NewBlock(u.hash)), BlockEvents(Len(u.hash)), snapshots)
      BY <1>1, <1>2, <1>4, <3>1 DEF Taken
    <3> QED BY <1>2, <3>1, <3>2
  <2>4. CASE handle_logs(u)
    <3>1. TakesLogs(u) /\ l = Longer(u) /\ st = After(u) /\ sn = commit(LogsEnd(u), l)
      BY <1>8, <2>4 DEF handle_logs, Longer, With, After, commit
    <3>2. Sync(watcher, step, Longer(u), After(u), commit(LogsEnd(u), Longer(u)))
      BY <1>1, <1>2, <1>4, <3>1 DEF Taken
    <3> QED BY <1>2, <3>1, <3>2
  <2> QED BY <1>7, <2>1, <2>2, <2>3, <2>4
<1>10. /\ ChainOk' /\ StoreOk(snapshots)' /\ Linked(live)'
       /\ Sync(watcher, step, live, status, snapshots)'
  BY <1>1, <1>2, <1>3, <1>8, <1>9, SyncStep
<1> QED BY <1>7, <1>10 DEF DriverInv

----------------------------------------------------------------------------
(* The snapshots are pruned                                                *)

\* Pruning leaves a final block to go back to.
Settled(w, sn) ==
    \/ \A n \in DOMAIN sn : Canon(Tip(sn[n]))
    \/ \A m \in DOMAIN sn : m <= Len(w.safe) =>
          Len(w.safe) \in DOMAIN sn /\ Canon(Tip(sn[Len(w.safe)]))

\* pr are the snapshots of sn from the safe block on, or the latest one.
Prunes(w, sn, pr) ==
    /\ DOMAIN pr \subseteq DOMAIN sn /\ (DOMAIN sn # {} => DOMAIN pr # {})
    /\ \A n \in DOMAIN pr : pr[n] = sn[n]
    /\ \A n \in DOMAIN sn : Len(w.safe) <= n => n \in DOMAIN pr
    /\ \A n \in DOMAIN pr : Len(w.safe) <= n \/ \A m \in DOMAIN sn : m <= n

\* What is left is a store.
LEMMA PrunedStore ==
  ASSUME NEW w, NEW sn, NEW pr, StoreOk(sn), WatcherOk(w), Settled(w, sn), Prunes(w, sn, pr)
  PROVE  StoreOk(pr)
<1>1. \A n \in DOMAIN pr : n \in DOMAIN sn /\ pr[n] = sn[n]
  BY DEF Prunes
<1>2. SnapshotsOk(pr) /\ Bounded(pr)
  BY <1>1 DEF StoreOk, SnapshotsOk, Bounded
<1>3. Nested(pr)
  BY <1>1 DEF StoreOk, Nested
<1>4. ASSUME NEW n \in DOMAIN pr, \A m \in DOMAIN pr : n <= m
      PROVE  Canon(Tip(pr[n]))
  <2>1. n \in DOMAIN sn /\ pr[n] = sn[n] /\ \A m \in DOMAIN sn : m \in Nat
    BY <1>1, SnapshotIs
  <2>2. CASE \A m \in DOMAIN sn : n <= m
    BY <2>1, <2>2 DEF StoreOk, Anchored
  <2>3. CASE \E m \in DOMAIN sn : ~(n <= m)
    <3>1. PICK m \in DOMAIN sn : ~(n <= m)
      BY <2>3
    <3>2. PICK s \in Nat : s = Len(w.safe)
      BY DEF WatcherOk, Watchers, Hashes
    <3>3. m \in Nat /\ n \in Nat /\ m < n /\ m \notin DOMAIN pr
      BY <1>4, <2>1, <3>1
    <3>4. ~(s <= m)
      BY <3>1, <3>2, <3>3 DEF Prunes
    <3>5. m <= s
      BY <3>2, <3>3, <3>4
    <3>6. CASE \A k \in DOMAIN sn : Canon(Tip(sn[k]))
      BY <2>1, <3>6
    <3>7. CASE s \in DOMAIN sn /\ Canon(Tip(sn[s]))
      <4>1. s \in DOMAIN pr
        BY <3>2, <3>7 DEF Prunes
      <4>2. n <= s
        BY <1>4, <4>1
      <4>3. s <= n
        BY <3>2, <3>7 DEF Prunes
      <4> QED BY <2>1, <3>2, <3>3, <3>7, <4>2, <4>3
    <3> QED BY <3>1, <3>2, <3>5, <3>6, <3>7 DEF Settled
  <2> QED BY <2>2, <2>3
<1> QED BY <1>2, <1>3, <1>4 DEF StoreOk, Anchored

\* Snapshots of the history of t leave one, if t is of the history the watcher knows.
LEMMA CoveredSettled ==
  ASSUME ChainOk, WithinDepth, NEW w, NEW sn, NEW t \in Hashes, StoreOk(sn), WatcherOk(w), Covered(w, sn, t),
         Below(w.safe, t) \/ Below(t, w.safe)
  PROVE  Settled(w, sn)
<1>1. w.safe \in Hashes /\ Canon(w.safe) /\ Len(w.safe) \in Nat /\ Len(t) \in Nat
  BY DEF WatcherOk, Watchers, Hashes
<1>2. \A n \in DOMAIN sn : n \in Nat /\ Tip(sn[n]) \in Hashes /\ Below(Tip(sn[n]), t) /\ Len(Tip(sn[n])) = n
  BY SnapshotIs DEF Covered
<1>3. CASE Below(t, w.safe)
  <2>1. ASSUME NEW n \in DOMAIN sn PROVE Canon(Tip(sn[n]))
    BY <1>1, <1>2, <1>3, BelowTrans, CanonDown
  <2> QED BY <2>1 DEF Settled
<1>4. CASE Below(w.safe, t)
  <2>1. ASSUME NEW m \in DOMAIN sn, m <= Len(w.safe)
        PROVE  Len(w.safe) \in DOMAIN sn /\ Canon(Tip(sn[Len(w.safe)]))
    <3>1. PICK s \in Nat : s = Len(w.safe)
      BY <1>1
    <3>2. s <= Len(t)
      BY <1>4, <3>1 DEF Below
    <3>3. s \in Len(w.safe) .. Len(t)
      BY <1>1, <3>1, <3>2
    <3>4. s \in DOMAIN sn
      BY <2>1, <3>1, <3>3 DEF Covered
    <3>5. Tip(sn[s]) = w.safe
      BY <1>2, <1>4, <3>1, <3>4, BelowSame
    <3> QED BY <1>1, <3>1, <3>4, <3>5
  <2> QED BY <2>1 DEF Settled
<1> QED BY <1>3, <1>4

\* No block that is needed is pruned.
LEMMA CoveredPruned ==
  ASSUME NEW w, NEW sn, NEW pr, NEW t \in Hashes, StoreOk(sn), WatcherOk(w), Covered(w, sn, t), Prunes(w, sn, pr)
  PROVE  Covered(w, pr, t)
<1>1. \A n \in DOMAIN pr : n \in DOMAIN sn /\ pr[n] = sn[n]
  BY DEF Prunes
<1>2. DOMAIN pr # {}
  BY DEF Covered, Prunes
<1>3. \A n \in DOMAIN pr : n <= Len(t) /\ Below(Tip(pr[n]), t)
  BY <1>1 DEF Covered
<1>4. ASSUME NEW m \in DOMAIN pr, NEW n \in Len(w.safe) .. Len(t), m <= n PROVE n \in DOMAIN pr
  <2>1. n \in DOMAIN sn
    BY <1>1, <1>4 DEF Covered
  <2>2. Len(w.safe) <= n
    BY <1>4 DEF WatcherOk, Watchers, Hashes
  <2> QED BY <2>1, <2>2 DEF Prunes
<1> QED BY <1>2, <1>3, <1>4 DEF Covered

\* Nor is what has been indexed.
LEMMA BehindPruned ==
  ASSUME NEW w, NEW l, NEW sn, NEW pr, NEW f, Behind(l, sn, f), Prunes(w, sn, pr)
  PROVE  Behind(l, pr, f) /\ Settled(w, sn)
<1>1. \A n \in DOMAIN pr : n \in DOMAIN sn /\ pr[n] = sn[n]
  BY DEF Prunes
<1>2. CASE l = <<>> /\ DOMAIN sn = {} /\ f = start_block
  <2>1. DOMAIN pr = {}
    BY <1>1, <1>2
  <2> QED BY <1>2, <2>1 DEF Behind, Settled
<1>3. CASE /\ Complete(l) /\ Len(Tip(l)) = f - 1 /\ Canon(Tip(l))
           /\ DOMAIN sn # {}
           /\ \A n \in DOMAIN sn : n <= f - 1 /\ Canon(Tip(sn[n]))
  <2>1. DOMAIN pr # {}
    BY <1>3 DEF Prunes
  <2>2. \A n \in DOMAIN pr : n <= f - 1 /\ Canon(Tip(pr[n]))
    BY <1>1, <1>3
  <2> QED BY <1>3, <2>1, <2>2 DEF Behind, Settled
<1> QED BY <1>2, <1>3 DEF Behind

\* The last block that was announced.
LEMMA AnnouncedIs ==
  ASSUME NEW w, WatcherOk(w), NEW q, Len(q) \in Nat, News(w, q)
  PROVE  Announced(w, q) \in 0 .. Len(w.recent) /\ Len(w.recent) \in Nat
<1>1. Len(w.recent) \in Nat
  BY DEF WatcherOk, Watchers
<1>2. Len(q) <= Len(w.recent)
  BY DEF News
<1> QED BY <1>1, <1>2 DEF Announced

\* The parent of a block that the watcher knows.
LEMMA ParentIs ==
  ASSUME ChainOk, NEW w, WatcherOk(w), NEW i \in 0 .. Len(w.recent), NEW h, h = Known(w, i), Len(h) > 0,
         NEW t, t = SubSeq(h, 1, Len(h) - 1)
  PROVE  /\ t \in Hashes /\ Len(t) = Len(h) - 1 /\ Below(t, h) /\ t = Front(h)
         /\ i = 0 => Below(t, w.safe)
         /\ i # 0 => t = Known(w, i - 1) /\ Below(w.safe, t)
<1>1. h \in Hashes /\ Below(w.safe, h) /\ Len(h) = Len(w.safe) + i /\ Len(w.safe) \in Nat /\ w.safe \in Hashes
  BY KnownIs DEF WatcherOk, Watchers
<1>2. t \in Hashes /\ Len(t) = Len(h) - 1 /\ Below(t, h) /\ t = Front(h)
  BY <1>1, FrontIs
<1>3. ASSUME i = 0 PROVE Below(t, w.safe)
  BY <1>2, <1>3 DEF Known
<1>4. ASSUME i # 0 PROVE t = Known(w, i - 1) /\ Below(w.safe, t)
  <2>1. i - 1 \in 0 .. Len(w.recent) /\ i - 1 <= i
    BY <1>4 DEF WatcherOk, Watchers
  <2>2. PICK g : g = Known(w, i - 1)
    OBVIOUS
  <2>3. g \in Hashes /\ Below(w.safe, g) /\ Len(g) = Len(w.safe) + (i - 1)
    BY <2>1, <2>2, KnownIs
  <2>4. Below(g, h)
    BY <2>1, <2>2 DEF WatcherOk, Watchers
  <2>5. Len(g) = Len(t)
    BY <1>1, <1>2, <1>4, <2>3
  <2>6. g = t
    BY <1>2, <2>4, <2>5, BelowSame
  <2> QED BY <2>2, <2>3, <2>6
<1> QED BY <1>2, <1>3, <1>4

\* The service stays in step.
LEMMA PruneSync ==
  ASSUME ChainOk, WithinDepth, NEW w, NEW sp, NEW l, NEW st, NEW sn, NEW pr,
         Sync(w, sp, l, st, sn), Prunes(w, sn, pr)
  PROVE  Sync(w, sp, l, st, pr)
<1>1. WatcherOk(w) /\ StoreOk(sn)
  BY DEF Sync
<1>2. PICK q : q = w.queue
  OBVIOUS
<1>3. Len(q) \in Nat
  BY <1>1, <1>2 DEF WatcherOk, Watchers
<1>4. DOMAIN pr \subseteq DOMAIN sn
  BY DEF Prunes
<1>5. ASSUME Steady(w, q, l, st, sn) PROVE Steady(w, q, l, st, pr) /\ Settled(w, sn)
  <2>1. PICK t : t = Known(w, Announced(w, q))
    OBVIOUS
  <2>2. News(w, q) /\ Complete(l) /\ Tip(l) = t /\ st = BlockPending(Len(t) + 1) /\ Covered(w, sn, t)
    BY <1>5, <2>1 DEF Steady
  <2>3. Announced(w, q) \in 0 .. Len(w.recent)
    BY <1>1, <1>3, <2>2, AnnouncedIs
  <2>4. t \in Hashes /\ Below(w.safe, t)
    BY <1>1, <2>1, <2>3, KnownIs
  <2>5. Covered(w, pr, t) /\ Settled(w, sn)
    BY <1>1, <2>2, <2>4, CoveredPruned, CoveredSettled
  <2> QED BY <2>1, <2>2, <2>5 DEF Steady
<1>6. ASSUME Fresh(w, q, l, st, sn) PROVE Fresh(w, q, l, st, pr) /\ Settled(w, sn)
  <2>1. DOMAIN sn = {} /\ DOMAIN pr = {}
    BY <1>4, <1>6 DEF Fresh
  <2> QED BY <1>6, <2>1 DEF Fresh, Settled
<1>7. ASSUME WarpReady(w, q, l, st, sn) PROVE WarpReady(w, q, l, st, pr) /\ Settled(w, sn)
  <2>1. PICK f : f = q[1].from
    OBVIOUS
  <2>2. Behind(l, sn, f)
    BY <1>7, <2>1 DEF WarpReady
  <2>3. Behind(l, pr, f) /\ Settled(w, sn)
    BY <2>2, BehindPruned
  <2> QED BY <1>7, <2>1, <2>3 DEF WarpReady
<1>8. ASSUME WarpRuns(w, sp, q, l, st, sn) PROVE WarpRuns(w, sp, q, l, st, pr) /\ Settled(w, sn)
  <2>1. PICK f : f = sp.from
    OBVIOUS
  <2>2. Behind(l, sn, f)
    BY <1>8, <2>1 DEF WarpRuns
  <2>3. Behind(l, pr, f) /\ Settled(w, sn)
    BY <2>2, BehindPruned
  <2> QED BY <1>8, <2>1, <2>3 DEF WarpRuns
<1>9. ASSUME Fetches(w, sp, q, l, st, sn) PROVE Fetches(w, sp, q, l, st, pr) /\ Settled(w, sn)
  <2>1. PICK h : h = Known(w, Announced(w, q))
    OBVIOUS
  <2>2. PICK t : t = SubSeq(h, 1, Len(h) - 1)
    OBVIOUS
  <2>3. News(w, q) /\ sp = Fetching(h) /\ StateOk(l) /\ l[Len(l)] = NewBlock(h) /\ st = BlockEvents(Len(h))
    BY <1>9, <2>1 DEF Fetches
  <2>4. CASE DOMAIN sn = {} /\ FromStart(Len(h)) /\ Canon(h)
    <3>1. DOMAIN pr = {}
      BY <1>4, <2>4
    <3> QED BY <2>1, <2>3, <2>4, <3>1 DEF Fetches, Settled
  <2>5. CASE Len(h) > 0 /\ Covered(w, sn, t)
    <3>1. Announced(w, q) \in 0 .. Len(w.recent)
      BY <1>1, <1>3, <2>3, AnnouncedIs
    <3>2. t \in Hashes /\ (Below(t, w.safe) \/ Below(w.safe, t))
      <4>1. PICK i \in 0 .. Len(w.recent) : i = Announced(w, q)
        BY <3>1
      <4>2. h = Known(w, i) /\ Len(h) > 0
        BY <2>1, <2>5, <4>1
      <4>3. t \in Hashes /\ (i = 0 => Below(t, w.safe)) /\ (i # 0 => Below(w.safe, t))
        BY <1>1, <2>2, <4>1, <4>2, ParentIs
      <4> QED BY <4>3
    <3>3. Covered(w, pr, t) /\ Settled(w, sn)
      BY <1>1, <2>5, <3>2, CoveredPruned, CoveredSettled
    <3> QED BY <2>1, <2>2, <2>3, <2>5, <3>3 DEF Fetches
  <2> QED BY <1>9, <2>1, <2>2, <2>4, <2>5 DEF Fetches
<1>10. Settled(w, sn)
  BY <1>2, <1>5, <1>6, <1>7, <1>8, <1>9 DEF Sync
<1>11. StoreOk(pr)
  BY <1>1, <1>10, PrunedStore
<1> QED BY <1>1, <1>2, <1>5, <1>6, <1>7, <1>8, <1>9, <1>11 DEF Sync

\* The action.
LEMMA PruneStep ==
  ASSUME WithinDepth, DriverInv, Prune
  PROVE  DriverInv'
<1>1. ChainOk /\ Sync(watcher, step, live, status, snapshots)
  BY DEF DriverInv, Prune
<1>2. PICK w, sp, l, st, sn, pr : /\ w = watcher /\ sp = step /\ l = live /\ st = status
                                  /\ sn = snapshots /\ pr = snapshots'
  OBVIOUS
<1>3. UNCHANGED <<start_block, depth, chain, highest, watcher, step, live, status>> /\ mode' = "next"
  BY DEF Prune, chainVars, indexerVars
<1>4. PICK D : D = {n \in DOMAIN sn : n >= Len(w.safe) \/ n = Max(DOMAIN sn)}
  OBVIOUS
<1>5. pr = [n \in D |-> sn[n]]
  BY <1>2, <1>4 DEF Prune, pruned, SafeStatus, Restrict
<1>6. StoreOk(sn) /\ WatcherOk(w)
  BY <1>1, <1>2 DEF Sync
<1>7. \A n \in DOMAIN sn : n \in Nat
  BY <1>6, SnapshotIs
<1>8. Len(w.safe) \in Nat
  BY <1>6 DEF WatcherOk, Watchers, Hashes
<1>9. ASSUME DOMAIN sn # {} PROVE D # {}
  <2>1. Max(DOMAIN sn) \in DOMAIN sn
    BY <1>1, <1>6, <1>9, LatestIs
  <2> QED BY <1>4, <2>1
<1>10. ASSUME NEW n \in D PROVE Len(w.safe) <= n \/ \A m \in DOMAIN sn : m <= n
  <2>1. n \in DOMAIN sn /\ (n >= Len(w.safe) \/ n = Max(DOMAIN sn))
    BY <1>4, <1>10
  <2>2. \A m \in DOMAIN sn : m <= Max(DOMAIN sn)
    BY <1>1, <1>6, <2>1, LatestIs
  <2>3. CASE n = Max(DOMAIN sn)
    BY <2>2, <2>3
  <2>4. CASE n >= Len(w.safe)
    BY <1>7, <1>8, <2>1, <2>4
  <2> QED BY <2>1, <2>3, <2>4
<1>11. \A n \in DOMAIN sn : Len(w.safe) <= n => n \in D
  BY <1>4, <1>7, <1>8
<1>12. Prunes(w, sn, pr)
  BY <1>4, <1>5, <1>9, <1>10, <1>11 DEF Prunes
<1>13. Sync(w, sp, l, st, sn)
  BY <1>1, <1>2
<1>14. Sync(w, sp, l, st, pr)
  BY <1>1, <1>12, <1>13, PruneSync
<1>15. /\ ChainOk' /\ StoreOk(snapshots)' /\ Linked(live)'
       /\ Sync(watcher, step, live, status, snapshots)'
  BY <1>1, <1>2, <1>3, <1>14, SyncStep
<1> QED BY <1>3, <1>15 DEF DriverInv

----------------------------------------------------------------------------
(* States                                                                  *)

\* A block is added to a state.
LEMMA StateNew ==
  ASSUME NEW l, NEW h \in Hashes, NEW k, k = Append(l, NewBlock(h)),
         \/ l = <<>> /\ FromStart(Len(h))
         \/ Complete(l) /\ Front(h) = Tip(l)
  PROVE  StateOk(k) /\ k[Len(k)] = NewBlock(h)
<1>1. NewBlock(h) \in Messages /\ NewBlock(h).hash = h /\ NewBlock(h).kind = "block"
  BY DEF NewBlock, Messages
<1>2. CASE l = <<>> /\ FromStart(Len(h))
  <2>1. k = <<NewBlock(h)>>
    BY <1>2
  <2>2. k \in Seq(Messages) /\ Len(k) = 1 /\ k[1] = NewBlock(h)
    BY <1>1, <2>1
  <2>3. Linked(k)
    BY <2>2 DEF Linked
  <2> QED BY <1>1, <1>2, <2>2, <2>3 DEF StateOk
<1>3. CASE Complete(l) /\ Front(h) = Tip(l)
  <2>1. l \in Seq(Messages) /\ l # <<>> /\ Linked(l) /\ FromStart(Len(l[1].hash)) /\ l[Len(l)].kind = "events"
    BY <1>3 DEF Complete, StateOk
  <2>2. PICK n \in Nat : n = Len(l)
    BY <2>1
  <2>3. n \in Nat /\ n > 0
    BY <2>1, <2>2
  <2>4. k \in Seq(Messages) /\ Len(k) = n + 1 /\ k[n + 1] = NewBlock(h) /\ \A i \in 1 .. n : k[i] = l[i]
    BY <1>1, <2>1, <2>2
  <2>5. ASSUME NEW i \in 1 .. n
        PROVE  IF k[i].kind = "block" THEN k[i + 1] = Events(k[i].hash) ELSE Front(k[i + 1].hash) = k[i].hash
    <3>1. CASE i = n
      <4>1. k[i] = l[n] /\ k[i + 1] = NewBlock(h) /\ l[n].kind = "events" /\ l[n].hash = Front(h)
        BY <1>3, <2>1, <2>2, <2>3, <2>4, <3>1 DEF Tip
      <4> QED BY <1>1, <4>1
    <3>2. CASE i # n
      <4>1. i \in 1 .. n - 1 /\ i + 1 \in 1 .. n
        BY <2>3, <3>2
      <4>2. k[i] = l[i] /\ k[i + 1] = l[i + 1]
        BY <2>4, <4>1
      <4>3. IF l[i].kind = "block" THEN l[i + 1] = Events(l[i].hash) ELSE Front(l[i + 1].hash) = l[i].hash
        BY <2>1, <2>2, <4>1 DEF Linked
      <4> QED BY <4>2, <4>3
    <3> QED BY <3>1, <3>2
  <2>6. Linked(k)
    BY <2>3, <2>4, <2>5 DEF Linked
  <2>7. k # <<>> /\ k[1] = l[1] /\ k[Len(k)] = NewBlock(h)
    BY <2>3, <2>4
  <2> QED BY <2>1, <2>4, <2>6, <2>7 DEF StateOk
<1> QED BY <1>2, <1>3

\* The events of blocks are added to a state.
LEMMA StateLogs ==
  ASSUME NEW l, NEW hs \in Seq(Hashes), Len(hs) > 0, NEW k, k = With(l, hs),
         \A i \in 1 .. Len(hs) - 1 : Front(hs[i + 1]) = hs[i],
         \/ l = <<>> /\ FromStart(Len(hs[1]))
         \/ StateOk(l) /\ l[Len(l)] = NewBlock(hs[1])
         \/ Complete(l) /\ Front(hs[1]) = Tip(l)
  PROVE  Complete(k) /\ Tip(k) = hs[Len(hs)]
<1>1. \A h \in Hashes : Events(h) \in Messages /\ Events(h).hash = h /\ Events(h).kind = "events"
  BY DEF Events, Messages
<1>2. PICK e : e = [i \in DOMAIN hs |-> Events(hs[i])]
  OBVIOUS
<1>3. PICK p \in Nat : p = Len(hs)
  OBVIOUS
<1>4. p \in Nat /\ p > 0 /\ \A i \in 1 .. p : hs[i] \in Hashes
  BY <1>3
<1>5. e \in Seq(Messages) /\ Len(e) = p /\ \A i \in 1 .. p : e[i] = Events(hs[i])
  <2>1. e \in [1 .. p -> Messages] /\ \A i \in 1 .. p : e[i] = Events(hs[i])
    BY <1>1, <1>2, <1>3, <1>4
  <2> QED BY <1>4, <2>1
<1>16. \/ l = <<>> /\ FromStart(Len(hs[1]))
       \/ StateOk(l) /\ (l[Len(l)] = NewBlock(hs[1]) \/ (Complete(l) /\ Front(hs[1]) = Tip(l)))
  BY DEF Complete
<1>6. l \in Seq(Messages)
  <2>1. <<>> \in Seq(Messages) /\ (StateOk(l) => l \in Seq(Messages))
    BY DEF StateOk
  <2> QED BY <1>16, <2>1
<1>7. PICK n \in Nat : n = Len(l)
  BY <1>6
<1>8. n \in Nat /\ k = l \o e
  BY <1>2, <1>7 DEF With
<1>9. k \in Seq(Messages) /\ Len(k) = n + p
  <2>1. l \o e \in Seq(Messages) /\ Len(l \o e) = Len(l) + Len(e)
    BY <1>5, <1>6, ConcatProperties
  <2> QED BY <1>5, <1>7, <1>8, <2>1
<1>10. \A i \in 1 .. n : k[i] = l[i]
  BY <1>5, <1>6, <1>7, <1>8
<1>11. \A i \in 1 .. p : k[n + i] = Events(hs[i])
  <2>1. ASSUME NEW i \in 1 .. p PROVE k[n + i] = e[i]
    <3>1. n + i \in 1 .. Len(l) + Len(e) /\ n + i > Len(l) /\ (n + i) - Len(l) = i
      BY <1>4, <1>5, <1>7, <1>8
    <3> QED BY <1>5, <1>6, <1>8, <3>1
  <2> QED BY <1>5, <2>1
<1>12. k[Len(k)] = Events(hs[p]) /\ Tip(k) = hs[p] /\ k[Len(k)].kind = "events"
  <2>1. p \in 1 .. p
    BY <1>4
  <2>2. k[n + p] = Events(hs[p])
    BY <1>11, <2>1
  <2> QED BY <1>1, <1>4, <1>9, <2>1, <2>2 DEF Tip
<1>13. ASSUME NEW j \in 1 .. p - 1
       PROVE  k[n + j].kind = "events" /\ Front(k[n + j + 1].hash) = k[n + j].hash
  <2>1. j \in 1 .. p /\ j + 1 \in 1 .. p /\ n + j + 1 = n + (j + 1)
    BY <1>4, <1>8
  <2>2. k[n + j] = Events(hs[j]) /\ k[n + j + 1] = Events(hs[j + 1])
    BY <1>11, <2>1
  <2>3. Front(hs[j + 1]) = hs[j]
    BY <1>3
  <2> QED BY <1>1, <1>4, <2>1, <2>2, <2>3
<1>14. CASE l = <<>> /\ FromStart(Len(hs[1]))
  <2>1. n = 0
    BY <1>7, <1>14
  <2>2. Len(k) = p
    BY <1>4, <1>9, <2>1
  <2>3. ASSUME NEW i \in 1 .. Len(k) - 1
        PROVE  IF k[i].kind = "block" THEN k[i + 1] = Events(k[i].hash) ELSE Front(k[i + 1].hash) = k[i].hash
    <3>1. i \in 1 .. p - 1 /\ n + i = i
      BY <1>4, <2>1, <2>2
    <3> QED BY <1>13, <3>1
  <2>4. Linked(k)
    BY <2>3 DEF Linked
  <2>5. 1 \in 1 .. p /\ n + 1 = 1
    BY <1>4, <2>1
  <2>6. k[1] = Events(hs[1]) /\ k # <<>>
    <3>1. k[n + 1] = Events(hs[1])
      BY <1>11, <2>5
    <3>2. k # <<>>
      BY <1>4, <2>2
    <3> QED BY <2>5, <3>1, <3>2
  <2>7. FromStart(Len(k[1].hash))
    BY <1>1, <1>4, <1>14, <2>5, <2>6
  <2> QED BY <1>3, <1>9, <1>12, <2>4, <2>6, <2>7 DEF Complete, StateOk
<1>15. CASE StateOk(l) /\ (l[Len(l)] = NewBlock(hs[1]) \/ (Complete(l) /\ Front(hs[1]) = Tip(l)))
  <2>1. l # <<>> /\ Linked(l) /\ FromStart(Len(l[1].hash)) /\ n > 0
    BY <1>6, <1>7, <1>15 DEF StateOk
  <2>2. 1 \in 1 .. p
    BY <1>4
  <2>3. k[n] = l[n] /\ k[n + 1] = Events(hs[1])
    <3>1. n \in 1 .. n
      BY <1>8, <2>1
    <3>2. k[n] = l[n]
      BY <1>10, <3>1
    <3>3. k[n + 1] = Events(hs[1])
      BY <1>11, <2>2
    <3> QED BY <3>2, <3>3
  <2>4. IF k[n].kind = "block" THEN k[n + 1] = Events(k[n].hash) ELSE Front(k[n + 1].hash) = k[n].hash
    <3>1. CASE l[n] = NewBlock(hs[1])
      <4>1. l[n].kind = "block" /\ l[n].hash = hs[1]
        BY <3>1 DEF NewBlock
      <4> QED BY <2>3, <4>1
    <3>2. CASE Complete(l) /\ Front(hs[1]) = Tip(l)
      <4>1. l[n].kind = "events" /\ l[n].hash = Front(hs[1])
        BY <1>7, <3>2 DEF Complete, Tip
      <4> QED BY <1>1, <1>4, <2>2, <2>3, <4>1
    <3> QED BY <1>7, <1>15, <3>1, <3>2
  <2>5. ASSUME NEW i \in 1 .. Len(k) - 1
        PROVE  IF k[i].kind = "block" THEN k[i + 1] = Events(k[i].hash) ELSE Front(k[i + 1].hash) = k[i].hash
    <3>1. CASE i < n
      <4>1. i \in 1 .. n - 1 /\ i \in 1 .. n /\ i + 1 \in 1 .. n
        BY <1>8, <3>1
      <4>2. k[i] = l[i] /\ k[i + 1] = l[i + 1]
        BY <1>10, <4>1
      <4>3. IF l[i].kind = "block" THEN l[i + 1] = Events(l[i].hash) ELSE Front(l[i + 1].hash) = l[i].hash
        BY <1>7, <2>1, <4>1 DEF Linked
      <4> QED BY <4>2, <4>3
    <3>2. CASE i = n
      BY <2>4, <3>2
    <3>3. CASE i > n
      <4>1. PICK j : j = i - n
        OBVIOUS
      <4>2. j \in 1 .. p - 1 /\ i = n + j
        BY <1>4, <1>8, <1>9, <3>3, <4>1
      <4> QED BY <1>13, <4>2
    <3> QED BY <1>8, <3>1, <3>2, <3>3
  <2>6. Linked(k)
    BY <2>5 DEF Linked
  <2>7. k[1] = l[1] /\ k # <<>>
    BY <1>4, <1>8, <1>9, <1>10, <2>1
  <2> QED BY <1>3, <1>9, <1>12, <2>1, <2>6, <2>7 DEF Complete, StateOk
<1> QED BY <1>14, <1>15, <1>16

\* The snapshots before block k.
LEMMA KeptStore ==
  ASSUME NEW sn, StoreOk(sn), NEW k \in Nat, NEW r, r = Kept(sn, k)
  PROVE  StoreOk(r) /\ DOMAIN r = {n \in DOMAIN sn : n < k} /\ \A n \in DOMAIN r : r[n] = sn[n]
<1>1. DOMAIN r = {n \in DOMAIN sn : n < k} /\ \A n \in DOMAIN r : r[n] = sn[n]
  BY DEF Kept
<1>2. \A n \in DOMAIN r : n \in DOMAIN sn /\ r[n] = sn[n] /\ n < k
  BY <1>1
<1>3. SnapshotsOk(r) /\ Bounded(r)
  BY <1>2 DEF StoreOk, SnapshotsOk, Bounded
<1>4. Nested(r)
  BY <1>2 DEF StoreOk, Nested
<1>5. ASSUME NEW n \in DOMAIN r, \A m \in DOMAIN r : n <= m
      PROVE  Canon(Tip(r[n]))
  <2>1. ASSUME NEW m \in DOMAIN sn PROVE n <= m
    <3>1. m \in Nat /\ n \in Nat /\ n < k
      BY <1>2, <1>5, SnapshotIs
    <3>2. CASE m < k
      BY <1>1, <1>5, <2>1, <3>2
    <3>3. CASE ~(m < k)
      BY <3>1, <3>3
    <3> QED BY <3>2, <3>3
  <2> QED BY <1>2, <1>5, <2>1 DEF StoreOk, Anchored
<1> QED BY <1>1, <1>3, <1>4, <1>5 DEF StoreOk, Anchored

\* r are the snapshots sn and that of state l for block e.
Adds(sn, e, l, r) ==
    /\ DOMAIN r = DOMAIN sn \cup {e} /\ r[e] = l
    /\ \A n \in DOMAIN sn : n # e => r[n] = sn[n]

\* The next snapshot, of a later block of the same history.
LEMMA CommitStore ==
  ASSUME ChainOk, NEW sn, StoreOk(sn), NEW e \in Nat, NEW l, NEW r, Adds(sn, e, l, r),
         Complete(l), Len(Tip(l)) = e, e <= highest,
         \A n \in DOMAIN sn : n < e /\ Below(Tip(sn[n]), Tip(l)),
         DOMAIN sn = {} => Canon(Tip(l))
  PROVE  StoreOk(r)
<1>1. \A n \in DOMAIN sn : n \in Nat /\ n < e /\ n # e /\ n \in DOMAIN r /\ r[n] = sn[n]
  <2>1. \A n \in DOMAIN sn : n \in Nat /\ n < e
    BY SnapshotIs
  <2>2. \A n \in DOMAIN sn : n # e
    BY <2>1
  <2> QED BY <2>1, <2>2 DEF Adds
<1>2. \A n \in DOMAIN r : n = e \/ n \in DOMAIN sn
  BY DEF Adds
<1>3. r[e] = l /\ e \in DOMAIN r
  BY DEF Adds
<1>4. Tip(l) \in Hashes
  BY TipIs DEF Complete
<1>5. SnapshotsOk(r)
  BY <1>1, <1>2, <1>3 DEF StoreOk, SnapshotsOk
<1>6. Bounded(r)
  BY <1>1, <1>2 DEF StoreOk, Bounded
<1>7. ASSUME NEW m \in DOMAIN r, NEW n \in DOMAIN r, m <= n PROVE Below(Tip(r[m]), Tip(r[n]))
  <2>1. CASE n = e /\ m = e
    BY <1>3, <1>4, <2>1, BelowRefl
  <2>2. CASE n = e /\ m # e
    BY <1>1, <1>2, <1>3, <2>2
  <2>3. CASE n # e /\ m = e
    BY <1>1, <1>2, <1>7, <2>3
  <2>4. CASE n # e /\ m # e
    BY <1>1, <1>2, <1>7, <2>4 DEF StoreOk, Nested
  <2> QED BY <2>1, <2>2, <2>3, <2>4
<1>8. ASSUME NEW n \in DOMAIN r, \A m \in DOMAIN r : n <= m PROVE Canon(Tip(r[n]))
  <2>1. CASE DOMAIN sn = {}
    BY <1>2, <1>3, <2>1
  <2>2. CASE DOMAIN sn # {}
    <3>1. PICK m \in DOMAIN sn : TRUE
      BY <2>2
    <3>2. m < e /\ n <= m /\ m \in Nat
      BY <1>1, <1>8, <3>1
    <3>3. n # e
      BY <3>2
    <3>4. n \in DOMAIN sn /\ r[n] = sn[n] /\ \A i \in DOMAIN sn : n <= i
      BY <1>1, <1>2, <1>8, <3>3
    <3> QED BY <3>4 DEF StoreOk, Anchored
  <2> QED BY <2>1, <2>2
<1> QED BY <1>5, <1>6, <1>7, <1>8 DEF StoreOk, Nested, Anchored

\* commit adds a snapshot.
LEMMA CommitAdds ==
  ASSUME NEW e, NEW l
  PROVE  Adds(snapshots, e, l, commit(e, l))
  BY DEF Adds, commit

\* A step that leaves the chain and the state machine alone.
LEMMA TakenStep ==
  ASSUME ChainOk, StoreOk(snapshots), Linked(live), UNCHANGED <<chainVars, machineVars>>,
         NEW w, NEW sp, NEW u, watcher' = w, step' = sp, update' = u, mode' = "update",
         Taken(w, sp, u)
  PROVE  DriverInv'
<1>1. UNCHANGED <<start_block, depth, chain, highest, live, status, snapshots>>
  BY DEF chainVars, machineVars
<1>2. ChainOk' /\ Keeps
  BY <1>1, SameKeeps
<1>3. Taken(w, sp, u)'
  BY <1>2, TakenStable
<1>4. Taken(watcher, step, update)'
  BY <1>3
<1>5. PICK sn : sn = snapshots
  OBVIOUS
<1>6. StoreOk(sn)'
  BY <1>2, <1>5, StoreStable
<1>7. StoreOk(snapshots)'
  BY <1>1, <1>5, <1>6
<1>8. Linked(live)'
  BY <1>1 DEF Linked, Events
<1> QED BY <1>2, <1>4, <1>7, <1>8 DEF DriverInv

----------------------------------------------------------------------------
(* An update of the queue                                                  *)

\* The queue is what a watcher with the same blocks may differ in.
LEMMA SameBlocks ==
  ASSUME NEW w, NEW v, WatcherOk(w), v \in Watchers,
         v.safe = w.safe, v.recent = w.recent, v.pending = w.pending
  PROVE  /\ WatcherOk(v)
         /\ \A q : (News(w, q) => News(v, q)) /\ Announced(v, q) = Announced(w, q)
         /\ \A i : Known(v, i) = Known(w, i)
         /\ \A sn, t : Covered(w, sn, t) => Covered(v, sn, t)
<1>1. \A i : Known(v, i) = Known(w, i)
  BY DEF Known
<1>2. WatcherOk(v)
  <2>1. PICK s, r : s = w.safe /\ r = w.recent
    OBVIOUS
  <2>2. /\ w.pending = Len(s) + Len(r) + 1 /\ Len(s) + Len(r) <= highest
        /\ Canon(s)
        /\ \A i \in 0 .. Len(r) : Len(Known(w, i)) = Len(s) + i
        /\ \A i, j \in 0 .. Len(r) : i <= j => Below(Known(w, i), Known(w, j))
    BY <2>1 DEF WatcherOk
  <2>3. /\ v.pending = Len(s) + Len(r) + 1
        /\ \A i \in 0 .. Len(r) : Len(Known(v, i)) = Len(s) + i
        /\ \A i, j \in 0 .. Len(r) : i <= j => Below(Known(v, i), Known(v, j))
    BY <1>1, <2>2
  <2>4. v.safe = s /\ v.recent = r
    BY <2>1
  <2> QED BY <2>2, <2>3, <2>4 DEF WatcherOk
<1>3. \A q : (News(w, q) => News(v, q)) /\ Announced(v, q) = Announced(w, q)
  BY DEF News, Announced
<1>4. \A sn, t : Covered(w, sn, t) => Covered(v, sn, t)
  BY DEF Covered
<1> QED BY <1>1, <1>2, <1>3, <1>4

\* The first update is taken from the queue.
LEMMA TailIs ==
  ASSUME NEW w, w \in Watchers, w.queue # <<>>, NEW v, v = [w EXCEPT !.queue = Tail(@)]
  PROVE  /\ v \in Watchers /\ v.safe = w.safe /\ v.recent = w.recent /\ v.pending = w.pending
         /\ v.queue = Tail(w.queue) /\ Head(w.queue) = w.queue[1] /\ Len(w.queue) \in Nat
         /\ Len(w.queue) > 0 /\ Tail(w.queue) \in Seq(Updates) /\ w.queue \in Seq(Updates)
<1>1. w.queue \in Seq(Updates) /\ Len(w.queue) \in Nat /\ Len(w.queue) > 0
  BY DEF Watchers
<1>2. Tail(w.queue) \in Seq(Updates) /\ Head(w.queue) = w.queue[1]
  BY <1>1
<1>3. v \in Watchers /\ v.safe = w.safe /\ v.recent = w.recent /\ v.pending = w.pending
  BY <1>2 DEF Watchers
<1>4. v.queue = Tail(w.queue)
  BY DEF Watchers
<1> QED BY <1>1, <1>2, <1>3, <1>4

\* The first of the blocks that are to be announced.
LEMMA NewsTail ==
  ASSUME NEW w, WatcherOk(w), NEW q \in Seq(Updates), News(w, q), Len(q) > 0
  PROVE  /\ News(w, Tail(q)) /\ Announced(w, Tail(q)) = Announced(w, q) + 1
         /\ Announced(w, q) + 1 \in 1 .. Len(w.recent)
         /\ q[1] = New(w.recent[Announced(w, q) + 1])
<1>0. Len(w.recent) \in Nat /\ Len(q) \in Nat
  BY DEF WatcherOk, Watchers
<1>1. PICK r, n, p : r \in Nat /\ n \in Nat /\ r = Len(w.recent) /\ n = Len(q) /\ p = Tail(q)
  BY <1>0
<1>2. r \in Nat /\ n \in Nat /\ n > 0 /\ n <= r
  BY <1>1 DEF News
<1>3. Len(p) = n - 1 /\ \A i \in 1 .. n - 1 : p[i] = q[i + 1]
  BY <1>1, <1>2
<1>4. \A i \in 1 .. n : q[i] = New(w.recent[r - n + i])
  BY <1>1 DEF News
<1>5. ASSUME NEW i \in 1 .. n - 1 PROVE p[i] = New(w.recent[r - (n - 1) + i])
  <2>1. i + 1 \in 1 .. n /\ r - n + (i + 1) = r - (n - 1) + i
    BY <1>2
  <2> QED BY <1>3, <1>4, <2>1
<1>6. News(w, p)
  <2>1. Len(p) <= Len(w.recent)
    BY <1>1, <1>2, <1>3
  <2> QED BY <1>1, <1>3, <1>5, <2>1 DEF News
<1>7. Announced(w, p) = Announced(w, q) + 1
  <2>1. Announced(w, p) = r - (n - 1) /\ Announced(w, q) = r - n
    BY <1>1, <1>3 DEF Announced
  <2> QED BY <1>2, <2>1
<1>8. Announced(w, q) + 1 \in 1 .. Len(w.recent) /\ q[1] = New(w.recent[Announced(w, q) + 1])
  <2>1. Announced(w, q) = r - n /\ 1 \in 1 .. n /\ r - n + 1 \in 1 .. r
    BY <1>1, <1>2 DEF Announced
  <2> QED BY <1>1, <1>4, <2>1
<1> QED BY <1>1, <1>6, <1>7, <1>8

\* A block of the queue.
LEMMA QueuedNew ==
  ASSUME ChainOk, WithinDepth, NEW w, w.queue # <<>>, NEW v, v = [w EXCEPT !.queue = Tail(@)],
         NEW u, u = Head(w.queue), WatcherOk(w), StoreOk(snapshots),
         \/ Steady(w, w.queue, live, status, snapshots)
         \/ Fresh(w, w.queue, live, status, snapshots)
  PROVE  u.kind = "new" /\ Taken(v, Fetching(u.hash), u)
<1>1. PICK q, p : q = w.queue /\ p = Tail(q)
  OBVIOUS
<1>2. /\ v \in Watchers /\ v.safe = w.safe /\ v.recent = w.recent /\ v.pending = w.pending
      /\ v.queue = p /\ u = q[1] /\ Len(q) \in Nat /\ Len(q) > 0 /\ p \in Seq(Updates) /\ q \in Seq(Updates)
  BY <1>1, TailIs DEF WatcherOk
<1>3. News(w, q)
  BY <1>1 DEF Steady, Fresh
<1>4. PICK a : a = Announced(w, q)
  OBVIOUS
<1>5. News(w, p) /\ Announced(w, p) = a + 1 /\ a + 1 \in 1 .. Len(w.recent) /\ q[1] = New(w.recent[a + 1])
  BY <1>1, <1>2, <1>3, <1>4, NewsTail
<1>6. PICK h : h = w.recent[a + 1]
  OBVIOUS
<1>7. u.kind = "new" /\ u.hash = h
  <2>1. u = New(h)
    BY <1>2, <1>5, <1>6
  <2> QED BY <2>1 DEF New
<1>8. a \in 0 .. Len(w.recent) /\ Len(w.recent) \in Nat
  BY <1>2, <1>3, <1>4, AnnouncedIs
<1>9. a + 1 \in 0 .. Len(w.recent) /\ a + 1 # 0 /\ (a + 1) - 1 = a
  BY <1>5, <1>8
<1>10. Known(w, a + 1) = h
  BY <1>6, <1>9 DEF Known
<1>11. h \in Hashes /\ Len(h) = Len(w.safe) + (a + 1) /\ Len(w.safe) \in Nat
  BY <1>9, <1>10, KnownIs
<1>12. Len(h) > 0 /\ Len(h) \in Nat
  BY <1>8, <1>11
<1>13. WatcherOk(v) /\ News(v, p) /\ Announced(v, p) = a + 1 /\ Known(v, a + 1) = h
  <2>1. v \in Watchers /\ v.safe = w.safe /\ v.recent = w.recent /\ v.pending = w.pending
    BY <1>2
  <2>2. WatcherOk(v)
    BY <2>1, SameBlocks
  <2>3. News(v, p) /\ Announced(v, p) = Announced(w, p)
    BY <1>5, <2>1 DEF News, Announced
  <2>4. Known(v, a + 1) = Known(w, a + 1)
    BY <2>1 DEF Known
  <2> QED BY <1>5, <1>10, <2>2, <2>3, <2>4
<1>14. PICK l : l = Append(live, NewBlock(h))
  OBVIOUS
<1>15. CASE Steady(w, w.queue, live, status, snapshots)
  <2>1. PICK t : t = Known(w, a)
    OBVIOUS
  <2>2. Complete(live) /\ Tip(live) = t /\ status = BlockPending(Len(t) + 1) /\ Covered(w, snapshots, t)
    BY <1>1, <1>4, <1>15, <2>1 DEF Steady
  <2>3. t = SubSeq(h, 1, Len(h) - 1) /\ t = Front(h)
    <3>1. PICK s : s = SubSeq(h, 1, Len(h) - 1)
      OBVIOUS
    <3>2. PICK i \in 0 .. Len(w.recent) : i = a + 1 /\ i # 0 /\ i - 1 = a
      BY <1>9
    <3>3. h = Known(w, i)
      BY <1>10, <3>2
    <3>5. i \in 0 .. Len(w.recent) /\ Len(h) > 0
      BY <1>12, <3>2
    <3>6. s = Front(h) /\ (i # 0 => s = Known(w, i - 1))
      BY <3>1, <3>3, <3>5, ParentIs
    <3>4. s = Front(h) /\ s = Known(w, i - 1)
      BY <3>2, <3>6
    <3> QED BY <2>1, <3>1, <3>2, <3>4
  <2>4. StateOk(l) /\ l[Len(l)] = NewBlock(h)
    BY <1>11, <1>14, <2>2, <2>3, StateNew
  <2>5. Len(h) = Len(t) + 1
    <3>1. Len(t) = Len(w.safe) + a
      BY <1>8, <2>1, KnownIs
    <3> QED BY <1>8, <1>11, <3>1
  <2>6. TakesNew(u)
    BY <1>7, <2>2, <2>5 DEF TakesNew, Follows
  <2>7. Covered(v, snapshots, t)
    BY <1>2, <2>2, SameBlocks
  <2>8. Fetches(v, Fetching(h), p, l, BlockEvents(Len(h)), snapshots)
    BY <1>12, <1>13, <2>3, <2>4, <2>7 DEF Fetches
  <2>9. Sync(v, Fetching(h), l, BlockEvents(Len(h)), snapshots)
    BY <1>2, <1>13, <2>8 DEF Sync, Fetching
  <2> QED BY <1>7, <1>14, <2>6, <2>9 DEF Taken
<1>16. CASE Fresh(w, w.queue, live, status, snapshots)
  <2>1. live = <<>> /\ status = Initialized /\ DOMAIN snapshots = {} /\ FromStart(Len(h)) /\ Canon(h)
    BY <1>1, <1>4, <1>6, <1>16 DEF Fresh
  <2>2. StateOk(l) /\ l[Len(l)] = NewBlock(h)
    BY <1>11, <1>14, <2>1, StateNew
  <2>3. TakesNew(u)
    BY <1>7, <2>1 DEF TakesNew, Follows
  <2>4. Fetches(v, Fetching(h), p, l, BlockEvents(Len(h)), snapshots)
    BY <1>13, <2>1, <2>2 DEF Fetches
  <2>5. Sync(v, Fetching(h), l, BlockEvents(Len(h)), snapshots)
    BY <1>2, <1>13, <2>4 DEF Sync, Fetching
  <2> QED BY <1>7, <1>14, <2>3, <2>5 DEF Taken
<1> QED BY <1>15, <1>16

\* A range of the queue.
LEMMA QueuedWarp ==
  ASSUME NEW w, w.queue # <<>>, NEW v, v = [w EXCEPT !.queue = Tail(@)],
         NEW u, u = Head(w.queue), WatcherOk(w), StoreOk(snapshots),
         WarpReady(w, w.queue, live, status, snapshots)
  PROVE  u.kind = "warp" /\ Taken(v, Warping(u.from, u.to, PageSize), u)
<1>1. PICK q, p : q = w.queue /\ p = Tail(q)
  OBVIOUS
<1>2. /\ v \in Watchers /\ v.safe = w.safe /\ v.recent = w.recent /\ v.pending = w.pending
      /\ v.queue = p /\ u = q[1]
  BY <1>1, TailIs DEF WatcherOk
<1>3. PICK f : f = u.from
  OBVIOUS
<1>4. /\ u.kind = "warp" /\ u = Warp(f, Len(w.safe))
      /\ News(w, p) /\ Len(p) = Len(w.recent)
      /\ f \in Nat /\ f <= Len(w.safe)
      /\ Behind(live, snapshots, f)
      /\ status = IF live = <<>> THEN Initialized ELSE BlockPending(f)
  BY <1>1, <1>2, <1>3 DEF WarpReady
<1>5. u.from = f /\ u.to = Len(w.safe)
  BY <1>4 DEF Warp
<1>6. TakesWarp(u)
  BY <1>4, <1>5 DEF TakesWarp, Follows
<1>7. PICK sp : sp = Warping(f, Len(w.safe), PageSize)
  OBVIOUS
<1>8. sp.kind = "warping" /\ sp.from = f /\ sp.size = PageSize /\ sp = Warping(sp.from, Len(w.safe), sp.size)
  BY <1>7 DEF Warping
<1>9. WatcherOk(v) /\ News(v, p)
  BY <1>2, <1>4, SameBlocks
<1>10. PageSize \in Nat \ {0}
  BY IndexerAssumption
<1>11. WarpRuns(v, sp, p, live, WarpEvents(f, Len(w.safe)), snapshots)
  BY <1>2, <1>4, <1>8, <1>9, <1>10 DEF WarpRuns
<1>12. Sync(v, sp, live, WarpEvents(f, Len(w.safe)), snapshots)
  BY <1>2, <1>8, <1>9, <1>11 DEF Sync
<1> QED BY <1>4, <1>5, <1>6, <1>7, <1>12 DEF Taken

\* The return to the earliest snapshot.
LEMMA QueuedUncle ==
  ASSUME NEW w, w.queue # <<>>, NEW v, v = [w EXCEPT !.queue = Tail(@)],
         NEW u, u = Head(w.queue), w \in Watchers, NEW sp,
         Resuming(w, sp, status, snapshots)
  PROVE  sp = Idle /\ u.kind = "uncle" /\ Taken(v, Idle, u)
<1>1. u = w.queue[1]
  BY TailIs
<1>2. PICK k : k = u.number
  OBVIOUS
<1>3. /\ u.kind = "uncle" /\ sp = Idle /\ k - 1 \in DOMAIN snapshots
      /\ status.kind = "block_pending" /\ k < status.pending
      /\ Sync(v, Idle, snapshots[k - 1], BlockPending(k), Kept(snapshots, k))
  BY <1>1, <1>2 DEF Resuming
<1>4. TakesUncle(u)
  BY <1>2, <1>3 DEF TakesUncle
<1> QED BY <1>2, <1>3, <1>4 DEF Taken

\* Where the service is when it asks for an update.
LEMMA NextIs ==
  ASSUME DriverInv, mode = "next"
  PROVE  /\ ChainOk /\ StoreOk(snapshots) /\ Linked(live)
         /\ Resuming(watcher, step, status, snapshots) \/ Sync(watcher, step, live, status, snapshots)
  BY DEF DriverInv

\* A service that goes back has a watcher, too.
LEMMA ResumingWatcher ==
  ASSUME NEW w, NEW sp, NEW st, NEW sn, Resuming(w, sp, st, sn)
  PROVE  sp = Idle /\ Len(w.queue) > 0 /\ w.queue[1].kind = "uncle"
  BY DEF Resuming

\* Which step an update asks for.
LEMMA StepIs ==
  ASSUME NEW u
  PROVE  /\ u.kind = "warp" => on_block_update(u) = Warping(u.from, u.to, PageSize)
         /\ u.kind = "new" => on_block_update(u) = Fetching(u.hash)
         /\ u.kind = "uncle" => on_block_update(u) = Idle
  BY DEF on_block_update

\* The action.
LEMMA NextQueuedStep ==
  ASSUME WithinDepth, DriverInv, NextUpdate, NextQueued
  PROVE  DriverInv'
<1>1. PICK w, v, u, sp : w = watcher /\ v = [w EXCEPT !.queue = Tail(@)] /\ u = Head(w.queue) /\ sp = on_block_update(u)
  OBVIOUS
<1>2. w.queue # <<>> /\ step = Idle /\ watcher' = v /\ update' = u /\ step' = sp
  BY <1>1 DEF NextQueued
<1>3. UNCHANGED <<chainVars, machineVars>> /\ mode = "next" /\ mode' = IF update' = Exceeded THEN "exceeded" ELSE "update"
  BY DEF NextUpdate
<1>4. /\ ChainOk /\ StoreOk(snapshots) /\ Linked(live)
      /\ Resuming(w, step, status, snapshots) \/ Sync(w, step, live, status, snapshots)
  BY <1>1, <1>3, NextIs
<1>5. u.kind \in {"new", "warp", "uncle"} /\ Taken(v, sp, u)
  <2>1. CASE Resuming(w, step, status, snapshots)
    <3>1. w \in Watchers
      BY <2>1 DEF Resuming
    <3>2. u.kind = "uncle" /\ Taken(v, Idle, u)
      BY <1>1, <1>2, <2>1, <3>1, QueuedUncle
    <3> QED BY <1>1, <3>2, StepIs
  <2>2. CASE Sync(w, step, live, status, snapshots)
    <3>1. WatcherOk(w)
      BY <2>2 DEF Sync
    <3>2. \/ Steady(w, w.queue, live, status, snapshots)
          \/ Fresh(w, w.queue, live, status, snapshots)
          \/ WarpReady(w, w.queue, live, status, snapshots)
      BY <1>2, <2>2 DEF Sync, Idle
    <3>3. CASE Steady(w, w.queue, live, status, snapshots) \/ Fresh(w, w.queue, live, status, snapshots)
      <4>1. u.kind = "new" /\ Taken(v, Fetching(u.hash), u)
        BY <1>1, <1>2, <1>4, <3>1, <3>3, QueuedNew
      <4> QED BY <1>1, <4>1, StepIs
    <3>4. CASE WarpReady(w, w.queue, live, status, snapshots)
      <4>1. u.kind = "warp" /\ Taken(v, Warping(u.from, u.to, PageSize), u)
        BY <1>1, <1>2, <1>4, <3>1, <3>4, QueuedWarp
      <4> QED BY <1>1, <4>1, StepIs
    <3> QED BY <3>2, <3>3, <3>4
  <2> QED BY <1>4, <2>1, <2>2
<1>6. mode' = "update"
  BY <1>2, <1>3, <1>5 DEF Exceeded
<1> QED BY <1>2, <1>3, <1>4, <1>5, <1>6, TakenStep

----------------------------------------------------------------------------
(* The logs of a block                                                     *)

\* They complete the block that was announced last.
LEMMA FetchedTaken ==
  ASSUME ChainOk, WithinDepth, NEW w, NEW sp, WatcherOk(w), StoreOk(snapshots),
         Fetches(w, sp, w.queue, live, status, snapshots), NEW u, u = Logs(Len(sp.hash), <<sp.hash>>)
  PROVE  Taken(w, Idle, u)
<1>1. PICK q, a, h : q = w.queue /\ a = Announced(w, q) /\ h = Known(w, a)
  OBVIOUS
<1>2. PICK t : t = SubSeq(h, 1, Len(h) - 1)
  OBVIOUS
<1>3. /\ News(w, q) /\ sp = Fetching(h) /\ StateOk(live) /\ live[Len(live)] = NewBlock(h)
      /\ status = BlockEvents(Len(h))
      /\ \/ DOMAIN snapshots = {} /\ FromStart(Len(h)) /\ Canon(h)
         \/ Len(h) > 0 /\ Covered(w, snapshots, t)
  BY <1>1, <1>2 DEF Fetches
<1>4. Len(q) \in Nat
  BY <1>1 DEF WatcherOk, Watchers
<1>5. a \in 0 .. Len(w.recent)
  BY <1>1, <1>3, <1>4, AnnouncedIs
<1>6. h \in Hashes /\ Len(h) <= highest /\ Below(w.safe, h) /\ Len(w.safe) \in Nat
  BY <1>1, <1>5, KnownIs
<1>7. PICK e \in Nat : e = Len(h)
  BY <1>6 DEF Hashes
<1>8. PICK hs : hs = <<h>>
  OBVIOUS
<1>9. hs \in Seq(Hashes) /\ Len(hs) = 1 /\ hs[1] = h
  BY <1>6, <1>8
<1>10. u.kind = "logs" /\ u.from = e /\ u.hashes = hs
  <2>1. sp.hash = h
    BY <1>3 DEF Fetching
  <2> QED BY <1>7, <1>8, <2>1 DEF Logs
<1>11. LogsEnd(u) = e
  <2>1. u.from = e /\ Len(u.hashes) = 1 /\ e \in Nat
    BY <1>7, <1>9, <1>10
  <2>2. LogsEnd(u) = e + 1 - 1
    BY <2>1 DEF LogsEnd
  <2>3. e + 1 - 1 = e
    BY <2>1
  <2> QED BY <2>2, <2>3
<1>12. status.kind = "block_events" /\ status.latest = e
  BY <1>3, <1>7 DEF BlockEvents
<1>13. TakesLogs(u)
  BY <1>10, <1>11, <1>12 DEF TakesLogs
<1>14. After(u) = BlockPending(e + 1)
  BY <1>11, <1>12 DEF After
<1>15. PICK l, r : l = Longer(u) /\ r = commit(e, l)
  OBVIOUS
<1>16. Complete(l) /\ Tip(l) = h
  <2>1. l = With(live, hs)
    BY <1>10, <1>15 DEF Longer
  <2>2. \A i \in 1 .. Len(hs) - 1 : Front(hs[i + 1]) = hs[i]
    BY <1>9
  <2>3. Len(hs) > 0
    BY <1>9
  <2> QED BY <1>3, <1>9, <2>1, <2>2, <2>3, StateLogs
<1>17. Adds(snapshots, e, l, r)
  BY <1>15, CommitAdds
<1>18. \A n \in DOMAIN snapshots : n \in Nat /\ Tip(snapshots[n]) \in Hashes
  BY SnapshotIs
<1>19. ASSUME DOMAIN snapshots # {}
       PROVE  /\ t \in Hashes /\ Len(t) = e - 1 /\ Below(t, h) /\ Covered(w, snapshots, t)
  <2>1. Len(h) > 0 /\ Covered(w, snapshots, t)
    BY <1>3, <1>19
  <2> QED BY <1>2, <1>6, <1>7, <2>1, FrontIs
<1>20. ASSUME NEW n \in DOMAIN snapshots PROVE n < e /\ Below(Tip(snapshots[n]), h)
  <2>1. /\ t \in Hashes /\ Len(t) = e - 1 /\ Below(t, h) /\ Covered(w, snapshots, t)
    BY <1>19
  <2>2. n <= Len(t) /\ Below(Tip(snapshots[n]), t)
    BY <2>1 DEF Covered
  <2>3. n < e
    BY <1>7, <1>18, <2>1, <2>2
  <2>4. Below(Tip(snapshots[n]), h)
    BY <1>6, <1>18, <2>1, <2>2, BelowTrans
  <2> QED BY <2>3, <2>4
<1>21. DOMAIN snapshots = {} => Canon(h)
  BY <1>3 DEF Covered
<1>22. StoreOk(r)
  <2>1. Len(Tip(l)) = e /\ e <= highest /\ e \in Nat
    BY <1>6, <1>7, <1>16
  <2>2. \A n \in DOMAIN snapshots : n < e /\ Below(Tip(snapshots[n]), Tip(l))
    BY <1>16, <1>20
  <2>3. DOMAIN snapshots = {} => Canon(Tip(l))
    BY <1>16, <1>21
  <2> QED BY <1>16, <1>17, <2>1, <2>2, <2>3, CommitStore
<1>23. Covered(w, r, h)
  <2>1. e \in DOMAIN r /\ r[e] = l /\ \A n \in DOMAIN r : n = e \/ (n \in DOMAIN snapshots /\ r[n] = snapshots[n])
    BY <1>17 DEF Adds
  <2>2. ASSUME NEW n \in DOMAIN r PROVE n <= Len(h) /\ Below(Tip(r[n]), h)
    <3>1. CASE n = e
      BY <1>6, <1>7, <1>16, <2>1, <3>1, BelowRefl
    <3>2. CASE n # e
      BY <1>7, <1>18, <1>20, <2>1, <3>2
    <3> QED BY <3>1, <3>2
  <2>3. ASSUME NEW m \in DOMAIN r, NEW n \in Len(w.safe) .. Len(h), m <= n PROVE n \in DOMAIN r
    <3>1. CASE n = e
      BY <2>1, <3>1
    <3>2. CASE n # e
      <4>1. n \in Nat /\ n < e
        BY <1>6, <1>7, <3>2
      <4>2. m # e
        BY <1>7, <2>3, <4>1
      <4>3. m \in DOMAIN snapshots
        BY <2>1, <4>2
      <4>4. Len(t) = e - 1 /\ Covered(w, snapshots, t)
        BY <1>19, <4>3
      <4>5. n \in Len(w.safe) .. Len(t)
        BY <1>6, <1>7, <4>1, <4>4
      <4>6. n \in DOMAIN snapshots
        BY <2>3, <4>3, <4>4, <4>5 DEF Covered
      <4> QED BY <1>17, <4>6 DEF Adds
    <3> QED BY <3>1, <3>2
  <2> QED BY <2>1, <2>2, <2>3 DEF Covered
<1>24. Steady(w, q, l, BlockPending(e + 1), r)
  BY <1>1, <1>3, <1>7, <1>16, <1>23 DEF Steady
<1>25. Sync(w, Idle, l, BlockPending(e + 1), r)
  BY <1>1, <1>22, <1>24 DEF Sync
<1>26. Sync(w, Idle, Longer(u), After(u), commit(LogsEnd(u), Longer(u)))
  BY <1>11, <1>14, <1>15, <1>25
<1> QED BY <1>13, <1>26 DEF Taken

\* The action.
LEMMA BlockLogsStep ==
  ASSUME WithinDepth, DriverInv, NextUpdate, BlockLogs
  PROVE  DriverInv'
<1>1. PICK w, sp, u, i : w = watcher /\ sp = step /\ u = Logs(Len(sp.hash), <<sp.hash>>) /\ i = Idle
  OBVIOUS
<1>2. sp.kind = "block" /\ watcher' = w /\ update' = u /\ step' = i
  BY <1>1 DEF BlockLogs
<1>3. UNCHANGED <<chainVars, machineVars>> /\ mode = "next" /\ mode' = IF update' = Exceeded THEN "exceeded" ELSE "update"
  BY DEF NextUpdate
<1>4. /\ ChainOk /\ StoreOk(snapshots) /\ Linked(live)
      /\ Resuming(w, sp, status, snapshots) \/ Sync(w, sp, live, status, snapshots)
  BY <1>1, <1>3, NextIs
<1>5. WatcherOk(w) /\ Fetches(w, sp, w.queue, live, status, snapshots)
  BY <1>2, <1>4 DEF Sync, Resuming, Idle
<1>6. Taken(w, i, u)
  BY <1>1, <1>4, <1>5, FetchedTaken
<1>7. u.kind = "logs"
  BY <1>1 DEF Logs
<1>8. mode' = "update"
  BY <1>2, <1>3, <1>7 DEF Exceeded
<1> QED BY <1>2, <1>3, <1>4, <1>6, <1>8, TakenStep

----------------------------------------------------------------------------
(* The logs of a range                                                     *)

\* A function on the first numbers is a sequence.
LEMMA FirstNumbers ==
  ASSUME NEW S, NEW n \in Nat, NEW g \in [1 .. n -> S]
  PROVE  g \in Seq(S) /\ Len(g) = n
  OBVIOUS

\* The blocks of a page.
Page(f, e) == [i \in 1 .. e - f + 1 |-> BlockAt(f + i - 1)]

\* They are final, and each is the child of the one before.
LEMMA PageIs ==
  ASSUME ChainOk, WithinDepth, NEW f \in Nat, NEW e \in Nat, f <= e, e <= Final,
         NEW hs, hs = Page(f, e)
  PROVE  /\ hs \in Seq(Hashes) /\ Len(hs) > 0 /\ f + Len(hs) - 1 = e
         /\ hs[1] \in Hashes /\ Canon(hs[1]) /\ Len(hs[1]) = f
         /\ hs[Len(hs)] \in Hashes /\ Canon(hs[Len(hs)]) /\ Len(hs[Len(hs)]) = e
         /\ \A i \in 1 .. Len(hs) - 1 : Front(hs[i + 1]) = hs[i]
<1>1. PICK p \in Nat : p = e - f + 1
  OBVIOUS
<1>2. p \in Nat /\ p > 0 /\ f + p - 1 = e
  BY <1>1
<1>3. Final \in Nat
  BY FinalIs
<1>4. ASSUME NEW i \in 1 .. p
      PROVE  LET h == BlockAt(f + i - 1) IN hs[i] = h /\ h \in Hashes /\ Canon(h) /\ Len(h) = f + i - 1
  <2>1. f + i - 1 \in 0 .. Final
    BY <1>1, <1>2, <1>3
  <2>2. hs[i] = BlockAt(f + i - 1)
    BY <1>1 DEF Page
  <2> QED BY <2>1, <2>2, CanonAt
<1>5. hs \in [1 .. p -> Hashes]
  BY <1>1, <1>4 DEF Page
<1>6. hs \in Seq(Hashes) /\ Len(hs) = p
  BY <1>2, <1>5, FirstNumbers
<1>7. 1 \in 1 .. p /\ p \in 1 .. p /\ f + 1 - 1 = f
  BY <1>2
<1>8. hs[1] \in Hashes /\ Canon(hs[1]) /\ Len(hs[1]) = f
  BY <1>4, <1>7
<1>9. hs[p] \in Hashes /\ Canon(hs[p]) /\ Len(hs[p]) = e
  BY <1>2, <1>4, <1>7
<1>10. ASSUME NEW i \in 1 .. p - 1 PROVE Front(hs[i + 1]) = hs[i]
  <2>1. i \in 1 .. p /\ i + 1 \in 1 .. p
    BY <1>2
  <2>2. PICK g, h : g = hs[i] /\ h = hs[i + 1]
    OBVIOUS
  <2>3. g \in Hashes /\ h \in Hashes /\ Canon(g) /\ Canon(h) /\ Len(g) = f + i - 1 /\ Len(h) = f + (i + 1) - 1
    BY <1>4, <2>1, <2>2
  <2>4. Len(h) = Len(g) + 1 /\ Len(g) <= Len(h)
    <3>1. f + (i + 1) - 1 = (f + i - 1) + 1 /\ f + i - 1 <= f + (i + 1) - 1
      BY <2>1
    <3> QED BY <2>3, <3>1
  <2>5. Below(g, h)
    BY <2>3, <2>4, BelowOrder DEF Canon, ChainOk
  <2> QED BY <2>2, <2>3, <2>4, <2>5, FrontOf
<1> QED BY <1>2, <1>6, <1>8, <1>9, <1>10

\* The step after it.
AfterPage(w, e) == IF e = Len(w.safe) THEN Idle ELSE Warping(e + 1, Len(w.safe), PageSize)

\* A page of it.
LEMMA PageTaken ==
  ASSUME ChainOk, WithinDepth, NEW w, NEW sp, WatcherOk(w), StoreOk(snapshots),
         WarpRuns(w, sp, w.queue, live, status, snapshots),
         NEW f \in Nat, f = sp.from, NEW e \in Nat, f <= e, e <= Len(w.safe),
         NEW hs, hs = Page(f, e), NEW u, u = Logs(f, hs), NEW sq, sq = AfterPage(w, e)
  PROVE  Taken(w, sq, u)
<1>1. PICK q, s : q = w.queue /\ s = Len(w.safe)
  OBVIOUS
<1>2. /\ News(w, q) /\ Len(q) = Len(w.recent)
      /\ f \in Nat /\ f <= s /\ Behind(live, snapshots, f) /\ status = WarpEvents(f, s)
  BY <1>1 DEF WarpRuns
<1>3. w.safe \in Hashes /\ Canon(w.safe) /\ s \in Nat /\ s <= Final
  BY <1>1 DEF WatcherOk, Watchers, Canon, Hashes
<1>4. Final \in Nat /\ Final <= highest /\ highest \in Nat
  <2>1. Final \in Nat /\ Final <= Len(chain) /\ Len(chain) \in Nat /\ Len(chain) <= highest /\ highest \in Nat
    BY FinalIs
  <2> QED BY <2>1
<1>5. f \in Nat /\ e \in Nat /\ f <= e /\ e <= s /\ e <= Final /\ e <= highest
  BY <1>1, <1>2, <1>3, <1>4
<1>7. hs \in Seq(Hashes)
  BY <1>5, PageIs
<1>6. PICK p, h : p \in Nat /\ p = Len(hs) /\ h = hs[p]
  BY <1>7
<1>11. hs \in Seq(Hashes) /\ Len(hs) = p /\ p > 0 /\ f + p - 1 = e
  BY <1>5, <1>6, PageIs
<1>12. hs[1] \in Hashes /\ Canon(hs[1]) /\ Len(hs[1]) = f
  BY <1>5, PageIs
<1>13. \A i \in 1 .. Len(hs) - 1 : Front(hs[i + 1]) = hs[i]
  BY <1>5, PageIs
<1>15. h \in Hashes /\ Canon(h) /\ Len(h) = e
  BY <1>5, <1>6, PageIs
<1>16. u.kind = "logs" /\ u.from = f /\ u.hashes = hs
  BY DEF Logs
<1>17. LogsEnd(u) = e
  <2>1. LogsEnd(u) = f + p - 1
    BY <1>11, <1>16 DEF LogsEnd
  <2> QED BY <1>11, <2>1
<1>18. status.kind = "warp_events" /\ status.from = f /\ status.to = s
  BY <1>2 DEF WarpEvents
<1>19. TakesLogs(u)
  BY <1>5, <1>16, <1>17, <1>18 DEF TakesLogs
<1>20. PICK l, r : l = Longer(u) /\ r = commit(e, l)
  OBVIOUS
<1>21. Complete(l) /\ Tip(l) = h
  <2>1. l = With(live, hs)
    BY <1>16, <1>20 DEF Longer
  <2>2. hs \in Seq(Hashes) /\ Len(hs) > 0
    BY <1>11
  <2>3. \/ live = <<>> /\ FromStart(Len(hs[1]))
        \/ Complete(live) /\ Front(hs[1]) = Tip(live)
    <3>1. CASE live = <<>> /\ f = start_block
      BY <1>12, <3>1 DEF FromStart
    <3>2. CASE Complete(live) /\ Len(Tip(live)) = f - 1 /\ Canon(Tip(live))
      <4>1. Tip(live) \in Hashes
        BY <3>2, TipIs DEF Complete
      <4>2. f - 1 <= f /\ f = (f - 1) + 1
        BY <1>5
      <4>3. Len(Tip(live)) <= Len(hs[1]) /\ Len(hs[1]) = Len(Tip(live)) + 1
        BY <1>12, <3>2, <4>2
      <4>4. Below(Tip(live), hs[1])
        BY <1>12, <3>2, <4>1, <4>3, BelowOrder DEF Canon, ChainOk
      <4>5. Front(hs[1]) = Tip(live)
        BY <1>12, <4>1, <4>3, <4>4, FrontOf
      <4> QED BY <3>2, <4>5
    <3> QED BY <1>2, <3>1, <3>2 DEF Behind
  <2>4. Complete(l) /\ Tip(l) = hs[Len(hs)]
    BY <1>13, <2>1, <2>2, <2>3, StateLogs
  <2> QED BY <1>6, <2>4
<1>22. Adds(snapshots, e, l, r)
  BY <1>20, CommitAdds
<1>23. ASSUME NEW n \in DOMAIN snapshots
       PROVE  /\ n \in Nat /\ n < e /\ Canon(Tip(snapshots[n])) /\ Below(Tip(snapshots[n]), h)
  <2>1. n <= f - 1 /\ Canon(Tip(snapshots[n])) /\ n \in Nat /\ Len(Tip(snapshots[n])) = n
        /\ Tip(snapshots[n]) \in Hashes
    BY <1>2, SnapshotIs DEF Behind
  <2>2. n < e /\ Len(Tip(snapshots[n])) <= Len(h)
    BY <1>5, <1>15, <2>1
  <2>3. Below(Tip(snapshots[n]), h)
    BY <1>15, <2>1, <2>2, BelowOrder DEF Canon, ChainOk
  <2> QED BY <2>1, <2>2, <2>3
<1>24. StoreOk(r)
  <2>1. Len(Tip(l)) = e /\ e <= highest /\ e \in Nat
    BY <1>5, <1>15, <1>21
  <2>2. \A n \in DOMAIN snapshots : n < e /\ Below(Tip(snapshots[n]), Tip(l))
    BY <1>21, <1>23
  <2>3. Canon(Tip(l))
    BY <1>15, <1>21
  <2> QED BY <1>21, <1>22, <2>1, <2>2, <2>3, CommitStore
<1>25. /\ e \in DOMAIN r /\ r[e] = l
       /\ \A n \in DOMAIN r : n = e \/ (n \in DOMAIN snapshots /\ r[n] = snapshots[n])
  BY <1>22 DEF Adds
<1>26. CASE e = s
  <2>1. h = w.safe
    BY <1>1, <1>3, <1>15, <1>26, CanonSame
  <2>2. Announced(w, q) = 0 /\ Known(w, Announced(w, q)) = h
    BY <1>2, <2>1 DEF Announced, Known, WatcherOk, Watchers
  <2>3. ASSUME NEW n \in DOMAIN r PROVE n <= Len(h) /\ Below(Tip(r[n]), h)
    <3>1. CASE n = e
      BY <1>5, <1>15, <1>21, <1>25, <3>1, BelowRefl
    <3>2. CASE n # e
      BY <1>5, <1>15, <1>23, <1>25, <3>2
    <3> QED BY <3>1, <3>2
  <2>4. \A n \in Len(w.safe) .. Len(h) : n = e
    BY <1>1, <1>5, <1>15, <1>26
  <2>5. Covered(w, r, h)
    BY <1>25, <2>3, <2>4 DEF Covered
  <2>6. After(u) = BlockPending(Len(h) + 1)
    <3>1. ~(e < s) /\ Len(h) + 1 = e + 1
      BY <1>5, <1>15, <1>26
    <3> QED BY <1>17, <1>18, <3>1 DEF After
  <2>7. Steady(w, q, l, BlockPending(Len(h) + 1), r)
    BY <1>2, <1>21, <2>2, <2>5 DEF Steady
  <2>8. Sync(w, Idle, l, BlockPending(Len(h) + 1), r)
    BY <1>1, <1>24, <2>7 DEF Sync
  <2>9. sq = Idle
    BY <1>1, <1>26 DEF AfterPage
  <2>10. Sync(w, sq, Longer(u), After(u), commit(LogsEnd(u), Longer(u)))
    BY <1>17, <1>20, <2>6, <2>8, <2>9
  <2> QED BY <1>19, <2>10 DEF Taken
<1>27. CASE e # s
  <2>1. e < s /\ e + 1 \in Nat /\ e + 1 <= s /\ (e + 1) - 1 = e
    BY <1>3, <1>5, <1>27
  <2>2. sq = Warping(e + 1, s, PageSize)
    BY <1>1, <1>27 DEF AfterPage
  <2>3. sq.kind = "warping" /\ sq.from = e + 1 /\ sq.size = PageSize
    BY <2>2 DEF Warping
  <2>4. After(u) = WarpEvents(e + 1, s)
    BY <1>17, <1>18, <2>1 DEF After
  <2>5. ASSUME NEW n \in DOMAIN r PROVE n <= (e + 1) - 1 /\ Canon(Tip(r[n]))
    <3>1. CASE n = e
      BY <1>5, <1>15, <1>21, <1>25, <2>1, <3>1
    <3>2. CASE n # e
      BY <1>5, <1>23, <1>25, <2>1, <3>2
    <3> QED BY <3>1, <3>2
  <2>6. Behind(l, r, e + 1)
    BY <1>15, <1>21, <1>25, <2>1, <2>5 DEF Behind
  <2>7. PageSize \in Nat \ {0}
    BY IndexerAssumption
  <2>8. WarpRuns(w, sq, q, l, WarpEvents(e + 1, s), r)
    BY <1>1, <1>2, <2>1, <2>2, <2>3, <2>6, <2>7 DEF WarpRuns
  <2>9. Sync(w, sq, l, WarpEvents(e + 1, s), r)
    BY <1>1, <1>24, <2>3, <2>8 DEF Sync
  <2>10. Sync(w, sq, Longer(u), After(u), commit(LogsEnd(u), Longer(u)))
    BY <1>17, <1>20, <2>4, <2>9
  <2> QED BY <1>19, <2>10 DEF Taken
<1> QED BY <1>26, <1>27

\* The action.
LEMMA WarpPageStep ==
  ASSUME WithinDepth, DriverInv, NextUpdate, WarpPage
  PROVE  DriverInv'
<1>1. PICK w, sp, f, e, hs, u : /\ w = watcher /\ sp = step /\ f = sp.from /\ e = PageEnd
                                /\ hs = Page(f, e) /\ u = Logs(f, hs)
  OBVIOUS
<1>2. PICK sq : sq = IF e = sp.to THEN Idle ELSE Warping(e + 1, sp.to, PageSize)
  OBVIOUS
<1>3. sp.kind = "warping" /\ watcher' = w /\ step' = sq
  BY <1>1, <1>2 DEF WarpPage
<1>4. update' = u
  BY <1>1 DEF WarpPage, Page
<1>5. UNCHANGED <<chainVars, machineVars>> /\ mode = "next" /\ mode' = IF update' = Exceeded THEN "exceeded" ELSE "update"
  BY DEF NextUpdate
<1>6. /\ ChainOk /\ StoreOk(snapshots) /\ Linked(live)
      /\ Resuming(w, sp, status, snapshots) \/ Sync(w, sp, live, status, snapshots)
  BY <1>1, <1>5, NextIs
<1>7. WatcherOk(w) /\ WarpRuns(w, sp, w.queue, live, status, snapshots)
  BY <1>3, <1>6 DEF Sync, Resuming, Idle
<1>8. PICK s, z : s = Len(w.safe) /\ z = sp.size
  OBVIOUS
<1>9. sp = Warping(f, s, z) /\ f \in Nat /\ f <= s /\ z \in Nat \ {0}
  BY <1>1, <1>7, <1>8 DEF WarpRuns
<1>10. s \in Nat /\ sp.to = s
  <2>1. s \in Nat
    BY <1>7, <1>8 DEF WatcherOk, Watchers, Hashes
  <2> QED BY <1>9, <2>1 DEF Warping
<1>11. e = IF f + z - 1 < s THEN f + z - 1 ELSE s
  BY <1>1, <1>8, <1>10 DEF PageEnd
<1>12. e \in Nat /\ f <= e /\ e <= s
  BY <1>9, <1>10, <1>11
<1>13. sq = AfterPage(w, e)
  BY <1>2, <1>8, <1>10 DEF AfterPage
<1>14. f \in Nat /\ e \in Nat /\ f <= e /\ e <= Len(w.safe)
  BY <1>8, <1>9, <1>12
<1>15. f = sp.from /\ hs = Page(f, e) /\ u = Logs(f, hs)
  BY <1>1
<1>16. Taken(w, sq, u)
  BY <1>6, <1>7, <1>13, <1>14, <1>15, PageTaken
<1>17. u.kind = "logs"
  BY <1>15 DEF Logs
<1>18. mode' = "update"
  BY <1>4, <1>5, <1>17 DEF Exceeded
<1> QED BY <1>3, <1>4, <1>5, <1>6, <1>16, <1>18, TakenStep

\* The query failed.
LEMMA NarrowsStep ==
  ASSUME DriverInv, NextNarrows
  PROVE  DriverInv'
<1>1. PICK w, sp, l, st, sn : w = watcher /\ sp = step /\ l = live /\ st = status /\ sn = snapshots
  OBVIOUS
<1>2. PICK z, y : z = sp.size /\ y = (z + 1) \div 2
  OBVIOUS
<1>3. /\ mode = "next" /\ mode' = "next" /\ UNCHANGED <<start_block, depth, chain, highest, watcher, live, status, snapshots>>
      /\ sp.kind = "warping" /\ step' = [sp EXCEPT !.size = y]
  BY <1>1, <1>2 DEF NextNarrows, WarpNarrows, chainVars, machineVars
<1>4. ChainOk /\ (Resuming(w, sp, st, sn) \/ Sync(w, sp, l, st, sn))
  BY <1>1, <1>3, NextIs
<1>5. WatcherOk(w) /\ StoreOk(sn) /\ WarpRuns(w, sp, w.queue, l, st, sn)
  BY <1>3, <1>4 DEF Sync, Resuming, Idle
<1>6. PICK f, s, sq : f = sp.from /\ s = Len(w.safe) /\ sq = Warping(f, s, y)
  OBVIOUS
<1>7. sp = Warping(f, s, z) /\ z \in Nat \ {0}
  BY <1>2, <1>5, <1>6 DEF WarpRuns
<1>8. y \in Nat \ {0}
  BY <1>2, <1>7
<1>9. [sp EXCEPT !.size = y] = sq
  BY <1>6, <1>7 DEF Warping
<1>10. sq.kind = "warping" /\ sq.from = f /\ sq.size = y
  BY <1>6 DEF Warping
<1>11. WarpRuns(w, sq, w.queue, l, st, sn)
  BY <1>5, <1>6, <1>8, <1>10 DEF WarpRuns
<1>12. Sync(w, sq, l, st, sn)
  BY <1>5, <1>10, <1>11 DEF Sync
<1>13. step' = sq
  BY <1>3, <1>9
<1>14. /\ ChainOk' /\ StoreOk(snapshots)' /\ Linked(live)'
       /\ Sync(watcher, step, live, status, snapshots)'
  BY <1>1, <1>3, <1>4, <1>12, <1>13, SyncStep
<1> QED BY <1>3, <1>14 DEF DriverInv

----------------------------------------------------------------------------
(* The next block                                                          *)

\* v is w after block number k, the i-th of the recent ones, is uncled.
Drops(w, i, k, v) ==
    /\ v \in Watchers /\ v.safe = w.safe /\ v.recent = SubSeq(w.recent, 1, i - 1)
    /\ v.queue = <<>> /\ v.pending = k /\ k = Len(w.safe) + i

\* The blocks before it are those the watcher knows.
LEMMA DropsIs ==
  ASSUME ChainOk, NEW w, WatcherOk(w), NEW i \in 1 .. Len(w.recent), NEW k, NEW v, Drops(w, i, k, v)
  PROVE  /\ WatcherOk(v) /\ Len(v.recent) = i - 1 /\ \A j \in 0 .. i - 1 : Known(v, j) = Known(w, j)
<1>1. PICK s \in Nat, r \in Nat : s = Len(w.safe) /\ r = Len(w.recent)
  <2>1. Len(w.safe) \in Nat /\ Len(w.recent) \in Nat
    BY DEF WatcherOk, Watchers, Hashes
  <2> QED BY <2>1
<1>2. i \in 1 .. r /\ i - 1 \in 0 .. r /\ i \in Nat /\ s \in Nat /\ r \in Nat
  BY <1>1
<1>3. w.recent \in Seq(Hashes)
  BY DEF WatcherOk, Watchers
<1>4. Len(v.recent) = i - 1 /\ \A j \in 1 .. i - 1 : v.recent[j] = w.recent[j]
  BY <1>1, <1>2, <1>3 DEF Drops
<1>5. \A j \in 0 .. i - 1 : Known(v, j) = Known(w, j)
  BY <1>2, <1>4 DEF Known, Drops
<1>6. /\ s + r <= highest /\ Canon(w.safe)
      /\ \A j \in 0 .. r : Len(Known(w, j)) = s + j
      /\ \A j, m \in 0 .. r : j <= m => Below(Known(w, j), Known(w, m))
  BY <1>1 DEF WatcherOk
<1>7. \A j \in 0 .. i - 1 : j \in 0 .. r
  BY <1>2
<1>8. /\ \A j \in 0 .. i - 1 : Len(Known(v, j)) = s + j
      /\ \A j, m \in 0 .. i - 1 : j <= m => Below(Known(v, j), Known(v, m))
  BY <1>5, <1>6, <1>7
<1>9. v \in Watchers /\ v.safe = w.safe /\ v.pending = s + i
  BY <1>1 DEF Drops
<1>10. s + i = s + (i - 1) + 1
  BY <1>2
<1>11. s + (i - 1) <= highest
  <2>1. highest \in Nat
    BY DEF ChainOk
  <2> QED BY <1>2, <1>6, <2>1
<1>12. WatcherOk(v)
  BY <1>1, <1>4, <1>6, <1>8, <1>9, <1>10, <1>11 DEF WatcherOk
<1> QED BY <1>4, <1>5, <1>12

\* The state machine goes back with it.
LEMMA DropsSync ==
  ASSUME ChainOk, WithinDepth, NEW w, WatcherOk(w), NEW sn, StoreOk(sn), NEW i \in 1 .. Len(w.recent),
         NEW k, NEW v, Drops(w, i, k, v), NEW g \in Hashes, Covered(w, sn, g), Below(Known(w, i - 1), g),
         NEW r, r = Kept(sn, k), k - 1 \in DOMAIN sn
  PROVE  Sync(v, Idle, sn[k - 1], BlockPending(k), r)
<1>1. PICK s \in Nat : s = Len(w.safe)
  BY DEF WatcherOk, Watchers, Hashes
<1>2. Len(w.recent) \in Nat
  BY DEF WatcherOk, Watchers
<1>3. i \in Nat /\ i - 1 \in 0 .. Len(w.recent) /\ s \in Nat
  BY <1>1, <1>2
<1>4. k = s + i
  BY <1>1 DEF Drops
<1>5. k \in Nat /\ k - 1 = s + (i - 1) /\ k - 1 \in Nat
  BY <1>3, <1>4
<1>6. PICK t : t = Known(w, i - 1)
  OBVIOUS
<1>7. t \in Hashes /\ Len(t) = k - 1 /\ Below(t, g)
  <2>1. t \in Hashes /\ Len(t) = Len(w.safe) + (i - 1)
    BY <1>3, <1>6, KnownIs
  <2> QED BY <1>1, <1>5, <1>6, <2>1
<1>8. WatcherOk(v) /\ Len(v.recent) = i - 1 /\ Known(v, i - 1) = t
  <2>1. i - 1 \in 0 .. i - 1
    BY <1>3
  <2> QED BY <1>6, <2>1, DropsIs
<1>9. StoreOk(r) /\ DOMAIN r = {n \in DOMAIN sn : n < k} /\ \A n \in DOMAIN r : r[n] = sn[n]
  <2>1. k \in Nat
    BY <1>5
  <2>2. StoreOk(r)
    BY <2>1, KeptStore
  <2> QED BY <2>2 DEF Kept
<1>10. \A n \in DOMAIN sn : /\ n \in Nat /\ Tip(sn[n]) \in Hashes /\ Len(Tip(sn[n])) = n /\ Complete(sn[n])
                            /\ Below(Tip(sn[n]), g)
  BY SnapshotIs DEF Covered
<1>11. PICK l : l = sn[k - 1]
  OBVIOUS
<1>12. Complete(l) /\ Tip(l) = t
  <2>1. Complete(l) /\ Below(Tip(l), g) /\ Len(Tip(l)) = k - 1
    BY <1>10, <1>11
  <2> QED BY <1>7, <2>1, BelowSame
<1>13. Covered(v, r, t)
  <2>1. k - 1 < k
    BY <1>5
  <2>2. k - 1 \in DOMAIN r
    BY <1>9, <2>1
  <2>3. ASSUME NEW n \in DOMAIN r PROVE n <= Len(t) /\ Below(Tip(r[n]), t)
    <3>1. n \in DOMAIN sn /\ n < k /\ r[n] = sn[n]
      BY <1>9
    <3>2. n \in Nat /\ Tip(sn[n]) \in Hashes /\ Len(Tip(sn[n])) = n /\ Below(Tip(sn[n]), g)
      BY <1>10, <3>1
    <3>3. n <= k - 1
      BY <1>5, <3>1, <3>2
    <3>4. Len(Tip(sn[n])) <= Len(t)
      BY <1>7, <3>2, <3>3
    <3>5. Below(Tip(sn[n]), t)
      BY <1>7, <3>2, <3>4, BelowOrder
    <3> QED BY <1>7, <3>1, <3>3, <3>5
  <2>4. ASSUME NEW m \in DOMAIN r, NEW n \in Len(v.safe) .. Len(t), m <= n PROVE n \in DOMAIN r
    <3>1. m \in DOMAIN sn
      BY <1>9
    <3>2. v.safe = w.safe
      BY DEF Drops
    <3>3. n \in s .. k - 1
      BY <1>1, <1>7, <3>2
    <3>4. Len(g) \in Nat /\ k - 1 <= Len(g)
      BY <1>7 DEF Below, Hashes
    <3>5. n \in Len(w.safe) .. Len(g) /\ n < k
      BY <1>1, <1>3, <1>5, <3>3, <3>4
    <3>6. n \in DOMAIN sn
      BY <2>4, <3>1, <3>5 DEF Covered
    <3> QED BY <1>9, <3>5, <3>6
  <2> QED BY <2>2, <2>3, <2>4 DEF Covered
<1>14. PICK q : q = v.queue
  OBVIOUS
<1>15. q = <<>> /\ Len(q) = 0
  BY <1>14 DEF Drops
<1>16. Announced(v, q) = i - 1
  BY <1>3, <1>8, <1>15 DEF Announced
<1>17. News(v, q)
  BY <1>3, <1>8, <1>15 DEF News
<1>18. BlockPending(k) = BlockPending(Len(t) + 1)
  <2>1. k = Len(t) + 1
    BY <1>5, <1>7
  <2> QED BY <2>1
<1>19. Steady(v, q, l, BlockPending(k), r)
  BY <1>8, <1>12, <1>13, <1>16, <1>17, <1>18 DEF Steady
<1> QED BY <1>8, <1>9, <1>11, <1>14, <1>19 DEF Sync

\* The watcher learns of the child of its latest block.
LEMMA LearnsIs ==
  ASSUME ChainOk, NEW w, WatcherOk(w), NEW b \in Hashes, Len(b) <= highest, Len(b) > 0,
         Front(b) = Known(w, Len(w.recent)), NEW x \in Watchers,
         x.safe = w.safe, x.recent = Append(w.recent, b), x.pending = Len(b) + 1
  PROVE  WatcherOk(x) /\ Len(x.recent) = Len(w.recent) + 1 /\ x.recent[Len(x.recent)] = b
<1>1. PICK s \in Nat, r \in Nat : s = Len(w.safe) /\ r = Len(w.recent)
  <2>1. Len(w.safe) \in Nat /\ Len(w.recent) \in Nat
    BY DEF WatcherOk, Watchers, Hashes
  <2> QED BY <2>1
<1>2. s \in Nat /\ r \in Nat /\ Len(b) \in Nat
  BY <1>1 DEF Hashes
<1>3. /\ Canon(w.safe)
      /\ \A j \in 0 .. r : Len(Known(w, j)) = s + j
      /\ \A j, m \in 0 .. r : j <= m => Below(Known(w, j), Known(w, m))
  BY <1>1 DEF WatcherOk
<1>4. w.recent \in Seq(Hashes)
  BY DEF WatcherOk, Watchers
<1>5. Len(x.recent) = r + 1 /\ x.recent[r + 1] = b /\ \A j \in 1 .. r : x.recent[j] = w.recent[j]
  BY <1>1, <1>2, <1>4
<1>6. Known(x, r + 1) = b /\ \A j \in 0 .. r : Known(x, j) = Known(w, j)
  BY <1>2, <1>5 DEF Known
<1>7. r \in 0 .. r
  BY <1>2
<1>8. \A j \in 0 .. r : Known(w, j) \in Hashes
  BY <1>1, KnownIs
<1>9. PICK t : t = Known(w, r)
  OBVIOUS
<1>10. t \in Hashes /\ Len(t) = s + r /\ Len(t) = Len(b) - 1 /\ Below(t, b)
  <2>1. Front(b) = t
    BY <1>1, <1>9
  <2> QED BY <1>3, <1>7, <1>8, <1>9, <2>1, FrontIs
<1>11. Len(b) = s + (r + 1)
  BY <1>2, <1>10
<1>12. \A j \in 0 .. r + 1 : j = r + 1 \/ j \in 0 .. r
  BY <1>2
<1>13. \A j \in 0 .. r + 1 : Len(Known(x, j)) = s + j
  BY <1>3, <1>6, <1>11, <1>12
<1>14. ASSUME NEW j \in 0 .. r + 1, NEW m \in 0 .. r + 1, j <= m PROVE Below(Known(x, j), Known(x, m))
  <2>1. CASE m = r + 1 /\ j = r + 1
    BY <1>6, <2>1, BelowRefl
  <2>2. CASE m = r + 1 /\ j \in 0 .. r
    <3>1. Below(Known(w, j), t) /\ Known(w, j) \in Hashes
      <4>1. j <= r
        BY <1>2, <2>2
      <4> QED BY <1>3, <1>7, <1>8, <1>9, <2>2, <4>1
    <3>2. Below(Known(w, j), b)
      BY <1>10, <3>1, BelowTrans
    <3> QED BY <1>6, <2>2, <3>2
  <2>3. CASE m \in 0 .. r /\ j \in 0 .. r
    BY <1>3, <1>6, <1>14, <2>3
  <2>4. CASE m \in 0 .. r /\ j = r + 1
    BY <1>2, <1>14, <2>4
  <2> QED BY <1>12, <2>1, <2>2, <2>3, <2>4
<1>15. x.pending = s + (r + 1) + 1
  BY <1>11
<1>16. s + (r + 1) <= highest
  BY <1>11
<1>17. WatcherOk(x)
  BY <1>1, <1>3, <1>5, <1>13, <1>14, <1>15, <1>16 DEF WatcherOk
<1> QED BY <1>1, <1>5, <1>17

\* The oldest of the recent blocks becomes the safe one.
LEMMA SlidesIs ==
  ASSUME ChainOk, NEW x, WatcherOk(x), Len(x.recent) > 0, Canon(x.recent[1]), NEW v \in Watchers,
         v.safe = x.recent[1], v.recent = Tail(x.recent), v.pending = x.pending
  PROVE  /\ WatcherOk(v) /\ Len(v.recent) = Len(x.recent) - 1 /\ Len(v.safe) = Len(x.safe) + 1
         /\ Known(v, Len(v.recent)) = x.recent[Len(x.recent)]
<1>1. PICK s \in Nat, r \in Nat : s = Len(x.safe) /\ r = Len(x.recent)
  <2>1. Len(x.safe) \in Nat /\ Len(x.recent) \in Nat
    BY DEF WatcherOk, Watchers, Hashes
  <2> QED BY <2>1
<1>2. s \in Nat /\ r \in Nat /\ r > 0
  BY <1>1
<1>3. /\ x.pending = s + r + 1 /\ s + r <= highest
      /\ \A j \in 0 .. r : Len(Known(x, j)) = s + j
      /\ \A j, m \in 0 .. r : j <= m => Below(Known(x, j), Known(x, m))
  BY <1>1 DEF WatcherOk
<1>4. x.recent \in Seq(Hashes)
  BY DEF WatcherOk, Watchers
<1>5. Len(v.recent) = r - 1 /\ \A j \in 1 .. r - 1 : v.recent[j] = x.recent[j + 1]
  BY <1>1, <1>2, <1>4
<1>6. \A j \in 0 .. r - 1 : j + 1 \in 0 .. r /\ j + 1 # 0 /\ (j # 0 => j \in 1 .. r - 1)
  BY <1>2
<1>7. \A j \in 0 .. r - 1 : Known(v, j) = Known(x, j + 1)
  <2>1. ASSUME NEW j \in 0 .. r - 1 PROVE Known(v, j) = Known(x, j + 1)
    <3>1. CASE j = 0
      BY <3>1 DEF Known
    <3>2. CASE j # 0
      BY <1>5, <1>6, <3>2 DEF Known
    <3> QED BY <3>1, <3>2
  <2> QED BY <2>1
<1>8. Len(v.safe) = s + 1
  <2>1. 1 \in 0 .. r /\ Known(x, 1) = x.recent[1]
    BY <1>2 DEF Known
  <2> QED BY <1>3, <2>1
<1>9. ASSUME NEW j \in 0 .. r - 1 PROVE Len(Known(v, j)) = (s + 1) + j
  <2>1. Len(Known(x, j + 1)) = s + (j + 1)
    BY <1>3, <1>6
  <2>2. s + (j + 1) = (s + 1) + j
    BY <1>2
  <2> QED BY <1>7, <2>1, <2>2
<1>10. ASSUME NEW j \in 0 .. r - 1, NEW m \in 0 .. r - 1, j <= m PROVE Below(Known(v, j), Known(v, m))
  <2>1. j + 1 <= m + 1 /\ j + 1 \in 0 .. r /\ m + 1 \in 0 .. r
    BY <1>2, <1>10
  <2> QED BY <1>3, <1>7, <2>1
<1>11. v.pending = (s + 1) + (r - 1) + 1 /\ (s + 1) + (r - 1) <= highest
  <2>1. (s + 1) + (r - 1) = s + r
    BY <1>2
  <2>2. (s + 1) + (r - 1) + 1 = s + r + 1
    BY <1>2
  <2> QED BY <1>3, <2>1, <2>2
<1>12. WatcherOk(v)
  BY <1>5, <1>8, <1>9, <1>10, <1>11 DEF WatcherOk
<1>13. Known(v, r - 1) = x.recent[r]
  <2>1. r - 1 \in 0 .. r - 1 /\ (r - 1) + 1 = r /\ r # 0
    BY <1>2
  <2>2. Known(v, r - 1) = Known(x, r)
    BY <1>7, <2>1
  <2> QED BY <2>1, <2>2 DEF Known
<1> QED BY <1>1, <1>5, <1>8, <1>12, <1>13

\* Both together.
LEMMA ExtendedIs ==
  ASSUME ChainOk, WithinDepth, NEW w, WatcherOk(w), NEW b \in Hashes, Len(b) <= highest, Len(b) > 0,
         Below(b, chain), Front(b) = Known(w, Len(w.recent)), NEW v, v = Extended(w, b)
  PROVE  /\ WatcherOk(v) /\ v.queue = w.queue /\ Known(v, Len(v.recent)) = b
         /\ Len(v.recent) \in Nat /\ Len(w.safe) <= Len(v.safe)
<1>1. PICK x : x = [w EXCEPT !.pending = Len(b) + 1, !.recent = Append(w.recent, b)]
  OBVIOUS
<1>2. w \in Watchers /\ Len(b) + 1 \in Nat /\ Append(w.recent, b) \in Seq(Hashes)
  BY DEF WatcherOk, Watchers, Hashes
<1>3. /\ x \in Watchers /\ x.safe = w.safe /\ x.recent = Append(w.recent, b) /\ x.pending = Len(b) + 1
      /\ x.queue = w.queue
  BY <1>1, <1>2 DEF Watchers
<1>4. WatcherOk(x) /\ Len(x.recent) = Len(w.recent) + 1 /\ x.recent[Len(x.recent)] = b
  BY <1>3, LearnsIs
<1>5. Len(w.safe) \in Nat /\ Len(w.recent) \in Nat /\ Len(b) \in Nat
  BY <1>2 DEF Watchers, Hashes
<1>6. CASE ~(Len(x.recent) > MaxReorgDepth)
  <2>1. v = x
    BY <1>1, <1>3, <1>6 DEF Extended, Watchers
  <2>2. Len(x.recent) # 0
    BY <1>4, <1>5
  <2> QED BY <1>3, <1>4, <1>5, <2>1, <2>2 DEF Known
<1>7. CASE Len(x.recent) > MaxReorgDepth
  <2>1. x.recent \in Seq(Hashes) /\ x.recent # <<>> /\ Len(x.recent) > 0 /\ Len(x.recent) \in Nat
    <3>1. x.recent \in Seq(Hashes)
      BY <1>3 DEF Watchers
    <3>2. Len(x.recent) > 0 /\ Len(x.recent) \in Nat
      <4>1. PICK n \in Nat : n = Len(w.recent)
        BY <1>5
      <4>2. n + 1 > 0 /\ n + 1 \in Nat
        BY <4>1
      <4> QED BY <1>4, <4>1, <4>2
    <3> QED BY <3>1, <3>2
  <2>2. PICK g, y : g = x.recent[1] /\ y = Tail(x.recent)
    OBVIOUS
  <2>3. g \in Hashes /\ y \in Seq(Hashes) /\ Head(x.recent) = g
    BY <2>1, <2>2
  <2>4. v = [w EXCEPT !.pending = Len(b) + 1, !.safe = g, !.recent = y]
    BY <1>3, <1>7, <2>2, <2>3 DEF Extended
  <2>5. /\ v \in Watchers /\ v.safe = g /\ v.recent = y /\ v.pending = Len(b) + 1
        /\ v.queue = w.queue
    BY <1>2, <2>3, <2>4 DEF Watchers
  <2>6. 1 \in 0 .. Len(x.recent) /\ Len(x.recent) \in 0 .. Len(x.recent) /\ 1 <= Len(x.recent)
    BY <2>1
  <2>7. Known(x, 1) = g /\ Known(x, Len(x.recent)) = b
    BY <1>4, <2>1, <2>2 DEF Known
  <2>8. Below(g, b) /\ Len(g) = Len(x.safe) + 1
    BY <1>4, <2>6, <2>7 DEF WatcherOk
  <2>9. Len(b) = Len(x.safe) + Len(x.recent)
    BY <1>4, <2>6, <2>7, KnownIs
  <2>10. Canon(g)
    <3>1. Len(g) <= Final
      <4>1. PICK n \in Nat, m \in Nat, d \in Nat : n = Len(w.safe) /\ m = Len(x.recent) /\ d = MaxReorgDepth
        BY <1>5, <2>1, IndexerAssumption
      <4>2. Len(g) = n + 1 /\ Len(b) = n + m /\ d < m /\ n \in Nat /\ m \in Nat /\ d \in Nat
        BY <1>3, <1>7, <2>8, <2>9, <4>1
      <4>3. Final \in Nat /\ highest - d <= Final /\ highest \in Nat
        BY <4>1, FinalIs
      <4>4. n + m <= highest
        BY <4>2
      <4>5. n + 1 <= Final
        BY <4>2, <4>3, <4>4
      <4> QED BY <4>2, <4>5
    <3>2. Below(g, chain)
      BY <2>3, <2>8, BelowTrans DEF ChainOk
    <3> QED BY <3>1, <3>2 DEF Canon
  <2>11. /\ WatcherOk(v) /\ Len(v.recent) = Len(x.recent) - 1 /\ Len(v.safe) = Len(x.safe) + 1
         /\ Known(v, Len(v.recent)) = x.recent[Len(x.recent)]
    BY <1>3, <1>4, <2>1, <2>2, <2>5, <2>10, SlidesIs
  <2>12. Len(v.recent) \in Nat /\ Len(w.safe) <= Len(v.safe)
    BY <1>3, <1>5, <2>1, <2>11
  <2> QED BY <1>4, <2>5, <2>11, <2>12
<1> QED BY <1>6, <1>7

\* Where the watcher is when it asks for a block.
LEMMA HeadIs ==
  ASSUME ChainOk, WithinDepth, NEW w, Sync(w, Idle, live, status, snapshots), w.queue = <<>>,
         w.pending <= Len(chain), NEW b, b = BlockAt(w.pending), NEW t, t = Known(w, Len(w.recent))
  PROVE  /\ WatcherOk(w) /\ StoreOk(snapshots) /\ Len(w.recent) \in 0 .. Len(w.recent) /\ Len(w.recent) \in Nat
         /\ Complete(live) /\ Tip(live) = t /\ status = BlockPending(Len(t) + 1) /\ Covered(w, snapshots, t)
         /\ t \in Hashes /\ Len(t) \in Nat /\ Len(t) = Len(w.safe) + Len(w.recent) /\ Len(w.safe) \in Nat
         /\ b \in Hashes /\ Len(b) = Len(t) + 1 /\ Below(b, chain) /\ Len(b) <= highest
         /\ Front(b) \in Hashes /\ Len(Front(b)) = Len(t) /\ Below(Front(b), chain)
<1>1. WatcherOk(w) /\ StoreOk(snapshots)
  BY DEF Sync
<1>2. PICK q : q = w.queue
  OBVIOUS
<1>3. q = <<>> /\ Len(q) = 0
  BY <1>2
<1>4. Steady(w, q, live, status, snapshots)
  BY <1>2, <1>3 DEF Sync, Fresh, WarpReady, Idle
<1>5. Len(w.recent) \in Nat /\ Len(w.recent) \in 0 .. Len(w.recent)
  <2>1. Len(w.recent) \in Nat
    BY <1>1 DEF WatcherOk, Watchers
  <2> QED BY <2>1
<1>6. Announced(w, q) = Len(w.recent)
  BY <1>3, <1>5 DEF Announced
<1>7. Complete(live) /\ Tip(live) = t /\ status = BlockPending(Len(t) + 1) /\ Covered(w, snapshots, t)
  BY <1>4, <1>6 DEF Steady
<1>8. t \in Hashes /\ Len(t) \in Nat /\ Len(t) = Len(w.safe) + Len(w.recent) /\ Len(w.safe) \in Nat
  <2>1. t \in Hashes /\ Len(t) = Len(w.safe) + Len(w.recent) /\ Len(w.safe) \in Nat
    BY <1>1, <1>5, KnownIs
  <2>2. t \in Hashes
    BY <2>1
  <2>3. Len(t) \in Nat
    BY <2>2 DEF Hashes
  <2> QED BY <2>1, <2>3
<1>9. w.pending = Len(t) + 1
  BY <1>1, <1>8 DEF WatcherOk
<1>10. PICK n \in Nat : n = Len(t)
  BY <1>8
<1>11. Len(chain) \in Nat /\ Len(chain) <= highest /\ highest \in Nat
  BY FinalIs
<1>12. n + 1 \in 0 .. Len(chain) /\ n + 1 <= highest /\ n + 1 > 0 /\ (n + 1) - 1 = n
  <2>1. n + 1 <= Len(chain) /\ n \in Nat
    BY <1>9, <1>10
  <2> QED BY <1>11, <2>1
<1>13. b \in Hashes /\ Len(b) = n + 1 /\ Below(b, chain)
  <2>1. b = BlockAt(n + 1)
    BY <1>9, <1>10
  <2> QED BY <1>12, <2>1, BlockAtIs
<1>14. Front(b) \in Hashes /\ Len(Front(b)) = n /\ Below(Front(b), b)
  <2>1. Len(b) > 0
    BY <1>12, <1>13
  <2>2. Front(b) \in Hashes /\ Len(Front(b)) = Len(b) - 1 /\ Below(Front(b), b)
    BY <1>13, <2>1, FrontIs
  <2> QED BY <1>12, <1>13, <2>2
<1>15. Below(Front(b), chain)
  BY <1>13, <1>14, BelowTrans DEF ChainOk
<1>16. Len(b) = Len(t) + 1 /\ Len(b) <= highest /\ Len(Front(b)) = Len(t)
  BY <1>10, <1>12, <1>13, <1>14
<1> QED BY <1>1, <1>5, <1>7, <1>8, <1>13, <1>14, <1>15, <1>16

\* The latest block is uncled: it is not final, so that there is a snapshot to go back to.
LEMMA UncledTaken ==
  ASSUME ChainOk, WithinDepth, NEW w, Sync(w, Idle, live, status, snapshots), w.queue = <<>>,
         w.pending <= Len(chain), NEW b, b = BlockAt(w.pending),
         w.recent # <<>>, Last(w.recent) # Front(b), NEW u, u = Uncle(Len(Last(w.recent))),
         NEW v, v = Uncled(w)
  PROVE  Taken(v, Idle, u)
<1>1. PICK t, i : i = Len(w.recent) /\ t = Known(w, i)
  OBVIOUS
<1>2. /\ WatcherOk(w) /\ StoreOk(snapshots) /\ i \in Nat
      /\ status = BlockPending(Len(t) + 1) /\ Covered(w, snapshots, t)
  BY <1>1, HeadIs
<1>3. /\ t \in Hashes /\ Len(t) \in Nat /\ Len(t) = Len(w.safe) + i /\ Len(w.safe) \in Nat
      /\ Len(Front(b)) = Len(t) /\ Below(Front(b), chain)
  BY <1>1, HeadIs
<1>4. w.recent \in Seq(Hashes) /\ w \in Watchers
  BY <1>2 DEF WatcherOk, Watchers
<1>5. i > 0 /\ i \in 1 .. Len(w.recent)
  BY <1>1, <1>2, <1>4
<1>6. Last(w.recent) = t
  BY <1>1, <1>5 DEF Last, Known
<1>7. ~Canon(t)
  BY <1>3, <1>6, BelowSame DEF Canon
<1>8. PICK k : k = Len(t)
  OBVIOUS
<1>9. Drops(w, i, k, v)
  <2>1. PICK y : y = Front(w.recent)
    OBVIOUS
  <2>2. y = SubSeq(w.recent, 1, i - 1)
    BY <1>1, <2>1 DEF Front
  <2>3. y \in Seq(Hashes)
    BY <1>1, <1>2, <1>4, <1>5, <2>2
  <2>4. v = [w EXCEPT !.pending = k, !.recent = y]
    BY <1>6, <1>8, <2>1 DEF Uncled
  <2>5. k \in Nat
    BY <1>3, <1>8
  <2>6. v \in Watchers /\ v.safe = w.safe /\ v.recent = y /\ v.queue = <<>> /\ v.pending = k
    BY <1>4, <2>3, <2>4, <2>5 DEF Watchers
  <2> QED BY <1>3, <1>8, <2>2, <2>6 DEF Drops
<1>10. u.kind = "uncle" /\ u.number = k
  BY <1>6, <1>8 DEF Uncle
<1>11. status.kind = "block_pending" /\ status.pending = Len(t) + 1
  BY <1>2 DEF BlockPending
<1>12. TakesUncle(u)
  <2>1. k < Len(t) + 1
    BY <1>3, <1>8
  <2> QED BY <1>10, <1>11, <2>1 DEF TakesUncle
<1>13. PICK m : m = Min(DOMAIN snapshots)
  OBVIOUS
<1>14. m \in DOMAIN snapshots /\ m \in Nat /\ Canon(Tip(snapshots[m])) /\ Len(Tip(snapshots[m])) = m
  <2>1. DOMAIN snapshots # {}
    BY <1>2 DEF Covered
  <2> QED BY <1>2, <1>13, <2>1, EarliestIs
<1>15. m <= Len(t) /\ Below(Tip(snapshots[m]), t)
  BY <1>2, <1>14 DEF Covered
<1>16. m # Len(t)
  <2>1. ASSUME m = Len(t) PROVE FALSE
    <3>1. Below(t, t)
      BY <1>3, BelowRefl
    <3>2. Tip(snapshots[m]) = t
      BY <1>14, <1>15, <2>1, <3>1, BelowSame
    <3> QED BY <1>7, <1>14, <3>2
  <2> QED BY <2>1
<1>17. m <= k - 1 /\ k - 1 \in Len(w.safe) .. Len(t)
  <2>1. PICK s \in Nat, n \in Nat : s = Len(w.safe) /\ n = Len(t)
    BY <1>3
  <2>2. s \in Nat /\ n \in Nat /\ n = s + i /\ i \in Nat /\ i > 0 /\ m \in Nat /\ m <= n /\ m # n
    BY <1>2, <1>3, <1>5, <1>14, <1>15, <1>16, <2>1
  <2>3. m <= n - 1 /\ n - 1 \in s .. n
    BY <2>2
  <2> QED BY <1>8, <2>1, <2>3
<1>18. k - 1 \in DOMAIN snapshots
  BY <1>2, <1>14, <1>17 DEF Covered
<1>19. i - 1 \in 0 .. Len(w.recent) /\ i \in 0 .. Len(w.recent) /\ i - 1 <= i
  BY <1>1, <1>2, <1>5
<1>20. Below(Known(w, i - 1), t)
  BY <1>1, <1>2, <1>19 DEF WatcherOk
<1>21. Sync(v, Idle, snapshots[k - 1], BlockPending(k), Kept(snapshots, k))
  BY <1>2, <1>3, <1>5, <1>9, <1>18, <1>20, DropsSync
<1> QED BY <1>10, <1>12, <1>18, <1>21 DEF Taken

\* The block extends the chain.
LEMMA ExtendedTaken ==
  ASSUME ChainOk, WithinDepth, NEW w, Sync(w, Idle, live, status, snapshots), w.queue = <<>>,
         w.pending <= Len(chain), NEW b, b = BlockAt(w.pending),
         Front(b) = Known(w, Len(w.recent)), NEW u, u = New(b), NEW v, v = Extended(w, b)
  PROVE  Taken(v, Fetching(b), u)
<1>1. PICK t : t = Known(w, Len(w.recent))
  OBVIOUS
<1>2. /\ WatcherOk(w) /\ StoreOk(snapshots)
      /\ Complete(live) /\ Tip(live) = t /\ status = BlockPending(Len(t) + 1) /\ Covered(w, snapshots, t)
  BY <1>1, HeadIs
<1>3. /\ t \in Hashes /\ Len(t) \in Nat
      /\ b \in Hashes /\ Len(b) = Len(t) + 1 /\ Below(b, chain) /\ Len(b) <= highest
  BY <1>1, HeadIs
<1>4. Len(b) > 0 /\ Len(b) - 1 = Len(t)
  BY <1>3
<1>5. /\ WatcherOk(v) /\ v.queue = w.queue /\ Known(v, Len(v.recent)) = b
      /\ Len(v.recent) \in Nat /\ Len(w.safe) <= Len(v.safe)
  BY <1>2, <1>3, <1>4, ExtendedIs
<1>6. PICK q, l : q = v.queue /\ l = Append(live, NewBlock(b))
  OBVIOUS
<1>7. q = <<>> /\ Len(q) = 0
  BY <1>5, <1>6
<1>8. News(v, q) /\ Announced(v, q) = Len(v.recent)
  BY <1>5, <1>7 DEF News, Announced
<1>9. t = SubSeq(b, 1, Len(b) - 1) /\ t = Front(b)
  BY <1>1, <1>3, <1>4, FrontIs
<1>10. StateOk(l) /\ l[Len(l)] = NewBlock(b)
  BY <1>2, <1>3, <1>6, <1>9, StateNew
<1>11. Covered(v, snapshots, t)
  <2>1. ASSUME NEW m \in DOMAIN snapshots, NEW n \in Len(v.safe) .. Len(t), m <= n PROVE n \in DOMAIN snapshots
    <3>1. Len(w.safe) \in Nat /\ Len(v.safe) \in Nat /\ Len(w.safe) <= Len(v.safe)
      BY <1>2, <1>5 DEF WatcherOk, Watchers, Hashes
    <3>2. n \in Len(w.safe) .. Len(t)
      BY <1>3, <3>1
    <3> QED BY <1>2, <2>1, <3>2 DEF Covered
  <2> QED BY <1>2, <2>1 DEF Covered
<1>12. u.kind = "new" /\ u.hash = b
  BY DEF New
<1>13. TakesNew(u)
  BY <1>2, <1>3, <1>12 DEF TakesNew, Follows
<1>14. Fetches(v, Fetching(b), q, l, BlockEvents(Len(b)), snapshots)
  BY <1>4, <1>5, <1>8, <1>9, <1>10, <1>11 DEF Fetches
<1>15. Sync(v, Fetching(b), l, BlockEvents(Len(b)), snapshots)
  BY <1>2, <1>5, <1>6, <1>14 DEF Sync, Fetching
<1> QED BY <1>6, <1>12, <1>13, <1>15 DEF Taken

\* The action.  The safe block is final, so that no reorg is seen as too deep.
LEMMA NextBlockStep ==
  ASSUME WithinDepth, DriverInv, NextUpdate, NextBlock
  PROVE  DriverInv'
<1>1. PICK w, b : w = watcher /\ b = BlockAt(w.pending)
  OBVIOUS
<1>2. /\ step = Idle /\ w.queue = <<>> /\ w.pending <= Len(chain) /\ step' = on_block_update(update')
      /\ nextBlock(b)
  BY <1>1 DEF NextBlock
<1>3. UNCHANGED <<chainVars, machineVars>> /\ mode = "next" /\ mode' = IF update' = Exceeded THEN "exceeded" ELSE "update"
  BY DEF NextUpdate
<1>4. /\ ChainOk /\ StoreOk(snapshots) /\ Linked(live)
      /\ Resuming(w, step, status, snapshots) \/ Sync(w, step, live, status, snapshots)
  BY <1>1, <1>3, NextIs
<1>5. Sync(w, Idle, live, status, snapshots)
  <2>1. ~Resuming(w, step, status, snapshots)
    <3>1. Len(w.queue) = 0
      BY <1>2
    <3> QED BY <3>1, ResumingWatcher
  <2> QED BY <1>2, <1>4, <2>1
<1>6. PICK t : t = Known(w, Len(w.recent))
  OBVIOUS
<1>7. /\ WatcherOk(w) /\ Len(w.recent) \in Nat /\ Len(Front(b)) = Len(t) /\ Below(Front(b), chain)
  BY <1>1, <1>2, <1>4, <1>5, <1>6, HeadIs
<1>8. w.recent \in Seq(Hashes) /\ Canon(w.safe)
  BY <1>7 DEF WatcherOk, Watchers
<1>9. w.recent # <<>> => Len(w.recent) # 0 /\ Last(w.recent) = t
  BY <1>6, <1>7, <1>8 DEF Last, Known
<1>10. w.recent = <<>> => t = w.safe
  BY <1>6, <1>8 DEF Known
<1>11. CASE w.recent # <<>> /\ Last(w.recent) # Front(b)
  <2>1. PICK v, u, i : v = Uncled(w) /\ u = Uncle(Len(Last(w.recent))) /\ i = Idle
    OBVIOUS
  <2>2. watcher' = v /\ update' = u
    BY <1>1, <1>2, <1>11, <2>1 DEF nextBlock
  <2>3. u.kind = "uncle"
    BY <2>1 DEF Uncle
  <2>4. step' = i
    BY <1>2, <2>1, <2>2, <2>3, StepIs
  <2>5. mode' = "update"
    BY <1>3, <2>2, <2>3 DEF Exceeded
  <2>6. Taken(v, i, u)
    BY <1>1, <1>2, <1>4, <1>5, <1>11, <2>1, UncledTaken
  <2> QED BY <1>3, <1>4, <2>2, <2>4, <2>5, <2>6, TakenStep
<1>12. CASE ~(w.recent # <<>> /\ Last(w.recent) # Front(b))
  <2>1. t = Front(b)
    <3>1. CASE w.recent # <<>>
      BY <1>9, <1>12, <3>1
    <3>2. CASE w.recent = <<>>
      BY <1>7, <1>8, <1>10, <3>2, BelowSame DEF Canon
    <3> QED BY <3>1, <3>2
  <2>2. ~(w.recent = <<>> /\ w.safe # Front(b))
    BY <1>10, <2>1
  <2>3. PICK v, u, i : v = Extended(w, b) /\ u = New(b) /\ i = Fetching(b)
    OBVIOUS
  <2>4. watcher' = v /\ update' = u
    BY <1>1, <1>2, <1>12, <2>2, <2>3 DEF nextBlock
  <2>5. u.kind = "new" /\ u.hash = b
    BY <2>3 DEF New
  <2>6. step' = i
    BY <1>2, <2>3, <2>4, <2>5, StepIs
  <2>7. mode' = "update"
    BY <1>3, <2>4, <2>5 DEF Exceeded
  <2>8. Taken(v, i, u)
    BY <1>1, <1>2, <1>4, <1>5, <1>6, <2>1, <2>3, ExtendedTaken
  <2> QED BY <1>3, <1>4, <2>4, <2>6, <2>7, <2>8, TakenStep
<1> QED BY <1>11, <1>12

----------------------------------------------------------------------------
(* The block the logs are fetched of is gone                               *)

\* The last block that was emitted is the last one that was announced.
LEMMA LastEmittedIs ==
  ASSUME ChainOk, WatcherOk(watcher), News(watcher, watcher.queue)
  PROVE  LastEmitted = Announced(watcher, watcher.queue)
<1>1. PICK w, q, a : w = watcher /\ q = w.queue /\ a = Announced(w, q)
  OBVIOUS
<1>2. WatcherOk(w) /\ News(w, q) /\ q \in Seq(Updates) /\ w.recent \in Seq(Hashes)
  BY <1>1 DEF WatcherOk, Watchers
<1>3. Len(q) \in Nat
  BY <1>2
<1>4. a \in 0 .. Len(w.recent) /\ Len(w.recent) \in Nat
  BY <1>1, <1>2, <1>3, AnnouncedIs
<1>5. PICK r \in Nat, s \in Nat : r = Len(w.recent) /\ s = Len(w.safe)
  <2>1. Len(w.safe) \in Nat
    BY <1>2 DEF WatcherOk, Watchers, Hashes
  <2> QED BY <1>4, <2>1
<1>6. a \in Nat /\ a <= r /\ r \in Nat /\ s \in Nat
  BY <1>4, <1>5
<1>7. ASSUME NEW i \in 1 .. r PROVE Len(w.recent[i]) = s + i
  <2>1. i \in 0 .. Len(w.recent) /\ i # 0
    BY <1>5, <1>6
  <2>2. Known(w, i) = w.recent[i]
    BY <2>1 DEF Known
  <2> QED BY <1>2, <1>5, <2>1, <2>2, KnownIs
<1>8. ASSUME NEW i \in 1 .. r PROVE Emitted(w.recent[i]) <=> i <= a
  <2>1. CASE q = <<>>
    <3>1. a = r
      BY <1>1, <1>5, <1>6, <2>1 DEF Announced
    <3> QED BY <1>1, <1>6, <2>1, <3>1 DEF Emitted
  <2>2. CASE q # <<>>
    <3>1. Len(q) > 0 /\ Head(q) = q[1]
      BY <1>2, <2>2
    <3>2. q[1] = New(w.recent[a + 1]) /\ a + 1 \in 1 .. r
      BY <1>1, <1>2, <1>5, <3>1, NewsTail
    <3>3. Head(q).hash = w.recent[a + 1]
      BY <3>1, <3>2 DEF New
    <3>4. Len(w.recent[a + 1]) = s + (a + 1)
      BY <1>7, <3>2
    <3>5. Len(w.recent[i]) < Len(Head(q).hash) <=> s + i < s + (a + 1)
      BY <1>7, <3>3, <3>4
    <3>6. s + i < s + (a + 1) <=> i <= a
      BY <1>6
    <3> QED BY <1>1, <2>2, <3>5, <3>6 DEF Emitted
  <2> QED BY <2>1, <2>2
<1>9. PICK T : T = {i \in 1 .. Len(w.recent) : Emitted(w.recent[i])}
  OBVIOUS
<1>10. \A i : i \in T <=> i \in 1 .. a
  <2>1. \A i : i \in T <=> i \in 1 .. r /\ i <= a
    BY <1>5, <1>8, <1>9
  <2>2. \A i : i \in 1 .. a <=> i \in 1 .. r /\ i <= a
    BY <1>6
  <2> QED BY <2>1, <2>2
<1>11. LastEmitted = IF T # {} THEN Max(T) ELSE 0
  BY <1>1, <1>9 DEF LastEmitted, SelectLastInSeq
<1>12. CASE a = 0
  <2>1. T = {}
    BY <1>10, <1>12
  <2> QED BY <1>1, <1>11, <1>12, <2>1
<1>13. CASE a # 0
  <2>1. a \in T /\ T \subseteq Nat /\ \A x \in T : x <= a
    BY <1>6, <1>10, <1>13
  <2>2. Max(T) \in T /\ \A x \in T : x <= Max(T)
    BY <1>6, <2>1, MaxOfBounded
  <2>3. Max(T) = a
    <3>1. PICK m : m = Max(T)
      OBVIOUS
    <3>2. m \in Nat /\ m <= a /\ a <= m
      BY <2>1, <2>2, <3>1
    <3>3. m = a
      BY <1>6, <3>2
    <3> QED BY <3>1, <3>3
  <2> QED BY <1>1, <1>11, <2>1, <2>3
<1> QED BY <1>12, <1>13

\* v is the watcher without g, the last announced block, which is gone.
Gone(w, a, g, v, u) ==
    /\ a = Announced(w, w.queue) /\ a # 0 /\ g = w.recent[a] /\ ~IsPrefix(g, chain)
    /\ v = [w EXCEPT !.pending = Len(g), !.recent = SubSeq(@, 1, a - 1), !.queue = <<>>]
    /\ u = Uncle(Len(g))

\* The block before the last one of a range.
LEMMA BeforeLast ==
  ASSUME NEW s \in Nat, NEW a \in Nat, a # 0, NEW k, k = s + a
  PROVE  k - 1 \in s .. k - 1
  OBVIOUS

\* The block is uncled, and there is a snapshot of its parent.
LEMMA InvalidatedTaken ==
  ASSUME ChainOk, WithinDepth, NEW w, NEW sp, WatcherOk(w), StoreOk(snapshots),
         Fetches(w, sp, w.queue, live, status, snapshots), NEW a \in Nat, NEW g, NEW v, NEW u, Gone(w, a, g, v, u)
  PROVE  sp = Fetching(g) /\ Taken(v, Idle, u)
<1>0. /\ a = Announced(w, w.queue) /\ a # 0 /\ g = w.recent[a] /\ ~IsPrefix(g, chain)
      /\ v = [w EXCEPT !.pending = Len(g), !.recent = SubSeq(@, 1, a - 1), !.queue = <<>>]
      /\ u = Uncle(Len(g))
  BY DEF Gone
<1>1. PICK q, h, k : q = w.queue /\ h = Known(w, a) /\ k = Len(h)
  OBVIOUS
<1>2. PICK t : t = SubSeq(h, 1, Len(h) - 1)
  OBVIOUS
<1>3. /\ News(w, q) /\ sp = Fetching(h)
      /\ status = BlockEvents(Len(h))
      /\ \/ DOMAIN snapshots = {} /\ FromStart(Len(h)) /\ Canon(h)
         \/ Len(h) > 0 /\ Covered(w, snapshots, t)
  BY <1>0, <1>1, <1>2 DEF Fetches
<1>4. Len(q) \in Nat /\ w.recent \in Seq(Hashes) /\ Len(w.safe) \in Nat /\ w \in Watchers
  BY <1>1 DEF WatcherOk, Watchers, Hashes
<1>5. a \in 0 .. Len(w.recent) /\ Len(w.recent) \in Nat
  BY <1>0, <1>1, <1>3, <1>4, AnnouncedIs
<1>6. a \in Nat /\ a \in 1 .. Len(w.recent) /\ a # 0
  BY <1>0, <1>5
<1>7. h = w.recent[a] /\ h = g
  BY <1>0, <1>1, <1>6 DEF Known
<1>8. h \in Hashes /\ Len(h) = Len(w.safe) + a
  BY <1>1, <1>5, KnownIs
<1>9. k \in Nat /\ k = Len(w.safe) + a
  BY <1>1, <1>8 DEF Hashes
<1>10. ~Canon(h)
  <2>1. ASSUME Canon(h) PROVE FALSE
    <3>1. Len(h) <= Len(chain) /\ h = SubSeq(chain, 1, Len(h))
      BY <2>1 DEF Canon, Below
    <3>2. SubSeq(h, 1, Len(h)) = h
      <4>1. Below(h, h)
        BY <1>8, BelowRefl
      <4> QED BY <4>1 DEF Below
    <3>3. IsPrefix(h, chain)
      BY <3>1, <3>2 DEF IsPrefix
    <3> QED BY <1>0, <1>7, <3>3
  <2> QED BY <2>1
<1>11. Len(h) > 0 /\ Covered(w, snapshots, t)
  BY <1>3, <1>10
<1>12. t \in Hashes /\ Len(t) = k - 1 /\ t = Known(w, a - 1)
  <2>1. PICK i \in 0 .. Len(w.recent) : i = a
    BY <1>5
  <2>2. h = Known(w, i) /\ Len(h) > 0 /\ i # 0
    BY <1>1, <1>6, <1>11, <2>1
  <2>3. h = Known(w, i) /\ Len(h) > 0
    BY <2>2
  <2>4. i # 0 => t = Known(w, i - 1)
    BY <1>2, <2>1, <2>3, ParentIs
  <2>5. t \in Hashes /\ Len(t) = Len(h) - 1
    BY <1>2, <2>1, <2>3, ParentIs
  <2> QED BY <1>1, <2>1, <2>2, <2>4, <2>5
<1>13. Drops(w, a, k, v)
  <2>1. PICK y : y = SubSeq(w.recent, 1, a - 1)
    OBVIOUS
  <2>2. y \in Seq(Hashes)
    <3>1. PICK x : x = w.recent
      OBVIOUS
    <3>2. x \in Seq(Hashes) /\ y = SubSeq(x, 1, a - 1)
      BY <1>4, <2>1, <3>1
    <3>3. PICK b \in Nat : b = a - 1
      BY <1>6
    <3>4. b \in 0 .. Len(x)
      BY <1>5, <3>1, <3>3
    <3> QED BY <3>2, <3>3, <3>4
  <2>3. v = [w EXCEPT !.pending = k, !.recent = y, !.queue = <<>>]
    BY <1>0, <1>1, <1>7, <2>1
  <2>4. <<>> \in Seq(Updates)
    OBVIOUS
  <2>5. v \in Watchers /\ v.safe = w.safe /\ v.recent = y /\ v.queue = <<>> /\ v.pending = k
    BY <1>4, <1>9, <2>2, <2>3, <2>4 DEF Watchers
  <2> QED BY <1>9, <2>1, <2>5 DEF Drops
<1>14. u.kind = "uncle" /\ u.number = k
  BY <1>0, <1>1, <1>7 DEF Uncle
<1>15. TakesUncle(u)
  <2>1. status.kind = "block_events" /\ status.latest = k /\ k <= k
    BY <1>1, <1>3, <1>9 DEF BlockEvents
  <2> QED BY <1>14, <2>1 DEF TakesUncle
<1>16. PICK m \in DOMAIN snapshots : TRUE
  BY <1>11 DEF Covered
<1>17. m <= Len(t)
  BY <1>11, <1>16 DEF Covered
<1>18. k - 1 \in Len(w.safe) .. Len(t)
  <2>1. PICK s \in Nat : s = Len(w.safe)
    BY <1>4
  <2>2. k = s + a
    BY <1>9, <2>1
  <2>3. k - 1 \in s .. k - 1
    BY <1>6, <2>1, <2>2, BeforeLast
  <2> QED BY <1>12, <2>1, <2>3
<1>19. k - 1 \in DOMAIN snapshots
  BY <1>11, <1>12, <1>16, <1>17, <1>18 DEF Covered
<1>20. Below(Known(w, a - 1), t)
  BY <1>12, BelowRefl
<1>21. Sync(v, Idle, snapshots[k - 1], BlockPending(k), Kept(snapshots, k))
  BY <1>6, <1>11, <1>12, <1>13, <1>19, <1>20, DropsSync
<1> QED BY <1>3, <1>7, <1>14, <1>15, <1>19, <1>21 DEF Taken

\* The action.  No other block is ever found to be gone, least of all in a range.
LEMMA InvalidatedStep ==
  ASSUME WithinDepth, DriverInv, NextInvalidated
  PROVE  DriverInv'
<1>1. PICK w, sp, q, a : w = watcher /\ sp = step /\ q = w.queue /\ a = Announced(w, q)
  OBVIOUS
<1>2. /\ mode = "next" /\ UNCHANGED <<chainVars, machineVars>> /\ BlockInvalidated
      /\ mode' = IF step' = Idle THEN "update" ELSE "invalid"
  BY DEF NextInvalidated
<1>3. sp.kind \in {"warping", "block"} /\ Revalidates
  BY <1>1, <1>2 DEF BlockInvalidated
<1>4. /\ ChainOk /\ StoreOk(snapshots) /\ Linked(live)
      /\ Resuming(w, sp, status, snapshots) \/ Sync(w, sp, live, status, snapshots)
  BY <1>1, <1>2, NextIs
<1>5. /\ WatcherOk(w)
      /\ WarpRuns(w, sp, q, live, status, snapshots) \/ Fetches(w, sp, q, live, status, snapshots)
  BY <1>1, <1>3, <1>4 DEF Sync, Resuming, Idle
<1>6. News(w, q)
  BY <1>5 DEF WarpRuns, Fetches
<1>7. LastEmitted = a
  BY <1>1, <1>4, <1>5, <1>6, LastEmittedIs
<1>8. a > 0 /\ ~IsPrefix(w.recent[a], chain)
  BY <1>1, <1>3, <1>7 DEF Revalidates
<1>9. Fetches(w, sp, q, live, status, snapshots)
  <2>1. ASSUME WarpRuns(w, sp, q, live, status, snapshots) PROVE FALSE
    <3>1. Len(q) = Len(w.recent) /\ Len(w.recent) \in Nat
      BY <1>5, <2>1 DEF WarpRuns, WatcherOk, Watchers
    <3>2. a = 0
      BY <1>1, <3>1 DEF Announced
    <3> QED BY <1>8, <3>2
  <2> QED BY <1>5, <2>1
<1>10. PICK g, n, v, u, i : /\ g = w.recent[a] /\ n = Len(g)
                            /\ v = [w EXCEPT !.pending = n, !.recent = SubSeq(@, 1, a - 1), !.queue = <<>>]
                            /\ u = Uncle(n) /\ i = Idle
  BY Zenon
<1>20. a \in Nat /\ a # 0
  <2>1. Len(q) \in Nat
    BY <1>1, <1>5 DEF WatcherOk, Watchers
  <2>2. a \in 0 .. Len(w.recent) /\ Len(w.recent) \in Nat
    BY <1>1, <1>5, <1>6, <2>1, AnnouncedIs
  <2>3. a \in Nat
    BY <2>2
  <2> QED BY <1>8, <2>3
<1>21. WatcherOk(w) /\ StoreOk(snapshots) /\ Fetches(w, sp, w.queue, live, status, snapshots)
  BY <1>1, <1>4, <1>5, <1>9
<1>22. Gone(w, a, g, v, u)
  BY <1>1, <1>8, <1>10, <1>20 DEF Gone
<1>11. sp = Fetching(g) /\ Taken(v, Idle, u)
  BY <1>4, <1>20, <1>21, <1>22, InvalidatedTaken
<1>12. watcher' = v /\ update' = u /\ step' = i
  BY <1>1, <1>2, <1>7, <1>10, <1>11 DEF BlockInvalidated
<1>13. mode' = "update" /\ Taken(v, i, u)
  BY <1>2, <1>10, <1>11, <1>12
<1> QED BY <1>2, <1>4, <1>12, <1>13, TakenStep

----------------------------------------------------------------------------
(* The process stops and starts                                            *)

\* Only the snapshots are left.
LEMMA DownStep ==
  ASSUME DriverInv, Down
  PROVE  DriverInv'
<1>1. PICK sn : sn = snapshots
  OBVIOUS
<1>2. ChainOk /\ StoreOk(sn) /\ UNCHANGED <<start_block, depth, chain, highest>>
  BY <1>1 DEF DriverInv, Down, chainVars
<1>3. ChainOk' /\ Keeps
  BY <1>2, SameKeeps
<1>4. StoreOk(sn)'
  BY <1>2, <1>3, StoreStable
<1>5. snapshots' = sn /\ live' = <<>> /\ mode' = "down"
  BY <1>1 DEF Down
<1>6. StoreOk(snapshots)'
  BY <1>4, <1>5
<1>7. Linked(live)'
  BY <1>5 DEF Linked
<1> QED BY <1>3, <1>5, <1>6, <1>7 DEF DriverInv

\* In the beginning there are none.
LEMMA InitInv ==
  ASSUME WithinDepth, Init
  PROVE  DriverInv
<1>1. InitialHead \in Nat /\ depth \in Nat /\ <<start_block, depth>> \in Settings
  <2>1. PICK p \in Settings : start_block = p[1] /\ depth = p[2]
    BY DEF Init
  <2>2. p \in (Nat \cup {-1}) \X Nat /\ InitialHead \in Nat
    BY DriverAssumption
  <2>3. p = <<p[1], p[2]>> /\ p[2] \in Nat
    BY <2>2
  <2> QED BY <2>1, <2>2, <2>3
<1>2. chain \in [1 .. InitialHead -> {0, 1}]
  BY DEF Init
<1>3. chain \in Hashes /\ Len(chain) = InitialHead
  BY <1>1, <1>2, FirstNumbers DEF Hashes
<1>4. ChainOk
  BY <1>1, <1>3 DEF Init, ChainOk, Final
<1>5. snapshots = <<>> /\ live = <<>> /\ mode = "down"
  BY DEF Init
<1>6. DOMAIN snapshots = {}
  BY <1>5
<1>7. StoreOk(snapshots)
  BY <1>6 DEF StoreOk, SnapshotsOk, Nested, Anchored, Bounded
<1>8. Linked(live)
  BY <1>5 DEF Linked
<1> QED BY <1>4, <1>5, <1>7, <1>8 DEF DriverInv

\* What the watcher is to announce before the blocks it scans.
QueuedOf(f, s, D) ==
    (IF D # {} /\ f <= Max(D) THEN <<Uncle(f)>> ELSE <<>>)
      \o (IF f <= s THEN <<Warp(f, s)>> ELSE <<>>)

\* These are updates.
LEMMA QueuedOfIs ==
  ASSUME NEW f \in Nat, NEW s \in Nat, NEW D
  PROVE  QueuedOf(f, s, D) \in Seq(Updates)
<1>1. Uncle(f) \in Updates /\ Warp(f, s) \in Updates
  BY DEF Uncle, Warp, Updates
<1>2. PICK x, y : /\ x = IF D # {} /\ f <= Max(D) THEN <<Uncle(f)>> ELSE <<>>
                  /\ y = IF f <= s THEN <<Warp(f, s)>> ELSE <<>>
  OBVIOUS
<1>3. x \in Seq(Updates) /\ y \in Seq(Updates)
  BY <1>1, <1>2
<1>4. x \o y \in Seq(Updates)
  BY <1>3
<1> QED BY <1>2, <1>4 DEF QueuedOf

\* The safe block of the current chain is final.
LEMMA SafeFinal ==
  ASSUME ChainOk, WithinDepth
  PROVE  SafeNumber(Len(chain)) \in Nat /\ SafeNumber(Len(chain)) <= Final /\ SafeNumber(Len(chain)) <= Len(chain)
<1>1. /\ Final \in Nat /\ Len(chain) \in Nat /\ highest \in Nat /\ Len(chain) <= highest
      /\ highest - MaxReorgDepth <= Final /\ MaxReorgDepth \in Nat
  BY FinalIs
<1> QED BY <1>1 DEF SafeNumber

\* The first block that is not indexed, and the one before it.
LEMMA UnindexedIs ==
  ASSUME ChainOk, WithinDepth, NEW sn, StoreOk(sn), NEW f, f = FirstUnindexed(DOMAIN sn),
         NEW g, g = FromOf(f, SafeNumber(Len(chain))),
         NEW an, an = IF DOMAIN sn = {} THEN g ELSE g - 1
  PROVE  f \in Nat \cup {-1} /\ g \in Nat /\ an \in Nat /\ an <= Final /\ (f = -1 => DOMAIN sn = {})
<1>1. CASE DOMAIN sn = {}
  <2>1. f = start_block /\ an = g
    BY <1>1 DEF FirstUnindexed
  <2>2. PICK s \in Nat, z \in Nat, h \in Nat, d \in Nat, c \in Nat :
          /\ s = SafeNumber(Len(chain)) /\ z = Final /\ h = highest /\ d = MaxReorgDepth /\ c = Len(chain)
    BY SafeFinal, FinalIs
  <2>3. /\ start_block \in Nat \cup {-1} /\ start_block <= z /\ c <= h
        /\ start_block = -1 => 1 <= z /\ h - d + 1 <= z
    BY <2>2, FinalIs
  <2>4. s = IF c > d THEN c - d ELSE 0
    BY <2>2 DEF SafeNumber
  <2>5. CASE start_block = -1
    <3>1. g = s + 1
      BY <2>1, <2>2, <2>5 DEF FromOf
    <3>2. s + 1 <= z
      BY <2>2, <2>3, <2>4, <2>5
    <3> QED BY <1>1, <2>1, <2>2, <2>3, <3>1, <3>2
  <2>6. CASE start_block # -1
    <3>1. g = start_block /\ start_block \in Nat
      BY <2>1, <2>3, <2>6 DEF FromOf
    <3> QED BY <1>1, <2>1, <2>2, <2>3, <3>1
  <2> QED BY <2>5, <2>6
<1>2. CASE DOMAIN sn # {}
  <2>1. PICK m : m = Min(DOMAIN sn)
    OBVIOUS
  <2>2. m \in Nat /\ Canon(Tip(sn[m])) /\ Len(Tip(sn[m])) = m
    BY <1>2, <2>1, EarliestIs
  <2>3. m <= Final
    BY <2>2 DEF Canon
  <2>4. f = m + 1
    BY <1>2, <2>1 DEF FirstUnindexed
  <2>5. g = m + 1 /\ an = g - 1 /\ f # -1
    BY <1>2, <2>2, <2>4 DEF FromOf
  <2>6. an = m
    BY <2>2, <2>5
  <2> QED BY <2>2, <2>3, <2>4, <2>5, <2>6
<1> QED BY <1>1, <1>2

\* The range scan begins.
LEMMA StartStep ==
  ASSUME WithinDepth, DriverInv, Start
  PROVE  DriverInv'
<1>1. ChainOk /\ StoreOk(snapshots) /\ mode' = "init" /\ UNCHANGED <<start_block, depth, chain, highest>>
  BY DEF DriverInv, Start, chainVars
<1>2. PICK c, D, f, s, g, q : /\ c = chain /\ D = DOMAIN snapshots /\ f = FirstUnindexed(D)
                              /\ s = SafeNumber(Len(chain)) /\ g = FromOf(f, s) /\ q = QueuedOf(g, s, D)
  OBVIOUS
<1>3. PICK an : an = IF D = {} THEN g ELSE g - 1
  OBVIOUS
<1>4. ChainOk' /\ Keeps
  BY <1>1, SameKeeps
<1>5. f \in Nat \cup {-1} /\ g \in Nat /\ an \in Nat /\ an <= Final /\ (f = -1 => D = {})
  BY <1>1, <1>2, <1>3, UnindexedIs
<1>6. s \in Nat /\ s <= Final /\ s <= Len(c)
  BY <1>1, <1>2, SafeFinal
<1>7. c \in Hashes /\ Len(c) \in Nat /\ Final \in Nat /\ Final <= Len(c) /\ Len(c) <= highest /\ highest \in Nat
  BY <1>1, <1>2, FinalIs DEF ChainOk
<1>8. q \in Seq(Updates)
  BY <1>2, <1>5, <1>6, QueuedOfIs
<1>9. scan' = [latest |-> c, cached |-> TRUE, from |-> f] /\ step' = Idle /\ update' = NoUpdate
  BY <1>2 DEF Start, initialize
<1>10. watcher' = [NoWatcher EXCEPT !.pending = Len(c) + 1, !.queue = q]
  <2>1. CASE f = -1
    <3>1. D = {} /\ ~(f >= 0) /\ ~(g <= s)
      BY <1>2, <1>5, <1>6, <2>1 DEF FromOf
    <3> QED BY <1>2, <3>1 DEF Start, initialize, QueuedOf
  <2>2. CASE f # -1
    <3>1. f >= 0 /\ g = f
      BY <1>2, <1>5, <2>2 DEF FromOf
    <3> QED BY <1>2, <3>1 DEF Start, initialize, QueuedOf
  <2> QED BY <2>1, <2>2
<1>11. snapshots' = snapshots /\ DOMAIN snapshots' = D
  BY <1>2 DEF Start, with_init
<1>12. PICK w : w = [NoWatcher EXCEPT !.pending = Len(c) + 1, !.queue = q]
  BY Zenon
<1>13. watcher' = w
  BY <1>10, <1>12
<1>14. w \in Watchers
  <2>1. Len(c) + 1 \in Nat /\ <<>> \in Hashes /\ <<>> \in Seq(Hashes)
    BY <1>7 DEF Hashes
  <2> QED BY <1>8, <1>12, <2>1 DEF Watchers, NoWatcher
<1>15. w.pending = Len(c) + 1 /\ w.queue = q /\ w.recent = <<>> /\ Len(w.recent) = 0
  BY <1>12 DEF NoWatcher
<1>16. scan'.latest = c /\ scan'.from = f /\ scan' \in [latest : Hashes, cached : BOOLEAN, from : Nat \cup {-1}]
  BY <1>5, <1>7, <1>9
<1>18. ScanSafe' = s /\ ScanFrom' = g
  <2>1. ScanSafe' = s
    BY <1>2, <1>16 DEF ScanSafe, SafeNumber
  <2> QED BY <1>2, <1>16, <2>1 DEF ScanFrom, FromOf
<1>17. Anchor' = an
  BY <1>3, <1>11, <1>18 DEF Anchor
<1>19. Final' = Final
  BY <1>1 DEF Final
<1>20. Queued' = q
  BY <1>2, <1>11, <1>16, <1>18 DEF Queued, QueuedOf
<1>21. Len(c) <= Final => Canon(c)'
  <2>1. Below(c, c)
    BY <1>7, BelowRefl
  <2>2. Below(c, chain')
    BY <1>1, <1>2, <2>1
  <2> QED BY <1>19, <2>2 DEF Canon, Below
<1>22. Len(c) <= an \/ Len(c) <= s => Canon(c)'
  BY <1>5, <1>6, <1>7, <1>21
<1>23. /\ live' = IF D = {} THEN <<>> ELSE snapshots[Max(D)]
       /\ status' = IF D = {} THEN Initialized ELSE BlockPending(Max(D) + 1)
  BY <1>2 DEF Start, with_init, current
<1>24. Scanning'
  <2>1. step' = Idle /\ update' = NoUpdate /\ scan' \in [latest : Hashes, cached : BOOLEAN, from : Nat \cup {-1}]
    BY <1>9, <1>16
  <2>2. Len(scan'.latest) <= highest' /\ scan'.from = FirstUnindexed(DOMAIN snapshots)'
    BY <1>1, <1>2, <1>7, <1>11, <1>16 DEF FirstUnindexed
  <2>3. Anchor' <= Final' /\ ScanSafe' <= Final' /\ Anchor' <= Len(scan'.latest)
    BY <1>5, <1>6, <1>7, <1>16, <1>17, <1>18, <1>19
  <2>4. Len(scan'.latest) <= Anchor' \/ Len(scan'.latest) <= ScanSafe' => Canon(scan.latest)'
    BY <1>16, <1>17, <1>18, <1>22
  <2>5. watcher' \in Watchers /\ Len(watcher'.recent) <= Len(scan'.latest) - ScanSafe'
    BY <1>6, <1>7, <1>13, <1>14, <1>15, <1>16, <1>18
  <2>6. watcher'.pending = Len(scan'.latest) + 1 /\ watcher'.queue = Queued'
    BY <1>13, <1>15, <1>16, <1>20
  <2>7. 1 .. Len(watcher'.recent) = {}
    BY <1>13, <1>15
  <2>8. /\ live' = IF DOMAIN snapshots' = {} THEN <<>> ELSE snapshots'[Max(DOMAIN snapshots')]
        /\ status' = IF DOMAIN snapshots' = {} THEN Initialized
                     ELSE BlockPending(Max(DOMAIN snapshots') + 1)
    BY <1>11, <1>23
  <2> QED BY <2>1, <2>2, <2>3, <2>4, <2>5, <2>6, <2>7, <2>8 DEF Scanning
<1>25. StoreOk(snapshots)'
  <2>1. PICK sn : sn = snapshots
    OBVIOUS
  <2>2. StoreOk(sn)'
    BY <1>1, <1>4, <2>1, StoreStable
  <2> QED BY <1>11, <2>1, <2>2
<1>26. Linked(live)'
  <2>1. CASE D = {}
    <3>1. live' = <<>>
      BY <1>23, <2>1
    <3> QED BY <3>1 DEF Linked
  <2>2. CASE D # {}
    <3>1. PICK l : l = snapshots[Max(D)]
      OBVIOUS
    <3>2. Max(D) \in DOMAIN snapshots
      BY <1>1, <1>2, <2>2, LatestIs
    <3>3. StateOk(l)
      BY <1>1, <3>1, <3>2, SnapshotIs
    <3>4. Linked(l) /\ live' = l
      BY <1>23, <2>2, <3>1, <3>3 DEF StateOk
    <3> QED BY <3>4 DEF Linked
  <2> QED BY <2>1, <2>2
<1> QED BY <1>1, <1>4, <1>24, <1>25, <1>26 DEF DriverInv

----------------------------------------------------------------------------
(* The range scan                                                          *)

\* The block the scan takes is the next one of the range.
LEMMA ScanBlockIs ==
  ASSUME ChainOk, WithinDepth, StoreOk(snapshots), Scanning, ~ScanMissing,
         NEW b, b = ScanBlock, NEW n, n = ScanNumber
  PROVE  /\ n \in Nat /\ n <= Len(scan.latest) /\ n = ScanSafe + Len(watcher.recent)
         /\ b \in Hashes /\ Len(b) = n
         /\ n <= Anchor \/ n <= ScanSafe => Canon(b)
<1>1. /\ Anchor \in Nat /\ ScanSafe \in Nat /\ Len(scan.latest) \in Nat
  BY ScanningIs
<1>2. /\ scan.latest \in Hashes /\ Anchor <= Final /\ ScanSafe <= Final
      /\ Len(scan.latest) <= Anchor \/ Len(scan.latest) <= ScanSafe => Canon(scan.latest)
      /\ watcher \in Watchers /\ Len(watcher.recent) <= Len(scan.latest) - ScanSafe
  BY DEF Scanning
<1>3. PICK r \in Nat, s \in Nat, t \in Nat, an \in Nat : r = Len(watcher.recent) /\ s = ScanSafe /\ t = Len(scan.latest) /\ an = Anchor
  <2>1. Len(watcher.recent) \in Nat
    BY <1>2 DEF Watchers
  <2> QED BY <1>1, <2>1
<1>4. r \in Nat /\ s \in Nat /\ t \in Nat /\ an \in Nat /\ r <= t - s /\ n = s + r
  BY <1>2, <1>3 DEF ScanNumber, ScanSafe
<1>5. n \in Nat /\ n <= t
  BY <1>4
<1>6. CASE ScanCached
  <2>1. b = scan.latest /\ n = t
    BY <1>3, <1>6 DEF ScanBlock, ScanCached
  <2>2. b \in Hashes /\ Len(b) = n
    BY <1>2, <1>3, <2>1
  <2>3. n <= an \/ n <= s => Canon(b)
    BY <1>2, <1>3, <2>1
  <2> QED BY <1>3, <1>4, <1>5, <2>2, <2>3
<1>7. CASE ~ScanCached
  <2>1. b = BlockAt(n) /\ ~(n > Len(chain))
    BY <1>7 DEF ScanBlock, ScanMissing
  <2>2. n \in 0 .. Len(chain)
    BY <1>5, <2>1, FinalIs
  <2>3. b \in Hashes /\ Len(b) = n
    BY <2>1, <2>2, BlockAtIs
  <2>4. n <= an \/ n <= s => n \in 0 .. Final
    <3>1. PICK z \in Nat : z = Final
      BY FinalIs
    <3>2. an <= z /\ s <= z
      BY <1>2, <1>3, <3>1
    <3> QED BY <1>3, <1>5, <3>1, <3>2
  <2>5. n <= an \/ n <= s => Canon(b)
    BY <2>1, <2>4, CanonAt
  <2> QED BY <1>3, <1>4, <1>5, <2>3, <2>5
<1> QED BY <1>6, <1>7

\* r are the blocks from number s on, of which those up to an are final.
RangeOf(r, s, an) ==
    /\ r \in Seq(Hashes)
    /\ \A i \in 1 .. Len(r) :
         /\ Len(r[i]) = s + i - 1
         /\ Len(r[i]) <= an \/ Len(r[i]) <= s => Canon(r[i])
    /\ \A i, j \in 1 .. Len(r) : i <= j => Below(r[i], r[j])

\* r is x with the next block b.
NextOf(x, b, s, an, r) ==
    /\ b \in Hashes /\ Len(b) = s + Len(x)
    /\ Len(b) <= an \/ Len(b) <= s => Canon(b)
    /\ x # <<>> => Last(x) = Front(b)
    /\ r = Append(x, b)

\* One more block.
LEMMA RangeGrows ==
  ASSUME NEW x, NEW s \in Nat, NEW an, RangeOf(x, s, an), NEW b, NEW r,
         NextOf(x, b, s, an, r)
  PROVE  RangeOf(r, s, an) /\ Len(r) = Len(x) + 1 /\ r[Len(r)] = b
<1>0. /\ b \in Hashes /\ Len(b) = s + Len(x)
      /\ Len(b) <= an \/ Len(b) <= s => Canon(b)
      /\ x # <<>> => Last(x) = Front(b)
      /\ r = Append(x, b)
  BY DEF NextOf
<1>1. PICK n \in Nat : n = Len(x)
  BY DEF RangeOf
<1>2. x \in Seq(Hashes)
  BY DEF RangeOf
<1>3. /\ r \in Seq(Hashes) /\ Len(r) = n + 1 /\ r[n + 1] = b
      /\ \A i \in 1 .. n : r[i] = x[i] /\ x[i] \in Hashes
  BY <1>0, <1>1, <1>2
<1>4. \A i \in 1 .. n + 1 : i \in 1 .. n \/ i = n + 1
  BY <1>1
<1>5. \A i \in 1 .. n : Len(x[i]) = s + i - 1 /\ (Len(x[i]) <= an \/ Len(x[i]) <= s => Canon(x[i]))
  BY <1>1 DEF RangeOf
<1>6. Len(b) = s + (n + 1) - 1
  BY <1>0, <1>1
<1>7. ASSUME NEW i \in 1 .. Len(r)
      PROVE  Len(r[i]) = s + i - 1 /\ (Len(r[i]) <= an \/ Len(r[i]) <= s => Canon(r[i]))
  <2>1. CASE i \in 1 .. n
    BY <1>3, <1>5, <2>1
  <2>2. CASE i = n + 1
    <3>1. r[i] = b
      BY <1>3, <2>2
    <3> QED BY <1>0, <1>6, <2>2, <3>1
  <2> QED BY <1>3, <1>4, <2>1, <2>2
<1>8. \A i, j \in 1 .. n : i <= j => Below(x[i], x[j])
  BY <1>1 DEF RangeOf
<1>9. ASSUME NEW i \in 1 .. n PROVE Below(x[i], b)
  <2>1. n \in 1 .. n /\ i <= n /\ n > 0
    BY <1>1
  <2>2. x # <<>> /\ Last(x) = x[n]
    BY <1>1, <1>2, <2>1 DEF Last
  <2>3. x[n] = Front(b)
    BY <1>0, <2>2
  <2>4. Len(b) > 0
    BY <1>0, <1>1, <2>1
  <2>5. Below(Front(b), b) /\ Front(b) \in Hashes
    BY <1>0, <2>4, FrontIs
  <2>6. Below(x[i], x[n])
    BY <1>8, <2>1
  <2> QED BY <1>0, <1>3, <2>3, <2>5, <2>6, BelowTrans
<1>10. ASSUME NEW i \in 1 .. Len(r), NEW j \in 1 .. Len(r), i <= j
       PROVE  Below(r[i], r[j])
  <2>1. CASE j \in 1 .. n
    <3>1. i \in 1 .. n
      BY <1>1, <1>3, <1>10, <2>1
    <3> QED BY <1>3, <1>8, <1>10, <2>1, <3>1
  <2>2. CASE j = n + 1
    <3>1. r[j] = b
      BY <1>3, <2>2
    <3>2. CASE i \in 1 .. n
      BY <1>3, <1>9, <3>1, <3>2
    <3>3. CASE i = n + 1
      <4>1. Below(b, b) /\ r[i] = b
        BY <1>0, <1>3, <3>3, BelowRefl
      <4> QED BY <3>1, <4>1
    <3> QED BY <1>3, <1>4, <3>2, <3>3
  <2> QED BY <1>3, <1>4, <2>1, <2>2
<1> QED BY <1>1, <1>3, <1>7, <1>10 DEF RangeOf

\* The blocks found so far, and the next.
ScanRange == Append(watcher.recent, ScanBlock)

\* They are a range.
LEMMA RangeIs ==
  ASSUME ChainOk, WithinDepth, StoreOk(snapshots), Scanning, ~ScanMissing, ScanLinked,
         NEW r, r = ScanRange
  PROVE  /\ RangeOf(r, ScanSafe, Anchor) /\ Len(r) = Len(watcher.recent) + 1
         /\ ScanNumber = ScanSafe + Len(watcher.recent) /\ Len(watcher.recent) \in Nat
         /\ Len(watcher.recent) <= Len(scan.latest) - ScanSafe
<1>1. PICK x, b, n, s, an : /\ x = watcher.recent /\ b = ScanBlock /\ n = ScanNumber
                            /\ s = ScanSafe /\ an = Anchor
  OBVIOUS
<1>2. s \in Nat
  BY <1>1, ScanningIs
<1>3. x \in Seq(Hashes) /\ Len(x) <= Len(scan.latest) - s
  BY <1>1 DEF Scanning, Watchers
<1>4. Len(x) \in Nat
  BY <1>3
<1>5. RangeOf(x, s, an)
  BY <1>1, <1>3 DEF Scanning, RangeOf
<1>6. n = s + Len(x) /\ b \in Hashes /\ Len(b) = n /\ (n <= an \/ n <= s => Canon(b))
  BY <1>1, ScanBlockIs
<1>7. x # <<>> => Last(x) = Front(b)
  BY <1>1 DEF ScanLinked
<1>8. r = Append(x, b)
  BY <1>1 DEF ScanRange
<1>9. NextOf(x, b, s, an, r)
  BY <1>6, <1>7, <1>8 DEF NextOf
<1>10. RangeOf(r, s, an) /\ Len(r) = Len(x) + 1
  BY <1>2, <1>5, <1>9, RangeGrows
<1> QED BY <1>1, <1>3, <1>4, <1>6, <1>10

\* The scan goes on with the range x.
LEMMA ScanGoesOn ==
  ASSUME ChainOk, WithinDepth, StoreOk(snapshots), Linked(live), Scanning,
         UNCHANGED <<start_block, depth, chain, highest, live, status, snapshots, step, update>>, mode' = "init",
         NEW sc, scan' = sc, sc \in [latest : Hashes, cached : BOOLEAN, from : Nat \cup {-1}],
         sc.latest = scan.latest, sc.from = scan.from,
         NEW x, RangeOf(x, ScanSafe, Anchor), Len(x) <= Len(scan.latest) - ScanSafe,
         NEW v, watcher' = v, v = [watcher EXCEPT !.recent = x]
  PROVE  DriverInv'
<1>1. ChainOk' /\ Keeps
  BY SameKeeps
<1>2. StoreOk(snapshots)' /\ Linked(live)'
  <2>1. PICK sn, l : sn = snapshots /\ l = live
    OBVIOUS
  <2>2. StoreOk(sn)'
    BY <1>1, <2>1, StoreStable
  <2>3. Linked(l)'
    BY <2>1 DEF Linked
  <2> QED BY <2>1, <2>2, <2>3
<1>3. PICK t, f, s, g, an, q, D : /\ t = scan.latest /\ f = scan.from /\ s = ScanSafe /\ g = ScanFrom
                                  /\ an = Anchor /\ q = Queued /\ D = DOMAIN snapshots
  OBVIOUS
<1>4. t = scan'.latest /\ f = scan'.from /\ D = DOMAIN snapshots'
  BY <1>3
<1>5. ScanSafe' = s /\ ScanFrom' = g
  <2>1. ScanSafe' = s
    BY <1>3, <1>4 DEF ScanSafe, SafeNumber
  <2> QED BY <1>3, <1>4, <2>1 DEF ScanFrom, FromOf
<1>6. Anchor' = an /\ Final' = Final
  BY <1>3, <1>4, <1>5 DEF Anchor, Final
<1>7. Queued' = q
  BY <1>3, <1>4, <1>5 DEF Queued
<1>8. \A h : Canon(h)' <=> Canon(h)
  BY <1>6 DEF Canon, Below
<1>9. x \in Seq(Hashes) /\ watcher \in Watchers
  BY DEF Scanning, RangeOf
<1>10. v \in Watchers /\ v.recent = x /\ v.pending = watcher.pending /\ v.queue = watcher.queue
  BY <1>9 DEF Watchers
<1>11. step' = Idle /\ update' = NoUpdate /\ scan' \in [latest : Hashes, cached : BOOLEAN, from : Nat \cup {-1}]
  BY DEF Scanning
<1>12. Len(scan'.latest) <= highest' /\ scan'.from = FirstUnindexed(DOMAIN snapshots)'
  BY DEF Scanning, FirstUnindexed
<1>13. Anchor' <= Final' /\ ScanSafe' <= Final' /\ Anchor' <= Len(scan'.latest)
  <2>1. an <= Final /\ s <= Final /\ an <= Len(t)
    BY <1>3 DEF Scanning
  <2> QED BY <1>4, <1>5, <1>6, <2>1
<1>14. Len(scan'.latest) <= Anchor' \/ Len(scan'.latest) <= ScanSafe' => Canon(scan.latest)'
  <2>1. Len(t) <= an \/ Len(t) <= s => Canon(t)
    BY <1>3 DEF Scanning
  <2>2. Len(t) <= an \/ Len(t) <= s => Canon(t)'
    BY <1>8, <2>1
  <2> QED BY <1>4, <1>5, <1>6, <2>2
<1>15. watcher' \in Watchers /\ Len(watcher'.recent) <= Len(scan'.latest) - ScanSafe'
  BY <1>3, <1>4, <1>5, <1>10
<1>16. watcher'.pending = Len(scan'.latest) + 1 /\ watcher'.queue = Queued'
  <2>1. watcher.pending = Len(t) + 1 /\ watcher.queue = q
    BY <1>3 DEF Scanning
  <2> QED BY <1>4, <1>7, <1>10, <2>1
<1>17. /\ live' = IF DOMAIN snapshots' = {} THEN <<>> ELSE snapshots'[Max(DOMAIN snapshots')]
       /\ status' = IF DOMAIN snapshots' = {} THEN Initialized
                    ELSE BlockPending(Max(DOMAIN snapshots') + 1)
  BY DEF Scanning
<1>18. \A i \in 1 .. Len(watcher'.recent) :
          /\ Len(watcher'.recent[i]) = ScanSafe' + i - 1
          /\ Len(watcher'.recent[i]) <= Anchor' \/ Len(watcher'.recent[i]) <= ScanSafe' => Canon(watcher.recent[i])'
  <2>1. ASSUME NEW i \in 1 .. Len(x)
        PROVE  Len(x[i]) = s + i - 1 /\ (Len(x[i]) <= an \/ Len(x[i]) <= s => Canon(x[i])')
    BY <1>3, <1>8, <2>1 DEF RangeOf
  <2>2. watcher'.recent = x
    BY <1>10
  <2> QED BY <1>5, <1>6, <2>1, <2>2
<1>19. \A i, j \in 1 .. Len(watcher'.recent) : i <= j => Below(watcher'.recent[i], watcher'.recent[j])
  <2>1. \A i, j \in 1 .. Len(x) : i <= j => Below(x[i], x[j])
    BY DEF RangeOf
  <2> QED BY <1>10, <2>1
<1>20. Scanning'
  BY <1>11, <1>12, <1>13, <1>14, <1>15, <1>16, <1>17, <1>18, <1>19 DEF Scanning
<1> QED BY <1>1, <1>2, <1>20 DEF DriverInv

\* The first block of the range that is announced by itself.
LEMMA FirstIs ==
  ASSUME NEW k \in Nat, NEW s \in Nat
  PROVE  Max({2, k - s + 1}) = IF k <= s THEN 2 ELSE k - s + 1
<1>1. k - s + 1 \in Int /\ 2 \in Int
  OBVIOUS
<1>2. Max({2, k - s + 1}) = IF 2 >= k - s + 1 THEN 2 ELSE k - s + 1
  BY <1>1, MaxOfTwo
<1> QED BY <1>2

\* The announcements of the blocks of a range, from the f-th on.
NewsFrom(r, f) ==
    LET news == SubSeq(r, f, Len(r))
    IN  [i \in DOMAIN news |-> New(news[i])]

\* The blocks after the first one of a range are the watcher's recent ones.
Rests(x, r) ==
    /\ x.recent \in Seq(Hashes) /\ Len(x.recent) = Len(r) - 1
    /\ \A i \in 1 .. Len(r) - 1 : x.recent[i] = r[i + 1]

\* q announces the blocks of the range r from the f-th on.
FromOn(r, f) == f \in Nat /\ 2 <= f /\ f <= Len(r) + 1
Announces(x, q, r, f) ==
    q \in Seq(Updates) /\ Len(q) = Len(r) + 1 - f /\ News(x, q) /\ Announced(x, q) = f - 2

\* They are the last ones the watcher knows.
LEMMA NewsFromIs ==
  ASSUME NEW r \in Seq(Hashes), NEW f, FromOn(r, f), NEW q, q = NewsFrom(r, f), NEW x, Rests(x, r)
  PROVE  Announces(x, q, r, f)
<1> PICK n \in Nat : n = Len(r)
  OBVIOUS
<1> f \in Nat /\ 2 <= f /\ f <= n + 1
  BY DEF FromOn
<1>0. /\ x.recent \in Seq(Hashes) /\ Len(x.recent) = n - 1
      /\ \A i \in 1 .. n - 1 : x.recent[i] = r[i + 1]
  BY DEF Rests
<1>1. PICK news : news = SubSeq(r, f, n)
  OBVIOUS
<1>2. PICK m \in Nat : m = n + 1 - f
  OBVIOUS
<1>3. news \in Seq(Hashes) /\ Len(news) = m /\ \A i \in 1 .. m : news[i] = r[f + i - 1]
  <2>1. news \in Seq(Hashes)
    <3>1. \A i \in f .. n : r[i] \in Hashes
      OBVIOUS
    <3> QED BY <1>1, <3>1, SubSeqProperties
  <2>2. Len(news) = m
    BY <1>1, <1>2, SubSeqProperties
  <2>3. \A i \in 1 .. m : news[i] = r[f + i - 1]
    BY <1>1, <1>2, SubSeqProperties
  <2> QED BY <2>1, <2>2, <2>3
<1>4. DOMAIN news = 1 .. m
  BY <1>3
<1>5. q = [i \in 1 .. m |-> New(news[i])]
  BY <1>1, <1>4 DEF NewsFrom
<1>6. \A h \in Hashes : New(h) \in Updates
  BY DEF New, Updates
<1>7. q \in [1 .. m -> Updates]
  BY <1>3, <1>5, <1>6
<1>8. q \in Seq(Updates) /\ Len(q) = m
  BY <1>7, FirstNumbers
<1>9. ASSUME NEW i \in 1 .. m
      PROVE  q[i] = New(x.recent[n - 1 - m + i])
  <2>1. q[i] = New(r[f + i - 1])
    BY <1>3, <1>5
  <2>2. PICK j : j = n - 1 - m + i
    OBVIOUS
  <2>3. j \in 1 .. n - 1 /\ j + 1 = f + i - 1
    BY <1>2, <2>2
  <2>4. x.recent[j] = r[j + 1]
    BY <1>0, <2>3
  <2> QED BY <2>1, <2>2, <2>3, <2>4
<1>10. Len(q) <= Len(x.recent)
  BY <1>0, <1>2, <1>8
<1>11. News(x, q)
  BY <1>0, <1>8, <1>9, <1>10 DEF News
<1>12. Announced(x, q) = f - 2
  BY <1>0, <1>2, <1>8 DEF Announced
<1>13. Len(q) = Len(r) + 1 - f
  BY <1>2, <1>8
<1> QED BY <1>8, <1>11, <1>12, <1>13 DEF Announces

\* x is the watcher that begins with the range r.
Begins(x, r) ==
    /\ x \in Watchers /\ x.safe = r[1] /\ x.recent = Tail(r)
    /\ x.pending = Len(r[Len(r)]) + 1

\* It knows the blocks of the range.
LEMMA BeginsIs ==
  ASSUME ChainOk, NEW r, NEW s \in Nat, NEW an, RangeOf(r, s, an), NEW n \in Nat, n = Len(r), n > 0,
         s + n - 1 <= highest, NEW x, Begins(x, r)
  PROVE  /\ WatcherOk(x) /\ Len(x.recent) = n - 1 /\ Len(x.safe) = s /\ Rests(x, r)
         /\ \A i \in 0 .. n - 1 : Known(x, i) = r[i + 1]
<1>1. r \in Seq(Hashes) /\ \A i \in 1 .. n : Len(r[i]) = s + i - 1 /\ r[i] \in Hashes
  BY DEF RangeOf
<1>2. x \in Watchers /\ x.safe = r[1] /\ x.recent = Tail(r) /\ x.pending = Len(r[n]) + 1
  BY DEF Begins
<1>3. x.recent \in Seq(Hashes) /\ Len(x.recent) = n - 1 /\ \A i \in 1 .. n - 1 : x.recent[i] = r[i + 1]
  <2>1. r # <<>>
    BY <1>1
  <2>2. Tail(r) \in Seq(Hashes) /\ Len(Tail(r)) = n - 1 /\ \A i \in 1 .. n - 1 : Tail(r)[i] = r[i + 1]
    BY <1>1, <2>1, HeadTailProperties
  <2> QED BY <1>2, <2>2
<1>4. 1 \in 1 .. n /\ n \in 1 .. n
  OBVIOUS
<1>5. Len(r[1]) = s /\ Len(r[n]) = s + n - 1
  BY <1>1, <1>4
<1>6. Canon(r[1])
  <2>1. Len(r[1]) <= an \/ Len(r[1]) <= s => Canon(r[1])
    BY <1>4 DEF RangeOf
  <2> QED BY <1>5, <2>1
<1>7. ASSUME NEW i \in 0 .. n - 1 PROVE Known(x, i) = r[i + 1]
  <2>1. CASE i = 0
    BY <1>2, <2>1 DEF Known
  <2>2. CASE i # 0
    <3>1. i \in 1 .. n - 1
      BY <2>2
    <3> QED BY <1>3, <2>2, <3>1 DEF Known
  <2> QED BY <2>1, <2>2
<1>8. \A i \in 0 .. n - 1 : i + 1 \in 1 .. n /\ s + (i + 1) - 1 = s + i
  OBVIOUS
<1>9. ASSUME NEW i \in 0 .. n - 1 PROVE Len(Known(x, i)) = s + i
  BY <1>1, <1>7, <1>8
<1>10. ASSUME NEW i \in 0 .. n - 1, NEW j \in 0 .. n - 1, i <= j
       PROVE  Below(Known(x, i), Known(x, j))
  <2>1. i + 1 \in 1 .. n /\ j + 1 \in 1 .. n /\ i + 1 <= j + 1
    BY <1>10
  <2>2. Below(r[i + 1], r[j + 1])
    BY <2>1 DEF RangeOf
  <2> QED BY <1>7, <2>2
<1>11. x.pending = s + (n - 1) + 1 /\ s + (n - 1) <= highest
  <2>1. highest \in Nat
    BY DEF ChainOk
  <2> QED BY <1>2, <1>5, <2>1
<1>12. Len(x.safe) = s
  BY <1>2, <1>5
<1>13. WatcherOk(x)
  <2>1. x.pending = Len(x.safe) + Len(x.recent) + 1 /\ Len(x.safe) + Len(x.recent) <= highest
    BY <1>3, <1>11, <1>12
  <2>2. Canon(x.safe)
    BY <1>2, <1>6
  <2>3. \A i \in 0 .. Len(x.recent) : Len(Known(x, i)) = Len(x.safe) + i
    BY <1>3, <1>9, <1>12
  <2>4. \A i, j \in 0 .. Len(x.recent) : i <= j => Below(Known(x, i), Known(x, j))
    BY <1>3, <1>10
  <2> QED BY <1>2, <2>1, <2>2, <2>3, <2>4 DEF WatcherOk
<1>14. Rests(x, r)
  BY <1>3 DEF Rests
<1> QED BY <1>3, <1>7, <1>12, <1>13, <1>14

\* What the watcher announces when block k is the first that is not indexed.
QueueOf(r, k, s) ==
    (IF k <= s THEN <<Warp(k, s)>> ELSE <<>>) \o NewsFrom(r, Max({2, k - s + 1}))

\* A range of final blocks first, ...
LEMMA QueueWarps ==
  ASSUME NEW r \in Seq(Hashes), NEW n \in Nat, n = Len(r), n > 0, NEW s \in Nat, NEW k \in Nat, k <= s,
         NEW x, Rests(x, r), NEW q, q = QueueOf(r, k, s)
  PROVE  /\ q \in Seq(Updates) /\ Len(q) > 0 /\ q[1] = Warp(k, s)
         /\ News(x, Tail(q)) /\ Len(Tail(q)) = n - 1
<1>1. Max({2, k - s + 1}) = 2
  BY FirstIs
<1>2. PICK y, u : y = NewsFrom(r, 2) /\ u = Warp(k, s)
  OBVIOUS
<1>3. y \in Seq(Updates) /\ Len(y) = n + 1 - 2 /\ News(x, y)
  <2>1. 2 \in Nat /\ 2 <= 2 /\ 2 <= n + 1
    OBVIOUS
  <2>2. FromOn(r, 2)
    BY <2>1 DEF FromOn
  <2>3. Announces(x, y, r, 2)
    BY <1>2, <2>2, NewsFromIs
  <2> QED BY <2>3 DEF Announces
<1>4. u \in Updates
  BY <1>2 DEF Warp, Updates
<1>5. q = <<u>> \o y
  BY <1>1, <1>2 DEF QueueOf
<1>6. q \in Seq(Updates) /\ Len(q) = Len(y) + 1 /\ q[1] = u
  BY <1>3, <1>4, <1>5
<1>7. Tail(q) = y
  <2>1. Len(y) \in Nat
    BY <1>3
  <2>2. Tail(q) \in Seq(Updates) /\ Len(Tail(q)) = Len(y) /\ \A i \in 1 .. Len(y) : Tail(q)[i] = q[i + 1]
    <3>1. q # <<>>
      BY <1>6, <2>1
    <3> QED BY <1>6, <2>1, <3>1, HeadTailProperties
  <2>3. \A i \in 1 .. Len(y) : q[i + 1] = y[i]
    BY <1>3, <1>4, <1>5, <2>1
  <2>4. PICK z : z = Tail(q)
    OBVIOUS
  <2>5. z \in Seq(Updates) /\ y \in Seq(Updates) /\ Len(z) = Len(y) /\ \A i \in 1 .. Len(z) : z[i] = y[i]
    BY <1>3, <2>2, <2>3, <2>4
  <2>6. z = y
    BY <2>5, SeqEqual
  <2> QED BY <2>4, <2>6, Zenon
<1>8. Len(q) > 0
  BY <1>3, <1>6
<1>9. News(x, Tail(q))
  BY <1>3, <1>7
<1>10. Len(Tail(q)) = n - 1
  <2>1. Len(y) = n - 1
    BY <1>3
  <2> QED BY <1>7, <2>1, Zenon
<1>11. q[1] = Warp(k, s) /\ q \in Seq(Updates)
  BY <1>2, <1>6
<1> QED BY <1>8, <1>9, <1>10, <1>11

\* ... or only the blocks from k on.
Beyond(r, k, s) == k > s /\ k <= s + Len(r)
LEMMA QueueNews ==
  ASSUME NEW r \in Seq(Hashes), NEW s \in Nat, NEW k \in Nat, Beyond(r, k, s),
         NEW x, Rests(x, r), NEW q, q = QueueOf(r, k, s)
  PROVE  Announces(x, q, r, k - s + 1)
<1>1. PICK f : f = k - s + 1
  OBVIOUS
<1>2. FromOn(r, f) /\ ~(k <= s)
  <2>1. Len(r) \in Nat /\ k > s /\ k <= s + Len(r)
    BY DEF Beyond
  <2> QED BY <1>1, <2>1 DEF FromOn
<1>3. Max({2, k - s + 1}) = f
  BY <1>1, <1>2, FirstIs
<1>4. PICK y : y = NewsFrom(r, f)
  OBVIOUS
<1>5. Announces(x, y, r, f)
  BY <1>2, <1>4, NewsFromIs
<1>6. q = <<>> \o y
  BY <1>2, <1>3, <1>4 DEF QueueOf
<1>7. q = y
  BY <1>5, <1>6 DEF Announces
<1> QED BY <1>1, <1>5, <1>7

\* After a return to the earliest snapshot, which is of block m, the state
\* machine is told of the blocks after it.
LEMMA ScannedSync ==
  ASSUME ChainOk, WithinDepth, NEW r, NEW s \in Nat, NEW m \in Nat, RangeOf(r, s, m),
         NEW n \in Nat, n = Len(r), n > 0, s + n - 1 <= highest, m <= s + n - 1,
         NEW k \in Nat, k = m + 1, NEW x, Begins(x, r), x.queue = QueueOf(r, k, s),
         NEW sn, StoreOk(sn), DOMAIN sn = {m}
  PROVE  Sync(x, Idle, sn[m], BlockPending(k), sn)
<1>1. PICK q, l, t : q = QueueOf(r, k, s) /\ l = sn[m] /\ t = Tip(l)
  OBVIOUS
<1>2. /\ WatcherOk(x) /\ Len(x.recent) = n - 1 /\ Len(x.safe) = s /\ Rests(x, r)
      /\ \A i \in 0 .. n - 1 : Known(x, i) = r[i + 1]
  BY BeginsIs
<1>3. m \in DOMAIN sn
  OBVIOUS
<1>4. Complete(l) /\ StateOk(l) /\ t \in Hashes /\ Len(t) = m
  BY <1>1, <1>3, SnapshotIs
<1>5. Canon(t)
  <2>1. (\A j \in DOMAIN sn : m <= j) => Canon(Tip(sn[m]))
    BY <1>3 DEF StoreOk, Anchored
  <2>2. \A j \in DOMAIN sn : m <= j
    OBVIOUS
  <2> QED BY <1>1, <2>1, <2>2
<1>6. r \in Seq(Hashes)
  BY DEF RangeOf
<1>7. CASE k <= s
  <2>1. /\ q \in Seq(Updates) /\ Len(q) > 0 /\ q[1] = Warp(k, s)
        /\ News(x, Tail(q)) /\ Len(Tail(q)) = n - 1
    BY <1>1, <1>2, <1>6, <1>7, QueueWarps
  <2>2. q[1].kind = "warp" /\ q[1].from = k
    BY <2>1 DEF Warp
  <2>3. Behind(l, sn, k)
    <3>1. Len(Tip(l)) = k - 1 /\ Canon(Tip(l))
      BY <1>1, <1>4, <1>5
    <3>2. ASSUME NEW j \in DOMAIN sn PROVE j <= k - 1 /\ Canon(Tip(sn[j]))
      <4>1. j = m
        OBVIOUS
      <4> QED BY <1>1, <1>5, <4>1
    <3> QED BY <1>3, <1>4, <3>1, <3>2 DEF Behind
  <2>4. l # <<>>
    BY <1>4 DEF StateOk
  <2>5. BlockPending(k) = IF l = <<>> THEN Initialized ELSE BlockPending(q[1].from)
    BY <2>2, <2>4
  <2>6. q[1] = Warp(q[1].from, Len(x.safe)) /\ q[1].from \in Nat /\ q[1].from <= Len(x.safe)
    BY <1>2, <1>7, <2>1, <2>2
  <2>7. Len(Tail(q)) = Len(x.recent) /\ Behind(l, sn, q[1].from)
    BY <1>2, <2>1, <2>2, <2>3
  <2>8. WarpReady(x, q, l, BlockPending(k), sn)
    BY <2>1, <2>2, <2>5, <2>6, <2>7 DEF WarpReady
  <2> QED BY <1>1, <1>2, <2>8 DEF Sync
<1>8. CASE k > s
  <2>1. k <= s + n
    OBVIOUS
  <2>2. News(x, q) /\ Announced(x, q) = k - s - 1
    <3>1. Rests(x, r) /\ Beyond(r, k, s)
      BY <1>2, <1>8, <2>1 DEF Beyond
    <3>2. Announces(x, q, r, k - s + 1)
      BY <1>1, <1>6, <3>1, QueueNews
    <3> QED BY <3>2 DEF Announces
  <2>3. PICK a : a = m - s
    OBVIOUS
  <2>4. a \in 0 .. n - 1 /\ k - s - 1 = a /\ a + 1 \in 1 .. n /\ s + (a + 1) - 1 = m
    BY <1>8, <2>3
  <2>5. Known(x, a) = r[a + 1]
    BY <1>2, <2>4
  <2>6. Len(r[a + 1]) = m /\ Canon(r[a + 1])
    <3>1. /\ Len(r[a + 1]) = s + (a + 1) - 1
          /\ Len(r[a + 1]) <= m \/ Len(r[a + 1]) <= s => Canon(r[a + 1])
      BY <2>4 DEF RangeOf
    <3> QED BY <2>4, <3>1
  <2>7. t = Known(x, a)
    BY <1>4, <1>5, <2>5, <2>6, CanonSame
  <2>8. Covered(x, sn, t)
    <3>1. ASSUME NEW j \in DOMAIN sn PROVE j <= Len(t) /\ Below(Tip(sn[j]), t)
      <4>1. j = m /\ Tip(sn[j]) = t
        BY <1>1
      <4>2. Below(t, t)
        BY <1>4, BelowRefl
      <4> QED BY <1>4, <4>1, <4>2
    <3>2. ASSUME NEW j \in DOMAIN sn, NEW i \in Len(x.safe) .. Len(t), j <= i PROVE i \in DOMAIN sn
      <4>1. j = m /\ i \in s .. m
        BY <1>2, <1>4
      <4>2. i = m
        BY <3>2, <4>1
      <4> QED BY <4>2
    <3> QED BY <1>3, <3>1, <3>2 DEF Covered
  <2>9. Announced(x, q) = a /\ BlockPending(k) = BlockPending(Len(t) + 1)
    BY <1>4, <2>2, <2>4
  <2>10. Known(x, Announced(x, q)) = t
    BY <2>7, <2>9
  <2>11. Steady(x, q, l, BlockPending(k), sn)
    BY <1>1, <1>4, <2>2, <2>8, <2>9, <2>10 DEF Steady
  <2> QED BY <1>1, <1>2, <2>11 DEF Sync
<1> QED BY <1>7, <1>8

\* Before the first snapshot the state machine is told of the blocks from the
\* start block on.
LEMMA ScannedFresh ==
  ASSUME ChainOk, WithinDepth, NEW r, NEW s \in Nat, NEW k \in Nat, k = FromOf(start_block, s), RangeOf(r, s, k),
         NEW n \in Nat, n = Len(r), n > 0, s + n - 1 <= highest, k <= s + n - 1,
         NEW x, Begins(x, r), x.queue = QueueOf(r, k, s),
         NEW sn, StoreOk(sn), DOMAIN sn = {}
  PROVE  Sync(x, Idle, <<>>, Initialized, sn)
<1>1. PICK q, l : q = QueueOf(r, k, s) /\ l = <<>>
  OBVIOUS
<1>2. /\ WatcherOk(x) /\ Len(x.recent) = n - 1 /\ Len(x.safe) = s /\ Rests(x, r)
  BY BeginsIs
<1>3. k \in Nat /\ x.queue = q /\ RangeOf(r, s, k) /\ k <= s + n - 1
  BY <1>1
<1>7. FromStart(k) /\ (k <= s => k = start_block)
  BY DEF FromOf, FromStart
<1>4. r \in Seq(Hashes)
  BY DEF RangeOf
<1>5. CASE k <= s
  <2>1. /\ q \in Seq(Updates) /\ Len(q) > 0 /\ q[1] = Warp(k, s)
        /\ News(x, Tail(q)) /\ Len(Tail(q)) = n - 1
    BY <1>1, <1>2, <1>3, <1>4, <1>5, QueueWarps
  <2>2. q[1].kind = "warp" /\ q[1].from = k
    BY <2>1 DEF Warp
  <2>3. Behind(l, sn, k)
    BY <1>1, <1>5, <1>7 DEF Behind
  <2>4. Initialized = IF l = <<>> THEN Initialized ELSE BlockPending(q[1].from)
    BY <1>1
  <2>5. q[1] = Warp(q[1].from, Len(x.safe)) /\ q[1].from \in Nat /\ q[1].from <= Len(x.safe)
    BY <1>2, <1>3, <1>5, <2>1, <2>2
  <2>6. Len(Tail(q)) = Len(x.recent) /\ Behind(l, sn, q[1].from)
    BY <1>2, <2>1, <2>2, <2>3
  <2>7. WarpReady(x, q, l, Initialized, sn)
    BY <2>1, <2>2, <2>4, <2>5, <2>6 DEF WarpReady
  <2> QED BY <1>1, <1>2, <1>3, <2>7 DEF Sync
<1>6. CASE k > s
  <2>1. Beyond(r, k, s) /\ Rests(x, r)
    BY <1>2, <1>3, <1>6 DEF Beyond
  <2>2. Announces(x, q, r, k - s + 1)
    BY <1>1, <1>3, <1>4, <2>1, QueueNews
  <2>3. PICK a : a = k - s
    OBVIOUS
  <2>4. a \in 1 .. n - 1 /\ a + 1 \in 1 .. n /\ s + (a + 1) - 1 = k
    BY <1>3, <1>6, <2>3
  <2>5. News(x, q) /\ Announced(x, q) + 1 = a /\ Len(q) = n - a
    <3>1. PICK f : f = k - s + 1
      OBVIOUS
    <3>2. Announces(x, q, r, f)
      BY <2>2, <3>1
    <3>3. Len(q) = n + 1 - f /\ Announced(x, q) = f - 2 /\ News(x, q)
      BY <3>2 DEF Announces
    <3>4. f = a + 1
      BY <1>3, <2>3, <3>1
    <3>5. a \in Nat
      BY <2>4
    <3> QED BY <3>3, <3>4, <3>5
  <2>6. x.recent[a] = r[a + 1]
    BY <2>1, <2>4 DEF Rests
  <2>7. Len(r[a + 1]) = k /\ Canon(r[a + 1])
    <3>1. /\ Len(r[a + 1]) = s + (a + 1) - 1
          /\ Len(r[a + 1]) <= k \/ Len(r[a + 1]) <= s => Canon(r[a + 1])
      BY <1>3, <2>4 DEF RangeOf
    <3> QED BY <1>3, <2>4, <3>1
  <2>8. Len(q) > 0
    BY <2>4, <2>5
  <2>9. PICK t : t = x.recent[Announced(x, q) + 1]
    OBVIOUS
  <2>10. FromStart(Len(t)) /\ Canon(t)
    BY <1>7, <2>5, <2>6, <2>7, <2>9
  <2>11. Fresh(x, q, l, Initialized, sn)
    BY <1>1, <2>5, <2>8, <2>9, <2>10 DEF Fresh
  <2> QED BY <1>1, <1>2, <1>3, <2>11 DEF Sync
<1> QED BY <1>3, <1>5, <1>6

\* The recent blocks are those after the first one.
LEMMA TailRests ==
  ASSUME NEW r \in Seq(Hashes), r # <<>>, NEW x, x.recent = Tail(r)
  PROVE  Rests(x, r)
<1>1. PICK y : y = Tail(r)
  OBVIOUS
<1>2. y \in Seq(Hashes) /\ Len(y) = Len(r) - 1 /\ \A i \in 1 .. Len(r) - 1 : y[i] = r[i + 1]
  BY <1>1, HeadTailProperties
<1>3. x.recent = y
  BY <1>1
<1> QED BY <1>2, <1>3 DEF Rests

\* One update before others.
LEMMA OneFirst ==
  ASSUME NEW u \in Updates, NEW z \in Seq(Updates), NEW q, q = <<u>> \o z
  PROVE  q \in Seq(Updates) /\ q # <<>> /\ Len(q) > 0 /\ q[1] = u /\ Tail(q) = z
<1>1. PICK n \in Nat : n = Len(z)
  OBVIOUS
<1>2. q \in Seq(Updates) /\ Len(q) = n + 1 /\ q[1] = u /\ q # <<>> /\ \A i \in 1 .. n : q[i + 1] = z[i]
  BY <1>1
<1>3. PICK y : y = Tail(q)
  OBVIOUS
<1>4. y \in Seq(Updates) /\ Len(y) = n /\ \A i \in 1 .. n : y[i] = q[i + 1]
  BY <1>1, <1>2, <1>3, HeadTailProperties
<1>5. Len(y) = Len(z) /\ \A i \in 1 .. Len(y) : y[i] = z[i]
  BY <1>1, <1>2, <1>4
<1>6. y = z
  BY <1>4, <1>5, SeqEqual
<1>7. Len(q) > 0
  BY <1>1, <1>2
<1> QED BY <1>2, <1>3, <1>6, <1>7

\* Joining updates.
LEMMA JoinIs ==
  ASSUME NEW c \in Seq(Updates), NEW w \in Seq(Updates), NEW y \in Seq(Updates),
         NEW z, z = w \o y, NEW q, q = (c \o w) \o y
  PROVE  q = c \o z
<1>1. (c \o w) \o y = c \o (w \o y)
  BY ConcatAssociative
<1> QED BY <1>1

\* All that the watcher announces after the scan.
AllQueued(r, f, s, D) == QueuedOf(f, s, D) \o NewsFrom(r, Max({2, f - s + 1}))
Uncles(f, D) == D # {} /\ f <= Max(D)
Scanned(x, r, f, s) == x.recent = Tail(r) /\ r # <<>> /\ f <= s + Len(r)
Joined(q, z, f, D) ==
    /\ q \in Seq(Updates) /\ z \in Seq(Updates)
    /\ ~Uncles(f, D) => q = z
    /\ Uncles(f, D) => q = <<Uncle(f)>> \o z

\* The return to the earliest snapshot comes first.
LEMMA AllQueuedIs ==
  ASSUME NEW r \in Seq(Hashes), NEW s \in Nat, NEW f \in Nat, NEW D, NEW x, Scanned(x, r, f, s),
         NEW q, q = AllQueued(r, f, s, D), NEW z, z = QueueOf(r, f, s)
  PROVE  Joined(q, z, f, D)
<1>0. x.recent = Tail(r) /\ r # <<>> /\ f <= s + Len(r)
  BY DEF Scanned
<1>1. PICK y, w, g : y = NewsFrom(r, g) /\ g = Max({2, f - s + 1}) /\ w = IF f <= s THEN <<Warp(f, s)>> ELSE <<>>
  OBVIOUS
<1>2. PICK c : c = IF Uncles(f, D) THEN <<Uncle(f)>> ELSE <<>>
  OBVIOUS
<1>3. Rests(x, r)
  BY <1>0, TailRests
<1>4. FromOn(r, g)
  <2>1. PICK n \in Nat : n = Len(r)
    OBVIOUS
  <2>2. n > 0 /\ f <= s + n
    BY <1>0, <2>1
  <2>3. g = IF f <= s THEN 2 ELSE f - s + 1
    BY <1>1, FirstIs
  <2>4. g \in Nat /\ 2 <= g /\ g <= n + 1
    BY <2>2, <2>3
  <2> QED BY <2>1, <2>4 DEF FromOn
<1>5. y \in Seq(Updates)
  <2>1. Announces(x, y, r, g)
    BY <1>1, <1>3, <1>4, NewsFromIs
  <2> QED BY <2>1 DEF Announces
<1>6. w \in Seq(Updates) /\ c \in Seq(Updates)
  <2>1. Uncle(f) \in Updates /\ Warp(f, s) \in Updates
    BY DEF Uncle, Warp, Updates
  <2> QED BY <1>1, <1>2, <2>1
<1>7. z = w \o y
  BY <1>1 DEF QueueOf
<1>8. q = (c \o w) \o y
  BY <1>1, <1>2 DEF AllQueued, QueuedOf, Uncles
<1>9. z \in Seq(Updates)
  BY <1>5, <1>6, <1>7
<1>10. q = c \o z
  BY <1>5, <1>6, <1>7, <1>8, JoinIs
<1>11. q \in Seq(Updates)
  BY <1>6, <1>9, <1>10
<1>12. ~Uncles(f, D) => q = z
  <2>1. <<>> \o z = z
    BY <1>9, ConcatEmptySeq
  <2> QED BY <1>2, <1>10, <2>1
<1>13. Uncles(f, D) => q = <<Uncle(f)>> \o z
  BY <1>2, <1>10
<1> QED BY <1>9, <1>11, <1>12, <1>13 DEF Joined

\* v is the watcher w after the scan of r, the last block of which is the latest.
Ends(w, v, r) ==
    v = [w EXCEPT !.safe = Head(r), !.recent = Tail(r),
                  !.queue = @ \o NewsFrom(r, Max({2, ScanFrom - ScanSafe + 1}))]

\* It begins with that range.
LEMMA EndsIs ==
  ASSUME ChainOk, WithinDepth, StoreOk(snapshots), Scanning,
         NEW s \in Nat, s = ScanSafe, NEW f \in Nat, f = ScanFrom, NEW D, D = DOMAIN snapshots,
         NEW r, RangeOf(r, s, Anchor), NEW n \in Nat, n = Len(r), n > 0, s + n - 1 = Len(scan.latest),
         NEW v, Ends(watcher, v, r), f <= s + n
  PROVE  Begins(v, r) /\ v.queue = AllQueued(r, f, s, D) /\ v.queue \in Seq(Updates)
<1>1. r \in Seq(Hashes) /\ r # <<>> /\ \A i \in 1 .. n : r[i] \in Hashes /\ Len(r[i]) = s + i - 1
  BY DEF RangeOf
<1>2. PICK w, y, a, b : w = watcher /\ y = NewsFrom(r, Max({2, f - s + 1})) /\ a = r[1] /\ b = Tail(r)
  OBVIOUS
<1>3. w \in Watchers /\ w.queue = Queued /\ w.pending = Len(scan.latest) + 1
  BY <1>2 DEF Scanning
<1>4. Queued = QueuedOf(f, s, D)
  BY DEF Queued, QueuedOf
<1>5. PICK q : q = AllQueued(r, f, s, D)
  OBVIOUS
<1>6. q = w.queue \o y
  BY <1>2, <1>3, <1>4, <1>5 DEF AllQueued
<1>7. Head(r) = a /\ a \in Hashes /\ b \in Seq(Hashes)
  BY <1>1, <1>2, HeadTailProperties
<1>8. v = [w EXCEPT !.safe = a, !.recent = b, !.queue = q]
  BY <1>2, <1>6, <1>7 DEF Ends
<1>9. v.recent = b /\ v.safe = a /\ v.queue = q /\ v.pending = w.pending
  BY <1>3, <1>8 DEF Watchers
<1>10. q \in Seq(Updates)
  <2>1. Scanned(v, r, f, s)
    BY <1>1, <1>2, <1>9 DEF Scanned
  <2>2. PICK z : z = QueueOf(r, f, s)
    OBVIOUS
  <2>3. Joined(q, z, f, D)
    BY <1>1, <1>5, <2>1, <2>2, AllQueuedIs
  <2> QED BY <2>3 DEF Joined
<1>11. v \in Watchers
  BY <1>3, <1>7, <1>8, <1>10 DEF Watchers
<1>12. v.pending = Len(r[n]) + 1
  <2>1. n \in 1 .. n
    OBVIOUS
  <2>2. Len(r[n]) = s + n - 1
    BY <1>1, <2>1
  <2> QED BY <1>3, <1>9, <2>2
<1>13. Begins(v, r)
  BY <1>2, <1>9, <1>11, <1>12 DEF Begins
<1> QED BY <1>5, <1>9, <1>10, <1>13

\* The watcher and the state machine begin in step.
LEMMA EndsTaken ==
  ASSUME ChainOk, WithinDepth, StoreOk(snapshots), Scanning, ~ScanMissing, ScanLinked,
         ~(ScanNumber < Len(scan.latest)), NEW r, r = ScanRange, NEW v, Ends(watcher, v, r)
  PROVE  \/ Resuming(v, Idle, status, snapshots)
         \/ Sync(v, Idle, live, status, snapshots)
<1>1. PICK s \in Nat, an \in Nat, t \in Nat : s = ScanSafe /\ an = Anchor /\ t = Len(scan.latest)
  BY ScanningIs
<1>2. PICK f, D, sn : f = ScanFrom /\ D = DOMAIN snapshots /\ sn = snapshots
  OBVIOUS
<1>3. PICK c \in Nat : c = Len(watcher.recent)
  BY RangeIs
<1>4. RangeOf(r, s, an) /\ Len(r) = c + 1 /\ ScanNumber = s + c /\ c <= t - s
  BY <1>1, <1>3, RangeIs
<1>5. PICK n \in Nat : n = c + 1
  BY <1>3
<1>6. c = t - s
  <2>1. ~(s + c < t)
    BY <1>1, <1>4
  <2> QED BY <1>1, <1>3, <1>4, <2>1
<1>7. n = Len(r) /\ n > 0 /\ s + n - 1 = t
  BY <1>1, <1>3, <1>4, <1>5, <1>6
<1>8. /\ D # {} => an = Min(D) /\ f = an + 1
      /\ D = {} => an = f /\ f = FromOf(start_block, s)
      /\ f \in Nat
  BY <1>1, <1>2, ScanningIs
<1>9. an <= t /\ t <= highest
  BY <1>1 DEF Scanning
<1>10. f \in Nat /\ f <= an + 1
  BY <1>1, <1>8
<1>11. f <= s + n /\ an <= s + n - 1 /\ s + n - 1 <= highest
  BY <1>1, <1>5, <1>7, <1>9, <1>10
<1>12. Begins(v, r) /\ v.queue = AllQueued(r, f, s, D) /\ v.queue \in Seq(Updates)
  <2>1. s + n - 1 = Len(scan.latest) /\ RangeOf(r, s, Anchor)
    BY <1>1, <1>4, <1>7
  <2> QED BY <1>1, <1>2, <1>5, <1>7, <1>10, <1>11, <2>1, EndsIs
<1>13. PICK z : z = QueueOf(r, f, s)
  OBVIOUS
<1>14. /\ z \in Seq(Updates)
       /\ ~Uncles(f, D) => v.queue = z
       /\ Uncles(f, D) => v.queue = <<Uncle(f)>> \o z
  <2>1. r \in Seq(Hashes) /\ Scanned(v, r, f, s)
    BY <1>4, <1>7, <1>11, <1>12 DEF RangeOf, Begins, Scanned
  <2>2. PICK q : q = AllQueued(r, f, s, D)
    OBVIOUS
  <2>3. Joined(q, z, f, D)
    BY <1>1, <1>10, <1>13, <2>1, <2>2, AllQueuedIs
  <2> QED BY <1>12, <2>2, <2>3 DEF Joined
<1>15. CASE D = {}
  <2>1. ~Uncles(f, D)
    BY <1>15 DEF Uncles
  <2>2. v.queue = QueueOf(r, f, s) /\ RangeOf(r, s, f) /\ f <= s + n - 1 /\ f \in Nat /\ f = FromOf(start_block, s)
    BY <1>4, <1>8, <1>11, <1>13, <1>14, <1>15, <2>1
  <2>3. DOMAIN sn = {} /\ StoreOk(sn)
    BY <1>2, <1>15
  <2>4. Sync(v, Idle, <<>>, Initialized, sn)
    BY <1>1, <1>5, <1>7, <1>11, <1>12, <2>2, <2>3, ScannedFresh
  <2>5. live = <<>> /\ status = Initialized
    BY <1>2, <1>15 DEF Scanning
  <2> QED BY <1>2, <2>4, <2>5
<1>16. CASE D # {} /\ ~Uncles(f, D)
  <2>1. an \in D /\ Max(D) \in D /\ Max(D) \in Nat /\ \A j \in D : an <= j /\ j <= Max(D) /\ j \in Nat
    <3>1. an \in D /\ \A j \in D : an <= j
      BY <1>2, <1>8, <1>16, EarliestIs
    <3>2. Max(D) \in D /\ Max(D) \in Nat /\ \A j \in D : j <= Max(D)
      BY <1>2, <1>16, LatestIs
    <3>3. \A j \in D : j \in Nat
      BY <1>2, SnapshotIs
    <3> QED BY <3>1, <3>2, <3>3
  <2>2. Max(D) = an
    <3>1. ~(f <= Max(D)) /\ f = an + 1
      BY <1>8, <1>16 DEF Uncles
    <3> QED BY <1>1, <2>1, <3>1
  <2>3. DOMAIN sn = {an} /\ StoreOk(sn)
    <3>1. ASSUME NEW j \in D PROVE j = an
      BY <1>1, <2>1, <2>2
    <3>2. D = {an}
      BY <2>1, <3>1
    <3> QED BY <1>2, <3>2
  <2>4. v.queue = QueueOf(r, f, s) /\ f = an + 1
    BY <1>8, <1>13, <1>14, <1>16
  <2>5. Sync(v, Idle, sn[an], BlockPending(f), sn)
    BY <1>1, <1>4, <1>5, <1>7, <1>10, <1>11, <1>12, <2>3, <2>4, ScannedSync
  <2>6. live = sn[an] /\ status = BlockPending(f)
    BY <1>2, <1>16, <2>2, <2>4 DEF Scanning
  <2> QED BY <1>2, <2>5, <2>6
<1>17. CASE Uncles(f, D)
  <2>1. D # {} /\ f <= Max(D) /\ f = an + 1
    BY <1>8, <1>17 DEF Uncles
  <2>2. an \in D /\ \A j \in D : an <= j /\ j \in Nat
    <3>1. an \in D /\ \A j \in D : an <= j
      BY <1>2, <1>8, <2>1, EarliestIs
    <3>2. \A j \in D : j \in Nat
      BY <1>2, SnapshotIs
    <3> QED BY <3>1, <3>2
  <2>3. PICK k2 : k2 = Kept(sn, f)
    OBVIOUS
  <2>4. StoreOk(k2) /\ DOMAIN k2 = {j \in DOMAIN sn : j < f} /\ \A j \in DOMAIN k2 : k2[j] = sn[j]
    <3>1. StoreOk(k2)
      BY <1>2, <1>10, <2>3, KeptStore
    <3> QED BY <2>3, <3>1 DEF Kept
  <2>5. DOMAIN k2 = {an}
    <3>1. \A j \in D : j < f <=> j = an
      BY <1>1, <2>1, <2>2
    <3> QED BY <1>2, <2>2, <2>4, <3>1
  <2>6. k2[an] = sn[an]
    BY <2>4, <2>5
  <2>7. v.queue = <<Uncle(f)>> \o z /\ Uncle(f) \in Updates
    BY <1>10, <1>14, <1>17 DEF Uncle, Updates
  <2>8. PICK q : q = v.queue
    OBVIOUS
  <2>9. q # <<>> /\ Len(q) > 0 /\ q[1] = Uncle(f) /\ Tail(q) = z
    BY <1>14, <2>7, <2>8, OneFirst
  <2>10. PICK x : x = [v EXCEPT !.queue = Tail(@)]
    OBVIOUS
  <2>11. v \in Watchers
    BY <1>12 DEF Begins
  <2>12. x \in Watchers /\ x.safe = v.safe /\ x.recent = v.recent /\ x.pending = v.pending /\ x.queue = z
    BY <2>8, <2>9, <2>10, <2>11, TailIs
  <2>13. Begins(x, r) /\ x.queue = QueueOf(r, f, s)
    BY <1>12, <1>13, <2>12 DEF Begins
  <2>14. Sync(x, Idle, k2[an], BlockPending(f), k2)
    BY <1>1, <1>4, <1>5, <1>7, <1>10, <1>11, <2>1, <2>4, <2>5, <2>13, ScannedSync
  <2>15. Sync(x, Idle, sn[f - 1], BlockPending(f), k2) /\ f - 1 \in DOMAIN sn
    <3>1. f - 1 = an
      BY <1>1, <2>1
    <3> QED BY <1>2, <2>2, <2>6, <2>14, <3>1
  <2>16. q[1].kind = "uncle" /\ q[1].number = f
    BY <2>9 DEF Uncle
  <2>17. status.kind = "block_pending" /\ f < status.pending
    <3>1. status = BlockPending(Max(D) + 1)
      BY <1>2, <2>1 DEF Scanning
    <3>2. Max(D) \in Nat
      BY <1>2, <2>1, LatestIs
    <3>3. status.kind = "block_pending" /\ status.pending = Max(D) + 1
      BY <3>1 DEF BlockPending
    <3> QED BY <1>10, <2>1, <3>2, <3>3
  <2>18. Resuming(v, Idle, status, snapshots)
    BY <1>2, <1>10, <2>3, <2>8, <2>9, <2>10, <2>11, <2>15, <2>16, <2>17 DEF Resuming
  <2> QED BY <2>18
<1> QED BY <1>15, <1>16, <1>17

\* The announced blocks begin after the safe one when no block is configured.
LEMMA FirstSame ==
  ASSUME ChainOk, WithinDepth, StoreOk(snapshots), Scanning
  PROVE  Max({2, ScanFrom - ScanSafe + 1}) = Max({2, scan.from - ScanSafe + 1})
<1>1. PICK s \in Nat : s = ScanSafe
  BY ScanningIs
<1>2. CASE scan.from = -1
  <2>1. ScanFrom = s + 1
    BY <1>1, <1>2 DEF ScanFrom, FromOf
  <2>2. Max({2, (s + 1) - s + 1}) = IF 2 >= (s + 1) - s + 1 THEN 2 ELSE (s + 1) - s + 1
    BY MaxOfTwo
  <2>3. Max({2, -1 - s + 1}) = IF 2 >= -1 - s + 1 THEN 2 ELSE -1 - s + 1
    BY MaxOfTwo
  <2>4. (s + 1) - s + 1 = 2 /\ 2 >= -1 - s + 1
    OBVIOUS
  <2> QED BY <1>1, <1>2, <2>1, <2>2, <2>3, <2>4
<1>3. CASE scan.from # -1
  BY <1>3 DEF ScanFrom, FromOf
<1> QED BY <1>2, <1>3

\* A step of the scan.
LEMMA ScanStep ==
  ASSUME WithinDepth, DriverInv, Scan
  PROVE  DriverInv'
<1>1. /\ mode = "init" /\ UNCHANGED <<start_block, depth, chain, highest, live, status, snapshots>>
      /\ mode' = IF scan' = NoScan THEN "next" ELSE "init"
      /\ ScanNext \/ ScanRestart
  BY DEF Scan, chainVars, machineVars
<1>2. ChainOk /\ StoreOk(snapshots) /\ Linked(live) /\ Scanning
  BY <1>1 DEF DriverInv
<1>3. PICK r, s, an, t : r = ScanRange /\ s = ScanSafe /\ an = Anchor /\ t = Len(scan.latest)
  OBVIOUS
<1>4. s \in Nat /\ t \in Nat /\ s <= t
  BY <1>2, <1>3, ScanningIs
<1>5. scan \in [latest : Hashes, cached : BOOLEAN, from : Nat \cup {-1}] /\ step = Idle
  BY <1>2 DEF Scanning
<1>10. scan.from # -1 \/ scan.latest # <<>>
  <2>1. ASSUME scan.from = -1 PROVE t > 0
    <3>1. ScanFrom = s + 1
      BY <1>3, <2>1 DEF ScanFrom, FromOf
    <3>2. DOMAIN snapshots = {} /\ Anchor = s + 1
      <4>1. s + 1 # -1
        BY <1>4
      <4>2. DOMAIN snapshots # {} => scan.from = ScanFrom
        BY <1>2, ScanningIs
      <4>3. DOMAIN snapshots = {}
        BY <2>1, <3>1, <4>1, <4>2
      <4> QED BY <3>1, <4>3 DEF Anchor
    <3>3. Anchor <= t
      BY <1>2, <1>3 DEF Scanning
    <3> QED BY <1>4, <3>2, <3>3
  <2> QED BY <1>3, <1>4, <2>1
<1>6. \A sc : sc.from # -1 \/ sc.latest # <<>> => sc # NoScan
  BY DEF NoScan
<1>7. CASE ScanNext /\ ScanNumber < Len(scan.latest)
  <2>1. /\ ~ScanMissing /\ ScanLinked /\ scan' = scan /\ UNCHANGED <<step, update>>
        /\ watcher' = [watcher EXCEPT !.recent = r]
    BY <1>3, <1>7 DEF ScanNext, ScanRange
  <2>2. PICK c : c = Len(watcher.recent)
    OBVIOUS
  <2>3. RangeOf(r, s, an) /\ Len(r) = c + 1 /\ ScanNumber = s + c /\ c \in Nat
    BY <1>2, <1>3, <2>1, <2>2, RangeIs
  <2>4. Len(r) <= t - s
    BY <1>3, <1>4, <1>7, <2>3
  <2>5. mode' = "init"
    BY <1>1, <1>5, <1>6, <1>10, <2>1
  <2>6. PICK v, sc : v = [watcher EXCEPT !.recent = r] /\ sc = scan
    OBVIOUS
  <2>7. /\ watcher' = v /\ scan' = sc /\ sc \in [latest : Hashes, cached : BOOLEAN, from : Nat \cup {-1}]
        /\ sc.latest = scan.latest /\ sc.from = scan.from
    BY <1>5, <2>1, <2>6
  <2>8. RangeOf(r, ScanSafe, Anchor) /\ Len(r) <= Len(scan.latest) - ScanSafe
    BY <1>3, <2>3, <2>4
  <2> QED BY <1>1, <1>2, <2>1, <2>5, <2>6, <2>7, <2>8, ScanGoesOn
<1>8. CASE ScanRestart
  <2>1. PICK v, sc, x : /\ x = <<>> /\ v = [watcher EXCEPT !.recent = x]
                        /\ sc = [scan EXCEPT !.cached = FALSE]
    BY Zenon
  <2>2. watcher' = v /\ scan' = sc /\ UNCHANGED <<step, update>>
    BY <1>8, <2>1 DEF ScanRestart
  <2>3. /\ sc \in [latest : Hashes, cached : BOOLEAN, from : Nat \cup {-1}]
        /\ sc.latest = scan.latest /\ sc.from = scan.from
    BY <1>5, <2>1
  <2>4. mode' = "init"
    BY <1>1, <1>6, <1>10, <2>2, <2>3
  <2>5. RangeOf(x, ScanSafe, Anchor)
    BY <2>1 DEF RangeOf
  <2>6. Len(x) <= Len(scan.latest) - ScanSafe
    BY <1>3, <1>4, <2>1
  <2> QED BY <1>1, <1>2, <2>1, <2>2, <2>3, <2>4, <2>5, <2>6, ScanGoesOn
<1>9. CASE ScanNext /\ ~(ScanNumber < Len(scan.latest))
  <2>1. PICK v : v = watcher'
    OBVIOUS
  <2>2. ~ScanMissing /\ ScanLinked /\ scan' = NoScan /\ UNCHANGED <<step, update>>
    BY <1>9 DEF ScanNext
  <2>3. Ends(watcher, v, r)
    <3>1. Max({2, ScanFrom - ScanSafe + 1}) = Max({2, scan.from - ScanSafe + 1})
      BY <1>2, FirstSame
    <3>2. /\ watcher' = [watcher EXCEPT !.safe = Head(r), !.recent = Tail(r),
                           !.queue = @ \o NewsFrom(r, Max({2, scan.from - ScanSafe + 1}))]
      BY <1>3, <1>9 DEF ScanNext, ScanRange, NewsFrom, ScanSafe
    <3> QED BY <2>1, <3>1, <3>2 DEF Ends
  <2>4. PICK l, st, sn, i : l = live /\ st = status /\ sn = snapshots /\ i = Idle
    OBVIOUS
  <2>5. Resuming(v, i, st, sn) \/ Sync(v, i, l, st, sn)
    BY <1>2, <1>3, <1>9, <2>2, <2>3, <2>4, EndsTaken
  <2>6. ChainOk' /\ Keeps
    BY <1>1, <1>2, SameKeeps
  <2>7. Resuming(v, i, st, sn)' \/ Sync(v, i, l, st, sn)'
    BY <1>2, <2>5, <2>6, ResumingStable, SyncStable
  <2>8. watcher' = v /\ step' = i /\ live' = l /\ status' = st /\ snapshots' = sn /\ mode' = "next"
    BY <1>1, <1>5, <2>1, <2>2, <2>4
  <2>9. Resuming(watcher, step, status, snapshots)' \/ Sync(watcher, step, live, status, snapshots)'
    BY <2>7, <2>8
  <2>10. StoreOk(sn)' /\ Linked(l)'
    <3>1. StoreOk(sn)'
      BY <1>2, <2>4, <2>6, StoreStable
    <3>2. Linked(l)'
      BY <1>2, <2>4 DEF Linked
    <3> QED BY <3>1, <3>2
  <2>11. StoreOk(snapshots)' /\ Linked(live)'
    BY <2>8, <2>10
  <2> QED BY <2>6, <2>8, <2>9, <2>11 DEF DriverInv
<1> QED BY <1>1, <1>7, <1>8, <1>9

----------------------------------------------------------------------------
(* The theorems                                                            *)

\* Every step.
LEMMA NextInv ==
  ASSUME WithinDepth, DriverInv, [Next]_vars
  PROVE  DriverInv'
<1>1. ChainOk
  BY DEF DriverInv
<1>2. CASE Start
  BY <1>2, StartStep
<1>3. CASE Scan
  BY <1>3, ScanStep
<1>4. CASE StartFails \/ Stop
  BY <1>4, DownStep DEF StartFails, Stop
<1>5. CASE NextUpdate
  <2>1. NextQueued \/ NextBlock \/ WarpPage \/ BlockLogs
    BY <1>5 DEF NextUpdate
  <2> QED BY <1>5, <2>1, NextQueuedStep, NextBlockStep, WarpPageStep, BlockLogsStep
<1>6. CASE NextInvalidated
  BY <1>6, InvalidatedStep
<1>7. CASE NextNarrows
  BY <1>7, NarrowsStep
<1>8. CASE HandleUpdate
  BY <1>8, HandleStep
<1>9. CASE Prune
  BY <1>9, PruneStep
<1>10. CASE Mine
  <2>1. ChainOk' /\ Keeps
    BY <1>1, <1>10, MineKeeps
  <2>2. UNCHANGED <<indexerVars, machineVars, mode>>
    BY <1>10 DEF Mine
  <2> QED BY <1>1, <2>1, <2>2, ChainStep
<1>11. ASSUME NEW n \in DOMAIN chain, Reorg(n) PROVE DriverInv'
  <2>1. ChainOk' /\ Keeps
    BY <1>1, <1>11, ReorgKeeps
  <2>2. UNCHANGED <<indexerVars, machineVars, mode>>
    BY <1>11 DEF Reorg
  <2> QED BY <1>1, <2>1, <2>2, ChainStep
<1>12. CASE UNCHANGED vars
  <2>1. UNCHANGED <<start_block, depth, chain, highest>> /\ UNCHANGED <<indexerVars, machineVars, mode>>
    BY <1>12 DEF vars, chainVars
  <2>2. ChainOk' /\ Keeps
    BY <1>1, <2>1, SameKeeps
  <2> QED BY <1>1, <2>1, <2>2, ChainStep
<1> QED BY <1>2, <1>3, <1>4, <1>5, <1>6, <1>7, <1>8, <1>9, <1>10, <1>11, <1>12 DEF Next, Process

\* The invariant says that the state is that of one chain.
LEMMA InvIsChain ==
  ASSUME DriverInv
  PROVE  StateIsChain
<1>1. Linked(live) /\ StoreOk(snapshots)
  BY DEF DriverInv
<1>2. ASSUME NEW n \in DOMAIN snapshots
      PROVE  /\ Linked(snapshots[n]) /\ Last(snapshots[n]).kind = "events"
             /\ Len(Last(snapshots[n]).hash) = n /\ FromStart(Len(Head(snapshots[n]).hash))
  <2>1. PICK l : l = snapshots[n]
    OBVIOUS
  <2>2. Complete(l) /\ Len(Tip(l)) = n
    BY <1>1, <2>1, SnapshotIs
  <2>3. StateOk(l) /\ l[Len(l)].kind = "events"
    BY <2>2 DEF Complete
  <2>4. Linked(l) /\ FromStart(Len(l[1].hash)) /\ l \in Seq(Messages) /\ l # <<>>
    BY <2>3 DEF StateOk
  <2>5. Last(l) = l[Len(l)] /\ Head(l) = l[1]
    BY <2>4 DEF Last
  <2>6. Len(Last(l).hash) = n
    BY <2>2, <2>5 DEF Tip
  <2> QED BY <2>1, <2>3, <2>4, <2>5, <2>6
<1> QED BY <1>1, <1>2 DEF StateIsChain, FromStart

\* The state in memory and every snapshot are the result of one chain: whatever
\* the chain does within the depth of each setting, and wherever the process
\* stops, no block is applied twice, out of order, left out or mixed with one of
\* another fork.
THEOREM StateIsOneChain ==
  ASSUME WithinDepth
  PROVE  Spec => []StateIsChain
<1>1. Init => DriverInv
  BY InitInv
<1>2. DriverInv /\ [Next]_vars => DriverInv'
  BY NextInv
<1>3. DriverInv => StateIsChain
  BY InvIsChain
<1> QED BY <1>1, <1>2, <1>3, PTL DEF Spec

\* The indexer and the state machine agree: no update is refused, no snapshot
\* is missing, and no reorg within the depth is taken for one beyond it or found
\* at a block that was not announced.
THEOREM UpdatesNeverRefused ==
  ASSUME WithinDepth
  PROVE  Spec => []NeverRefused
<1>1. Init => DriverInv
  BY InitInv
<1>2. DriverInv /\ [Next]_vars => DriverInv'
  BY NextInv
<1>3. DriverInv => NeverRefused
  BY DEF DriverInv, NeverRefused
<1> QED BY <1>1, <1>2, <1>3, PTL DEF Spec
============================================================================
