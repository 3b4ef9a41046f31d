---------------------- MODULE TransactionQueueProofs ----------------------
(***************************************************************************)
(* What the transaction queue guarantees for every configuration and every *)
(* number of blocks, rows, reorganisations and restarts:                   *)
(*                                                                         *)
(*   QueueExecutesOnce     no action is executed twice (ExecutedOnce);     *)
(*   QueueLeavesNoGap      no nonce is left out (NoNonceGap);              *)
(*   QueueForgetsExecuted  only what the final part of the chain executed  *)
(*                         is forgotten (PrunedIsExecuted).                *)
(*                                                                         *)
(* The first rests on OnceInv: the table, the mempool and the chain never  *)
(* give one action two nonces.  The other two rest on GapInv, which says   *)
(* how far the watcher's copy, the marks and what was pruned may be from   *)
(* the chain.  A mark is trusted unless its row is in `undone`: its block  *)
(* went away and the watcher did not say so.                               *)
(***************************************************************************)
EXTENDS TransactionQueue, FiniteSetTheorems, SequenceTheorems, TLAPS

\* Every set of natural numbers that is not empty has a least element.
LEMMA LeastNatural ==
  ASSUME NEW T, T \subseteq Nat, T # {}
  PROVE  \E x \in T : \A y \in T : x <= y
<1>1. PICK R : R = OpToRel(<, Nat)
  OBVIOUS
<1>2. \A x, y \in Nat : <<x, y>> \in R <=> x < y
  BY <1>1 DEF OpToRel
<1>3. IsWellFoundedOn(R, Nat)
  BY <1>1, NatLessThanWellFounded
<1>4. \E x \in T : \A y \in T : ~(<<y, x>> \in R)
  BY <1>3, WFMin
<1>5. PICK x \in T : \A y \in T : ~(<<y, x>> \in R)
  BY <1>4
<1>6. \A y \in T : ~(y < x)
  BY <1>2, <1>5
<1> QED BY <1>6

\* The maximum of two numbers.
LEMMA MaxOfTwo ==
  ASSUME NEW a \in Int, NEW b \in Int
  PROVE  Max({a, b}) = IF a >= b THEN a ELSE b
  BY DEF Max

\* A bounded set of natural numbers that is not empty has a greatest element.
LEMMA MaxOfBounded ==
  ASSUME NEW T, T \subseteq Nat, T # {}, NEW b \in Nat, \A x \in T : x <= b
  PROVE  Max(T) \in T /\ \A x \in T : x <= Max(T)
<1>1. PICK U : U = {u \in Nat : \A x \in T : x <= u}
  OBVIOUS
<1>2. U \subseteq Nat /\ b \in U
  BY <1>1
<1>3. PICK u \in U : \A y \in U : u <= y
  BY <1>2, LeastNatural
<1>4. u \in Nat /\ \A x \in T : x <= u
  BY <1>1, <1>3
<1>5. u \in T
  <2>1. SUFFICES ASSUME u \notin T PROVE FALSE
    OBVIOUS
  <2>2. \A x \in T : x < u
    BY <1>4, <2>1
  <2>3. u - 1 \in Nat /\ \A x \in T : x <= u - 1
    <3>1. PICK t : t \in T /\ t \in Nat /\ t < u
      BY <2>2
    <3>2. u - 1 \in Nat
      BY <1>4, <3>1
    <3>3. \A x \in T : x \in Nat /\ x <= u - 1
      BY <1>4, <2>2
    <3> QED BY <3>2, <3>3
  <2>4. u - 1 \in U
    BY <1>1, <2>3
  <2> QED BY <1>3, <1>4, <2>4
<1>6. \E x \in T : \A y \in T : x >= y
  BY <1>4, <1>5
<1>7. Max(T) \in T /\ \A y \in T : Max(T) >= y
  BY <1>6 DEF Max
<1> QED BY <1>7

\* The least element of a set of natural numbers.
LEMMA MinOfNaturals ==
  ASSUME NEW T, T \subseteq Nat, T # {}
  PROVE  Min(T) \in T /\ \A x \in T : Min(T) <= x
  BY LeastNatural DEF Min

\* A prefix, element by element.
LEMMA PrefixElements ==
  ASSUME NEW S, NEW s \in Seq(S), NEW t \in Seq(S)
  PROVE  IsPrefix(s, t) <=> Len(s) <= Len(t) /\ \A i \in 1 .. Len(s) : s[i] = t[i]
<1>1. SUFFICES ASSUME Len(s) <= Len(t)
               PROVE  SubSeq(s, 1, Len(s)) = SubSeq(t, 1, Len(s))
                        <=> \A i \in 1 .. Len(s) : s[i] = t[i]
  BY DEF IsPrefix
<1>2. PICK u : u = SubSeq(s, 1, Len(s))
  OBVIOUS
<1>3. PICK v : v = SubSeq(t, 1, Len(s))
  OBVIOUS
<1>4. u \in Seq(S) /\ Len(u) = Len(s) /\ \A i \in 1 .. Len(s) : u[i] = s[i]
  BY <1>2
<1>5. v \in Seq(S) /\ Len(v) = Len(s) /\ \A i \in 1 .. Len(s) : v[i] = t[i]
  BY <1>1, <1>3
<1>6. (\A i \in 1 .. Len(s) : s[i] = t[i]) => u = v
  BY <1>4, <1>5, SeqEqual
<1> QED BY <1>2, <1>3, <1>4, <1>5, <1>6

----------------------------------------------------------------------------
(* The account's nonce along a chain                                       *)

\* What a nonce counts is finite.
LEMMA CountedFinite ==
  ASSUME NEW c, NEW n \in Int
  PROVE  IsFiniteSet({i \in 1 .. n : c[i].tx # 0})
<1>1. IsFiniteSet(1 .. n)
  BY FS_Interval
<1>2. {i \in 1 .. n : c[i].tx # 0} \subseteq 1 .. n
  OBVIOUS
<1> QED BY <1>1, <1>2, FS_Subset

\* A nonce is a number of blocks.
LEMMA NonceAtType ==
  ASSUME NEW c, NEW n \in Int
  PROVE  NonceAt(c, n) \in Nat
  BY CountedFinite, FS_CardinalityType DEF NonceAt

\* No blocks, no transactions.
LEMMA NonceAtStart ==
  ASSUME NEW c
  PROVE  NonceAt(c, 0) = 0
<1>1. {i \in 1 .. 0 : c[i].tx # 0} = {}
  OBVIOUS
<1> QED BY <1>1, FS_EmptySet DEF NonceAt

\* One block more counts if it holds a transaction of the account.
LEMMA NonceAtStep ==
  ASSUME NEW c, NEW n \in Nat
  PROVE  NonceAt(c, n + 1) = IF c[n + 1].tx # 0 THEN NonceAt(c, n) + 1 ELSE NonceAt(c, n)
<1>1. PICK S : S = {i \in 1 .. n : c[i].tx # 0}
  OBVIOUS
<1>2. IsFiniteSet(S) /\ n + 1 \notin S
  BY <1>1, CountedFinite
<1>3. \A i : i \in 1 .. n + 1 <=> i \in 1 .. n \/ i = n + 1
  OBVIOUS
<1>4. CASE c[n + 1].tx # 0
  <2>1. {i \in 1 .. n + 1 : c[i].tx # 0} = S \cup {n + 1}
    BY <1>1, <1>3, <1>4
  <2> QED BY <1>1, <1>2, <1>4, <2>1, FS_AddElement DEF NonceAt
<1>5. CASE c[n + 1].tx = 0
  <2>1. {i \in 1 .. n + 1 : c[i].tx # 0} = S
    BY <1>1, <1>3, <1>5
  <2> QED BY <1>1, <1>5, <2>1 DEF NonceAt
<1> QED BY <1>4, <1>5

\* The nonce never falls along a chain.
LEMMA NonceAtMonotone ==
  ASSUME NEW c, NEW m \in Int, NEW n \in Int, m <= n
  PROVE  NonceAt(c, m) <= NonceAt(c, n)
<1>1. {i \in 1 .. m : c[i].tx # 0} \subseteq {i \in 1 .. n : c[i].tx # 0}
  OBVIOUS
<1> QED BY <1>1, CountedFinite, FS_Subset DEF NonceAt

\* It depends on the blocks counted only.
LEMMA NonceAtSame ==
  ASSUME NEW c, NEW d, NEW n \in Int, \A i \in 1 .. n : c[i] = d[i]
  PROVE  NonceAt(c, n) = NonceAt(d, n)
<1>1. {i \in 1 .. n : c[i].tx # 0} = {i \in 1 .. n : d[i].tx # 0}
  OBVIOUS
<1> QED BY <1>1 DEF NonceAt

\* Two blocks that hold transactions hold different nonces.
LEMMA NonceAtGrows ==
  ASSUME NEW c, NEW i \in Nat \ {0}, NEW j \in Nat, i <= j, c[i].tx # 0
  PROVE  NonceAt(c, i - 1) < NonceAt(c, j)
<1>1. NonceAt(c, i) = NonceAt(c, i - 1) + 1
  BY NonceAtStep, i - 1 \in Nat, (i - 1) + 1 = i
<1>2. NonceAt(c, i) <= NonceAt(c, j)
  BY NonceAtMonotone
<1>3. NonceAt(c, i - 1) \in Nat /\ NonceAt(c, j) \in Nat
  BY NonceAtType, i - 1 \in Int
<1> QED BY <1>1, <1>2, <1>3

\* Every nonce that was used was used by a block.
LEMMA NonceReached ==
  ASSUME NEW c, NEW n \in Nat, NEW m \in Nat, m < NonceAt(c, n)
  PROVE  \E i \in 1 .. n : c[i].tx # 0 /\ NonceAt(c, i - 1) = m
<1>0. \A k \in Nat : NonceAt(c, k) \in Nat
  BY NonceAtType
<1>1. PICK T : T = {k \in Nat : m < NonceAt(c, k)}
  OBVIOUS
<1>2. T \subseteq Nat /\ n \in T
  BY <1>1
<1>3. PICK i \in T : \A y \in T : i <= y
  BY <1>2, LeastNatural
<1>4. i \in Nat /\ i <= n /\ m < NonceAt(c, i)
  BY <1>1, <1>2, <1>3
<1>5. i # 0
  BY <1>4, NonceAtStart
<1>6. i - 1 \in Nat /\ (i - 1) + 1 = i
  BY <1>4, <1>5
<1>7. i - 1 \notin T
  BY <1>3, <1>4
<1>8. NonceAt(c, i - 1) \in Nat /\ NonceAt(c, i) \in Nat
  BY <1>0, <1>4, <1>6
<1>9. NonceAt(c, i - 1) <= m
  BY <1>1, <1>6, <1>7, <1>8
<1>10. NonceAt(c, i) = IF c[i].tx # 0 THEN NonceAt(c, i - 1) + 1 ELSE NonceAt(c, i - 1)
  BY <1>6, NonceAtStep
<1>11. c[i].tx # 0 /\ NonceAt(c, i - 1) = m
  BY <1>4, <1>8, <1>9, <1>10
<1> QED BY <1>4, <1>5, <1>11

----------------------------------------------------------------------------
(* No transaction is executed twice                                        *)

ChainBlocks == [fork : Nat, tx : Nat]

Rows == [nonce : Nat \cup {Null}, submitted : Int, executed : Int, expires : Int]

\* The types, and that only rows with a nonce are about to be submitted.
QueueTyped ==
    /\ chain \in Seq(ChainBlocks) /\ reorgs \in Nat
    /\ seen \in Seq(ChainBlocks)
    /\ status \in [latest : Int, safe : Int]
    /\ cache \in Nat \cup {Null}
    /\ queued \in Nat
    /\ DOMAIN rows \subseteq 1 .. queued
    /\ \A id \in DOMAIN rows : rows[id] \in Rows
    /\ \E bound \in Nat : \A id \in Allocated : rows[id].nonce + 1 <= bound
    /\ DOMAIN mempool \subseteq Nat
    /\ \A n \in DOMAIN mempool : mempool[n] \in 1 .. queued
    /\ \A i \in DOMAIN chain : chain[i].tx \in 0 .. queued
    /\ stage.kind = "sending" => stage.id \in Allocated
    /\ stage.kind = "resubmitting" => stage.todo \subseteq Allocated

\* The row, the mempool or the chain gives the action `id` the nonce n.
Binds(id, n) ==
    \/ id \in DOMAIN rows /\ rows[id].nonce = n
    \/ n \in DOMAIN mempool /\ mempool[n] = id
    \/ \E i \in DOMAIN chain : chain[i].tx = id /\ NonceAt(chain, i - 1) = n

\* No action is ever given two nonces: a row that was pruned, or is read
\* again after a restart, cannot come back with another one.
OneNonce ==
    \A id \in 1 .. queued, m \in Nat, n \in Nat : Binds(id, m) /\ Binds(id, n) => m = n

\* A row that waits for its nonce was never submitted.
WaitingIsUnsent ==
    \A id \in DOMAIN rows : rows[id].nonce = Null => \A n \in Nat : ~Binds(id, n)

OnceInv == QueueTyped /\ OneNonce /\ WaitingIsUnsent

\* With one nonce each, and each nonce used by one block, no action is in two
\* blocks.
LEMMA OnceSuffices == OnceInv => ExecutedOnce
<1> SUFFICES ASSUME OnceInv, NEW i \in DOMAIN chain, NEW j \in DOMAIN chain,
                    chain[i].tx # 0, chain[i].tx = chain[j].tx
             PROVE  i = j
  BY DEF ExecutedOnce
<1>1. i \in Nat \ {0} /\ j \in Nat \ {0} /\ chain[i].tx \in 1 .. queued
  BY DEF OnceInv, QueueTyped
<1>2. NonceAt(chain, i - 1) \in Nat /\ NonceAt(chain, j - 1) \in Nat
  BY <1>1, NonceAtType
<1>3. NonceAt(chain, i - 1) = NonceAt(chain, j - 1)
  BY <1>1, <1>2 DEF OnceInv, OneNonce, Binds
<1>4. ASSUME NEW k \in Nat \ {0}, NEW l \in Nat \ {0}, k < l, chain[k].tx # 0
      PROVE  NonceAt(chain, k - 1) < NonceAt(chain, l - 1)
  BY <1>4, NonceAtGrows
<1> QED BY <1>1, <1>2, <1>3, <1>4

\* u is t with rows removed and columns other than the nonce changed.
KeepsNonces(t, u) ==
    /\ DOMAIN u \subseteq DOMAIN t
    /\ \A id \in DOMAIN u : u[id] \in Rows /\ u[id].nonce = t[id].nonce

\* The operations on the table other than allocation and insertion.
LEMMA TablesKeepNonces ==
  ASSUME NEW t, \A id \in DOMAIN t : t[id] \in Rows, NEW b \in Int, NEW n
  PROVE  /\ KeepsNonces(t, pruned(t, b))
         /\ KeepsNonces(t, unmarked(t, b))
         /\ KeepsNonces(t, marked(t, b, n))
<1>1. KeepsNonces(t, pruned(t, b))
  BY DEF KeepsNonces, pruned, Restrict
<1>2. KeepsNonces(t, unmarked(t, b))
  BY DEF KeepsNonces, unmarked, Rows, Null
<1>3. KeepsNonces(t, marked(t, b, n))
  BY DEF KeepsNonces, marked, Rows
<1> QED BY <1>1, <1>2, <1>3

\* The relation is transitive.
LEMMA KeepsNoncesTransitive ==
  ASSUME NEW t, NEW u, NEW v, KeepsNonces(t, u), KeepsNonces(u, v)
  PROVE  KeepsNonces(t, v)
  BY DEF KeepsNonces

\* What preserves the invariant besides types: no action is bound to a nonce
\* it was not bound to, and no row loses its nonce.
LEMMA NothingBound ==
  ASSUME OnceInv, QueueTyped',
         queued' = queued, DOMAIN rows' \subseteq DOMAIN rows,
         \A id \in DOMAIN rows' : rows'[id].nonce = rows[id].nonce,
         \A id \in 1 .. queued, n \in Nat : Binds(id, n)' => Binds(id, n)
  PROVE  OnceInv'
<1>1. DOMAIN rows \subseteq 1 .. queued
  BY DEF OnceInv, QueueTyped
<1>2. OneNonce'
  BY DEF OnceInv, OneNonce
<1>3. WaitingIsUnsent'
  BY <1>1 DEF OnceInv, WaitingIsUnsent
<1> QED BY <1>2, <1>3 DEF OnceInv

\* The chain and the mempool stay, and the table keeps its nonces.
LEMMA TableStep ==
  ASSUME OnceInv, UNCHANGED <<chain, reorgs, mempool, queued>>, KeepsNonces(rows, rows'),
         seen' \in Seq(ChainBlocks), status' \in [latest : Int, safe : Int],
         cache' \in Nat \cup {Null},
         stage'.kind = "sending" => stage'.id \in Allocated',
         stage'.kind = "resubmitting" => stage'.todo \subseteq Allocated'
  PROVE  OnceInv'
<1>1. Allocated' \subseteq Allocated /\ \A id \in Allocated' : rows'[id].nonce = rows[id].nonce
  BY DEF KeepsNonces, Allocated
<1>2. PICK bound \in Nat : \A id \in Allocated : rows[id].nonce + 1 <= bound
  BY DEF OnceInv, QueueTyped
<1>3. \A id \in Allocated' : rows'[id].nonce + 1 <= bound
  BY <1>1, <1>2
<1>4. DOMAIN rows' \subseteq 1 .. queued /\ \A id \in DOMAIN rows' : rows'[id] \in Rows
  BY DEF KeepsNonces, OnceInv, QueueTyped
<1>5. QueueTyped'
  BY <1>3, <1>4 DEF OnceInv, QueueTyped
<1>6. \A id \in 1 .. queued, n \in Nat : Binds(id, n)' => Binds(id, n)
  BY DEF KeepsNonces, Binds
<1> QED BY <1>5, <1>6, NothingBound DEF KeepsNonces

\* A chain d that keeps k blocks of c and goes on with the block x.
GoesOn(c, d, k, x) ==
    /\ d \in Seq(ChainBlocks)
    /\ Len(d) = k + 1
    /\ d[k + 1] = x
    /\ \A i \in 1 .. k : d[i] = c[i]

\* What a block may hold after the first k blocks of the chain.
MayHold(k, tx) ==
    \/ tx = 0
    \/ NonceAt(chain, k) \in DOMAIN mempool /\ tx = mempool[NonceAt(chain, k)]

\* A block is mined, on the tip ...
LEMMA MineGoesOn ==
  ASSUME QueueTyped, Mine
  PROVE  \E tx \in Nat : MayHold(Len(chain), tx)
            /\ GoesOn(chain, chain', Len(chain), [fork |-> 0, tx |-> tx])
<1>1. PICK tx \in Includable(chain) : chain' = Append(chain, [fork |-> 0, tx |-> tx])
  BY DEF Mine
<1>2. MayHold(Len(chain), tx)
  BY DEF MayHold, Includable
<1>3. tx \in Nat
  BY <1>2 DEF MayHold, QueueTyped
<1>4. PICK x \in ChainBlocks : x = [fork |-> 0, tx |-> tx]
  BY <1>3 DEF ChainBlocks
<1>5. GoesOn(chain, Append(chain, x), Len(chain), x)
  BY DEF QueueTyped, GoesOn
<1> QED BY <1>1, <1>2, <1>3, <1>4, <1>5

\* ... or in place of the n-th.
LEMMA ReorgGoesOn ==
  ASSUME QueueTyped, NEW n \in DOMAIN chain, Reorg(n)
  PROVE  \E tx \in Nat, fork \in Forks(n) : MayHold(n - 1, tx)
            /\ fork \in Nat /\ GoesOn(chain, chain', n - 1, [fork |-> fork, tx |-> tx])
<1>1. n \in 1 .. Len(chain) /\ chain \in Seq(ChainBlocks)
  BY DEF QueueTyped
<1>2. PICK kept : kept = SubSeq(chain, 1, n - 1)
  OBVIOUS
<1>3. /\ kept \in Seq(ChainBlocks)
      /\ Len(kept) = n - 1
      /\ \A i \in 1 .. n - 1 : kept[i] = chain[i]
  BY <1>1, <1>2
<1>4. PICK tx \in Includable(kept), fork \in Forks(n) :
         chain' = Append(kept, [fork |-> fork, tx |-> tx])
  BY <1>2 DEF Reorg
<1>5. NonceAt(kept, Len(kept)) = NonceAt(chain, n - 1)
  <2>1. PICK k \in Int : k = n - 1
    BY <1>1
  <2>2. NonceAt(kept, k) = NonceAt(chain, k)
    BY <1>3, <2>1, NonceAtSame
  <2> QED BY <1>3, <2>1, <2>2
<1>6. MayHold(n - 1, tx)
  BY <1>5 DEF MayHold, Includable
<1>7. tx \in Nat
  BY <1>6 DEF MayHold, QueueTyped
<1>8. fork \in Nat
  BY QueueAssumption DEF Forks, QueueTyped
<1>9. PICK x \in ChainBlocks : x = [fork |-> fork, tx |-> tx]
  BY <1>7, <1>8 DEF ChainBlocks
<1>10. GoesOn(chain, Append(kept, x), n - 1, x)
  BY <1>1, <1>3 DEF GoesOn
<1> QED BY <1>4, <1>6, <1>7, <1>8, <1>9, <1>10

\* The nonces of the blocks that were kept.
LEMMA GoesOnNonces ==
  ASSUME NEW c, NEW d, NEW k \in Nat, NEW x, GoesOn(c, d, k, x), NEW j \in Int, j <= k
  PROVE  NonceAt(d, j) = NonceAt(c, j)
  BY NonceAtSame DEF GoesOn

\* Whatever the chain does, its transactions have the nonces they were
\* submitted with.
LEMMA ChainStepOnce ==
  ASSUME OnceInv, NEW k \in Nat, k <= Len(chain), NEW fork \in Nat, NEW tx \in Nat,
         MayHold(k, tx), GoesOn(chain, chain', k, [fork |-> fork, tx |-> tx]),
         reorgs' \in Nat,
         UNCHANGED <<mempool, seen, status, cache, rows, queued, stage>>
  PROVE  OnceInv'
<1>1. chain \in Seq(ChainBlocks) /\ queued \in Nat /\ Allocated' = Allocated
  BY DEF OnceInv, QueueTyped, Allocated
<1>2. tx \in 0 .. queued
  BY <1>1 DEF OnceInv, QueueTyped, MayHold
<1>3. \A i \in DOMAIN chain' : (i \in 1 .. k /\ chain'[i] = chain[i]) \/ (i = k + 1 /\ chain'[i].tx = tx)
  BY DEF GoesOn
<1>4. \A i \in 1 .. k : i \in DOMAIN chain
  BY <1>1
<1>5. \A i \in DOMAIN chain' : chain'[i].tx \in 0 .. queued
  BY <1>2, <1>3, <1>4 DEF OnceInv, QueueTyped
<1>6. QueueTyped'
  BY <1>1, <1>5 DEF OnceInv, QueueTyped, GoesOn
<1>7. ASSUME NEW id \in 1 .. queued, NEW n \in Nat, Binds(id, n)'
      PROVE  Binds(id, n)
  <2>1. CASE (id \in DOMAIN rows /\ rows[id].nonce = n) \/ (n \in DOMAIN mempool /\ mempool[n] = id)
    BY <2>1 DEF Binds
  <2>2. ASSUME NEW i \in DOMAIN chain', chain'[i].tx = id, NonceAt(chain', i - 1) = n
        PROVE  Binds(id, n)
    <3>1. i \in 1 .. k + 1 /\ NonceAt(chain, i - 1) = n
      BY <1>3, <2>2, GoesOnNonces
    <3>2. CASE i \in 1 .. k
      BY <1>3, <1>4, <2>2, <3>1, <3>2 DEF Binds
    <3>3. CASE i = k + 1
      BY <1>3, <2>2, <3>1, <3>3 DEF Binds, MayHold
    <3> QED BY <3>1, <3>2, <3>3
  <2> QED BY <1>7, <2>1, <2>2 DEF Binds
<1> QED BY <1>1, <1>6, <1>7, NothingBound DEF OnceInv, QueueTyped

\* The node forgets a transaction.
LEMMA EvictOnce ==
  ASSUME OnceInv, NEW nonce, Evict(nonce)
  PROVE  OnceInv'
<1>1. /\ DOMAIN mempool' = DOMAIN mempool \ {nonce}
      /\ \A n \in DOMAIN mempool' : mempool'[n] = mempool[n]
  BY DEF Evict, Restrict
<1>2. QueueTyped'
  BY <1>1 DEF Evict, OnceInv, QueueTyped, Allocated
<1>3. \A id \in 1 .. queued, n \in Nat : Binds(id, n)' => Binds(id, n)
  BY <1>1 DEF Evict, Binds
<1> QED BY <1>2, <1>3, NothingBound DEF Evict

\* The stages that hold rows to be submitted.
LEMMA StageKinds ==
  /\ Down.kind \notin {"sending", "resubmitting"}
  /\ Fresh.kind \notin {"sending", "resubmitting"}
  /\ Waiting.kind \notin {"sending", "resubmitting"}
  /\ Marking.kind \notin {"sending", "resubmitting"}
  /\ \A left : Submitting(left).kind \notin {"sending", "resubmitting"}
  /\ \A id, left : Sending(id, left).kind = "sending" /\ Sending(id, left).id = id
  /\ \A todo : Resubmitting(todo).kind = "resubmitting" /\ Resubmitting(todo).todo = todo
  BY DEF Down, Fresh, Waiting, Marking, Submitting, Sending, Resubmitting

\* update_block_status prunes and unmarks.
LEMMA UpdateKeepsNonces ==
  ASSUME \A id \in DOMAIN rows : rows[id] \in Rows,
         NEW now \in [latest : Int, safe : Int], update_block_status(now)
  PROVE  KeepsNonces(rows, rows')
<1>1. PICK t : t = IF status.safe # now.safe THEN pruned(rows, now.safe) ELSE rows
  OBVIOUS
<1>2. KeepsNonces(rows, rows)
  BY DEF KeepsNonces
<1>3. KeepsNonces(rows, t)
  BY <1>1, <1>2, TablesKeepNonces
<1>4. \A id \in DOMAIN t : t[id] \in Rows
  BY <1>3 DEF KeepsNonces
<1>5. \/ rows' = t
      \/ rows' = unmarked(t, now.safe + 1)
      \/ rows' = unmarked(t, now.latest + 1)
  BY <1>1 DEF update_block_status
<1>6. KeepsNonces(t, unmarked(t, now.safe + 1)) /\ KeepsNonces(t, unmarked(t, now.latest + 1))
  BY <1>4, TablesKeepNonces, now.safe + 1 \in Int, now.latest + 1 \in Int
<1> QED BY <1>3, <1>5, <1>6, KeepsNoncesTransitive

\* A new block status, whatever it is.
LEMMA UpdateOnce ==
  ASSUME OnceInv, NEW now \in [latest : Int, safe : Int], update_block_status(now),
         seen' \in Seq(ChainBlocks)
  PROVE  OnceInv'
<1>1. KeepsNonces(rows, rows')
  BY UpdateKeepsNonces DEF OnceInv, QueueTyped
<1>2. stage' \in {Marking, Waiting}
  BY DEF update_block_status
<1>3. /\ UNCHANGED <<chain, reorgs, mempool, queued>>
      /\ status' = now
      /\ cache' \in {Null, cache}
  BY DEF update_block_status, envVars
<1> QED BY <1>1, <1>2, <1>3, StageKinds, TableStep DEF OnceInv, QueueTyped

\* Numbers of blocks are numbers.
LEMMA SafeNumberType ==
  ASSUME NEW n \in Nat
  PROVE  SafeNumber(n) \in Nat
  BY QueueAssumption DEF SafeNumber

\* The watcher's announcements.
LEMMA ObserveOnce ==
  ASSUME OnceInv, ObserveNew \/ ObserveUncle \/ FirstUpdate
  PROVE  OnceInv'
<1>1. chain \in Seq(ChainBlocks) /\ seen \in Seq(ChainBlocks) /\ status.safe \in Int
  BY DEF OnceInv, QueueTyped
<1>2. CASE ObserveNew
  <2>1. Len(seen) + 1 \in 1 .. Len(chain) /\ seen' = SubSeq(chain, 1, Len(seen) + 1)
    BY <1>1, <1>2 DEF ObserveNew
  <2>2. seen' \in Seq(ChainBlocks)
    BY <1>1, <2>1
  <2>3. PICK l \in Nat : l = Len(seen')
    BY <2>2
  <2>4. Max({status.safe, SafeNumber(l)}) \in Int
    <3>1. SafeNumber(l) \in Int
      BY SafeNumberType
    <3>2. Max({status.safe, SafeNumber(l)}) \in {status.safe, SafeNumber(l)}
      BY <1>1, <3>1, MaxOfTwo
    <3> QED BY <1>1, <3>1, <3>2
  <2>5. PICK now : now = [latest |-> l, safe |-> Max({status.safe, SafeNumber(l)})]
    OBVIOUS
  <2>6. now \in [latest : Int, safe : Int]
    BY <2>3, <2>4, <2>5
  <2>7. update_block_status(now)
    BY <1>2, <2>3, <2>5 DEF ObserveNew, StatusOf
  <2> QED BY <2>2, <2>6, <2>7, UpdateOnce
<1>3. CASE ObserveUncle
  <2>1. seen # <<>>
    <3>1. Len(seen) # 0
      BY <1>1, <1>3, PrefixElements DEF ObserveUncle
    <3> QED BY <3>1
  <2>2. seen' \in Seq(ChainBlocks)
    BY <1>1, <1>3, <2>1 DEF ObserveUncle, Front
  <2> QED BY <1>1, <1>3, <2>2, UpdateOnce DEF ObserveUncle, StatusOf
<1>4. CASE FirstUpdate
  BY <1>1, <1>4, UpdateOnce, SafeNumberType DEF FirstUpdate, StatusOf
<1> QED BY <1>2, <1>3, <1>4

\* The process starts or stops, or a request fails: the table stays.
LEMMA ProcessOnce ==
  ASSUME OnceInv, Start \/ Stop \/ RequestFails \/ ResubmitEnds
  PROVE  OnceInv'
<1>1. KeepsNonces(rows, rows)
  BY DEF KeepsNonces, OnceInv, QueueTyped
<1>2. UNCHANGED <<chain, reorgs, mempool, queued, rows>>
  BY DEF Start, Stop, RequestFails, ResubmitEnds, envVars
<1>3. /\ seen' \in Seq(ChainBlocks)
      /\ status' \in [latest : Int, safe : Int]
      /\ cache' \in Nat \cup {Null}
  <2>1. NoStatus \in [latest : Int, safe : Int] /\ <<>> \in Seq(ChainBlocks)
    BY DEF NoStatus, Null
  <2> QED BY <2>1 DEF Start, Stop, RequestFails, ResubmitEnds, OnceInv, QueueTyped
<1>4. stage' \in {Fresh, Down, Waiting} \/ \E left : stage' = Submitting(left)
  BY DEF Start, Stop, RequestFails, ResubmitEnds, BeginSubmit
<1> QED BY <1>1, <1>2, <1>3, <1>4, StageKinds, TableStep

\* The nonce the queue knows is a number.
LEMMA NonceType ==
  ASSUME QueueTyped
  PROVE  Nonce \in Nat
  BY NonceAtType DEF Nonce, QueueTyped

\* mark_executed, and the transactions that are due.
LEMMA MarkOnce ==
  ASSUME OnceInv, Mark
  PROVE  OnceInv'
<1>1. KeepsNonces(rows, rows')
  BY TablesKeepNonces DEF Mark, OnceInv, QueueTyped
<1>2. stage' = Resubmitting(stale(rows', status.latest))
  BY DEF Mark
<1>3. stale(rows', status.latest) \subseteq Allocated'
  BY DEF stale, Allocated
<1>4. UNCHANGED <<chain, reorgs, mempool, queued, seen, status>> /\ cache' \in Nat
  BY NonceType DEF Mark, envVars, OnceInv
<1>5. seen \in Seq(ChainBlocks) /\ status \in [latest : Int, safe : Int]
  BY DEF OnceInv, QueueTyped
<1>6. stage'.kind = "resubmitting" /\ stage'.todo \subseteq Allocated'
  BY <1>2, <1>3, StageKinds
<1> QED BY <1>1, <1>4, <1>5, <1>6, TableStep

\* The submissions end.
LEMMA SubmitEndsOnce ==
  ASSUME OnceInv, SubmitEnds
  PROVE  OnceInv'
<1>1. KeepsNonces(rows, rows)
  BY DEF KeepsNonces, OnceInv, QueueTyped
<1>2. cache' \in Nat \cup {Null}
  BY NonceType DEF SubmitEnds, OnceInv, QueueTyped
<1>3. UNCHANGED <<chain, reorgs, mempool, queued, seen, status, rows>> /\ stage' = Waiting
  BY DEF SubmitEnds, envVars
<1> QED BY <1>1, <1>2, <1>3, StageKinds, TableStep DEF OnceInv, QueueTyped

\* next_transaction: a row without a nonce gets one that no row has.
LEMMA FreeNonceFacts ==
  ASSUME QueueTyped, NEW n \in Nat
  PROVE  /\ freeNonce(n) \in Nat /\ freeNonce(n) >= n
         /\ \A id \in Allocated : rows[id].nonce < freeNonce(n)
         /\ freeNonce(n) = n \/ \E id \in Allocated : freeNonce(n) = rows[id].nonce + 1
<1>1. PICK bound \in Nat : \A id \in Allocated : rows[id].nonce + 1 <= bound
  BY DEF QueueTyped
<1>2. \A id \in Allocated : rows[id].nonce \in Nat
  BY DEF QueueTyped, Allocated, Rows
<1>3. PICK T : T = {n} \cup {rows[id].nonce + 1 : id \in Allocated}
  OBVIOUS
<1>4. T \subseteq Nat /\ T # {} /\ n \in T /\ \A id \in Allocated : rows[id].nonce + 1 \in T
  BY <1>2, <1>3
<1>5. n + bound \in Nat /\ \A x \in T : x <= n + bound
  BY <1>1, <1>2, <1>3
<1>6. Max(T) \in T /\ \A x \in T : x <= Max(T)
  BY <1>4, <1>5, MaxOfBounded
<1>7. freeNonce(n) = Max(T)
  BY <1>3 DEF freeNonce
<1>8. ASSUME NEW id \in Allocated PROVE rows[id].nonce < Max(T)
  <2>1. rows[id].nonce \in Nat /\ rows[id].nonce + 1 <= Max(T) /\ Max(T) \in Nat
    BY <1>2, <1>4, <1>6
  <2> QED BY <2>1
<1> QED BY <1>3, <1>4, <1>6, <1>7, <1>8

\* Allocation: the row was bound to no nonce, and is now to one.
LEMMA AllocateOnce ==
  ASSUME OnceInv, Allocate
  PROVE  OnceInv'
<1>1. PICK id : id = Min(candidates(status.latest))
  OBVIOUS
<1>2. id \in DOMAIN rows /\ rows[id].nonce = Null /\ id \in 1 .. queued /\ rows[id] \in Rows
  <2>1. candidates(status.latest) \subseteq Nat /\ candidates(status.latest) # {}
    BY DEF candidates, OnceInv, QueueTyped, Allocate
  <2>2. id \in candidates(status.latest)
    BY <1>1, <2>1, MinOfNaturals
  <2> QED BY <2>2 DEF candidates, OnceInv, QueueTyped
<1>3. PICK m \in Nat : m = freeNonce(Nonce) /\ \A x \in Allocated : rows[x].nonce < m
  BY NonceType, FreeNonceFacts DEF OnceInv
<1>4. rows' = [rows EXCEPT ![id].nonce = m] /\ stage' = Sending(id, stage.left - 1)
  BY <1>1, <1>3 DEF Allocate
<1>5. /\ DOMAIN rows' = DOMAIN rows
      /\ \A x \in DOMAIN rows : x # id => rows'[x] = rows[x]
      /\ rows'[id] \in Rows /\ rows'[id].nonce = m
  BY <1>2, <1>4 DEF Rows
<1>6. /\ UNCHANGED <<chain, reorgs, mempool, queued, seen, status>>
      /\ cache' \in Nat
  BY NonceType DEF Allocate, envVars, OnceInv
<1>7. Allocated' = Allocated \cup {id}
  BY <1>2, <1>3, <1>5 DEF Allocated, Null
<1>8. ASSUME NEW x \in Allocated' PROVE rows'[x].nonce + 1 <= m + 1
  <2>1. rows'[x].nonce \in Nat /\ rows'[x].nonce <= m
    <3>1. CASE x = id
      BY <1>5, <3>1
    <3>2. CASE x # id
      <4>1. x \in Allocated /\ x \in DOMAIN rows /\ rows'[x] = rows[x]
        BY <1>5, <1>7, <3>2 DEF Allocated
      <4>2. rows[x].nonce \in Nat
        BY <4>1 DEF Allocated, OnceInv, QueueTyped, Rows
      <4> QED BY <1>3, <4>1, <4>2
    <3> QED BY <3>1, <3>2
  <2> QED BY <2>1
<1>9. QueueTyped'
  BY <1>4, <1>5, <1>6, <1>7, <1>8, StageKinds, m + 1 \in Nat DEF OnceInv, QueueTyped
<1>10. ASSUME NEW x \in 1 .. queued, NEW n \in Nat, Binds(x, n)'
       PROVE  (x = id /\ n = m) \/ (x # id /\ Binds(x, n))
  <2>1. \A k \in Nat : ~Binds(id, k)
    BY <1>2 DEF OnceInv, WaitingIsUnsent
  <2> QED BY <1>5, <1>6, <1>10, <2>1 DEF Binds
<1>11. OneNonce'
  BY <1>6, <1>10 DEF OneNonce, OnceInv
<1>12. WaitingIsUnsent'
  <2>1. ASSUME NEW x \in DOMAIN rows', rows'[x].nonce = Null, NEW n \in Nat, Binds(x, n)'
        PROVE  FALSE
    <3>1. x # id /\ rows[x].nonce = Null /\ x \in 1 .. queued
      BY <1>2, <1>3, <1>5, <2>1 DEF Null, OnceInv, QueueTyped
    <3> QED BY <1>5, <1>10, <2>1, <3>1 DEF OnceInv, WaitingIsUnsent
  <2> QED BY <2>1 DEF WaitingIsUnsent
<1> QED BY <1>9, <1>11, <1>12 DEF OnceInv

\* submit_transaction gives the mempool what the table says.
LEMMA SubmitOnce ==
  ASSUME OnceInv, NEW id \in Allocated, submit_transaction(id),
         UNCHANGED <<chain, reorgs, queued, seen, status, cache>>,
         \/ \E left : stage' = Submitting(left)
         \/ stage.kind = "resubmitting" /\ stage' = Resubmitting(stage.todo \ {id})
  PROVE  OnceInv'
<1>1. PICK nonce \in Nat : nonce = rows[id].nonce
  BY DEF Allocated, OnceInv, QueueTyped, Rows
<1>2. id \in DOMAIN rows /\ id \in 1 .. queued
  BY DEF Allocated, OnceInv, QueueTyped
<1>3. /\ DOMAIN rows' = DOMAIN rows
      /\ \A x \in DOMAIN rows : rows'[x] \in Rows /\ rows'[x].nonce = rows[x].nonce
  <2>1. \A block \in Int : LET u == record_submission(nonce, block)
        IN DOMAIN u = DOMAIN rows /\ \A x \in DOMAIN rows : u[x] \in Rows /\ u[x].nonce = rows[x].nonce
    BY DEF record_submission, Rows, OnceInv, QueueTyped
  <2>2. Null \in Int /\ status.latest \in Int
    BY DEF Null, OnceInv, QueueTyped
  <2>3. rows' \in {record_submission(nonce, status.latest), record_submission(nonce, Null), rows}
    BY <1>1 DEF submit_transaction
  <2> QED BY <2>1, <2>2, <2>3 DEF OnceInv, QueueTyped
<1>4. /\ DOMAIN mempool' \subseteq DOMAIN mempool \cup {nonce}
      /\ \A n \in DOMAIN mempool' : (n = nonce /\ mempool'[n] = id) \/ (n \in DOMAIN mempool /\ mempool'[n] = mempool[n])
  BY <1>1 DEF submit_transaction
<1>5. Allocated' = Allocated
  BY <1>3 DEF Allocated
<1>6. QueueTyped'
  <2>1. \E bound \in Nat : \A x \in Allocated' : rows'[x].nonce + 1 <= bound
    BY <1>3, <1>5 DEF OnceInv, QueueTyped, Allocated
  <2>2. /\ stage'.kind = "sending" => stage'.id \in Allocated'
        /\ stage'.kind = "resubmitting" => stage'.todo \subseteq Allocated'
    BY <1>5, StageKinds DEF OnceInv, QueueTyped
  <2>3. DOMAIN mempool' \subseteq Nat /\ \A n \in DOMAIN mempool' : mempool'[n] \in 1 .. queued
    BY <1>1, <1>2, <1>4 DEF OnceInv, QueueTyped
  <2> QED BY <1>3, <2>1, <2>2, <2>3 DEF OnceInv, QueueTyped
<1>7. \A x \in 1 .. queued, n \in Nat : Binds(x, n)' => Binds(x, n)
  BY <1>1, <1>2, <1>3, <1>4 DEF Binds
<1> QED BY <1>3, <1>6, <1>7, NothingBound

\* A new row has an identifier that was never used.
LEMMA EnqueueOnce ==
  ASSUME OnceInv, NEW lifetime \in Lifetimes, Enqueue(lifetime)
  PROVE  OnceInv'
<1>1. PICK id \in Nat : id = queued + 1
  BY DEF OnceInv, QueueTyped
<1>2. PICK row : row = [nonce |-> Null, submitted |-> Null, executed |-> Null,
                        expires |-> IF lifetime = 0 THEN Null ELSE Len(seen) + lifetime]
  OBVIOUS
<1>3. row \in Rows /\ row.nonce = Null
  BY <1>2, QueueAssumption DEF Rows, Null, OnceInv, QueueTyped
<1>4. /\ DOMAIN rows' = DOMAIN rows \cup {id}
      /\ rows'[id] = row
      /\ id \notin DOMAIN rows
      /\ \A x \in DOMAIN rows : rows'[x] = rows[x]
  BY <1>1, <1>2 DEF Enqueue, OnceInv, QueueTyped
<1>5. /\ UNCHANGED <<chain, reorgs, mempool, seen, status, cache>>
      /\ queued' = id
      /\ stage' = Fresh \/ \E left : stage' = Submitting(left)
  BY <1>1 DEF Enqueue, envVars, BeginSubmit
<1>6. Allocated' = Allocated /\ \A x \in Allocated : rows'[x] = rows[x]
  BY <1>3, <1>4 DEF Allocated
<1>7. QueueTyped'
  <2>1. \E bound \in Nat : \A x \in Allocated' : rows'[x].nonce + 1 <= bound
    BY <1>6 DEF OnceInv, QueueTyped
  <2>2. /\ stage'.kind = "sending" => stage'.id \in Allocated'
        /\ stage'.kind = "resubmitting" => stage'.todo \subseteq Allocated'
    BY <1>5, StageKinds
  <2>3. DOMAIN rows' \subseteq 1 .. queued' /\ \A x \in DOMAIN rows' : rows'[x] \in Rows
    BY <1>1, <1>3, <1>4, <1>5 DEF OnceInv, QueueTyped
  <2>4. queued \in Nat /\ queued' \in Nat /\ queued <= queued'
    BY <1>1, <1>5 DEF OnceInv, QueueTyped
  <2>5. /\ \A n \in DOMAIN mempool : mempool[n] \in 1 .. queued'
        /\ \A i \in DOMAIN chain : chain[i].tx \in 0 .. queued'
    BY <2>4 DEF OnceInv, QueueTyped
  <2> QED BY <1>5, <2>1, <2>2, <2>3, <2>4, <2>5 DEF OnceInv, QueueTyped
<1>8. ASSUME NEW x \in 1 .. id, NEW n \in Nat, Binds(x, n)'
      PROVE  x \in 1 .. queued /\ Binds(x, n)
  <2>1. x # id
    BY <1>1, <1>3, <1>4, <1>5, <1>8 DEF Binds, Null, OnceInv, QueueTyped
  <2> QED BY <1>1, <1>4, <1>5, <1>8, <2>1 DEF Binds, OnceInv, QueueTyped
<1>9. OneNonce'
  BY <1>5, <1>8 DEF OneNonce, OnceInv
<1>10. WaitingIsUnsent'
  <2>1. \A x \in DOMAIN rows' : x \in 1 .. id
    BY <1>1, <1>4 DEF OnceInv, QueueTyped
  <2>2. \A x \in DOMAIN rows' : x \in 1 .. queued => x \in DOMAIN rows /\ rows'[x] = rows[x]
    BY <1>1, <1>4 DEF OnceInv, QueueTyped
  <2> QED BY <1>8, <2>1, <2>2 DEF WaitingIsUnsent, OnceInv
<1> QED BY <1>7, <1>9, <1>10 DEF OnceInv

\* At the start there is no transaction at all.
LEMMA InitOnce == Init => OnceInv
<1> SUFFICES ASSUME Init PROVE OnceInv
  OBVIOUS
<1>1. DOMAIN rows = {} /\ DOMAIN mempool = {} /\ queued = 0
  BY DEF Init
<1>2. chain \in Seq(ChainBlocks) /\ DOMAIN chain = {1} /\ chain[1].tx = 0
  BY DEF Init, ChainBlocks
<1>3. seen \in Seq(ChainBlocks) /\ status \in [latest : Int, safe : Int] /\ cache = Null
  BY DEF Init, NoStatus, Null
<1>4. Allocated = {}
  BY <1>1 DEF Allocated
<1>5. QueueTyped
  BY <1>1, <1>2, <1>3, <1>4, StageKinds DEF Init, QueueTyped
<1> QED BY <1>1, <1>5 DEF OnceInv, OneNonce, WaitingIsUnsent

\* Every step of chain, node, process and queue preserves the invariant.
LEMMA NextOnce == OnceInv /\ [Next]_vars => OnceInv'
<1> SUFFICES ASSUME OnceInv, [Next]_vars
             PROVE  OnceInv'
  OBVIOUS
<1>0. QueueTyped /\ chain \in Seq(ChainBlocks)
  BY DEF OnceInv, QueueTyped
<1>1. CASE Mine
  <2>1. PICK tx \in Nat : MayHold(Len(chain), tx)
            /\ GoesOn(chain, chain', Len(chain), [fork |-> 0, tx |-> tx])
    BY <1>0, <1>1, MineGoesOn
  <2>2. PICK k \in Nat : k = Len(chain) /\ k <= Len(chain)
    BY <1>0
  <2>3. reorgs' \in Nat /\ UNCHANGED <<mempool, seen, status, cache, rows, queued, stage>>
    BY <1>0, <1>1 DEF Mine, QueueTyped
  <2> QED BY <2>1, <2>2, <2>3, ChainStepOnce
<1>2. ASSUME NEW n \in DOMAIN chain, Reorg(n) PROVE OnceInv'
  <2>1. PICK tx \in Nat, fork \in Forks(n) : MayHold(n - 1, tx)
            /\ fork \in Nat /\ GoesOn(chain, chain', n - 1, [fork |-> fork, tx |-> tx])
    BY <1>0, <1>2, ReorgGoesOn
  <2>2. PICK k \in Nat : k = n - 1 /\ k <= Len(chain)
    BY <1>0
  <2>3. reorgs' \in Nat /\ UNCHANGED <<mempool, seen, status, cache, rows, queued, stage>>
    BY <1>0, <1>2 DEF Reorg, QueueTyped
  <2> QED BY <2>1, <2>2, <2>3, ChainStepOnce
<1>3. ASSUME NEW nonce \in DOMAIN mempool, Evict(nonce) PROVE OnceInv'
  BY <1>3, EvictOnce
<1>4. CASE Start \/ Stop \/ RequestFails \/ ResubmitEnds
  BY <1>4, ProcessOnce
<1>5. CASE ObserveNew \/ ObserveUncle \/ FirstUpdate
  BY <1>5, ObserveOnce
<1>6. CASE Mark
  BY <1>6, MarkOnce
<1>7. CASE Allocate
  BY <1>7, AllocateOnce
<1>8. CASE SubmitEnds
  BY <1>8, SubmitEndsOnce
<1>9. CASE Send
  <2>1. stage.id \in Allocated
    BY <1>9 DEF Send, OnceInv, QueueTyped
  <2> QED BY <1>9, <2>1, SubmitOnce DEF Send
<1>10. CASE Resend
  <2>1. PICK id \in stage.todo : submit_transaction(id) /\ stage' = Resubmitting(stage.todo \ {id})
    BY <1>10 DEF Resend
  <2>2. id \in Allocated
    BY <1>10 DEF Resend, OnceInv, QueueTyped
  <2> QED BY <1>10, <2>1, <2>2, SubmitOnce DEF Resend
<1>11. ASSUME NEW lifetime \in Lifetimes, Enqueue(lifetime) PROVE OnceInv'
  BY <1>11, EnqueueOnce
<1>12. CASE UNCHANGED vars
  <2>1. QueueTyped'
    BY <1>12 DEF vars, envVars, OnceInv, QueueTyped, Allocated
  <2>2. OneNonce' /\ WaitingIsUnsent'
    BY <1>12 DEF vars, envVars, OnceInv, OneNonce, WaitingIsUnsent, Binds
  <2> QED BY <2>1, <2>2 DEF OnceInv
<1> QED
  BY <1>1, <1>2, <1>3, <1>4, <1>5, <1>6, <1>7, <1>8, <1>9, <1>10, <1>11, <1>12 DEF Next

\* An action that was queued once is executed once at most, whatever is sent
\* again after a lost answer, a restart or a reorganisation, and also if the
\* watcher misses reorganisations.
THEOREM QueueExecutesOnce == Spec => []ExecutedOnce
  BY InitOnce, NextOnce, OnceSuffices, PTL DEF Spec

----------------------------------------------------------------------------
(* No nonce is left out and nothing is forgotten too early                 *)

\* The chain as the queue knows it; a process that is stopped will read it.
View == IF stage = Down THEN chain ELSE seen

\* The first b blocks are the same on the chain.
Shared(b) == b <= Len(chain) /\ b <= Len(View) /\ \A k \in 1 .. b : View[k] = chain[k]

\* Where the chain and the watcher's copy can be, however many reorganisations
\* the watcher misses: they share what counts as final.  A block is marked with
\* the nonce the node has for it at that moment, never with a cached one.
WatcherFollows ==
    /\ highest \in Nat
    /\ Len(chain) <= highest /\ SafeNumber(highest) <= Len(chain)
    /\ Len(View) <= highest
    /\ Shared(SafeNumber(Len(View)))
    /\ IF stage \in {Down, Fresh} THEN status = NoStatus /\ cache = Null
                                  ELSE status.latest = Len(seen)
    /\ stage = Marking => cache = Null

\* A row is marked as executed at a block that has passed the row's nonce,
\* unless a reorganisation took that block away.
MarksHold ==
    \A id \in DOMAIN rows : rows[id].executed # Null =>
        /\ rows[id].nonce # Null
        /\ rows[id].executed \in Nat
        /\ id \notin undone => /\ rows[id].executed <= Len(chain)
                               /\ rows[id].nonce < NonceAt(chain, rows[id].executed)

\* Only rows that were queued are undone.
UndoneQueued == \A id \in undone : id \in Nat /\ id <= queued

Holds(id, n) == id \in DOMAIN rows /\ rows[id].nonce = n

\* The nonces from a up to but excluding b belong to rows.
AllHeld(a, b) == \A n \in a .. b - 1 : \E id \in DOMAIN rows : Holds(id, n)

\* Only rows that the first g blocks executed were pruned.
PrunedBelow(g) ==
    /\ g \in 0 .. SafeNumber(highest)
    /\ Shared(g)
    /\ status.safe <= g
    /\ \A i \in DOMAIN chain : i > g /\ chain[i].tx # 0 =>
        Holds(chain[i].tx, NonceAt(chain, i - 1))
    /\ \A n \in DOMAIN mempool : n >= NonceAt(chain, g) => Holds(mempool[n], n)
    /\ \A id \in Allocated : AllHeld(NonceAt(chain, g), rows[id].nonce)
    /\ cache # Null => cache >= NonceAt(chain, g) /\ AllHeld(NonceAt(chain, g), cache)

\* No nonce is ever given to two actions.
OneRow ==
    \A id \in Allocated :
        /\ \A other \in Allocated : rows[other].nonce = rows[id].nonce => other = id
        /\ \A i \in DOMAIN chain :
            chain[i].tx # 0 /\ NonceAt(chain, i - 1) = rows[id].nonce => chain[i].tx = id
        /\ rows[id].nonce \in DOMAIN mempool => mempool[rows[id].nonce] = id

\* What holds of the table until a row that is undone is forgotten: its nonce
\* is then free for another row while the chain may still take it.
TableFollows == OneRow /\ \E g \in Nat : PrunedBelow(g)

GapInv ==
    /\ OnceInv
    /\ WatcherFollows
    /\ MarksHold
    /\ UndoneQueued
    /\ AllKept => TableFollows

\* Types the rest of the proofs start from.
LEMMA GapTypes ==
  ASSUME OnceInv, WatcherFollows
  PROVE  /\ chain \in Seq(ChainBlocks) /\ Len(chain) \in Nat /\ DOMAIN chain = 1 .. Len(chain)
         /\ View \in Seq(ChainBlocks) /\ Len(View) \in Nat /\ DOMAIN View = 1 .. Len(View)
         /\ reorgs \in Nat /\ highest \in Nat /\ SafeNumber(highest) \in Nat
         /\ SafeNumber(Len(View)) \in Nat /\ SafeNumber(Len(View)) <= Len(View)
         /\ SafeNumber(Len(View)) <= SafeNumber(highest)
<1>1. chain \in Seq(ChainBlocks) /\ View \in Seq(ChainBlocks) /\ reorgs \in Nat
  BY DEF OnceInv, QueueTyped, View
<1>2. highest \in Nat /\ Len(View) <= highest
  BY DEF WatcherFollows
<1>3. PICK l \in Nat : l = Len(View)
  BY <1>1
<1>4. SafeNumber(l) \in Nat /\ SafeNumber(l) <= l /\ SafeNumber(l) <= SafeNumber(highest)
  BY <1>2, <1>3, QueueAssumption DEF SafeNumber
<1> QED BY <1>1, <1>2, <1>3, <1>4, SafeNumberType

\* Whatever the chain does above its final height, that height is shared as
\* before.
LEMMA FinalStaysShared ==
  ASSUME OnceInv, WatcherFollows, NEW k \in Nat, k <= Len(chain), NEW x,
         GoesOn(chain, chain', k, x), SafeNumber(highest) <= k,
         highest' \in Nat, highest <= highest', k + 1 <= highest',
         SafeNumber(highest') <= k + 1,
         UNCHANGED <<seen, status, cache, stage>>
  PROVE  /\ WatcherFollows'
         /\ \A b \in 0 .. SafeNumber(highest) : Shared(b) => Shared(b)'
<1>1. /\ Len(chain') = k + 1 /\ DOMAIN chain' = 1 .. k + 1
      /\ \A i \in 1 .. k : chain'[i] = chain[i]
  BY DEF GoesOn
<1>2. \A b \in 0 .. SafeNumber(highest) : Shared(b) => Shared(b)'
  <2> SUFFICES ASSUME NEW b \in 0 .. SafeNumber(highest), Shared(b) PROVE Shared(b)'
    OBVIOUS
  <2>1. b \in Nat /\ b <= k
    <3>1. PICK f \in Nat : f = SafeNumber(highest) /\ f <= k
      BY GapTypes
    <3> QED BY <3>1
  <2>2. CASE stage = Down
    <3>1. View' = chain'
      BY <2>2 DEF View
    <3> QED BY <1>1, <2>1, <3>1 DEF Shared
  <2>3. CASE stage # Down
    <3>1. View' = View
      BY <2>3 DEF View
    <3> QED BY <1>1, <2>1, <3>1 DEF Shared
  <2> QED BY <2>2, <2>3
<1>3. Len(View') <= highest' /\ Shared(SafeNumber(Len(View)))'
  <2>1. CASE stage = Down
    <3>1. View' = chain'
      BY <2>1 DEF View
    <3>2. SafeNumber(k + 1) \in Nat /\ SafeNumber(k + 1) <= k + 1
      BY QueueAssumption DEF SafeNumber
    <3> QED BY <1>1, <3>1, <3>2 DEF Shared
  <2>2. CASE stage # Down
    <3>1. View' = View
      BY <2>2 DEF View
    <3>2. Shared(SafeNumber(Len(View))) /\ Len(View) <= highest
      BY DEF WatcherFollows
    <3>3. PICK b : b = SafeNumber(Len(View)) /\ b \in 0 .. SafeNumber(highest)
      BY GapTypes
    <3>4. Shared(b)'
      BY <1>2, <3>2, <3>3
    <3>5. Shared(SafeNumber(Len(View)))' = Shared(b)'
      BY <3>1, <3>3 DEF Shared
    <3> QED BY <3>1, <3>2, <3>4, <3>5, GapTypes
  <2> QED BY <2>1, <2>2
<1>4. WatcherFollows'
  BY <1>1, <1>3 DEF WatcherFollows
<1> QED BY <1>2, <1>4

\* What the chain does keeps holdings, and marks but for the rows it undoes.
LEMMA ChainStepGap ==
  ASSUME GapInv, OnceInv', WatcherFollows', NEW k \in Nat, k <= Len(chain),
         NEW fork \in Nat, NEW tx \in Nat, MayHold(k, tx),
         GoesOn(chain, chain', k, [fork |-> fork, tx |-> tx]),
         \A b \in 0 .. SafeNumber(highest) : Shared(b) => Shared(b)',
         SafeNumber(highest) <= k, SafeNumber(highest) <= SafeNumber(highest'),
         undone' = undone \cup MarkedFrom(k + 1),
         UNCHANGED <<mempool, status, cache, rows, queued>>
  PROVE  GapInv'
<1>1. OnceInv /\ WatcherFollows /\ MarksHold /\ UndoneQueued
  BY DEF GapInv
<1>2. \A j \in Int : j <= k => NonceAt(chain', j) = NonceAt(chain, j)
  BY GoesOnNonces
<1>3. Allocated' = Allocated
  BY DEF Allocated
<1>4. MarksHold'
  <2>1. ASSUME NEW id \in DOMAIN rows, rows[id].executed # Null
        PROVE  /\ rows[id].nonce # Null
               /\ rows[id].executed \in Nat
               /\ id \notin undone' => /\ rows[id].executed <= Len(chain')
                                       /\ rows[id].nonce < NonceAt(chain', rows[id].executed)
    <3>1. PICK b : b = rows[id].executed
      OBVIOUS
    <3>2. /\ rows[id].nonce # Null /\ b \in Nat
          /\ id \notin undone => b <= Len(chain) /\ rows[id].nonce < NonceAt(chain, b)
      BY <1>1, <2>1, <3>1 DEF MarksHold
    <3>3. ASSUME id \notin undone'
          PROVE  b <= Len(chain') /\ rows[id].nonce < NonceAt(chain', b)
      <4>1. id \notin undone /\ ~(b >= k + 1)
        BY <3>1, <3>3 DEF MarkedFrom
      <4>2. b <= k /\ Len(chain') = k + 1
        BY <3>2, <4>1 DEF GoesOn
      <4> QED BY <1>2, <3>2, <4>1, <4>2
    <3> QED BY <3>1, <3>2, <3>3
  <2> QED BY <2>1 DEF MarksHold
<1>5. UndoneQueued' /\ (AllKept' => AllKept)
  <2>1. \A id \in DOMAIN rows : id \in Nat /\ id <= queued
    <3>1. queued \in Nat /\ DOMAIN rows \subseteq 1 .. queued
      BY <1>1 DEF OnceInv, QueueTyped
    <3> QED BY <3>1
  <2>2. MarkedFrom(k + 1) \subseteq DOMAIN rows
    BY DEF MarkedFrom
  <2> QED BY <1>1, <2>1, <2>2 DEF UndoneQueued, AllKept
<1>6. ASSUME NEW i \in DOMAIN chain'
      PROVE  \/ i \in DOMAIN chain /\ chain'[i] = chain[i] /\ NonceAt(chain', i - 1) = NonceAt(chain, i - 1)
             \/ i = k + 1 /\ chain'[i].tx = tx /\ NonceAt(chain', i - 1) = NonceAt(chain, k)
  <2>1. DOMAIN chain' = 1 .. k + 1
    BY DEF GoesOn
  <2>2. CASE i \in 1 .. k
    <3>1. i \in DOMAIN chain /\ i - 1 \in Int /\ i - 1 <= k
      BY <1>1, <2>2, GapTypes
    <3>2. chain'[i] = chain[i]
      BY <2>2 DEF GoesOn
    <3> QED BY <1>2, <3>1, <3>2
  <2>3. CASE i = k + 1
    BY <1>2, <2>3 DEF GoesOn
  <2> QED BY <2>1, <2>2, <2>3
<1>7. OneRow => OneRow'
  <2>1. ASSUME OneRow, NEW id \in Allocated, NEW i \in DOMAIN chain', chain'[i].tx # 0,
               NonceAt(chain', i - 1) = rows[id].nonce
        PROVE  chain'[i].tx = id
    BY <1>6, <2>1 DEF OneRow, MayHold
  <2> QED BY <1>3, <2>1 DEF OneRow
<1>8. ASSUME NEW g \in Nat, PrunedBelow(g) PROVE PrunedBelow(g)'
  <2>1. g \in 0 .. SafeNumber(highest') /\ g <= k
    <3>1. g <= SafeNumber(highest)
      BY <1>1, <1>8, GapTypes DEF PrunedBelow
    <3>2. highest' \in Nat
      BY DEF WatcherFollows
    <3>3. PICK f \in Nat : f = SafeNumber(highest)
      BY <1>1, GapTypes
    <3>4. PICK e \in Nat : e = SafeNumber(highest')
      BY <3>2, SafeNumberType
    <3> QED BY <3>1, <3>3, <3>4
  <2>2. Shared(g)'
    BY <1>8 DEF PrunedBelow
  <2>3. NonceAt(chain', g) = NonceAt(chain, g) /\ NonceAt(chain, g) <= NonceAt(chain, k)
    BY <1>2, <2>1, NonceAtMonotone
  <2>4. ASSUME NEW i \in DOMAIN chain', i > g, chain'[i].tx # 0
        PROVE  Holds(chain'[i].tx, NonceAt(chain', i - 1))
    <3>1. CASE i \in DOMAIN chain /\ chain'[i] = chain[i] /\ NonceAt(chain', i - 1) = NonceAt(chain, i - 1)
      BY <1>8, <2>4, <3>1 DEF PrunedBelow
    <3>2. CASE chain'[i].tx = tx /\ NonceAt(chain', i - 1) = NonceAt(chain, k)
      <4>1. NonceAt(chain, k) \in DOMAIN mempool /\ tx = mempool[NonceAt(chain, k)]
        BY <2>4, <3>2 DEF MayHold
      <4>2. NonceAt(chain, k) >= NonceAt(chain, g)
        BY <2>3, NonceAtType
      <4> QED BY <1>8, <3>2, <4>1, <4>2 DEF PrunedBelow
    <3> QED BY <1>6, <3>1, <3>2
  <2>5. \A id, x : Holds(id, x)' = Holds(id, x)
    BY DEF Holds
  <2>6. \A x, y : AllHeld(x, y)' = AllHeld(x, y)
    BY DEF AllHeld, Holds
  <2> QED BY <1>3, <1>8, <2>1, <2>2, <2>3, <2>4, <2>5, <2>6 DEF PrunedBelow
<1>9. AllKept' => TableFollows'
  BY <1>5, <1>7, <1>8 DEF GapInv, TableFollows
<1> QED BY <1>4, <1>5, <1>9 DEF GapInv

----------------------------------------------------------------------------
(* The queue's own steps                                                   *)

\* The chain and the view of it stay.
LEMMA ViewStays ==
  ASSUME WatcherFollows, UNCHANGED <<chain, highest, reorgs>>, View' = View,
         IF stage' \in {Down, Fresh} THEN status' = NoStatus /\ cache' = Null
                                     ELSE status'.latest = Len(seen'),
         stage' = Marking => cache' = Null
  PROVE  WatcherFollows' /\ \A b : Shared(b)' = Shared(b)
<1>1. \A b : Shared(b)' = Shared(b)
  BY DEF Shared
<1>2. Shared(SafeNumber(Len(View)))'
  BY <1>1 DEF WatcherFollows
<1> QED BY <1>1, <1>2 DEF WatcherFollows

\* Rows keep their nonces, and what is new in the mempool has its row.
SameNonces ==
    /\ \A id \in Allocated : id \in DOMAIN rows' /\ rows'[id].nonce = rows[id].nonce
    /\ \A id \in DOMAIN rows' : rows'[id].nonce # Null =>
        id \in DOMAIN rows /\ rows'[id].nonce = rows[id].nonce
    /\ \A n \in DOMAIN mempool' :
        \/ n \in DOMAIN mempool /\ mempool'[n] = mempool[n]
        \/ Holds(mempool'[n], n)

\* Then no nonce has two rows ...
LEMMA SameNoncesOneRow ==
  ASSUME OnceInv, OneRow, SameNonces, chain' = chain
  PROVE  OneRow'
<1>1. Allocated' = Allocated /\ \A id \in Allocated : rows'[id].nonce = rows[id].nonce
  BY DEF SameNonces, Allocated
<1>2. ASSUME NEW id \in Allocated, rows[id].nonce \in DOMAIN mempool'
      PROVE  mempool'[rows[id].nonce] = id
  <2>1. PICK n : n = rows[id].nonce
    OBVIOUS
  <2>2. CASE n \in DOMAIN mempool /\ mempool'[n] = mempool[n]
    BY <2>1, <2>2 DEF OneRow
  <2>3. CASE Holds(mempool'[n], n)
    <3>1. mempool'[n] \in Allocated /\ rows[mempool'[n]].nonce = rows[id].nonce
      BY <2>1, <2>3 DEF Holds, Allocated
    <3> QED BY <2>1, <3>1 DEF OneRow
  <2> QED BY <1>2, <2>1, <2>2, <2>3 DEF SameNonces
<1> QED BY <1>1, <1>2 DEF OneRow

\* Numbers of blocks and nonces are numbers.
LEMMA NumbersOf ==
  ASSUME OnceInv
  PROVE  /\ \A i \in DOMAIN chain : i \in Int /\ i - 1 \in Int
         /\ \A id \in Allocated : rows[id].nonce \in Int
<1>1. chain \in Seq(ChainBlocks) /\ \A id \in DOMAIN rows : rows[id] \in Rows
  BY DEF OnceInv, QueueTyped
<1>2. \A i \in DOMAIN chain : i \in Int /\ i - 1 \in Int
  BY <1>1
<1> QED BY <1>1, <1>2 DEF Allocated, Rows

\* ... and what was held is held.
LEMMA SameNoncesPruned ==
  ASSUME OnceInv, OnceInv', NEW g \in Nat, PrunedBelow(g), SameNonces,
         UNCHANGED <<chain, highest>>, Shared(g)', status'.safe <= g,
         cache' # Null => cache' >= NonceAt(chain, g) /\ AllHeld(NonceAt(chain, g), cache')
  PROVE  PrunedBelow(g)'
<1>1. Allocated' = Allocated /\ \A id \in Allocated : rows'[id].nonce = rows[id].nonce
  BY DEF SameNonces, Allocated
<1>2. \A id, n : n \in Nat /\ Holds(id, n) => id \in DOMAIN rows' /\ rows'[id].nonce = n
  BY DEF SameNonces, Holds, Allocated, Null
<1>3. PICK a \in Nat : a = NonceAt(chain, g)
  BY NonceAtType
<1>4. ASSUME NEW m \in Int, AllHeld(a, m)
      PROVE  \A n \in a .. m - 1 : \E id \in DOMAIN rows' : rows'[id].nonce = n
  <2>1. \A n \in a .. m - 1 : n \in Nat
    OBVIOUS
  <2>2. \A n \in a .. m - 1 : \E id \in DOMAIN rows : Holds(id, n)
    BY <1>4 DEF AllHeld
  <2> QED BY <1>2, <2>1, <2>2
<1>5. ASSUME NEW id \in Allocated'
      PROVE  \A n \in a .. rows'[id].nonce - 1 : \E x \in DOMAIN rows' : rows'[x].nonce = n
  <2>1. id \in Allocated /\ rows[id].nonce \in Int /\ rows'[id].nonce = rows[id].nonce
    BY <1>1, NumbersOf
  <2>2. AllHeld(a, rows[id].nonce)
    BY <1>3, <2>1 DEF PrunedBelow
  <2> QED BY <1>4, <2>1, <2>2
<1>6. ASSUME NEW i \in DOMAIN chain, i > g, chain[i].tx # 0
      PROVE  chain[i].tx \in DOMAIN rows' /\ rows'[chain[i].tx].nonce = NonceAt(chain, i - 1)
  <2>1. i \in Int /\ i - 1 \in Int
    BY NumbersOf
  <2>2. NonceAt(chain, i - 1) \in Nat
    BY <2>1, NonceAtType
  <2>3. Holds(chain[i].tx, NonceAt(chain, i - 1))
    BY <1>6 DEF PrunedBelow
  <2> QED BY <1>2, <2>2, <2>3
<1>7. ASSUME NEW n \in DOMAIN mempool', n >= a
      PROVE  mempool'[n] \in DOMAIN rows' /\ rows'[mempool'[n]].nonce = n
  <2>1. Holds(mempool'[n], n)
    BY <1>3, <1>7 DEF SameNonces, PrunedBelow
  <2>2. n \in Nat
    BY DEF OnceInv, QueueTyped
  <2> QED BY <1>2, <2>1, <2>2
<1>8. ASSUME cache' # Null
      PROVE  cache' >= a /\ \A n \in a .. cache' - 1 : \E x \in DOMAIN rows' : rows'[x].nonce = n
  <2>1. PICK m \in Int : m = cache'
    BY <1>8 DEF OnceInv, QueueTyped
  <2> QED BY <1>3, <1>4, <1>8, <2>1
<1> QED BY <1>3, <1>5, <1>6, <1>7, <1>8 DEF PrunedBelow, AllHeld, Holds

\* The queue may ask for the nonce of its block.
NonceUsable == NonceKnown /\ stage \notin {Down, Fresh}

\* The nonce it gets leaves nothing out that was not pruned.
LEMMA NonceCovered ==
  ASSUME GapInv, NonceUsable, NEW g \in Nat, PrunedBelow(g)
  PROVE  Nonce >= NonceAt(chain, g) /\ AllHeld(NonceAt(chain, g), Nonce)
<1>0. OnceInv /\ WatcherFollows
  BY DEF GapInv
<1>1. CASE cache # Null
  BY <1>1 DEF Nonce, PrunedBelow
<1>2. CASE cache = Null
  <2>1. PICK l \in Nat : l = Len(View) /\ l = status.latest
    BY <1>0, GapTypes DEF WatcherFollows, NonceUsable, View
  <2>2. l <= Len(chain) /\ Nonce = NonceAt(chain, l)
    BY <1>2, <2>1 DEF NonceUsable, NonceKnown, Nonce
  <2>3. g <= l
    BY <2>1 DEF PrunedBelow, Shared
  <2>4. NonceAt(chain, g) \in Nat /\ NonceAt(chain, l) \in Nat /\ NonceAt(chain, g) <= NonceAt(chain, l)
    BY <2>3, NonceAtType, NonceAtMonotone
  <2>5. ASSUME NEW n \in NonceAt(chain, g) .. NonceAt(chain, l) - 1
        PROVE  \E id \in DOMAIN rows : Holds(id, n)
    <3>1. n \in Nat /\ n < NonceAt(chain, l) /\ n >= NonceAt(chain, g)
      BY <2>4
    <3>2. PICK i \in 1 .. l : chain[i].tx # 0 /\ NonceAt(chain, i - 1) = n
      BY <3>1, NonceReached
    <3>3. i \in DOMAIN chain
      BY <1>0, <2>2, GapTypes
    <3>4. ~(i <= g)
      <4>1. SUFFICES ASSUME i <= g PROVE FALSE
        OBVIOUS
      <4>2. NonceAt(chain, i - 1) < NonceAt(chain, g)
        BY <3>2, <4>1, NonceAtGrows
      <4> QED BY <2>4, <3>1, <3>2, <4>2
    <3>5. i > g
      BY <3>4
    <3>6. Holds(chain[i].tx, n)
      BY <3>2, <3>3, <3>5 DEF PrunedBelow
    <3> QED BY <3>6 DEF Holds
  <2> QED BY <2>2, <2>4, <2>5 DEF AllHeld
<1> QED BY <1>1, <1>2

\* A row is marked as it was, or now, at a block of the chain.
MarkedWell(id) ==
    \/ /\ id \in DOMAIN rows
       /\ rows'[id].executed = rows[id].executed
       /\ rows'[id].nonce = rows[id].nonce
    \/ /\ rows'[id].nonce # Null
       /\ rows'[id].executed \in Nat
       /\ rows'[id].executed <= Len(chain)
       /\ rows'[id].nonce < NonceAt(chain, rows'[id].executed)

\* A step of the queue at one view of the chain.
LEMMA QuietStep ==
  ASSUME GapInv, OnceInv', UNCHANGED <<chain, highest, reorgs, undone>>, View' = View,
         IF stage' \in {Down, Fresh} THEN status' = NoStatus /\ cache' = Null
                                     ELSE status'.latest = Len(seen'),
         stage' = Marking => cache' = Null,
         status'.safe = status.safe \/ status' = NoStatus,
         queued' \in Nat, queued <= queued',
         \A id \in DOMAIN rows' : id \in DOMAIN rows \/ id > queued,
         SameNonces,
         \A id \in DOMAIN rows' : rows'[id].executed # Null => MarkedWell(id),
         cache' \in {cache, Null} \/ (NonceUsable /\ cache' = Nonce)
  PROVE  GapInv'
<1>1. OnceInv /\ WatcherFollows /\ MarksHold /\ UndoneQueued
  BY DEF GapInv
<1>2. WatcherFollows' /\ \A b : Shared(b)' = Shared(b)
  BY <1>1, ViewStays
<1>3. OneRow => OneRow'
  BY <1>1, SameNoncesOneRow
<1>4. MarksHold'
  <2>1. ASSUME NEW id \in DOMAIN rows', rows'[id].executed # Null
        PROVE  /\ rows'[id].nonce # Null
               /\ rows'[id].executed \in Nat
               /\ id \notin undone => /\ rows'[id].executed <= Len(chain)
                                      /\ rows'[id].nonce < NonceAt(chain, rows'[id].executed)
    BY <1>1, <2>1 DEF MarksHold, MarkedWell
  <2> QED BY <2>1 DEF MarksHold
<1>5. UndoneQueued' /\ (AllKept' => AllKept)
  <2>1. queued \in Nat
    BY <1>1 DEF OnceInv, QueueTyped
  <2>2. \A id \in undone : id \in Nat /\ id <= queued /\ id <= queued'
    BY <1>1, <2>1 DEF UndoneQueued
  <2>3. \A id \in undone : id \in DOMAIN rows' => id \in DOMAIN rows
    BY <2>1, <2>2
  <2> QED BY <2>2, <2>3 DEF UndoneQueued, AllKept
<1>6. ASSUME NEW g \in Nat, PrunedBelow(g) PROVE PrunedBelow(g)'
  <2>1. Shared(g)'
    BY <1>2, <1>6 DEF PrunedBelow
  <2>2. status'.safe <= g
    BY <1>6 DEF PrunedBelow, NoStatus, Null
  <2>3. cache' # Null => cache' >= NonceAt(chain, g) /\ AllHeld(NonceAt(chain, g), cache')
    <3>1. CASE cache' \in {cache, Null}
      BY <1>6, <3>1 DEF PrunedBelow
    <3>2. CASE NonceUsable /\ cache' = Nonce
      BY <1>6, <3>2, NonceCovered
    <3> QED BY <3>1, <3>2
  <2> QED BY <1>1, <1>6, <2>1, <2>2, <2>3, SameNoncesPruned
<1>7. AllKept' => TableFollows'
  BY <1>3, <1>5, <1>6 DEF GapInv, TableFollows
<1> QED BY <1>2, <1>4, <1>5, <1>7 DEF GapInv

\* The stages of a process that has brought the queue up to date once.
Running(s) == s.kind \notin {"down", "fresh"}

\* Which stages these are.
LEMMA RunningStages ==
  /\ Running(Waiting) /\ Running(Marking)
  /\ \A left : Running(Submitting(left))
  /\ \A id, left : Running(Sending(id, left))
  /\ \A todo : Running(Resubmitting(todo))
  /\ \A s : Running(s) => s \notin {Down, Fresh}
  /\ Down # Fresh
  BY DEF Running, Waiting, Marking, Submitting, Sending, Resubmitting, Down, Fresh

\* The nonce is asked for before it is cached.
LEMMA OnlyMarking ==
  /\ Down # Marking /\ Fresh # Marking /\ Waiting # Marking
  /\ \A left : Submitting(left) # Marking
  /\ \A id, left : Sending(id, left) # Marking
  /\ \A todo : Resubmitting(todo) # Marking
  BY DEF Down, Fresh, Waiting, Marking, Submitting, Sending, Resubmitting

\* A running process that keeps seen and status keeps its view.
LEMMA RunningView ==
  ASSUME WatcherFollows, Running(stage), Running(stage)', UNCHANGED <<chain, seen, status>>
  PROVE  /\ View = seen /\ View' = View
         /\ IF stage' \in {Down, Fresh} THEN status' = NoStatus /\ cache' = Null
                                         ELSE status'.latest = Len(seen')
         /\ stage \notin {Down, Fresh} /\ status.latest = Len(seen)
<1>1. stage \notin {Down, Fresh} /\ stage' \notin {Down, Fresh}
  BY RunningStages
<1> QED BY <1>1 DEF WatcherFollows, View

\* The table stays.
LEMMA SameRows ==
  ASSUME rows' = rows, \A n \in DOMAIN mempool' : n \in DOMAIN mempool /\ mempool'[n] = mempool[n]
  PROVE  SameNonces /\ \A id \in DOMAIN rows' : MarkedWell(id)
  BY DEF SameNonces, MarkedWell, Allocated

\* Evict, Start, ResubmitEnds, RequestFails and SubmitEnds.
LEMMA SameRowsGap ==
  ASSUME GapInv, OnceInv',
         \/ \E nonce : Evict(nonce)
         \/ Start \/ ResubmitEnds \/ RequestFails \/ SubmitEnds
  PROVE  GapInv'
<1>0. OnceInv /\ WatcherFollows /\ queued \in Nat
  BY DEF GapInv, OnceInv, QueueTyped
<1>1. ASSUME NEW nonce, Evict(nonce) PROVE GapInv'
  <2>1. UNCHANGED <<chain, highest, reorgs, seen, status, cache, rows, queued, stage, undone>>
    BY <1>1 DEF Evict
  <2>2. \A n \in DOMAIN mempool' : n \in DOMAIN mempool /\ mempool'[n] = mempool[n]
    BY <1>1 DEF Evict, Restrict
  <2>3. View' = View
    BY <2>1 DEF View
  <2> QED BY <1>0, <2>1, <2>2, <2>3, SameRows, QuietStep DEF WatcherFollows
<1>2. CASE Start
  <2>1. UNCHANGED <<chain, highest, reorgs, mempool, rows, queued, undone>>
    BY <1>2 DEF Start, envVars
  <2>2. View' = View /\ status' = NoStatus /\ cache' = Null /\ stage' = Fresh
    BY <1>2, <2>1, RunningStages DEF Start, View
  <2> QED BY <1>0, <2>1, <2>2, OnlyMarking, SameRows, QuietStep
<1>3. CASE ResubmitEnds \/ RequestFails \/ SubmitEnds
  <2>1. UNCHANGED <<chain, highest, reorgs, mempool, rows, queued, seen, status, undone>>
    BY <1>3 DEF ResubmitEnds, RequestFails, SubmitEnds, envVars
  <2>2. Running(stage)
    BY <1>3 DEF ResubmitEnds, RequestFails, SubmitEnds, Running, Resubmitting
  <2>3. Running(stage)' /\ stage' # Marking
    <3>1. stage' = Waiting \/ \E left : stage' = Submitting(left)
      BY <1>3 DEF ResubmitEnds, RequestFails, SubmitEnds, BeginSubmit
    <3>2. Running(stage') /\ stage' # Marking
      BY <3>1, RunningStages, OnlyMarking
    <3> QED BY <3>2 DEF Running
  <2>4. cache' = cache \/ (NonceUsable /\ cache' = Nonce)
    <3>1. CASE SubmitEnds /\ stage.left > 0
      <4>1. NonceKnown /\ cache' = Nonce
        BY <3>1 DEF SubmitEnds
      <4> QED BY <2>2, <4>1, RunningStages DEF NonceUsable
    <3>2. CASE SubmitEnds /\ ~(stage.left > 0)
      BY <3>2 DEF SubmitEnds
    <3>3. CASE ResubmitEnds \/ RequestFails
      BY <3>3 DEF ResubmitEnds, RequestFails
    <3> QED BY <1>3, <3>1, <3>2, <3>3
  <2> QED BY <1>0, <2>1, <2>2, <2>3, <2>4, RunningView, SameRows, QuietStep
<1> QED BY <1>1, <1>2, <1>3

\* mark_executed
LEMMA MarkGap ==
  ASSUME GapInv, OnceInv', Mark
  PROVE  GapInv'
<1>0. OnceInv /\ WatcherFollows /\ queued \in Nat
  BY DEF GapInv, OnceInv, QueueTyped
<1>1. UNCHANGED <<chain, highest, reorgs, mempool, seen, status, queued, undone>>
  BY DEF Mark, envVars
<1>2. Running(stage)
  BY RunningStages DEF Mark
<1>3. Running(stage)' /\ stage' # Marking
  <2>1. Running(stage') /\ stage' # Marking
    BY RunningStages, OnlyMarking DEF Mark
  <2> QED BY <2>1 DEF Running
<1>4. /\ NonceUsable /\ cache' = Nonce /\ Nonce = NonceAt(chain, status.latest)
      /\ status.latest \in Nat /\ status.latest <= Len(chain)
  <2>1. status.latest = Len(View) /\ NonceUsable /\ cache' = Nonce
    BY <1>0, <1>1, <1>2, <1>3, RunningView DEF Mark, NonceUsable
  <2>2. cache = Null
    BY <1>0 DEF Mark, WatcherFollows
  <2> QED BY <1>0, <2>1, <2>2, GapTypes DEF NonceUsable, NonceKnown, Nonce
<1>5. ASSUME NEW id \in DOMAIN rows
      PROVE  rows'[id].nonce = rows[id].nonce
             /\ (rows'[id].executed # Null => MarkedWell(id))
  <2>1. rows' = marked(rows, status.latest, Nonce) /\ rows[id] \in Rows
    BY <1>0 DEF Mark, OnceInv, QueueTyped
  <2>2. CASE /\ rows[id].nonce # Null /\ rows[id].nonce < Nonce
             /\ rows[id].executed = Null
    <3>1. rows'[id] = [rows[id] EXCEPT !.executed = status.latest]
      BY <2>1, <2>2 DEF marked
    <3>2. rows'[id].nonce = rows[id].nonce /\ rows'[id].executed = status.latest
      BY <2>1, <3>1 DEF Rows
    <3> QED BY <1>4, <2>2, <3>2 DEF MarkedWell
  <2>3. CASE ~(/\ rows[id].nonce # Null /\ rows[id].nonce < Nonce
               /\ rows[id].executed = Null)
    <3>1. rows'[id] = rows[id]
      BY <2>1, <2>3 DEF marked
    <3> QED BY <3>1 DEF MarkedWell
  <2> QED BY <2>2, <2>3
<1>6. DOMAIN rows' = DOMAIN rows
  BY DEF Mark, marked
<1>7. SameNonces
  BY <1>1, <1>5, <1>6 DEF SameNonces, Allocated
<1> QED BY <1>0, <1>1, <1>2, <1>3, <1>4, <1>5, <1>6, <1>7, RunningView, QuietStep

\* submit_transaction and record_submission
LEMMA SubmitGap ==
  ASSUME GapInv, OnceInv', Send \/ Resend
  PROVE  GapInv'
<1>0. OnceInv /\ WatcherFollows /\ queued \in Nat
  BY DEF GapInv, OnceInv, QueueTyped
<1>1. UNCHANGED <<chain, highest, reorgs, seen, status, cache, queued, undone>>
  BY DEF Send, Resend
<1>2. PICK id \in Allocated : submit_transaction(id)
  BY <1>0 DEF Send, Resend, OnceInv, QueueTyped
<1>3. Running(stage)
  BY DEF Send, Resend, Running
<1>4. Running(stage)' /\ stage' # Marking
  <2>1. Running(stage') /\ stage' # Marking
    BY RunningStages, OnlyMarking DEF Send, Resend
  <2> QED BY <2>1 DEF Running
<1>5. PICK nonce : nonce = rows[id].nonce
  OBVIOUS
<1>6. /\ DOMAIN rows' = DOMAIN rows
      /\ \A x \in DOMAIN rows : rows'[x].nonce = rows[x].nonce /\ rows'[x].executed = rows[x].executed
  <2>1. ASSUME NEW block PROVE LET u == record_submission(nonce, block)
        IN DOMAIN u = DOMAIN rows
           /\ \A x \in DOMAIN rows : u[x].nonce = rows[x].nonce /\ u[x].executed = rows[x].executed
    BY <1>0 DEF record_submission, Rows, OnceInv, QueueTyped
  <2>2. rows' \in {record_submission(nonce, status.latest), record_submission(nonce, Null), rows}
    BY <1>2, <1>5 DEF submit_transaction
  <2> QED BY <2>1, <2>2
<1>7. \A n \in DOMAIN mempool' : (n = nonce /\ mempool'[n] = id) \/ (n \in DOMAIN mempool /\ mempool'[n] = mempool[n])
  BY <1>2, <1>5 DEF submit_transaction
<1>8. SameNonces
  BY <1>5, <1>6, <1>7 DEF SameNonces, Holds, Allocated
<1>9. \A x \in DOMAIN rows' : MarkedWell(x)
  BY <1>6 DEF MarkedWell
<1> QED BY <1>0, <1>1, <1>3, <1>4, <1>6, <1>8, <1>9, RunningView, QuietStep

\* queue: the new row has no nonce yet.
LEMMA EnqueueGap ==
  ASSUME GapInv, OnceInv', NEW lifetime \in Lifetimes, Enqueue(lifetime)
  PROVE  GapInv'
<1>0. OnceInv /\ WatcherFollows /\ queued \in Nat
  BY DEF GapInv, OnceInv, QueueTyped
<1>1. UNCHANGED <<chain, highest, reorgs, mempool, seen, status, cache, undone>>
  BY DEF Enqueue, envVars
<1>2. PICK id : id = queued + 1 /\ id = queued' /\ queued' \in Nat /\ queued <= queued' /\ id > queued
  BY <1>0 DEF Enqueue
<1>3. /\ DOMAIN rows' = DOMAIN rows \cup {id}
      /\ rows'[id].nonce = Null /\ rows'[id].executed = Null
      /\ \A x \in DOMAIN rows : rows'[x] = rows[x]
  BY <1>0, <1>2 DEF Enqueue, OnceInv, QueueTyped
<1>4. SameNonces
  BY <1>1, <1>3 DEF SameNonces, Allocated
<1>5. \A x \in DOMAIN rows' : rows'[x].executed # Null => MarkedWell(x)
  BY <1>3 DEF MarkedWell
<1>6. CASE stage = Waiting
  <2>1. Running(stage)
    BY <1>6, RunningStages
  <2>2. Running(stage)' /\ stage' # Marking
    <3>1. Running(stage') /\ stage' # Marking
      BY <1>6, RunningStages, OnlyMarking DEF Enqueue, BeginSubmit
    <3> QED BY <3>1 DEF Running
  <2>3. \A x \in DOMAIN rows' : x \in DOMAIN rows \/ x > queued
    BY <1>2, <1>3
  <2> QED BY <1>0, <1>1, <1>2, <1>4, <1>5, <2>1, <2>2, <2>3, RunningView, QuietStep
<1>7. CASE stage = Fresh
  <2>1. stage' = Fresh
    BY <1>7, RunningStages DEF Enqueue
  <2>2. View' = View
    BY <1>1, <1>7, <2>1 DEF View
  <2>3. \A x \in DOMAIN rows' : x \in DOMAIN rows \/ x > queued
    BY <1>2, <1>3
  <2> QED BY <1>0, <1>1, <1>2, <1>4, <1>5, <1>7, <2>1, <2>2, <2>3, OnlyMarking, QuietStep
          DEF WatcherFollows
<1> QED BY <1>6, <1>7 DEF Enqueue

\* next_transaction: the nonce is new to chain and mempool too, and follows
\* on the ones that are held.
LEMMA AllocateGap ==
  ASSUME GapInv, OnceInv', Allocate
  PROVE  GapInv'
<1>0. OnceInv /\ WatcherFollows /\ MarksHold /\ UndoneQueued
  BY DEF GapInv
<1>1. UNCHANGED <<chain, highest, reorgs, mempool, seen, status, queued, undone>> /\ cache' = Nonce
  BY DEF Allocate, envVars
<1>2. PICK id : id = Min(candidates(status.latest))
  OBVIOUS
<1>3. id \in DOMAIN rows /\ rows[id].nonce = Null /\ rows[id] \in Rows
  <2>1. candidates(status.latest) \subseteq Nat /\ candidates(status.latest) # {}
    BY <1>0 DEF candidates, OnceInv, QueueTyped, Allocate
  <2>2. id \in candidates(status.latest)
    BY <1>2, <2>1, MinOfNaturals
  <2> QED BY <1>0, <2>2 DEF candidates, OnceInv, QueueTyped
<1>4. Nonce \in Nat
  BY <1>0, NonceType DEF OnceInv
<1>5. PICK m \in Nat :
        /\ m = freeNonce(Nonce)
        /\ m >= Nonce
        /\ \A x \in Allocated : rows[x].nonce < m
        /\ m = Nonce \/ \E x \in Allocated : m = rows[x].nonce + 1
  BY <1>0, <1>4, FreeNonceFacts DEF OnceInv
<1>6. rows' = [rows EXCEPT ![id].nonce = m] /\ stage' = Sending(id, stage.left - 1)
  BY <1>2, <1>5 DEF Allocate
<1>7. /\ DOMAIN rows' = DOMAIN rows
      /\ \A x \in DOMAIN rows : x # id => rows'[x] = rows[x]
      /\ rows'[id].nonce = m /\ rows'[id].executed = rows[id].executed
  BY <1>3, <1>6 DEF Rows
<1>8. Allocated' = Allocated \cup {id} /\ id \notin Allocated /\ Allocated \subseteq DOMAIN rows
  BY <1>3, <1>5, <1>7 DEF Allocated, Null
<1>9. Running(stage) /\ Running(stage)' /\ stage' # Marking
  <2>1. Running(stage') /\ stage' # Marking
    BY <1>6, RunningStages, OnlyMarking
  <2> QED BY <2>1 DEF Running, Allocate
<1>10. /\ View' = View /\ NonceUsable
       /\ WatcherFollows' /\ \A b : Shared(b)' = Shared(b)
  BY <1>0, <1>1, <1>9, RunningView, ViewStays DEF NonceUsable, Allocate
<1>11. MarksHold' /\ UndoneQueued'
  <2>1. rows[id].executed = Null
    BY <1>0, <1>3 DEF MarksHold
  <2>2. \A x \in DOMAIN rows' : rows'[x].executed # Null => x \in DOMAIN rows /\ rows'[x] = rows[x]
    BY <1>7, <2>1
  <2> QED BY <1>0, <1>1, <2>2 DEF MarksHold, UndoneQueued
<1> SUFFICES ASSUME AllKept PROVE TableFollows'
  BY <1>1, <1>7, <1>10, <1>11 DEF GapInv, AllKept
<1>12. OneRow /\ \E x \in Nat : PrunedBelow(x)
  BY DEF GapInv, TableFollows
<1> PICK g \in Nat : PrunedBelow(g)
  BY <1>12
<1>13. PICK a \in Nat : a = NonceAt(chain, g)
  BY NonceAtType
<1>14. Nonce >= a /\ AllHeld(a, Nonce)
  BY <1>10, <1>13, NonceCovered
<1>15. ASSUME NEW i \in DOMAIN chain, chain[i].tx # 0 PROVE NonceAt(chain, i - 1) # m
  <2>1. i \in Nat \ {0} /\ i - 1 \in Int
    BY <1>0, GapTypes
  <2>2. NonceAt(chain, i - 1) \in Nat
    BY <2>1, NonceAtType
  <2>3. CASE i <= g
    <3>1. NonceAt(chain, i - 1) < a
      BY <1>13, <1>15, <2>1, <2>3, NonceAtGrows
    <3> QED BY <1>4, <1>5, <1>14, <2>2, <3>1
  <2>4. CASE i > g
    <3>1. Holds(chain[i].tx, NonceAt(chain, i - 1))
      BY <1>15, <2>4 DEF PrunedBelow
    <3>2. chain[i].tx \in Allocated /\ rows[chain[i].tx].nonce = NonceAt(chain, i - 1)
      BY <2>2, <3>1 DEF Holds, Allocated, Null
    <3> QED BY <1>5, <2>2, <3>2
  <2> QED BY <2>1, <2>3, <2>4
<1>16. m \notin DOMAIN mempool
  <2>1. SUFFICES ASSUME m \in DOMAIN mempool PROVE FALSE
    OBVIOUS
  <2>2. m >= a
    BY <1>4, <1>5, <1>14
  <2>3. Holds(mempool[m], m)
    BY <1>13, <2>1, <2>2 DEF PrunedBelow
  <2>4. mempool[m] \in Allocated /\ rows[mempool[m]].nonce = m
    BY <2>3 DEF Holds, Allocated, Null
  <2> QED BY <1>5, <2>4
<1>17. OneRow'
  <2>1. ASSUME NEW x \in Allocated' PROVE
           /\ \A other \in Allocated' : rows'[other].nonce = rows'[x].nonce => other = x
           /\ \A i \in DOMAIN chain :
                 chain[i].tx # 0 /\ NonceAt(chain, i - 1) = rows'[x].nonce => chain[i].tx = x
           /\ rows'[x].nonce \in DOMAIN mempool => mempool[rows'[x].nonce] = x
    <3>1. \A y \in Allocated : y # id /\ rows'[y].nonce = rows[y].nonce /\ rows'[y].nonce # m
      BY <1>5, <1>7, <1>8
    <3>2. CASE x = id
      BY <1>7, <1>8, <1>15, <1>16, <3>1, <3>2
    <3>3. CASE x \in Allocated
      BY <1>7, <1>8, <1>12, <3>1, <3>3 DEF OneRow
    <3> QED BY <1>8, <3>2, <3>3
  <2> QED BY <1>1, <2>1 DEF OneRow
<1>18. \A x, n : n \in Nat /\ Holds(x, n) => x \in DOMAIN rows' /\ rows'[x].nonce = n
  BY <1>3, <1>7 DEF Holds, Null
<1>19. ASSUME NEW b \in Int, AllHeld(a, b)
       PROVE  \A n \in a .. b - 1 : \E x \in DOMAIN rows' : rows'[x].nonce = n
  <2>1. \A n \in a .. b - 1 : n \in Nat
    OBVIOUS
  <2> QED BY <1>18, <1>19, <2>1 DEF AllHeld
<1>20. ASSUME NEW x \in Allocated
       PROVE  rows[x].nonce \in Nat /\ AllHeld(a, rows[x].nonce)
  BY <1>0, <1>13 DEF Allocated, OnceInv, QueueTyped, Rows, PrunedBelow
<1>21. \A n \in a .. m - 1 : \E x \in DOMAIN rows' : rows'[x].nonce = n
  <2>1. CASE m = Nonce
    BY <1>14, <1>19, <2>1
  <2>2. ASSUME NEW y \in Allocated, m = rows[y].nonce + 1, NEW n \in a .. m - 1
        PROVE  \E x \in DOMAIN rows' : rows'[x].nonce = n
    <3>1. n \in a .. rows[y].nonce - 1 \/ n = rows[y].nonce
      BY <1>20, <2>2
    <3>2. y \in DOMAIN rows' /\ rows'[y].nonce = rows[y].nonce
      BY <1>7, <1>8
    <3>3. CASE n \in a .. rows[y].nonce - 1
      BY <1>19, <1>20, <3>3
    <3> QED BY <3>1, <3>2, <3>3
  <2> QED BY <1>5, <2>1, <2>2
<1>22. \A x \in Allocated' : \A n \in a .. rows'[x].nonce - 1 : \E y \in DOMAIN rows' : rows'[y].nonce = n
  <2>1. ASSUME NEW x \in Allocated
        PROVE  \A n \in a .. rows'[x].nonce - 1 : \E y \in DOMAIN rows' : rows'[y].nonce = n
    <3>1. rows'[x].nonce = rows[x].nonce
      BY <1>7, <1>8
    <3> QED BY <1>19, <1>20, <3>1
  <2> QED BY <1>7, <1>8, <1>21, <2>1
<1>23. \A n \in a .. cache' - 1 : \E y \in DOMAIN rows' : rows'[y].nonce = n
  BY <1>1, <1>4, <1>14, <1>19
<1>24. ASSUME NEW i \in DOMAIN chain, i > g, chain[i].tx # 0
       PROVE  chain[i].tx \in DOMAIN rows' /\ rows'[chain[i].tx].nonce = NonceAt(chain, i - 1)
  <2>1. NonceAt(chain, i - 1) \in Nat
    BY <1>0, GapTypes, NonceAtType, i - 1 \in Int
  <2> QED BY <1>18, <1>24, <2>1 DEF PrunedBelow
<1>25. ASSUME NEW n \in DOMAIN mempool, n >= a
       PROVE  mempool[n] \in DOMAIN rows' /\ rows'[mempool[n]].nonce = n
  BY <1>0, <1>13, <1>18, <1>25 DEF PrunedBelow, OnceInv, QueueTyped
<1>26. g \in 0 .. SafeNumber(highest) /\ Shared(g)' /\ status.safe <= g
  BY <1>10 DEF PrunedBelow
<1>27. PrunedBelow(g)'
  BY <1>1, <1>10, <1>13, <1>14, <1>22, <1>23, <1>24, <1>25, <1>26 DEF PrunedBelow, AllHeld, Holds
<1> QED BY <1>17, <1>27 DEF TableFollows

----------------------------------------------------------------------------
(* A new view of the chain                                                 *)

\* What is shared is shared from the start.
LEMMA SharedBelow ==
  ASSUME NEW b \in Int, Shared(b), NEW a \in Int, a <= b, Len(chain) \in Nat
  PROVE  Shared(a)
  BY DEF Shared

\* What is dropped was executed at a height that is final.
DroppedFinal ==
    \A id \in Allocated : id \notin DOMAIN rows' =>
        rows[id].executed # Null /\ rows[id].executed <= SafeNumber(highest)

\* The height h is final now, and covers what was pruned before and what is
\* dropped now.
Covers(g, h) ==
    /\ g <= h /\ h <= SafeNumber(highest)
    /\ Shared(h)' /\ status'.safe <= h
    /\ \A id \in Allocated : id \notin DOMAIN rows' =>
        rows[id].executed # Null /\ rows[id].executed <= h

\* The queue learns of another view.  It takes the marks back of the rows that
\* are not undone any more, and drops none of these.
LEMMA MoveGap ==
  ASSUME GapInv, OnceInv', WatcherFollows',
         UNCHANGED <<chain, highest, mempool, queued>>, cache' = Null,
         KeepsNonces(rows, rows'),
         \A id \in DOMAIN rows' : rows'[id].executed # Null =>
            rows'[id].executed = rows[id].executed /\ (id \in undone => id \in undone'),
         undone' \subseteq undone,
         \A id \in undone : id \in undone' \/ id \in DOMAIN rows',
         \A g \in Nat : PrunedBelow(g) => \E h \in Nat : Covers(g, h)
  PROVE  GapInv' /\ (AllKept => DroppedFinal)
<1>0. OnceInv /\ WatcherFollows /\ MarksHold /\ UndoneQueued
  BY DEF GapInv
<1>1. /\ \A id \in DOMAIN rows' : id \in DOMAIN rows /\ rows'[id].nonce = rows[id].nonce
      /\ Allocated' \subseteq Allocated
  BY DEF KeepsNonces, Allocated
<1>2. MarksHold'
  <2>1. ASSUME NEW id \in DOMAIN rows', rows'[id].executed # Null
        PROVE  /\ rows'[id].nonce # Null
               /\ rows'[id].executed \in Nat
               /\ id \notin undone' => /\ rows'[id].executed <= Len(chain)
                                       /\ rows'[id].nonce < NonceAt(chain, rows'[id].executed)
    BY <1>0, <1>1, <2>1 DEF MarksHold
  <2> QED BY <2>1 DEF MarksHold
<1>3. UndoneQueued' /\ (AllKept' => AllKept)
  BY <1>0, <1>1 DEF UndoneQueued, AllKept
<1>4. AllKept => DroppedFinal
  <2>1. SUFFICES ASSUME AllKept, NEW id \in Allocated, id \notin DOMAIN rows'
                 PROVE  rows[id].executed # Null /\ rows[id].executed <= SafeNumber(highest)
    BY DEF DroppedFinal
  <2>2. PICK g \in Nat : PrunedBelow(g)
    BY <2>1 DEF GapInv, TableFollows
  <2>3. PICK h \in Nat : Covers(g, h)
    BY <2>2
  <2>4. rows[id].executed # Null /\ rows[id].executed <= h /\ h <= SafeNumber(highest)
    BY <2>1, <2>3 DEF Covers
  <2>5. rows[id].executed \in Int /\ SafeNumber(highest) \in Nat
    BY <1>0, GapTypes DEF Allocated, OnceInv, QueueTyped, Rows
  <2> QED BY <2>4, <2>5
<1> SUFFICES ASSUME AllKept' PROVE TableFollows'
  BY <1>2, <1>3, <1>4 DEF GapInv
<1>5. AllKept /\ OneRow /\ \E g \in Nat : PrunedBelow(g)
  BY <1>3 DEF GapInv, TableFollows
<1> PICK g \in Nat : PrunedBelow(g)
  BY <1>5
<1> PICK h \in Nat : Covers(g, h)
  OBVIOUS
<1>6. OneRow'
  BY <1>1, <1>5 DEF OneRow, Allocated
<1>7. PICK p \in Nat : p = NonceAt(chain, g)
  BY NonceAtType
<1>8. PICK q \in Nat : q = NonceAt(chain, h)
  BY NonceAtType
<1>9. p <= q
  BY <1>7, <1>8, NonceAtMonotone DEF Covers
<1>10. ASSUME NEW id, NEW n \in Nat, Holds(id, n), n >= q
       PROVE  id \in DOMAIN rows' /\ rows'[id].nonce = n
  <2>1. id \in Allocated /\ id \in DOMAIN rows /\ rows[id].nonce = n
    BY <1>10 DEF Holds, Allocated, Null
  <2>2. id \in DOMAIN rows'
    <3>1. SUFFICES ASSUME id \notin DOMAIN rows' PROVE FALSE
      OBVIOUS
    <3>2. PICK b : b = rows[id].executed
      OBVIOUS
    <3>3. id \notin undone
      BY <3>1 DEF AllKept
    <3>4. b \in Nat /\ b <= h /\ n < NonceAt(chain, b)
      BY <1>0, <2>1, <3>1, <3>2, <3>3 DEF MarksHold, Covers
    <3>5. NonceAt(chain, b) <= q /\ NonceAt(chain, b) \in Nat
      BY <1>8, <3>4, NonceAtMonotone, NonceAtType
    <3> QED BY <1>10, <3>4, <3>5
  <2> QED BY <1>1, <2>1, <2>2
<1>11. ASSUME NEW i \in DOMAIN chain, i > h, chain[i].tx # 0
       PROVE  chain[i].tx \in DOMAIN rows' /\ rows'[chain[i].tx].nonce = NonceAt(chain, i - 1)
  <2>1. i \in Int /\ i > g /\ i - 1 \in Int /\ i - 1 >= h
    BY <1>0, <1>11, GapTypes DEF Covers
  <2>2. NonceAt(chain, i - 1) \in Nat /\ NonceAt(chain, i - 1) >= q
    BY <1>8, <2>1, NonceAtType, NonceAtMonotone
  <2>3. Holds(chain[i].tx, NonceAt(chain, i - 1))
    BY <1>11, <2>1 DEF PrunedBelow
  <2> QED BY <1>10, <2>2, <2>3
<1>12. ASSUME NEW n \in DOMAIN mempool, n >= q
       PROVE  mempool[n] \in DOMAIN rows' /\ rows'[mempool[n]].nonce = n
  <2>1. n \in Nat
    BY <1>0 DEF OnceInv, QueueTyped
  <2>2. Holds(mempool[n], n)
    BY <1>7, <1>9, <1>12, <2>1 DEF PrunedBelow
  <2> QED BY <1>10, <1>12, <2>1, <2>2
<1>13. ASSUME NEW id \in Allocated'
       PROVE  \A n \in q .. rows'[id].nonce - 1 : \E x \in DOMAIN rows' : rows'[x].nonce = n
  <2>1. id \in Allocated /\ rows[id].nonce \in Int /\ rows'[id].nonce = rows[id].nonce
    BY <1>0, <1>1 DEF Allocated, OnceInv, QueueTyped, Rows
  <2>2. AllHeld(p, rows[id].nonce)
    BY <1>7, <2>1 DEF PrunedBelow
  <2>3. ASSUME NEW n \in q .. rows[id].nonce - 1
        PROVE  \E x \in DOMAIN rows' : rows'[x].nonce = n
    <3>1. n \in Nat /\ n >= q /\ n \in p .. rows[id].nonce - 1
      BY <1>9, <2>1
    <3>2. PICK x : Holds(x, n)
      BY <2>2, <3>1 DEF AllHeld
    <3> QED BY <1>10, <3>1, <3>2
  <2> QED BY <2>1, <2>3
<1>14. PrunedBelow(h)'
  <2>1. h \in 0 .. SafeNumber(highest')
    BY <1>0, GapTypes DEF Covers
  <2> QED BY <1>8, <1>11, <1>12, <1>13, <2>1 DEF PrunedBelow, AllHeld, Holds, Covers
<1> QED BY <1>6, <1>14 DEF TableFollows

\* Stop: the chain is what the process will read when it starts again.
LEMMA StopGap ==
  ASSUME GapInv, OnceInv', Stop
  PROVE  GapInv'
<1>0. OnceInv /\ WatcherFollows /\ chain \in Seq(ChainBlocks)
  BY DEF GapInv, OnceInv, QueueTyped
<1>1. PICK k \in Nat : k = Len(chain)
  BY <1>0
<1>2. /\ View' = chain
      /\ UNCHANGED <<chain, highest, reorgs, mempool, rows, queued, undone>>
      /\ status' = NoStatus /\ cache' = Null /\ stage' = Down
  BY DEF Stop, View, envVars
<1>3. \A b \in Int : b <= k => Shared(b)'
  BY <1>1, <1>2 DEF Shared
<1>4. WatcherFollows'
  <2>1. SafeNumber(k) \in Int /\ SafeNumber(k) <= k
    BY QueueAssumption DEF SafeNumber
  <2>2. Shared(SafeNumber(Len(View)))'
    BY <1>1, <1>2, <1>3, <2>1
  <2>3. highest \in Nat /\ k <= highest /\ SafeNumber(highest) <= k
    BY <1>0, <1>1 DEF WatcherFollows
  <2> QED BY <1>1, <1>2, <2>2, <2>3, OnlyMarking DEF WatcherFollows
<1>5. ASSUME NEW g \in Nat, PrunedBelow(g) PROVE Covers(g, g)
  <2>1. g <= SafeNumber(highest) /\ SafeNumber(highest) <= k /\ SafeNumber(highest) \in Nat
    BY <1>0, <1>1, <1>5, GapTypes DEF PrunedBelow, WatcherFollows
  <2>2. Shared(g)' /\ NoStatus.safe <= g
    BY <1>3, <2>1 DEF NoStatus, Null
  <2> QED BY <1>2, <2>1, <2>2 DEF Covers, Allocated
<1>6. KeepsNonces(rows, rows')
  BY <1>0, <1>2 DEF KeepsNonces, OnceInv, QueueTyped
<1>7. \A id \in undone : id \in undone'
  BY <1>2
<1> QED BY <1>2, <1>4, <1>5, <1>6, <1>7, MoveGap

\* What update_block_status does to the table: it drops rows that are executed
\* at a height that is final now, and takes marks back.
LEMMA UpdateTable ==
  ASSUME \A id \in DOMAIN rows : rows[id] \in Rows,
         NEW now \in [latest : Int, safe : Int], update_block_status(now)
  PROVE  /\ \A id \in DOMAIN rows' : rows'[id].executed # Null =>
              rows'[id].executed = rows[id].executed
         /\ \A id \in Allocated : id \notin DOMAIN rows' =>
              /\ status.safe # now.safe
              /\ rows[id].executed # Null /\ rows[id].executed <= now.safe
         /\ status = NoStatus => \A id \in DOMAIN rows' :
              rows'[id].executed # Null => rows'[id].executed <= now.safe
         /\ status # NoStatus /\ status.latest > now.latest => \A id \in DOMAIN rows' :
              rows'[id].executed # Null => rows'[id].executed <= now.latest
<1>1. PICK t : t = IF status.safe # now.safe THEN pruned(rows, now.safe) ELSE rows
  OBVIOUS
<1>2. now.safe \in Int /\ now.latest \in Int
  OBVIOUS
<1>3. DOMAIN t \subseteq DOMAIN rows /\ \A id \in DOMAIN t : t[id] = rows[id]
  BY <1>1 DEF pruned, Restrict
<1>4. \A id \in DOMAIN rows : id \notin DOMAIN t =>
        /\ status.safe # now.safe
        /\ \/ ~(rows[id].executed = Null \/ rows[id].executed > now.safe)
           \/ rows[id].nonce = Null
  BY <1>1 DEF pruned, Restrict
<1>5. \A id \in DOMAIN rows : rows[id].executed \in Int
  BY DEF Rows
<1>6. \A id \in Allocated : id \notin DOMAIN t =>
        /\ status.safe # now.safe
        /\ rows[id].executed # Null /\ rows[id].executed <= now.safe
  BY <1>2, <1>4, <1>5 DEF Allocated
<1>7. ASSUME NEW b \in Int
      PROVE  /\ DOMAIN unmarked(t, b + 1) = DOMAIN t
             /\ \A id \in DOMAIN t :
                  \/ unmarked(t, b + 1)[id].executed = Null
                  \/ /\ unmarked(t, b + 1)[id].executed = rows[id].executed
                     /\ rows[id].executed <= b
  <2>1. DOMAIN unmarked(t, b + 1) = DOMAIN t
    BY DEF unmarked
  <2>2. ASSUME NEW id \in DOMAIN t
        PROVE  \/ unmarked(t, b + 1)[id].executed = Null
               \/ /\ unmarked(t, b + 1)[id].executed = rows[id].executed
                  /\ rows[id].executed <= b
    <3>1. t[id] = rows[id] /\ t[id] \in Rows /\ rows[id].executed \in Int
      BY <1>3, <1>5
    <3>2. CASE t[id].executed >= b + 1
      BY <3>1, <3>2 DEF unmarked, Rows
    <3>3. CASE ~(t[id].executed >= b + 1)
      BY <3>1, <3>3 DEF unmarked
    <3> QED BY <3>2, <3>3
  <2> QED BY <2>1, <2>2
<1>8. rows' = IF status = NoStatus THEN unmarked(t, now.safe + 1)
              ELSE IF status.latest > now.latest THEN unmarked(t, now.latest + 1) ELSE t
  BY <1>1 DEF update_block_status
<1>9. CASE status = NoStatus
  BY <1>2, <1>6, <1>7, <1>8, <1>9
<1>10. CASE status # NoStatus /\ status.latest > now.latest
  BY <1>2, <1>6, <1>7, <1>8, <1>10
<1>11. CASE status # NoStatus /\ ~(status.latest > now.latest)
  BY <1>3, <1>6, <1>8, <1>11
<1> QED BY <1>9, <1>10, <1>11

\* And to the rest.
LEMMA UpdateRest ==
  ASSUME NEW now, update_block_status(now)
  PROVE  /\ status' = now
         /\ status.latest # now.latest => cache' = Null
         /\ Running(stage)' /\ View' = seen'
         /\ stage' = Marking => status.latest < now.latest
         /\ UNCHANGED <<chain, highest, reorgs, mempool, queued>>
<1>1. stage' \in {Marking, Waiting}
  BY DEF update_block_status
<1>2. Running(stage)'
  BY <1>1, RunningStages DEF Running
<1>3. stage' # Down
  BY <1>1 DEF Marking, Waiting, Down
<1>4. stage' = Marking => status.latest < now.latest
  BY OnlyMarking DEF update_block_status
<1> QED BY <1>2, <1>3, <1>4 DEF update_block_status, envVars, View

\* Where the watcher's copy is after an update.
LEMMA UpdateFollows ==
  ASSUME OnceInv, WatcherFollows, NEW now \in [latest : Int, safe : Int],
         update_block_status(now), now.latest = Len(seen'),
         seen' \in Seq(ChainBlocks), Len(seen') <= highest,
         NEW s, s = SafeNumber(Len(seen')), s <= Len(chain), s <= Len(seen'),
         \A k \in 1 .. s : seen'[k] = chain[k]
  PROVE  WatcherFollows'
<1>1. /\ View' = seen' /\ status' = now /\ UNCHANGED <<chain, highest, reorgs>>
      /\ stage' \notin {Down, Fresh}
  BY UpdateRest, RunningStages DEF Running
<1>2. Shared(SafeNumber(Len(View)))'
  BY <1>1 DEF Shared
<1>3. stage' = Marking => cache' = Null
  <2>1. SUFFICES ASSUME stage' = Marking PROVE cache' = Null
    OBVIOUS
  <2>2. status.latest < now.latest /\ status.latest \in Int /\ now.latest \in Int
    BY <2>1, UpdateRest DEF OnceInv, QueueTyped
  <2>3. status.latest # now.latest
    BY <2>2
  <2> QED BY <2>3, UpdateRest
<1> QED BY <1>1, <1>2, <1>3 DEF WatcherFollows

\* ObserveNew: one block more of the chain.
LEMMA ObserveNewGap ==
  ASSUME GapInv, OnceInv', ObserveNew
  PROVE  GapInv' /\ (AllKept => DroppedFinal)
<1>0. OnceInv /\ WatcherFollows /\ chain \in Seq(ChainBlocks) /\ seen \in Seq(ChainBlocks)
      /\ status.safe \in Int
  BY DEF GapInv, OnceInv, QueueTyped
<1>1. PICK l \in Nat : l = Len(seen)
  BY <1>0
<1>2. PICK k \in Nat : k = Len(chain)
  BY <1>0
<1>3. Running(stage) /\ stage \notin {Down, Fresh}
  BY RunningStages DEF ObserveNew
<1>4. View = seen /\ status.latest = l
  BY <1>0, <1>1, <1>3 DEF WatcherFollows, View
<1>5. l < k /\ \A i \in 1 .. l : seen[i] = chain[i]
  BY <1>0, <1>1, <1>2, PrefixElements DEF ObserveNew
<1>6. seen' = SubSeq(chain, 1, l + 1)
  BY <1>1 DEF ObserveNew
<1>7. seen' \in Seq(ChainBlocks) /\ Len(seen') = l + 1 /\ \A i \in 1 .. l + 1 : seen'[i] = chain[i]
  BY <1>0, <1>2, <1>5, <1>6
<1>8. PICK s \in Nat : s = SafeNumber(l + 1)
  BY SafeNumberType
<1>9. s <= l + 1 /\ s <= SafeNumber(highest) /\ l + 1 <= highest
  <2>1. highest \in Nat /\ k <= highest
    BY <1>0, <1>2 DEF WatcherFollows
  <2> QED BY <1>5, <1>8, <2>1, QueueAssumption DEF SafeNumber
<1>10. PICK f : f = Max({status.safe, s})
  OBVIOUS
<1>11. f = status.safe \/ f = s
  BY <1>0, <1>10, MaxOfTwo
<1>12. PICK now : now = [latest |-> l + 1, safe |-> f]
  OBVIOUS
<1>13. now \in [latest : Int, safe : Int] /\ update_block_status(now)
  <2>1. f \in Int
    BY <1>0, <1>11
  <2>2. StatusOf(seen', Max({status.safe, SafeNumber(Len(seen'))})) = now
    BY <1>7, <1>8, <1>10, <1>12 DEF StatusOf
  <2> QED BY <1>12, <2>1, <2>2 DEF ObserveNew
<1>14. WatcherFollows'
  <2>1. /\ s = SafeNumber(Len(seen')) /\ s <= Len(chain) /\ s <= Len(seen')
        /\ \A i \in 1 .. s : seen'[i] = chain[i]
    BY <1>2, <1>5, <1>7, <1>8, <1>9
  <2>2. Len(seen') <= highest /\ now.latest = Len(seen')
    BY <1>7, <1>9, <1>12
  <2> QED BY <1>0, <1>7, <1>13, <2>1, <2>2, UpdateFollows
<1>15. /\ status' = now /\ cache' = Null /\ View' = seen'
       /\ UNCHANGED <<chain, highest, reorgs, mempool, queued>>
  BY <1>1, <1>4, <1>12, <1>13, UpdateRest
<1>16. undone' = undone
  BY DEF ObserveNew
<1>17. KeepsNonces(rows, rows')
  BY <1>0, <1>13, UpdateKeepsNonces DEF OnceInv, QueueTyped
<1>18. /\ \A id \in DOMAIN rows' : rows'[id].executed # Null => rows'[id].executed = rows[id].executed
       /\ \A id \in Allocated : id \notin DOMAIN rows' =>
            rows[id].executed # Null /\ rows[id].executed <= f
  BY <1>0, <1>12, <1>13, UpdateTable DEF OnceInv, QueueTyped
<1>19. ASSUME NEW g \in Nat, PrunedBelow(g) PROVE \E h \in Nat : Covers(g, h)
  <2>1. g <= l /\ g <= SafeNumber(highest) /\ status.safe <= g /\ SafeNumber(highest) \in Nat
    BY <1>0, <1>1, <1>4, <1>19, GapTypes DEF PrunedBelow, Shared
  <2>2. PICK h \in Nat : h = IF g >= s THEN g ELSE s
    OBVIOUS
  <2>3. g <= h /\ h <= SafeNumber(highest) /\ h <= l + 1 /\ f <= h
    BY <1>0, <1>9, <1>11, <2>1, <2>2
  <2>4. Shared(h)'
    BY <1>2, <1>5, <1>7, <1>15, <2>3 DEF Shared
  <2>5. \A id \in Allocated : id \notin DOMAIN rows' =>
          rows[id].executed # Null /\ rows[id].executed <= h
    <3>1. \A id \in Allocated : rows[id].executed \in Int
      BY <1>0 DEF Allocated, OnceInv, QueueTyped, Rows
    <3>2. f \in Int
      BY <1>0, <1>11
    <3> QED BY <1>18, <2>3, <3>1, <3>2
  <2>6. status'.safe <= h
    BY <1>12, <1>15, <2>3
  <2> QED BY <2>3, <2>4, <2>5, <2>6 DEF Covers
<1> QED BY <1>14, <1>15, <1>16, <1>17, <1>18, <1>19, MoveGap

\* ObserveUncle: the last block goes, and it was not shared.
LEMMA ObserveUncleGap ==
  ASSUME GapInv, OnceInv', ObserveUncle
  PROVE  GapInv' /\ (AllKept => DroppedFinal)
<1>0. OnceInv /\ WatcherFollows /\ chain \in Seq(ChainBlocks) /\ seen \in Seq(ChainBlocks)
      /\ status.safe \in Int
  BY DEF GapInv, OnceInv, QueueTyped
<1>1. PICK l \in Nat : l = Len(seen)
  BY <1>0
<1>2. PICK k \in Nat : k = Len(chain)
  BY <1>0
<1>3. Running(stage) /\ stage \notin {Down, Fresh}
  BY RunningStages DEF ObserveUncle
<1>4. View = seen /\ status.latest = l
  BY <1>0, <1>1, <1>3 DEF WatcherFollows, View
<1>5. k < l \/ \E d \in 1 .. l : seen[d] # chain[d]
  BY <1>0, <1>1, <1>2, PrefixElements DEF ObserveUncle
<1>6. PICK m \in Nat : m = l - 1
  BY <1>5
<1>7. seen' \in Seq(ChainBlocks) /\ Len(seen') = m /\ \A i \in 1 .. m : seen'[i] = seen[i]
  <2>1. seen' = SubSeq(seen, 1, m)
    BY <1>1, <1>6 DEF ObserveUncle, Front
  <2> QED BY <1>0, <1>1, <1>6, <2>1
<1>8. \A b \in Int : Shared(b) => b <= m
  <2>1. SUFFICES ASSUME NEW b \in Int, Shared(b), b > m PROVE FALSE
    BY <1>6
  <2>2. b >= l /\ b <= k /\ \A i \in 1 .. b : seen[i] = chain[i]
    BY <1>2, <1>4, <1>6, <2>1 DEF Shared
  <2> QED BY <1>5, <2>2
<1>9. PICK s \in Nat : s = SafeNumber(m)
  BY SafeNumberType
<1>10. s <= m /\ Shared(s)
  <2>1. SafeNumber(l) \in Nat /\ s <= SafeNumber(l) /\ s <= m
    BY <1>6, <1>9, QueueAssumption DEF SafeNumber
  <2>2. Shared(SafeNumber(l))
    BY <1>0, <1>1, <1>4 DEF WatcherFollows
  <2> QED BY <1>0, <2>1, <2>2, GapTypes, SharedBelow
<1>11. PICK now : now = [latest |-> m, safe |-> status.safe]
  OBVIOUS
<1>12. now \in [latest : Int, safe : Int] /\ update_block_status(now)
  BY <1>0, <1>7, <1>11 DEF ObserveUncle, StatusOf
<1>13. WatcherFollows'
  <2>1. s = SafeNumber(Len(seen')) /\ s <= Len(chain) /\ s <= Len(seen')
    BY <1>7, <1>9, <1>10 DEF Shared
  <2>2. \A i \in 1 .. s : seen'[i] = chain[i]
    BY <1>4, <1>7, <1>10 DEF Shared
  <2>3. Len(seen') <= highest /\ now.latest = Len(seen')
    <3>1. l <= highest /\ highest \in Nat
      BY <1>0, <1>1, <1>4 DEF WatcherFollows
    <3> QED BY <1>6, <1>7, <1>11, <3>1
  <2> QED BY <1>0, <1>7, <1>12, <2>1, <2>2, <2>3, UpdateFollows
<1>14. /\ status' = now /\ cache' = Null /\ View' = seen'
       /\ UNCHANGED <<chain, highest, reorgs, mempool, queued>>
  BY <1>4, <1>6, <1>11, <1>12, UpdateRest
<1>15. \A b \in 0 .. m : Shared(b) => Shared(b)'
  BY <1>4, <1>7, <1>14 DEF Shared
<1>16. /\ \A id \in DOMAIN rows' : rows'[id].executed # Null =>
            rows'[id].executed = rows[id].executed /\ rows'[id].executed <= m
       /\ \A id \in Allocated : id \in DOMAIN rows'
       /\ DOMAIN rows' = DOMAIN rows
  <2>1. status # NoStatus /\ status.latest > now.latest /\ status.safe = now.safe /\ now.latest = m
    BY <1>4, <1>6, <1>11 DEF NoStatus, Null
  <2>2. \A id \in DOMAIN rows : rows[id] \in Rows
    BY <1>0 DEF OnceInv, QueueTyped
  <2>3. DOMAIN rows' = DOMAIN rows
    BY <1>12, <2>1 DEF update_block_status, unmarked
  <2> QED BY <1>12, <2>1, <2>2, <2>3, UpdateTable
<1>17. undone' = undone \ MarkedFrom(l)
  BY <1>1 DEF ObserveUncle
<1>18. \A id \in DOMAIN rows' : rows'[id].executed # Null =>
          rows'[id].executed = rows[id].executed /\ (id \in undone => id \in undone')
  <2>1. \A id \in DOMAIN rows : rows[id].executed \in Int
    BY <1>0 DEF OnceInv, QueueTyped, Rows
  <2> QED BY <1>6, <1>16, <1>17, <2>1 DEF MarkedFrom
<1>19. undone' \subseteq undone /\ \A id \in undone : id \in undone' \/ id \in DOMAIN rows'
  BY <1>16, <1>17 DEF MarkedFrom
<1>20. KeepsNonces(rows, rows')
  BY <1>0, <1>12, UpdateKeepsNonces DEF OnceInv, QueueTyped
<1>21. ASSUME NEW g \in Nat, PrunedBelow(g) PROVE Covers(g, g)
  <2>1. g <= SafeNumber(highest) /\ Shared(g) /\ status.safe <= g
    BY <1>0, <1>21, GapTypes DEF PrunedBelow
  <2>2. g \in 0 .. m
    BY <1>8, <2>1
  <2> QED BY <1>11, <1>14, <1>15, <1>16, <2>1, <2>2 DEF Covers
<1> QED BY <1>13, <1>14, <1>18, <1>19, <1>20, <1>21, MoveGap

\* FirstUpdate: what was marked above the final height is read again.
LEMMA FirstUpdateGap ==
  ASSUME GapInv, OnceInv', FirstUpdate
  PROVE  GapInv' /\ (AllKept => DroppedFinal)
<1>0. OnceInv /\ WatcherFollows /\ chain \in Seq(ChainBlocks) /\ seen \in Seq(ChainBlocks)
  BY DEF GapInv, OnceInv, QueueTyped
<1>1. PICK l \in Nat : l = Len(seen)
  BY <1>0
<1>2. View = seen /\ status = NoStatus
  BY <1>0, RunningStages DEF FirstUpdate, WatcherFollows, View
<1>3. PICK s \in Nat : s = SafeNumber(l)
  BY SafeNumberType
<1>4. s <= l /\ s <= SafeNumber(highest) /\ Shared(s)
  BY <1>0, <1>1, <1>2, <1>3, GapTypes DEF WatcherFollows
<1>5. PICK now : now = [latest |-> l, safe |-> s]
  OBVIOUS
<1>6. now \in [latest : Int, safe : Int] /\ update_block_status(now) /\ seen' = seen
  BY <1>1, <1>3, <1>5 DEF FirstUpdate, StatusOf
<1>7. /\ status' = now /\ cache' = Null /\ View' = View
      /\ UNCHANGED <<chain, highest, reorgs, mempool, queued>>
  BY <1>2, <1>5, <1>6, UpdateRest DEF NoStatus, Null
<1>8. /\ WatcherFollows' /\ \A b : Shared(b)' = Shared(b)
  <2>1. stage' \notin {Down, Fresh}
    BY <1>6, UpdateRest, RunningStages DEF Running
  <2>2. status'.latest = Len(seen')
    BY <1>1, <1>5, <1>6, <1>7
  <2> QED BY <1>0, <1>7, <2>1, <2>2, ViewStays
<1>9. KeepsNonces(rows, rows')
  BY <1>0, <1>6, UpdateKeepsNonces DEF OnceInv, QueueTyped
<1>10. /\ \A id \in DOMAIN rows' : rows'[id].executed # Null =>
            rows'[id].executed = rows[id].executed /\ rows'[id].executed <= s
       /\ \A id \in Allocated : id \notin DOMAIN rows' =>
            rows[id].executed # Null /\ rows[id].executed <= s
  BY <1>0, <1>2, <1>5, <1>6, UpdateTable DEF OnceInv, QueueTyped
<1>11. undone' = undone \ MarkedFrom(s + 1)
  BY <1>1, <1>3 DEF FirstUpdate
<1>12. \A id \in DOMAIN rows : rows[id].executed \in Int
  BY <1>0 DEF OnceInv, QueueTyped, Rows
<1>13. \A id \in DOMAIN rows' : rows'[id].executed # Null =>
          rows'[id].executed = rows[id].executed /\ (id \in undone => id \in undone')
  BY <1>10, <1>11, <1>12 DEF MarkedFrom
<1>14. undone' \subseteq undone /\ \A id \in undone : id \in undone' \/ id \in DOMAIN rows'
  <2>1. SUFFICES ASSUME NEW id \in DOMAIN rows, rows[id].executed >= s + 1 PROVE id \in DOMAIN rows'
    BY <1>11 DEF MarkedFrom
  <2>2. rows[id].executed # Null
    BY <1>12, <2>1 DEF Null
  <2>3. rows[id].nonce # Null
    BY <2>2 DEF GapInv, MarksHold
  <2> QED BY <1>10, <1>12, <2>1, <2>3 DEF Allocated
<1>15. ASSUME NEW g \in Nat, PrunedBelow(g) PROVE \E h \in Nat : Covers(g, h)
  <2>1. g <= SafeNumber(highest) /\ Shared(g)
    BY <1>0, <1>15, GapTypes DEF PrunedBelow
  <2>2. PICK h \in Nat : h = IF g >= s THEN g ELSE s
    OBVIOUS
  <2>3. g <= h /\ s <= h /\ h <= SafeNumber(highest) /\ Shared(h)'
    BY <1>4, <1>8, <2>1, <2>2
  <2>4. \A id \in Allocated : id \notin DOMAIN rows' =>
          rows[id].executed # Null /\ rows[id].executed <= h
    BY <1>10, <1>12, <2>3 DEF Allocated
  <2> QED BY <1>5, <1>7, <2>3, <2>4 DEF Covers
<1> QED BY <1>7, <1>8, <1>9, <1>13, <1>14, <1>15, MoveGap

\* The queue starts with nothing.
LEMMA InitGap == Init => GapInv
<1> SUFFICES ASSUME Init PROVE GapInv
  OBVIOUS
<1>1. OnceInv
  BY InitOnce
<1>2. View = chain /\ chain = <<[fork |-> 0, tx |-> 0]>> /\ highest = 1 /\ undone = {}
  BY DEF Init, View
<1>3. Len(chain) = 1 /\ DOMAIN chain = 1 .. 1 /\ chain[1] = [fork |-> 0, tx |-> 0]
  BY <1>2
<1>4. SafeNumber(1) \in Nat /\ SafeNumber(1) <= 1
  BY QueueAssumption DEF SafeNumber
<1>5. \A b \in Int : b <= 1 => Shared(b)
  BY <1>2, <1>3 DEF Shared
<1>6. WatcherFollows
  <2>1. Shared(SafeNumber(Len(View)))
    BY <1>2, <1>3, <1>4, <1>5
  <2>2. status = NoStatus /\ cache = Null /\ stage = Down
    BY DEF Init
  <2> QED BY <1>2, <1>3, <1>4, <2>1, <2>2 DEF WatcherFollows
<1>7. Allocated = {} /\ DOMAIN rows = {} /\ DOMAIN mempool = {} /\ cache = Null
  BY DEF Init, Allocated
<1>8. MarksHold /\ OneRow /\ UndoneQueued
  BY <1>2, <1>7 DEF MarksHold, OneRow, UndoneQueued
<1>9. PrunedBelow(0)
  <2>1. 0 \in 0 .. SafeNumber(highest) /\ Shared(0)
    BY <1>2, <1>3, <1>4, <1>5
  <2>2. status.safe <= 0
    BY DEF Init, NoStatus, Null
  <2>3. \A i \in DOMAIN chain : chain[i].tx = 0
    BY <1>3
  <2> QED BY <1>7, <2>1, <2>2, <2>3 DEF PrunedBelow
<1> QED BY <1>1, <1>6, <1>8, <1>9 DEF GapInv, TableFollows

\* A step of the chain.
LEMMA ChainGap ==
  ASSUME GapInv, OnceInv', Mine \/ \E n \in DOMAIN chain : Reorg(n)
  PROVE  GapInv'
<1>0. OnceInv /\ QueueTyped /\ WatcherFollows /\ MarksHold
  BY DEF GapInv, OnceInv
<1>1. \A a, b \in Nat : a <= b => SafeNumber(a) <= SafeNumber(b)
  BY QueueAssumption DEF SafeNumber
<1>2. highest \in Nat /\ Len(chain) \in Nat /\ Len(chain) <= highest /\ SafeNumber(highest) <= Len(chain)
  BY <1>0, GapTypes DEF WatcherFollows
<1>3. CASE Mine
  <2>1. PICK k \in Nat : k = Len(chain) /\ k <= Len(chain)
    BY <1>2
  <2>2. PICK tx \in Nat : MayHold(k, tx) /\ GoesOn(chain, chain', k, [fork |-> 0, tx |-> tx])
    BY <1>0, <1>3, <2>1, MineGoesOn
  <2>3. Len(chain') = k + 1
    BY <2>2 DEF GoesOn
  <2>4. /\ highest' \in Nat /\ highest <= highest' /\ k + 1 <= highest'
        /\ highest' = highest \/ highest' = k + 1
    BY <1>2, <1>3, <2>3 DEF Mine
  <2>5. SafeNumber(highest') <= k + 1
    BY <1>2, <2>1, <2>4, QueueAssumption DEF SafeNumber
  <2>6. UNCHANGED <<mempool, seen, status, cache, rows, queued, stage, undone>>
    BY <1>3 DEF Mine
  <2>7. WatcherFollows' /\ \A b \in 0 .. SafeNumber(highest) : Shared(b) => Shared(b)'
    BY <1>0, <1>2, <2>1, <2>2, <2>4, <2>5, <2>6, FinalStaysShared
  <2>8. MarkedFrom(k + 1) \subseteq undone
    <3>1. SUFFICES ASSUME NEW id \in DOMAIN rows, rows[id].executed >= k + 1, id \notin undone
                   PROVE  FALSE
      BY DEF MarkedFrom
    <3>2. rows[id].executed \in Int
      BY <1>0 DEF QueueTyped, Rows
    <3>3. rows[id].executed # Null
      BY <3>1, <3>2 DEF Null
    <3>4. rows[id].executed <= k
      BY <1>0, <2>1, <3>1, <3>3 DEF MarksHold
    <3> QED BY <3>1, <3>2, <3>4
  <2>9. undone' = undone \cup MarkedFrom(k + 1)
    BY <2>6, <2>8
  <2> QED BY <1>1, <1>2, <2>1, <2>2, <2>4, <2>6, <2>7, <2>9, ChainStepGap
<1>4. ASSUME NEW n \in DOMAIN chain, Reorg(n) PROVE GapInv'
  <2>1. PICK k \in Nat : k = n - 1 /\ k <= Len(chain) /\ n = k + 1 /\ k + 1 <= highest
    BY <1>0, <1>2, GapTypes
  <2>2. PICK tx \in Nat, fork \in Forks(n) : MayHold(k, tx)
            /\ fork \in Nat /\ GoesOn(chain, chain', k, [fork |-> fork, tx |-> tx])
    BY <1>0, <1>4, <2>1, ReorgGoesOn
  <2>3. /\ UNCHANGED <<highest, mempool, seen, status, cache, rows, queued, stage>>
        /\ undone' = undone \cup MarkedFrom(k + 1) /\ k + 1 > highest - MaxReorgDepth
    BY <1>4, <2>1 DEF Reorg
  <2>4. SafeNumber(highest) <= k
    BY <1>2, <2>1, <2>3, QueueAssumption DEF SafeNumber
  <2>5. SafeNumber(highest) \in Nat
    BY <1>2, SafeNumberType
  <2>6. /\ highest' \in Nat /\ highest <= highest' /\ k + 1 <= highest'
        /\ SafeNumber(highest') <= k + 1 /\ SafeNumber(highest) <= SafeNumber(highest')
    BY <1>2, <2>1, <2>3, <2>4, <2>5
  <2>7. WatcherFollows' /\ \A b \in 0 .. SafeNumber(highest) : Shared(b) => Shared(b)'
    BY <1>0, <2>1, <2>2, <2>3, <2>4, <2>6, FinalStaysShared
  <2> QED BY <2>1, <2>2, <2>3, <2>4, <2>6, <2>7, ChainStepGap
<1> QED BY <1>3, <1>4

\* Every step keeps the invariant.
LEMMA NextGap ==
  ASSUME GapInv, [Next]_vars
  PROVE  GapInv'
<1>0. OnceInv /\ OnceInv'
  BY NextOnce DEF GapInv
<1>1. CASE Mine \/ \E n \in DOMAIN chain : Reorg(n)
  BY <1>0, <1>1, ChainGap
<1>2. CASE \/ \E nonce \in DOMAIN mempool : Evict(nonce)
           \/ Start \/ ResubmitEnds \/ RequestFails \/ SubmitEnds
  BY <1>0, <1>2, SameRowsGap
<1>3. CASE Stop
  BY <1>0, <1>3, StopGap
<1>4. CASE ObserveNew \/ ObserveUncle \/ FirstUpdate
  BY <1>0, <1>4, ObserveNewGap, ObserveUncleGap, FirstUpdateGap
<1>5. CASE Mark
  BY <1>0, <1>5, MarkGap
<1>6. CASE Send \/ Resend
  BY <1>0, <1>6, SubmitGap
<1>7. CASE Allocate
  BY <1>0, <1>7, AllocateGap
<1>8. CASE \E lifetime \in Lifetimes : Enqueue(lifetime)
  BY <1>0, <1>8, EnqueueGap
<1>9. CASE UNCHANGED vars
  <2>1. UNCHANGED <<chain, highest, reorgs, mempool, seen, status, cache, rows, queued, stage, undone>>
    BY <1>9 DEF vars, envVars
  <2>2. Allocated' = Allocated /\ View' = View
    BY <2>1 DEF Allocated, View
  <2>3. WatcherFollows'
    BY <2>1, <2>2 DEF GapInv, WatcherFollows, Shared
  <2>4. MarksHold' /\ UndoneQueued' /\ AllKept' = AllKept
    BY <2>1 DEF GapInv, MarksHold, UndoneQueued, AllKept
  <2>5. OneRow' = OneRow
    BY <2>1, <2>2 DEF OneRow
  <2>6. \A g : PrunedBelow(g)' = PrunedBelow(g)
    BY <2>1, <2>2 DEF PrunedBelow, Shared, AllHeld, Holds
  <2> QED BY <1>0, <2>3, <2>4, <2>5, <2>6 DEF GapInv, TableFollows
<1> QED
  BY <1>1, <1>2, <1>3, <1>4, <1>5, <1>6, <1>7, <1>8, <1>9 DEF Next

\* What was not pruned is held, up to the greatest nonce.
LEMMA GapSuffices == GapInv => NoNonceGap
<1> SUFFICES ASSUME GapInv, AllKept,
                    NEW id \in Allocated, NEW n \in AccountNonce .. rows[id].nonce
             PROVE  \E other \in Allocated : rows[other].nonce = n
  BY DEF NoNonceGap
<1>0. OnceInv /\ WatcherFollows
  BY DEF GapInv
<1>1. PICK g \in Nat : PrunedBelow(g)
  BY DEF GapInv, TableFollows
<1>2. g <= Len(chain) /\ Len(chain) \in Nat
  BY <1>0, <1>1, GapTypes DEF PrunedBelow, Shared
<1>3. PICK a \in Nat : a = NonceAt(chain, g)
  BY NonceAtType
<1>4. PICK c \in Nat : c = AccountNonce
  BY <1>2, NonceAtType DEF AccountNonce
<1>5. a <= c
  BY <1>2, <1>3, <1>4, NonceAtMonotone DEF AccountNonce
<1>6. rows[id].nonce \in Nat
  BY <1>0 DEF Allocated, OnceInv, QueueTyped, Rows
<1>7. CASE n = rows[id].nonce
  BY <1>7
<1>8. CASE n # rows[id].nonce
  <2>1. n \in Nat /\ n \in a .. rows[id].nonce - 1
    BY <1>4, <1>5, <1>6, <1>8
  <2>2. AllHeld(a, rows[id].nonce)
    BY <1>1, <1>3 DEF PrunedBelow
  <2>3. PICK other \in DOMAIN rows : Holds(other, n)
    BY <2>1, <2>2 DEF AllHeld
  <2>4. n # Null
    BY <2>1 DEF Null
  <2> QED BY <2>3, <2>4 DEF Holds, Allocated
<1> QED BY <1>7, <1>8

\* A row that is dropped and not undone is in the final part of the chain: its
\* nonce was used at a height that is final, and no other action ever had it.
LEMMA DroppedExecuted ==
  ASSUME GapInv, AllKept, DroppedFinal, NEW id \in DOMAIN rows \ DOMAIN rows',
         rows[id].nonce # Null, id \notin undone
  PROVE  \E i \in DOMAIN chain : chain[i].tx = id /\ i <= highest - MaxReorgDepth
<1>0. OnceInv /\ WatcherFollows /\ OneRow /\ MarksHold
  BY DEF GapInv, TableFollows
<1>1. id \in Allocated
  BY DEF Allocated
<1>2. PICK b : b = rows[id].executed
  OBVIOUS
<1>3. b # Null /\ b <= SafeNumber(highest)
  BY <1>1, <1>2 DEF DroppedFinal
<1>4. b \in Nat /\ b <= Len(chain) /\ rows[id].nonce < NonceAt(chain, b)
  BY <1>0, <1>2, <1>3 DEF MarksHold
<1>5. rows[id].nonce \in Nat
  BY <1>0, <1>1 DEF Allocated, OnceInv, QueueTyped, Rows
<1>6. PICK i \in 1 .. b : chain[i].tx # 0 /\ NonceAt(chain, i - 1) = rows[id].nonce
  BY <1>4, <1>5, NonceReached
<1>7. i \in DOMAIN chain
  BY <1>0, <1>4, GapTypes
<1>8. chain[i].tx = id
  BY <1>0, <1>1, <1>6, <1>7 DEF OneRow
<1>9. i <= highest - MaxReorgDepth
  <2>1. highest \in Nat
    BY <1>0, GapTypes
  <2> QED BY <1>3, <1>4, <2>1, QueueAssumption DEF SafeNumber
<1> QED BY <1>7, <1>8, <1>9

\* Only updates of the block status drop rows.
LEMMA OthersKeepRows ==
  ASSUME [Next]_vars
  PROVE  \/ ObserveNew \/ ObserveUncle \/ FirstUpdate
         \/ DOMAIN rows \subseteq DOMAIN rows'
<1>1. CASE Mine \/ (\E n \in DOMAIN chain : Reorg(n)) \/ Start \/ Stop \/ SubmitEnds
           \/ ResubmitEnds \/ RequestFails \/ (\E nonce \in DOMAIN mempool : Evict(nonce))
           \/ UNCHANGED vars
  <2>1. rows' = rows
    BY <1>1 DEF Mine, Reorg, Start, Stop, SubmitEnds, ResubmitEnds, RequestFails, Evict, vars
  <2> QED BY <2>1
<1>2. CASE Mark
  BY <1>2 DEF Mark, marked
<1>3. CASE Allocate
  BY <1>3 DEF Allocate
<1>4. ASSUME NEW id, submit_transaction(id) PROVE DOMAIN rows \subseteq DOMAIN rows'
  <2>1. \/ rows' = rows
        \/ \E nonce, block : rows' = record_submission(nonce, block)
    BY <1>4 DEF submit_transaction
  <2> QED BY <2>1 DEF record_submission
<1>5. CASE Send \/ Resend
  BY <1>4, <1>5 DEF Send, Resend
<1>6. ASSUME NEW lifetime, Enqueue(lifetime) PROVE DOMAIN rows \subseteq DOMAIN rows'
  BY <1>6 DEF Enqueue
<1> QED BY <1>1, <1>2, <1>3, <1>5, <1>6 DEF Next

\* No nonce that the account still has to use is missing from the table:
\* restarts, lost answers, evicted transactions and reorganisations, seen or
\* not, leave no gap that would hold up every later transaction, until a row
\* that a reorganisation has undone unseen is forgotten.
THEOREM QueueLeavesNoGap == Spec => []NoNonceGap
<1>1. GapInv /\ [Next]_vars => GapInv'
  BY NextGap
<1> QED BY <1>1, InitGap, GapSuffices, PTL DEF Spec

\* What the queue forgets, the final part of the chain has executed, or a
\* reorganisation that the watcher did not announce has undone.
THEOREM QueueForgetsExecuted == Spec => PrunedIsExecuted
<1>1. GapInv /\ [Next]_vars => GapInv'
  BY NextGap
<1>2. ASSUME GapInv, [Next]_vars
      PROVE  [AllKept => \A id \in DOMAIN rows \ DOMAIN rows' :
                rows[id].nonce = Null \/ id \in undone \/
                  \E i \in DOMAIN chain : chain[i].tx = id /\ i <= highest - MaxReorgDepth]_vars
  <2>1. OnceInv'
    BY <1>2, NextOnce DEF GapInv
  <2>2. ASSUME AllKept, NEW id \in DOMAIN rows \ DOMAIN rows', rows[id].nonce # Null,
               id \notin undone
        PROVE  \E i \in DOMAIN chain : chain[i].tx = id /\ i <= highest - MaxReorgDepth
    <3>1. ObserveNew \/ ObserveUncle \/ FirstUpdate
      BY <1>2, OthersKeepRows
    <3>2. DroppedFinal
      BY <1>2, <2>1, <2>2, <3>1, ObserveNewGap, ObserveUncleGap, FirstUpdateGap
    <3> QED BY <1>2, <2>2, <3>2, DroppedExecuted
  <2> QED BY <2>2
<1> QED BY <1>1, <1>2, InitGap, PTL DEF Spec, PrunedIsExecuted

============================================================================
