------------------------- MODULE EventWatcherProofs -------------------------
(***************************************************************************)
(* For any chain of logs, configuration and node:                          *)
(*                                                                         *)
(*   LogsInOrder    the batches follow one another, and the logs in them   *)
(*                  are in the order of the chain (InChainOrder);          *)
(*   LossesExcused  a log that is missing is so for a known reason         *)
(*                  (NothingLost).                                         *)
(*                                                                         *)
(* WatchInv ties the three places together: the page or block in flight is *)
(* the first one that was not handed on, every batch is a complete answer  *)
(* but for what is excused, and all that was handed on is of earlier       *)
(* blocks.  Two facts are inductions over data: an answer that is shorter  *)
(* than the node's limit was not cut off (CutOff), and handing on a batch  *)
(* appends it to the concatenation of all others (FlattenAppend).  Both    *)
(* take a smallest counterexample (LeastSet, LeastNumber).                 *)
(***************************************************************************)
EXTENDS EventWatcher, FiniteSetTheorems, WellFoundedInduction, TLAPS

----------------------------------------------------------------------------
(* Induction, without an operator as a parameter.                          *)

\* F is a family of finite subsets of S.
FiniteFamily(F, S) == F # {} /\ \A x \in F : x \subseteq S /\ IsFiniteSet(x)

\* It has a smallest one.
LEMMA LeastSet ==
  ASSUME NEW S, NEW F, FiniteFamily(F, S)
  PROVE  \E x \in F : \A y \in F : y \subseteq x => y = x
<1>1. IsWellFoundedOn(StrictSubsetOrdering(S), FiniteSubsetsOf(S))
  BY FS_StrictSubsetOrderingWellFounded
<1>2. F \subseteq FiniteSubsetsOf(S)
  BY DEF FiniteSubsetsOf, FiniteFamily
<1>3. \E x \in F : \A y \in F : ~(<<y, x>> \in StrictSubsetOrdering(S))
  BY <1>1, <1>2, WFMin DEF FiniteFamily
<1> QED BY <1>3 DEF StrictSubsetOrdering, FiniteFamily

\* A set of numbers has a least one.
LEMMA LeastNumber ==
  ASSUME NEW T \in SUBSET Nat, T # {}
  PROVE  \E x \in T : \A y \in T : x <= y
<1>1. PICK F : F = {0 .. n : n \in T}
  OBVIOUS
<1>2. FiniteFamily(F, Nat)
  <2>1. \A n \in T : 0 .. n \subseteq Nat /\ IsFiniteSet(0 .. n)
    BY FS_Interval
  <2> QED BY <1>1, <2>1 DEF FiniteFamily
<1>3. PICK x \in F : \A y \in F : y \subseteq x => y = x
  BY <1>2, LeastSet
<1>4. PICK n \in T : x = 0 .. n
  BY <1>1
<1>5. ASSUME NEW m \in T PROVE n <= m
  <2>1. SUFFICES ASSUME m < n PROVE FALSE
    OBVIOUS
  <2>2. 0 .. m \in F /\ 0 .. m \subseteq 0 .. n
    BY <1>1, <2>1
  <2>3. 0 .. m = 0 .. n
    BY <1>3, <1>4, <2>2
  <2>4. n \in 0 .. n /\ n \notin 0 .. m
    BY <2>1
  <2> QED BY <2>3, <2>4
<1> QED BY <1>5

----------------------------------------------------------------------------
(* The order of logs                                                       *)

\* Logs of one chain: finitely many, each with its own place.
IsChain(logs) ==
    /\ IsFiniteSet(logs)
    /\ \A log \in logs : log.block \in Nat /\ log.index \in Nat
    /\ \A l, k \in logs : l.block = k.block /\ l.index = k.index => l = k

\* The logs before one of them.
Earlier(log, logs) == {k \in logs : Before(k, log)}

\* Some of the logs of a chain.
LEMMA ChainSubset ==
  ASSUME NEW logs, IsChain(logs), NEW some \in SUBSET logs
  PROVE  IsChain(some)
  BY FS_Subset DEF IsChain

\* Its order is a strict, total one.
LEMMA BeforeOrder ==
  ASSUME NEW logs, IsChain(logs)
  PROVE  /\ \A l \in logs : ~Before(l, l)
         /\ \A l, k \in logs : Before(l, k) \/ Before(k, l) \/ l = k
         /\ \A l, k, m \in logs : Before(l, k) /\ Before(k, m) => Before(l, m)
  BY DEF IsChain, Before

\* Who is before another has fewer before it.
LEMMA EarlierGrows ==
  ASSUME NEW logs, IsChain(logs), NEW l \in logs, NEW k \in logs, Before(l, k)
  PROVE  /\ Cardinality(Earlier(l, logs)) \in Nat
         /\ Cardinality(Earlier(k, logs)) \in Nat
         /\ Cardinality(Earlier(l, logs)) < Cardinality(Earlier(k, logs))
<1>1. PICK A : A = Earlier(l, logs)
  OBVIOUS
<1>2. PICK B : B = Earlier(k, logs)
  OBVIOUS
<1>3. IsFiniteSet(A) /\ IsFiniteSet(B)
  BY <1>1, <1>2, FS_Subset DEF Earlier, IsChain
<1>4. A \subseteq B /\ l \in B /\ l \notin A
  BY <1>1, <1>2, BeforeOrder DEF Earlier
<1>5. Cardinality(A) <= Cardinality(B) /\ Cardinality(B) # Cardinality(A)
  BY <1>3, <1>4, FS_Subset
<1>6. Cardinality(A) \in Nat /\ Cardinality(B) \in Nat
  BY <1>3, FS_CardinalityType
<1> QED BY <1>1, <1>2, <1>5, <1>6

\* The number of logs before each is its place.
LEMMA PlacesTaken ==
  ASSUME NEW logs, IsChain(logs), NEW i \in 1 .. Cardinality(logs)
  PROVE  \E log \in logs : Cardinality(Earlier(log, logs)) = i - 1
<1>1. PICK n : n = Cardinality(logs)
  OBVIOUS
<1>2. IsFiniteSet(logs) /\ n \in Nat
  BY <1>1, FS_CardinalityType DEF IsChain
<1>3. PICK place : place = [log \in logs |-> Cardinality(Earlier(log, logs))]
  BY Zenon
<1>4. \A log \in logs : place[log] = Cardinality(Earlier(log, logs))
  BY <1>3
<1>5. ASSUME NEW log \in logs PROVE place[log] \in 0 .. n - 1
  <2>1. PICK A : A = Earlier(log, logs)
    OBVIOUS
  <2>2. A \subseteq logs /\ A # logs
    BY <2>1, BeforeOrder DEF Earlier
  <2>3. Cardinality(A) <= n /\ Cardinality(A) # n /\ IsFiniteSet(A)
    BY <1>1, <1>2, <2>2, FS_Subset
  <2>4. Cardinality(A) \in Nat
    BY <2>3, FS_CardinalityType
  <2> QED BY <1>2, <1>4, <2>1, <2>3, <2>4
<1>6. ASSUME NEW l \in logs, NEW k \in logs, place[l] = place[k] PROVE l = k
  <2>1. ~Before(l, k) /\ ~Before(k, l)
    <3>1. ASSUME NEW x \in logs, NEW y \in logs, Before(x, y) PROVE place[x] # place[y]
      BY <1>4, <3>1, EarlierGrows
    <3> QED BY <1>6, <3>1
  <2> QED BY <2>1, BeforeOrder
<1>7. place \in [logs -> 0 .. n - 1] /\ IsInjective(place)
  <2>1. DOMAIN place = logs
    BY <1>3
  <2> QED BY <1>3, <1>5, <1>6, <2>1 DEF IsInjective
<1>8. place \in Injection(logs, 0 .. n - 1)
  BY <1>7 DEF Injection
<1>9. IsFiniteSet(0 .. n - 1) /\ Cardinality(0 .. n - 1) = n
  BY <1>2, FS_Interval
<1>10. place \in Surjection(logs, 0 .. n - 1)
  BY <1>1, <1>8, <1>9, FS_Injection
<1>11. i - 1 \in 0 .. n - 1
  BY <1>1, <1>2
<1>12. \E log \in logs : place[log] = i - 1
  BY <1>10, <1>11 DEF Surjection
<1> QED BY <1>4, <1>12

\* What decode_and_sort promises: all the logs, each once, in order.
InOrder(s, logs) ==
    /\ s \in Seq(logs) /\ Range(s) = logs
    /\ \A i, j \in 1 .. Len(s) : i < j => Before(s[i], s[j])

\* It does.
LEMMA Sorts ==
  ASSUME NEW logs, IsChain(logs)
  PROVE  InOrder(decode_and_sort(logs), logs)
<1>1. PICK n : n = Cardinality(logs)
  OBVIOUS
<1>2. IsFiniteSet(logs) /\ n \in Nat
  BY <1>1, FS_CardinalityType DEF IsChain
<1>3. PICK s : s = decode_and_sort(logs)
  OBVIOUS
<1>4. s = [i \in 1 .. n |-> CHOOSE log \in logs : Cardinality(Earlier(log, logs)) = i - 1]
  BY <1>1, <1>3 DEF decode_and_sort, Earlier
<1>5. ASSUME NEW i \in 1 .. n
      PROVE  s[i] \in logs /\ Cardinality(Earlier(s[i], logs)) = i - 1
  <2>1. \E log \in logs : Cardinality(Earlier(log, logs)) = i - 1
    BY <1>1, PlacesTaken
  <2>2. s[i] = CHOOSE log \in logs : Cardinality(Earlier(log, logs)) = i - 1
    BY <1>4
  <2> QED BY <2>1, <2>2
<1>6. s \in Seq(logs) /\ Len(s) = n /\ DOMAIN s = 1 .. n
  <2>1. s \in [1 .. n -> logs]
    BY <1>4, <1>5
  <2> QED BY <1>2, <2>1
<1>7. ASSUME NEW log \in logs PROVE \E i \in 1 .. n : s[i] = log
  <2>1. PICK A : A = Earlier(log, logs)
    OBVIOUS
  <2>2. A \subseteq logs /\ A # logs
    BY <2>1, BeforeOrder DEF Earlier
  <2>3. Cardinality(A) <= n /\ Cardinality(A) # n /\ IsFiniteSet(A)
    BY <1>1, <1>2, <2>2, FS_Subset
  <2>4. Cardinality(A) \in Nat
    BY <2>3, FS_CardinalityType
  <2>5. PICK i \in 1 .. n : i = Cardinality(A) + 1
    BY <1>2, <2>3, <2>4
  <2>6. s[i] \in logs /\ Cardinality(Earlier(s[i], logs)) = Cardinality(Earlier(log, logs))
    BY <1>5, <2>1, <2>4, <2>5
  <2>7. ~Before(s[i], log) /\ ~Before(log, s[i])
    BY <2>6, EarlierGrows
  <2> QED BY <2>6, <2>7, BeforeOrder
<1>8. ASSUME NEW i \in 1 .. n, NEW j \in 1 .. n, i < j PROVE Before(s[i], s[j])
  <2>1. s[i] \in logs /\ s[j] \in logs
    BY <1>5
  <2>2. Cardinality(Earlier(s[i], logs)) = i - 1 /\ Cardinality(Earlier(s[j], logs)) = j - 1
    BY <1>5
  <2>3. s[i] # s[j]
    BY <1>8, <2>2
  <2>4. ~Before(s[j], s[i])
    <3>1. Before(s[j], s[i]) => j - 1 < i - 1
      BY <2>1, <2>2, EarlierGrows
    <3> QED BY <1>8, <3>1
  <2> QED BY <2>1, <2>3, <2>4, BeforeOrder
<1>9. Range(s) = logs
  BY <1>5, <1>6, <1>7 DEF Range
<1> QED BY <1>3, <1>6, <1>8, <1>9 DEF InOrder

\* An answer that is cut off has as many logs as the node returns.
LEMMA CutOff ==
  ASSUME NEW logs, IsChain(logs), NEW n \in Nat, Cardinality(First(n, logs)) < n
  PROVE  First(n, logs) = logs
<1>1. PICK F : F = First(n, logs)
  OBVIOUS
<1>2. F = {log \in logs : Cardinality(Earlier(log, logs)) < n}
  BY <1>1 DEF First, Earlier
<1>3. SUFFICES ASSUME logs \ F # {} PROVE FALSE
  BY <1>1, <1>2
<1>4. PICK family : family = {Earlier(log, logs) : log \in logs \ F}
  OBVIOUS
<1>5. FiniteFamily(family, logs)
  <2>1. \A log : Earlier(log, logs) \in SUBSET logs
    BY DEF Earlier
  <2>2. \A log : IsFiniteSet(Earlier(log, logs))
    BY <2>1, FS_Subset DEF IsChain
  <2> QED BY <1>3, <1>4, <2>1, <2>2 DEF FiniteFamily
<1>6. PICK A \in family : \A B \in family : B \subseteq A => B = A
  BY <1>5, LeastSet
<1>7. PICK log \in logs \ F : A = Earlier(log, logs)
  BY <1>4
<1>8. ASSUME NEW k \in A PROVE k \in F
  <2>1. k \in logs /\ Before(k, log)
    BY <1>7 DEF Earlier
  <2>2. SUFFICES ASSUME k \notin F PROVE FALSE
    OBVIOUS
  <2>3. Earlier(k, logs) \in family
    BY <1>4, <2>1, <2>2
  <2>4. Earlier(k, logs) \subseteq A
    BY <1>7, <2>1, BeforeOrder DEF Earlier
  <2>5. Earlier(k, logs) = A
    BY <1>6, <2>3, <2>4
  <2>6. k \in Earlier(k, logs)
    BY <2>5
  <2> QED BY <2>1, <2>6, BeforeOrder DEF Earlier
<1>9. IsFiniteSet(F) /\ Cardinality(F) \in Nat
  BY <1>2, FS_Subset, FS_CardinalityType DEF IsChain
<1>10. Cardinality(A) <= Cardinality(F) /\ Cardinality(A) \in Nat
  BY <1>8, <1>9, FS_Subset, FS_CardinalityType
<1>11. ~(Cardinality(A) < n)
  BY <1>2, <1>7
<1> QED BY <1>1, <1>9, <1>10, <1>11

----------------------------------------------------------------------------
(* The concatenation of all batches                                        *)

\* f is the function that FlattenSeq is read off, for the first n of ss.
Flattens(f, ss, n) ==
    f = [i \in 1 .. n |-> IF i = 1 THEN ss[i] ELSE f[i - 1] \o ss[i]]

\* There is only one.
LEMMA FlattensOnce ==
  ASSUME NEW ss, NEW n \in Nat, NEW m \in Nat, m <= n,
         NEW f, Flattens(f, ss, n), NEW g, Flattens(g, ss, m), NEW k \in 1 .. m
  PROVE  f[k] = g[k]
<1>1. SUFFICES ASSUME f[k] # g[k] PROVE FALSE
  OBVIOUS
<1>2. PICK T : T = {i \in 1 .. m : f[i] # g[i]}
  OBVIOUS
<1>3. T \in SUBSET Nat /\ T # {}
  BY <1>1, <1>2
<1>4. PICK i \in T : \A j \in T : i <= j
  BY <1>3, LeastNumber
<1>5. i \in 1 .. m /\ i \in 1 .. n /\ f[i] # g[i]
  BY <1>2
<1>6. /\ f[i] = IF i = 1 THEN ss[i] ELSE f[i - 1] \o ss[i]
      /\ g[i] = IF i = 1 THEN ss[i] ELSE g[i - 1] \o ss[i]
  BY <1>5 DEF Flattens
<1>7. i # 1 => i - 1 \in 1 .. m /\ i - 1 \notin T
  BY <1>4, <1>5
<1>8. i # 1 => f[i - 1] = g[i - 1]
  BY <1>2, <1>7
<1> QED BY <1>5, <1>6, <1>8

\* And there is one: a longer one from a shorter.
LEMMA FlattensMore ==
  ASSUME NEW ss, NEW n \in Nat, NEW f, Flattens(f, ss, n)
  PROVE  \E g : Flattens(g, ss, n + 1)
<1>1. PICK h : h = [i \in 1 .. n + 1 |-> IF i = 1 THEN ss[i] ELSE f[i - 1] \o ss[i]]
  BY Zenon
<1>2. \A i \in 1 .. n + 1 : h[i] = IF i = 1 THEN ss[i] ELSE f[i - 1] \o ss[i]
  BY <1>1
<1>3. \A i \in 1 .. n : f[i] = IF i = 1 THEN ss[i] ELSE f[i - 1] \o ss[i]
  BY DEF Flattens
<1>4. \A i \in 1 .. n : h[i] = f[i]
  BY <1>2, <1>3
<1>5. \A i \in 1 .. n + 1 : i # 1 => i - 1 \in 1 .. n
  OBVIOUS
<1>6. \A i \in 1 .. n + 1 : h[i] = IF i = 1 THEN ss[i] ELSE h[i - 1] \o ss[i]
  BY <1>2, <1>4, <1>5
<1>7. h = [i \in 1 .. n + 1 |-> IF i = 1 THEN ss[i] ELSE h[i - 1] \o ss[i]]
  BY <1>1, <1>6
<1> QED BY <1>7 DEF Flattens

\* So there is one for every length.
LEMMA FlattensAll ==
  ASSUME NEW ss, NEW n \in Nat
  PROVE  \E f : Flattens(f, ss, n)
<1>1. SUFFICES ASSUME ~\E f : Flattens(f, ss, n) PROVE FALSE
  OBVIOUS
<1>2. PICK T : T = {m \in Nat : ~\E f : Flattens(f, ss, m)}
  OBVIOUS
<1>3. T \in SUBSET Nat /\ T # {}
  BY <1>1, <1>2
<1>4. PICK m \in T : \A j \in T : m <= j
  BY <1>3, LeastNumber
<1>5. m \in Nat /\ ~\E f : Flattens(f, ss, m)
  BY <1>2
<1>6. CASE m = 0
  <2>1. PICK e : e = [i \in {} |-> 0]
    BY Zenon
  <2>2. 1 .. 0 = {}
    OBVIOUS
  <2>3. e = [i \in 1 .. 0 |-> IF i = 1 THEN ss[i] ELSE e[i - 1] \o ss[i]]
    BY <2>1, <2>2
  <2> QED BY <1>5, <1>6, <2>3 DEF Flattens
<1>7. CASE m # 0
  <2>1. m - 1 \in Nat /\ m - 1 \notin T /\ (m - 1) + 1 = m
    BY <1>4, <1>5, <1>7
  <2>2. \E f : Flattens(f, ss, m - 1)
    BY <1>2, <2>1
  <2>3. \E f : Flattens(f, ss, (m - 1) + 1)
    BY <2>1, <2>2, FlattensMore
  <2> QED BY <1>5, <2>1, <2>3
<1> QED BY <1>6, <1>7

\* FlattenSeq is read off any of them.
LEMMA FlattenIs ==
  ASSUME NEW ss, NEW n \in Nat \ {0}, Len(ss) = n, NEW f, Flattens(f, ss, n)
  PROVE  FlattenSeq(ss) = f[n]
<1>1. PICK g : g = CHOOSE h : h = [i \in 1 .. n |-> IF i = 1 THEN ss[i] ELSE h[i - 1] \o ss[i]]
  OBVIOUS
<1>2. FlattenSeq(ss) = g[n]
  BY <1>1 DEF FlattenSeq
<1>3. Flattens(g, ss, n)
  BY <1>1 DEF Flattens
<1>4. g[n] = f[n]
  BY <1>3, FlattensOnce
<1> QED BY <1>2, <1>4

\* tt has one sequence more than ss, which has n of them.
OneMore(ss, tt, n) ==
    n \in Nat /\ Len(ss) = n /\ Len(tt) = n + 1 /\ \A i \in 1 .. n : tt[i] = ss[i]

\* Its concatenation.
LEMMA FlattenAppend ==
  ASSUME NEW ss, NEW tt, NEW n, OneMore(ss, tt, n)
  PROVE  FlattenSeq(tt) = IF n = 0 THEN tt[1] ELSE FlattenSeq(ss) \o tt[n + 1]
<1>0. n \in Nat /\ Len(ss) = n /\ Len(tt) = n + 1 /\ \A i \in 1 .. n : tt[i] = ss[i]
  BY DEF OneMore
<1>1. PICK f : Flattens(f, tt, n + 1)
  <2>1. n + 1 \in Nat
    BY <1>0
  <2> QED BY <2>1, FlattensAll
<1>2. FlattenSeq(tt) = f[n + 1]
  BY <1>0, <1>1, FlattenIs
<1>3. f[n + 1] = IF n = 0 THEN tt[n + 1] ELSE f[n] \o tt[n + 1]
  <2>1. PICK m \in Nat : m = n + 1
    BY <1>0
  <2>2. f = [i \in 1 .. m |-> IF i = 1 THEN tt[i] ELSE f[i - 1] \o tt[i]]
    BY <1>1, <2>1 DEF Flattens
  <2>3. m \in 1 .. m /\ m - 1 = n
    BY <1>0, <2>1
  <2>4. f[m] = IF m = 1 THEN tt[m] ELSE f[m - 1] \o tt[m]
    BY <2>2, <2>3
  <2>5. m = 1 <=> n = 0
    BY <1>0, <2>1
  <2> QED BY <2>1, <2>3, <2>4, <2>5
<1>4. CASE n = 0
  BY <1>0, <1>2, <1>3, <1>4
<1>5. CASE n # 0
  <2>1. PICK g : Flattens(g, ss, n)
    BY <1>0, FlattensAll
  <2>2. g = [i \in 1 .. n |-> IF i = 1 THEN ss[i] ELSE g[i - 1] \o ss[i]]
    BY <2>1 DEF Flattens
  <2>3. g = [i \in 1 .. n |-> IF i = 1 THEN tt[i] ELSE g[i - 1] \o tt[i]]
    BY <1>0, <2>2
  <2>4. Flattens(g, tt, n)
    BY <2>3 DEF Flattens
  <2>5. f[n] = g[n]
    BY <1>0, <1>1, <1>5, <2>4, FlattensOnce
  <2>6. FlattenSeq(ss) = g[n]
    BY <1>0, <1>5, <2>1, FlattenIs
  <2> QED BY <1>2, <1>3, <1>5, <2>5, <2>6
<1> QED BY <1>4, <1>5

----------------------------------------------------------------------------
(* Answers                                                                 *)

\* Some chain, configuration and node.
Setting == chain \in Chains /\ config \in Configs /\ node \in Nodes

\* What the assumptions on the constants say of it.
LEMMA SettingIs ==
  ASSUME Setting
  PROVE  /\ IsChain(chain)
         /\ \A log \in chain : log.block \in 1 .. MaxBlock
         /\ MaxBlock \in Nat
         /\ config.block_page_size \in Nat \ {0} /\ config.max_logs_per_query \in Nat
         /\ node.cap \in Nat /\ node.lossy \in BOOLEAN
<1>1. MaxBlock \in Nat \ {0}
  BY EventWatcherAssumption
<1>2. /\ IsFiniteSet(chain)
      /\ \A log \in chain : log.block \in 1 .. MaxBlock /\ log.index \in Nat
      /\ \A l, k \in chain : l.block = k.block /\ l.index = k.index => l = k
  BY EventWatcherAssumption DEF Setting, IsLog
<1>3. \A log \in chain : log.block \in Nat
  BY <1>1, <1>2
<1>4. IsChain(chain)
  BY <1>2, <1>3 DEF IsChain
<1>5. config.block_page_size \in Nat \ {0} /\ config.max_logs_per_query \in Nat
  BY EventWatcherAssumption DEF Setting, IsConfig
<1>6. node.cap \in Nat /\ node.lossy \in BOOLEAN
  BY EventWatcherAssumption DEF Setting
<1> QED BY <1>1, <1>2, <1>4, <1>5, <1>6

\* What answers are.
LEMMA AnswerIs ==
  /\ \A logs : Answer(logs).ok /\ Answer(logs).logs = logs
  /\ ~Failed.ok
  BY DEF Answer, Failed

\* What the node says of the logs M.
LEMMA NodeAnswers ==
  ASSUME Setting, NEW M \in SUBSET chain, NEW a \in get_logs(M), a.ok
  PROVE  /\ a.logs \subseteq M
         /\ node.lossy \/ a.logs = M \/ (node.cap > 0 /\ a.logs = First(node.cap, M))
<1>1. node.cap \in Nat
  BY SettingIs
<1>2. First(node.cap, M) \subseteq M
  BY DEF First
<1>3. CASE a = Failed
  BY <1>3, AnswerIs
<1>4. CASE node.lossy /\ \E some \in SUBSET M : a = Answer(some)
  BY <1>4, AnswerIs
<1>5. CASE ~node.lossy /\ a = Answer(IF node.cap = 0 THEN M ELSE First(node.cap, M))
  BY <1>1, <1>2, <1>5, AnswerIs
<1> QED BY <1>3, <1>4, <1>5 DEF get_logs

\* No log is cut off when there are at most n.
LEMMA NotCut ==
  ASSUME NEW M, IsChain(M), NEW n \in Nat, Cardinality(M) <= n
  PROVE  First(n, M) = M
<1>1. IsFiniteSet(M) /\ Cardinality(M) \in Nat
  BY FS_CardinalityType DEF IsChain
<1>2. ASSUME NEW log \in M PROVE Cardinality({k \in M : Before(k, log)}) < n
  <2>1. PICK K : K = {k \in M : Before(k, log)}
    OBVIOUS
  <2>2. log \notin K /\ K \subseteq M /\ K # M
    BY <2>1 DEF Before, IsChain
  <2>3. K \in SUBSET M
    BY <2>2
  <2>4. IsFiniteSet(K) /\ Cardinality(K) <= Cardinality(M) /\ Cardinality(K) # Cardinality(M)
    BY <1>1, <2>2, <2>3, FS_Subset
  <2>5. Cardinality(K) \in Nat
    BY <2>4, FS_CardinalityType
  <2> QED BY <1>1, <2>1, <2>4, <2>5
<1> QED BY <1>2 DEF First

\* The node cut off the logs M, at a limit the watcher does not know of.
CutAt(M) ==
    node.cap > 0 /\ config.max_logs_per_query \notin 1 .. node.cap /\ Cardinality(M) > node.cap

\* An answer within the limit is complete, unless the node is lossy or cuts off
\* answers at a limit the watcher does not know of.
LEMMA Limited ==
  ASSUME Setting, NEW M \in SUBSET chain, NEW a \in get_logs(M), NEW c, c = check_logs_limit(a), c.ok
  PROVE  c.logs \subseteq M /\ (node.lossy \/ c.logs = M \/ CutAt(M))
<1>1. config.max_logs_per_query \in Nat /\ node.cap \in Nat /\ IsChain(M)
  BY SettingIs, ChainSubset
<1>2. c = a /\ (config.max_logs_per_query > 0 => ~(Cardinality(a.logs) >= config.max_logs_per_query))
  BY AnswerIs DEF check_logs_limit
<1>3. /\ a.logs \subseteq M
      /\ node.lossy \/ a.logs = M \/ (node.cap > 0 /\ a.logs = First(node.cap, M))
  BY <1>2, NodeAnswers
<1>4. CASE node.cap > 0 /\ a.logs = First(node.cap, M) /\ config.max_logs_per_query \in 1 .. node.cap
  <2>1. IsFiniteSet(a.logs)
    BY <1>1, <1>3, FS_Subset DEF IsChain
  <2>2. Cardinality(a.logs) \in Nat
    BY <2>1, FS_CardinalityType
  <2>3. Cardinality(a.logs) < node.cap
    BY <1>1, <1>2, <1>4, <2>2
  <2>4. First(node.cap, M) = M
    BY <1>1, <1>4, <2>3, CutOff
  <2> QED BY <1>2, <1>3, <1>4, <2>4
<1>5. CASE node.cap > 0 /\ a.logs = First(node.cap, M) /\ config.max_logs_per_query \notin 1 .. node.cap
  <2>1. Cardinality(M) \in Nat
    BY <1>1, FS_CardinalityType DEF IsChain
  <2>2. CASE Cardinality(M) <= node.cap
    <3>1. First(node.cap, M) = M
      BY <1>1, <2>2, NotCut
    <3> QED BY <1>2, <1>3, <1>5, <3>1
  <2>3. CASE Cardinality(M) > node.cap
    BY <1>2, <1>3, <1>5, <2>3 DEF CutAt
  <2> QED BY <1>1, <2>1, <2>2, <2>3
<1> QED BY <1>2, <1>3, <1>4, <1>5

\* Why a log is missing in an answer to the query `how` for from .. to.
Excused(log, from, to, how) ==
    \/ how = "multiple" /\ log.topic \in config.fallible_events
    \/ how # "client" /\ node.lossy
    \/ how = "single" /\ Truncated(from, to, Topics)
    \/ how = "multiple" /\ Truncated(from, to, {log.topic})
    \/ /\ how = "client" /\ (node.lossy \/ node.cap > 0)
       /\ compute_logs_bloom({log}) \subseteq
            compute_logs_bloom(InBlocks(log.block, log.block) \ {log})

\* The answer logs to the query `how` for the blocks from .. to.
AnswerOk(logs, from, to, how) ==
    LET M == Filtered(InBlocks(from, to), Topics)
    IN  logs \subseteq M /\ \A log \in M \ logs : Excused(log, from, to, how)

\* Fetch::SingleQuery.
LEMMA SingleOk ==
  ASSUME Setting, NEW from, NEW to, NEW a \in SingleQuery(from, to), a.ok
  PROVE  AnswerOk(a.logs, from, to, "single")
<1>1. PICK M : M = Filtered(InBlocks(from, to), Topics)
  OBVIOUS
<1>2. M \in SUBSET chain
  BY <1>1 DEF Filtered, InBlocks
<1>3. PICK b \in get_logs(M) : a = check_logs_limit(b)
  BY <1>1 DEF SingleQuery
<1>4. a.logs \subseteq M /\ (node.lossy \/ a.logs = M \/ CutAt(M))
  BY <1>2, <1>3, Limited
<1>5. CutAt(M) => Truncated(from, to, Topics)
  BY <1>1 DEF CutAt, Truncated
<1> QED BY <1>1, <1>4, <1>5 DEF AnswerOk, Excused

\* Fetch::MultipleQueries.
LEMMA MultipleOk ==
  ASSUME Setting, NEW from, NEW to, NEW a \in MultipleQueries(from, to), a.ok
  PROVE  AnswerOk(a.logs, from, to, "multiple")
<1>1. PICK M : M = Filtered(InBlocks(from, to), Topics)
  OBVIOUS
<1>2. PICK answer :
        /\ \A topic \in Topics :
            \E b \in get_logs(Filtered(InBlocks(from, to), {topic})) :
                answer[topic] = forgiven(topic, check_logs_limit(b))
        /\ a = IF \A topic \in Topics : answer[topic].ok
               THEN Answer(UNION {answer[topic].logs : topic \in Topics}) ELSE Failed
  BY DEF MultipleQueries
<1>3. (\A topic \in Topics : answer[topic].ok) /\ a.logs = UNION {answer[topic].logs : topic \in Topics}
  BY <1>2, AnswerIs
<1>4. ASSUME NEW topic \in Topics
      PROVE  LET some == Filtered(InBlocks(from, to), {topic})
             IN  /\ answer[topic].logs \subseteq some
                 /\ \/ topic \in config.fallible_events \/ node.lossy
                    \/ answer[topic].logs = some \/ Truncated(from, to, {topic})
  <2>1. PICK some : some = Filtered(InBlocks(from, to), {topic})
    OBVIOUS
  <2>2. some \in SUBSET chain
    BY <2>1 DEF Filtered, InBlocks
  <2>3. PICK b \in get_logs(some) : answer[topic] = forgiven(topic, check_logs_limit(b))
    BY <1>2, <2>1
  <2>4. PICK c : c = check_logs_limit(b)
    OBVIOUS
  <2>5. CASE c.ok
    <3>1. answer[topic] = c
      BY <2>3, <2>4, <2>5 DEF forgiven
    <3>2. c.logs \subseteq some /\ (node.lossy \/ c.logs = some \/ CutAt(some))
      BY <2>2, <2>4, <2>5, Limited
    <3>3. CutAt(some) => Truncated(from, to, {topic})
      BY <2>1 DEF CutAt, Truncated
    <3> QED BY <2>1, <3>1, <3>2, <3>3
  <2>6. CASE ~c.ok
    <3>1. topic \in config.fallible_events /\ answer[topic] = Answer({})
      BY <1>3, <2>3, <2>4, <2>6 DEF forgiven
    <3> QED BY <3>1, AnswerIs
  <2> QED BY <2>5, <2>6
<1>5. a.logs \subseteq M
  <2>1. \A topic \in Topics : answer[topic].logs \subseteq Filtered(InBlocks(from, to), {topic})
    BY <1>4
  <2>2. \A topic \in Topics : Filtered(InBlocks(from, to), {topic}) \subseteq M
    BY <1>1 DEF Filtered
  <2> QED BY <1>3, <2>1, <2>2
<1>6. ASSUME NEW log \in M \ a.logs PROVE Excused(log, from, to, "multiple")
  <2>1. PICK topic \in Topics : topic = log.topic
    BY <1>1 DEF Filtered
  <2>2. log \in Filtered(InBlocks(from, to), {topic})
    BY <1>1, <2>1 DEF Filtered
  <2>3. log \notin answer[topic].logs
    BY <1>3
  <2>4. topic \in config.fallible_events \/ node.lossy \/ Truncated(from, to, {topic})
    BY <1>4, <2>2, <2>3
  <2> QED BY <2>1, <2>4 DEF Excused
<1> QED BY <1>1, <1>5, <1>6 DEF AnswerOk

\* More logs set more bits.
LEMMA BloomGrows ==
  ASSUME NEW K, NEW L, K \subseteq L
  PROVE  compute_logs_bloom(K) \subseteq compute_logs_bloom(L)
<1>1. PICK k, l : k = UNION {Inputs(log) : log \in K} /\ l = UNION {Inputs(log) : log \in L}
  OBVIOUS
<1>2. k \subseteq l
  BY <1>1
<1>3. UNION {Bits[v] : v \in k} \subseteq UNION {Bits[v] : v \in l}
  BY <1>2
<1> QED BY <1>1, <1>3 DEF compute_logs_bloom

\* Fetch::ClientFiltered.
LEMMA ClientOk ==
  ASSUME Setting, NEW b \in Nat, NEW a \in ClientFiltered(b), a.ok
  PROVE  AnswerOk(a.logs, b, b, "client")
<1>1. PICK all : all = InBlocks(b, b)
  OBVIOUS
<1>2. all \in SUBSET chain /\ \A log \in all : log.block \in b .. b
  BY <1>1 DEF InBlocks
<1>3. PICK c \in get_logs(all) :
        a = IF c.ok /\ compute_logs_bloom(c.logs) = compute_logs_bloom(all)
            THEN Answer(Filtered(c.logs, Topics)) ELSE Failed
  BY <1>1 DEF ClientFiltered
<1>4. /\ c.ok /\ compute_logs_bloom(c.logs) = compute_logs_bloom(all)
      /\ a.logs = Filtered(c.logs, Topics)
  BY <1>3, AnswerIs
<1>5. /\ c.logs \subseteq all
      /\ node.lossy \/ c.logs = all \/ (node.cap > 0 /\ c.logs = First(node.cap, all))
  BY <1>2, <1>3, <1>4, NodeAnswers
<1>6. a.logs \subseteq Filtered(all, Topics)
  BY <1>4, <1>5 DEF Filtered
<1>7. ASSUME NEW log \in Filtered(all, Topics) \ a.logs PROVE Excused(log, b, b, "client")
  <2>1. log \in all /\ log \notin c.logs
    BY <1>4 DEF Filtered
  <2>2. node.lossy \/ node.cap > 0
    BY <1>5, <2>1
  <2>3. log.block = b
    BY <1>2, <2>1
  <2>4. compute_logs_bloom({log}) \subseteq compute_logs_bloom(c.logs)
    <3>1. {log} \subseteq all
      BY <2>1
    <3> QED BY <1>4, <3>1, BloomGrows
  <2>5. c.logs \subseteq all \ {log}
    BY <1>5, <2>1
  <2>6. compute_logs_bloom(c.logs) \subseteq compute_logs_bloom(all \ {log})
    BY <2>5, BloomGrows
  <2> QED BY <1>1, <2>2, <2>3, <2>4, <2>6 DEF Excused
<1> QED BY <1>1, <1>6, <1>7 DEF AnswerOk

----------------------------------------------------------------------------
(* The invariant                                                           *)

Hows == {"single", "multiple", "client"}

Batch == [from : Nat, to : Nat, logs : Seq(UNION Chains), how : Hows]

\* The block after the last one that was handed on.
due == IF delivered = <<>> THEN 1 ELSE delivered[Len(delivered)].to + 1

\* Where the watcher is.
Progress ==
    /\ announced \in 0 .. MaxBlock
    /\ \/ step = Idle /\ due = announced + 1
       \/ /\ DOMAIN step = {"kind", "from", "to", "size"} /\ step.kind = "warping"
          /\ due = step.from /\ step.to = announced
          /\ step.from \in Nat \ {0} /\ step.from <= step.to /\ step.size \in Nat \ {0}
       \/ step.kind = "block" /\ step.block = announced /\ due = announced /\ announced # 0

\* A batch has watched logs of its blocks, in order, and those it misses are
\* excused.
BatchOk(b) ==
    /\ AnswerOk(Range(b.logs), b.from, b.to, b.how)
    /\ InOrder(b.logs, Range(b.logs))

\* The batches follow one another.
Contiguous(d) ==
    \A i \in DOMAIN d : d[i].from = IF i = 1 THEN 1 ELSE d[i - 1].to + 1

BatchesOk ==
    /\ delivered \in Seq(Batch) /\ due \in Nat
    /\ \A i \in DOMAIN delivered : BatchOk(delivered[i])
    /\ Contiguous(delivered)

\* All that was handed on is of the blocks before the one that is due.
HandedOk ==
    /\ Handed \in Seq(Filtered(chain, Topics))
    /\ \A i \in 1 .. Len(Handed) : Handed[i].block < due
    /\ \A i \in 2 .. Len(Handed) : Before(Handed[i - 1], Handed[i])

WatchInv == Setting /\ Progress /\ BatchesOk /\ HandedOk

\* Batches are as good as before while the chain and the node stay.
LEMMA BatchStays ==
  ASSUME UNCHANGED <<chain, config, node>>, NEW b, BatchOk(b)
  PROVE  BatchOk(b)'
  BY DEF BatchOk, AnswerOk, Excused, Truncated, InBlocks, Filtered

\* The same block is due.
LEMMA Waits ==
  ASSUME WatchInv, UNCHANGED <<chain, config, node, delivered>>
  PROVE  Setting' /\ BatchesOk' /\ HandedOk' /\ due' = due
<1>1. Setting' /\ due' = due
  BY DEF WatchInv, Setting, due
<1>2. HandedOk'
  BY <1>1 DEF WatchInv, HandedOk, Handed, Filtered
<1>3. \A i \in DOMAIN delivered : BatchOk(delivered[i])'
  BY BatchStays DEF WatchInv, BatchesOk
<1>4. BatchesOk'
  BY <1>1, <1>3 DEF WatchInv, BatchesOk
<1> QED BY <1>1, <1>2, <1>4

\* One batch more.
LEMMA HandsOn ==
  ASSUME WatchInv, NEW from, from = due, NEW to \in Nat, from <= to,
         NEW logs, NEW how \in Hows, AnswerOk(logs, from, to, how),
         delivered' = Append(delivered, [from |-> from, to |-> to, logs |-> decode_and_sort(logs), how |-> how]),
         UNCHANGED <<chain, config, node>>
  PROVE  Setting' /\ BatchesOk' /\ HandedOk' /\ due' = to + 1
<1>1. PICK b : b = [from |-> from, to |-> to, logs |-> decode_and_sort(logs), how |-> how]
  OBVIOUS
<1>2. b.from = from /\ b.to = to /\ b.how = how /\ b.logs = decode_and_sort(logs)
  BY <1>1
<1>3. PICK watched : watched = Filtered(chain, Topics)
  OBVIOUS
<1>4. /\ logs \subseteq watched /\ logs \subseteq chain
      /\ \A log \in logs : log.block \in from .. to
  BY <1>3 DEF AnswerOk, Filtered, InBlocks
<1>5. IsChain(chain) /\ IsChain(logs)
  BY <1>4, SettingIs, ChainSubset DEF WatchInv
<1>6. InOrder(b.logs, logs)
  BY <1>2, <1>5, Sorts
<1>7. /\ b.logs \in Seq(logs) /\ Range(b.logs) = logs
      /\ \A i, j \in 1 .. Len(b.logs) : i < j => Before(b.logs[i], b.logs[j])
  BY <1>6 DEF InOrder
<1>8. BatchOk(b)
  BY <1>2, <1>6, <1>7 DEF BatchOk
<1>9. PICK n \in Nat : n = Len(delivered)
  BY DEF WatchInv, BatchesOk
<1>10. delivered \in Seq(Batch) /\ due \in Nat /\ DOMAIN delivered = 1 .. n
  BY <1>9 DEF WatchInv, BatchesOk
<1>11. b \in Batch
  <2>1. chain \subseteq UNION Chains
    BY DEF WatchInv, Setting
  <2>2. b.logs \in Seq(UNION Chains)
    BY <1>4, <1>7, <2>1
  <2> QED BY <1>1, <1>2, <1>10, <2>2 DEF Batch
<1>12. /\ delivered' \in Seq(Batch) /\ DOMAIN delivered' = 1 .. n + 1 /\ Len(delivered') = n + 1
       /\ delivered'[n + 1] = b /\ \A i \in 1 .. n : delivered'[i] = delivered[i]
  BY <1>1, <1>9, <1>10, <1>11
<1>13. due' = to + 1 /\ due' \in Nat
  BY <1>2, <1>12 DEF due
<1>14. \A i \in DOMAIN delivered' : BatchOk(delivered'[i])
  <2>1. \A i \in 1 .. n : BatchOk(delivered[i])
    BY <1>10 DEF WatchInv, BatchesOk
  <2> QED BY <1>8, <1>12, <2>1
<1>15. Contiguous(delivered')
  <2>1. ASSUME NEW i \in 1 .. n
        PROVE  delivered'[i].from = IF i = 1 THEN 1 ELSE delivered'[i - 1].to + 1
    <3>1. delivered[i].from = IF i = 1 THEN 1 ELSE delivered[i - 1].to + 1
      BY <1>10 DEF WatchInv, BatchesOk, Contiguous
    <3>2. i # 1 => i - 1 \in 1 .. n
      OBVIOUS
    <3> QED BY <1>12, <3>1, <3>2
  <2>2. b.from = IF n + 1 = 1 THEN 1 ELSE delivered'[(n + 1) - 1].to + 1
    <3>1. CASE n = 0
      BY <1>2, <1>9, <1>10, <3>1 DEF due
    <3>2. CASE n # 0
      <4>1. delivered # <<>> /\ n \in 1 .. n /\ (n + 1) - 1 = n
        BY <1>9, <3>2
      <4>2. due = delivered[n].to + 1
        BY <1>9, <4>1 DEF due
      <4> QED BY <1>2, <1>12, <3>2, <4>1, <4>2
    <3> QED BY <3>1, <3>2
  <2>3. \A i \in 1 .. n + 1 : i \in 1 .. n \/ i = n + 1
    OBVIOUS
  <2> QED BY <1>12, <2>1, <2>2, <2>3 DEF Contiguous
<1>16. BatchesOk'
  <2>1. PICK d : d = delivered'
    OBVIOUS
  <2>2. \A i \in DOMAIN d : BatchOk(d[i])'
    BY <1>14, <2>1, BatchStays
  <2>3. \A i \in DOMAIN delivered' : BatchOk(delivered[i])'
    BY <2>1, <2>2
  <2> QED BY <1>12, <1>13, <1>15, <2>3 DEF BatchesOk
<1>17. HandedOk'
  <2>1. PICK h : h = Handed
    OBVIOUS
  <2>2. h \in Seq(watched) /\ \A i \in 1 .. Len(h) : h[i].block < from
    BY <1>3, <2>1 DEF WatchInv, HandedOk
  <2>3. \A i \in 2 .. Len(h) : Before(h[i - 1], h[i])
    BY <2>1 DEF WatchInv, HandedOk
  <2>4. Handed' = IF n = 0 THEN b.logs ELSE h \o b.logs
    <3>1. PICK ss : ss = [i \in DOMAIN delivered |-> delivered[i].logs]
      OBVIOUS
    <3>2. PICK tt : tt = [i \in DOMAIN delivered' |-> delivered'[i].logs]
      OBVIOUS
    <3>3. Len(ss) = n /\ \A i \in 1 .. n : ss[i] = delivered[i].logs
      BY <1>10, <3>1
    <3>4. Len(tt) = n + 1 /\ \A i \in 1 .. n + 1 : tt[i] = delivered'[i].logs
      BY <1>12, <3>2
    <3>5. \A i \in 1 .. n : tt[i] = ss[i]
      BY <1>12, <3>3, <3>4
    <3>6. tt[n + 1] = b.logs
      BY <1>12, <3>4
    <3>7. FlattenSeq(tt) = IF n = 0 THEN tt[1] ELSE FlattenSeq(ss) \o tt[n + 1]
      <4>1. OneMore(ss, tt, n)
        BY <3>3, <3>4, <3>5 DEF OneMore
      <4> QED BY <4>1, FlattenAppend
    <3>8. Handed' = FlattenSeq(tt) /\ h = FlattenSeq(ss)
      BY <2>1, <3>1, <3>2 DEF Handed
    <3> QED BY <3>6, <3>7, <3>8
  <2>5. PICK k : k = Handed'
    OBVIOUS
  <2>6. b.logs \in Seq(watched) /\ \A i \in 1 .. Len(b.logs) : b.logs[i].block \in from .. to
    BY <1>4, <1>7
  <2>7. \A i \in 2 .. Len(b.logs) : Before(b.logs[i - 1], b.logs[i])
    BY <1>7
  <2>8. from \in Nat
    BY <1>10
  <2>9. \A log \in watched : log.block \in Nat
    BY <1>3, <1>5 DEF IsChain, Filtered
  <2>10. /\ k \in Seq(watched) /\ \A i \in 1 .. Len(k) : k[i].block < to + 1
         /\ \A i \in 2 .. Len(k) : Before(k[i - 1], k[i])
    <3>1. CASE n = 0
      <4>1. k = b.logs
        BY <2>4, <2>5, <3>1
      <4> QED BY <2>6, <2>7, <2>8, <4>1
    <3>2. CASE n # 0
      <4>1. k = h \o b.logs
        BY <2>4, <2>5, <3>2
      <4>2. PICK p \in Nat, q \in Nat : p = Len(h) /\ q = Len(b.logs)
        BY <2>2, <2>6
      <4>3. k \in Seq(watched) /\ Len(k) = p + q
        BY <2>2, <2>6, <4>1, <4>2
      <4>4. \A i \in 1 .. p + q : k[i] = IF i <= p THEN h[i] ELSE b.logs[i - p]
        BY <2>2, <2>6, <4>1, <4>2
      <4>5. ASSUME NEW i \in 1 .. p + q PROVE k[i].block < to + 1
        <5>1. CASE i <= p
          <6>1. k[i] = h[i] /\ i \in 1 .. Len(h) /\ h[i] \in watched
            BY <2>2, <4>2, <4>4, <5>1
          <6>2. h[i].block < from /\ h[i].block \in Nat
            BY <2>2, <2>9, <6>1
          <6> QED BY <2>8, <6>1, <6>2
        <5>2. CASE i > p
          <6>1. k[i] = b.logs[i - p] /\ i - p \in 1 .. Len(b.logs)
            BY <4>2, <4>4, <5>2
          <6>2. b.logs[i - p].block \in from .. to
            BY <2>6, <6>1
          <6> QED BY <2>8, <6>1, <6>2
        <5> QED BY <5>1, <5>2
      <4>6. ASSUME NEW i \in 2 .. p + q PROVE Before(k[i - 1], k[i])
        <5>1. CASE i <= p
          <6>1. k[i] = h[i] /\ k[i - 1] = h[i - 1] /\ i \in 2 .. Len(h)
            BY <4>2, <4>4, <5>1
          <6> QED BY <2>3, <6>1
        <5>2. CASE i = p + 1
          <6>1. k[i] = b.logs[1] /\ k[i - 1] = h[p] /\ 1 \in 1 .. Len(b.logs) /\ p \in 1 .. Len(h)
            BY <4>2, <4>4, <5>2
          <6>2. h[p].block < from /\ h[p].block \in Nat /\ b.logs[1].block \in from .. to
            BY <2>2, <2>6, <2>9, <6>1
          <6> QED BY <2>8, <6>1, <6>2 DEF Before
        <5>3. CASE i > p + 1
          <6>1. PICK j \in 2 .. Len(b.logs) : j = i - p
            <7>1. i \in Nat /\ i <= p + q
              BY <4>2
            <7>2. i - p \in 2 .. q
              BY <4>2, <5>3, <7>1
            <7> QED BY <4>2, <7>2
          <6>2. k[i] = b.logs[j] /\ k[i - 1] = b.logs[j - 1]
            BY <4>4, <5>3, <6>1
          <6> QED BY <2>7, <6>1, <6>2
        <5> QED BY <5>1, <5>2, <5>3
      <4> QED BY <4>3, <4>5, <4>6
    <3> QED BY <3>1, <3>2
  <2> QED BY <1>3, <1>13, <2>5, <2>10 DEF HandedOk, Filtered
<1>18. Setting'
  BY DEF WatchInv, Setting
<1> QED BY <1>13, <1>16, <1>17, <1>18

----------------------------------------------------------------------------
(* Steps                                                                   *)

\* The end of a page is in the warp.
LEMMA PageIs ==
  ASSUME Progress, step.kind = "warping"
  PROVE  /\ announced \in Nat /\ step.to = announced /\ due = step.from
         /\ DOMAIN step = {"kind", "from", "to", "size"}
         /\ step.from \in Nat \ {0} /\ step.size \in Nat \ {0}
         /\ pageEnd \in Nat /\ step.from <= pageEnd /\ pageEnd <= step.to
<1>1. /\ announced \in Nat /\ step.to = announced /\ due = step.from
      /\ DOMAIN step = {"kind", "from", "to", "size"}
      /\ step.from \in Nat \ {0} /\ step.from <= step.to /\ step.size \in Nat \ {0}
  BY EventWatcherAssumption DEF Progress, Idle
<1>2. PICK x \in Nat, y \in Nat : x = step.to /\ y = step.from + step.size - 1
  BY <1>1
<1>3. \E m \in {x, y} : \A n \in {x, y} : m <= n
  BY <1>2
<1>4. pageEnd \in {x, y} /\ \A n \in {x, y} : pageEnd <= n
  BY <1>2, <1>3 DEF pageEnd, Min
<1>5. step.from <= y /\ step.from <= x
  BY <1>1, <1>2
<1> QED BY <1>1, <1>2, <1>4, <1>5

\* The answer to the query that is due.
LEMMA FetchOk ==
  ASSUME Setting, Progress, NEW a \in fetch_logs, a.ok
  PROVE  /\ step.kind = "warping" => AnswerOk(a.logs, step.from, pageEnd, warpQuery)
         /\ step.kind = "block" => AnswerOk(a.logs, step.block, step.block, blockQuery)
         /\ warpQuery \in Hows /\ blockQuery \in Hows
<1>1. warpQuery \in {"single", "multiple"} /\ blockQuery \in Hows
  BY DEF warpQuery, blockQuery, Hows
<1>2. CASE step.kind = "warping"
  <2>1. CASE warpQuery = "single"
    <3>1. a \in SingleQuery(step.from, pageEnd)
      BY <1>2, <2>1 DEF fetch_logs
    <3> QED BY <1>1, <1>2, <2>1, <3>1, SingleOk DEF Hows
  <2>2. CASE warpQuery = "multiple"
    <3>1. a \in MultipleQueries(step.from, pageEnd)
      BY <1>2, <2>2 DEF fetch_logs
    <3> QED BY <1>1, <1>2, <2>2, <3>1, MultipleOk DEF Hows
  <2> QED BY <1>1, <2>1, <2>2
<1>3. CASE step.kind = "block"
  <2>1. step.block \in Nat
    BY <1>3, EventWatcherAssumption DEF Progress, Idle
  <2>2. CASE blockQuery = "single"
    <3>1. a \in SingleQuery(step.block, step.block)
      BY <1>3, <2>2 DEF fetch_logs
    <3> QED BY <1>1, <1>3, <2>2, <3>1, SingleOk DEF Hows
  <2>3. CASE blockQuery = "multiple"
    <3>1. a \in MultipleQueries(step.block, step.block)
      BY <1>3, <2>3 DEF fetch_logs
    <3> QED BY <1>1, <1>3, <2>3, <3>1, MultipleOk DEF Hows
  <2>4. CASE blockQuery = "client"
    <3>1. a \in ClientFiltered(step.block)
      BY <1>3, <2>4 DEF fetch_logs
    <3> QED BY <1>1, <1>3, <2>1, <2>4, <3>1, ClientOk DEF Hows
  <2> QED BY <1>1, <2>2, <2>3, <2>4 DEF Hows
<1>4. CASE step.kind \notin {"warping", "block"}
  BY <1>1, <1>4 DEF Hows
<1> QED BY <1>2, <1>3, <1>4

\* A warp is announced.
LEMMA OnWarp ==
  ASSUME WatchInv, NEW to \in 1 .. MaxBlock, on_warp(to)
  PROVE  WatchInv'
<1>1. /\ step = Idle /\ announced = 0 /\ announced' = to
      /\ step' = Warping(1, to, config.block_page_size)
      /\ UNCHANGED <<chain, config, node, delivered>>
  BY DEF on_warp
<1>2. Setting' /\ BatchesOk' /\ HandedOk' /\ due' = due
  BY <1>1, Waits
<1>3. config.block_page_size \in Nat \ {0} /\ MaxBlock \in Nat
  BY SettingIs DEF WatchInv
<1>4. due = 1
  BY <1>1, EventWatcherAssumption DEF WatchInv, Progress, Idle
<1>5. /\ DOMAIN step' = {"kind", "from", "to", "size"} /\ step'.kind = "warping"
      /\ step'.from = 1 /\ step'.to = to /\ step'.size = config.block_page_size
  BY <1>1 DEF Warping
<1>6. Progress'
  BY <1>1, <1>2, <1>3, <1>4, <1>5 DEF Progress
<1> QED BY <1>2, <1>6 DEF WatchInv

\* A block is announced.
LEMMA OnNew ==
  ASSUME WatchInv, on_new
  PROVE  WatchInv'
<1>1. /\ step = Idle /\ announced < MaxBlock /\ announced' = announced + 1
      /\ step' = Fetching(announced + 1, 0)
      /\ UNCHANGED <<chain, config, node, delivered>>
  BY DEF on_new
<1>2. Setting' /\ BatchesOk' /\ HandedOk' /\ due' = due
  BY <1>1, Waits
<1>3. MaxBlock \in Nat /\ announced \in 0 .. MaxBlock
  BY SettingIs DEF WatchInv, Progress
<1>4. due = announced + 1
  BY <1>1, EventWatcherAssumption DEF WatchInv, Progress, Idle
<1>5. step'.kind = "block" /\ step'.block = announced + 1
  BY <1>1 DEF Fetching
<1>6. Progress'
  BY <1>1, <1>2, <1>3, <1>4, <1>5 DEF Progress
<1> QED BY <1>2, <1>6 DEF WatchInv

\* A page.
LEMMA Warps ==
  ASSUME WatchInv, NEW a \in fetch_logs, warp(a)
  PROVE  WatchInv'
<1>1. step.kind = "warping" /\ UNCHANGED <<chain, config, node, announced>>
  BY DEF warp
<1>2. /\ announced \in Nat /\ step.to = announced /\ due = step.from
      /\ DOMAIN step = {"kind", "from", "to", "size"}
      /\ step.from \in Nat \ {0} /\ step.size \in Nat \ {0}
      /\ pageEnd \in Nat /\ step.from <= pageEnd /\ pageEnd <= step.to
  BY <1>1, PageIs DEF WatchInv
<1>3. MaxBlock \in Nat /\ announced \in 0 .. MaxBlock /\ config.block_page_size \in Nat \ {0}
  BY SettingIs DEF WatchInv, Progress
<1>4. CASE a.ok /\ decodable(a)
  <2>1. deliver(step.from, pageEnd, a, warpQuery) /\ step' = afterPage
    BY <1>4 DEF warp
  <2>2. AnswerOk(a.logs, step.from, pageEnd, warpQuery) /\ warpQuery \in Hows
    BY <1>1, <1>4, FetchOk DEF WatchInv
  <2>3. PICK from, logs, to, how :
          from = step.from /\ logs = a.logs /\ to = pageEnd /\ how = warpQuery
    OBVIOUS
  <2>4. delivered' = Append(delivered,
          [from |-> from, to |-> to, logs |-> decode_and_sort(logs), how |-> how])
    BY <2>1, <2>3 DEF deliver
  <2>5. Setting' /\ BatchesOk' /\ HandedOk' /\ due' = to + 1
    BY <1>1, <1>2, <2>2, <2>3, <2>4, HandsOn
  <2>6. CASE pageEnd = step.to
    <3>1. step' = Idle /\ to = announced
      BY <1>2, <2>1, <2>3, <2>6 DEF afterPage
    <3>2. Progress'
      BY <1>1, <1>3, <2>5, <3>1 DEF Progress
    <3> QED BY <2>5, <3>2 DEF WatchInv
  <2>7. CASE pageEnd # step.to
    <3>1. step' = Warping(to + 1, announced, config.block_page_size)
      BY <1>2, <2>1, <2>3, <2>7 DEF afterPage
    <3>2. /\ DOMAIN step' = {"kind", "from", "to", "size"} /\ step'.kind = "warping"
          /\ step'.from = to + 1 /\ step'.to = announced /\ step'.size = config.block_page_size
      BY <3>1 DEF Warping
    <3>3. to + 1 \in Nat \ {0} /\ to + 1 <= announced
      BY <1>2, <2>3, <2>7
    <3>4. Progress'
      BY <1>1, <1>3, <2>5, <3>2, <3>3 DEF Progress
    <3> QED BY <2>5, <3>4 DEF WatchInv
  <2> QED BY <2>6, <2>7
<1>5. CASE ~(a.ok /\ decodable(a))
  <2>1. step' = [step EXCEPT !.size = narrowed] /\ delivered' = delivered
    BY <1>5 DEF warp
  <2>2. Setting' /\ BatchesOk' /\ HandedOk' /\ due' = due
    BY <1>1, <2>1, Waits
  <2>3. narrowed \in Nat \ {0}
    BY <1>2 DEF narrowed
  <2>4. /\ DOMAIN step' = {"kind", "from", "to", "size"} /\ step'.kind = "warping"
        /\ step'.from = step.from /\ step'.to = step.to /\ step'.size = narrowed
    BY <1>1, <1>2, <2>1
  <2>5. Progress'
    BY <1>1, <1>2, <1>3, <2>2, <2>3, <2>4 DEF Progress
  <2> QED BY <2>2, <2>5 DEF WatchInv
<1> QED BY <1>4, <1>5

\* The logs of a block.
LEMMA Blocks ==
  ASSUME WatchInv, NEW a \in fetch_logs, block(a)
  PROVE  WatchInv'
<1>1. step.kind = "block" /\ UNCHANGED <<chain, config, node, announced>>
  BY DEF block
<1>2. /\ MaxBlock \in Nat /\ announced \in 0 .. MaxBlock /\ step.block = announced
      /\ due = announced /\ announced # 0
  BY <1>1, SettingIs DEF WatchInv, Progress, Idle
<1>3. CASE a.ok /\ decodable(a)
  <2>1. deliver(step.block, step.block, a, blockQuery) /\ step' = Idle
    BY <1>3 DEF block
  <2>2. AnswerOk(a.logs, step.block, step.block, blockQuery) /\ blockQuery \in Hows
    BY <1>1, <1>3, FetchOk DEF WatchInv
  <2>3. PICK b, logs, how : b = step.block /\ logs = a.logs /\ how = blockQuery
    OBVIOUS
  <2>4. delivered' = Append(delivered, [from |-> b, to |-> b, logs |-> decode_and_sort(logs), how |-> how])
    BY <2>1, <2>3 DEF deliver
  <2>5. b \in Nat /\ b <= b /\ b = due
    BY <1>2, <2>3
  <2>6. Setting' /\ BatchesOk' /\ HandedOk' /\ due' = b + 1
    BY <1>1, <2>2, <2>3, <2>4, <2>5, HandsOn
  <2>7. Progress'
    BY <1>1, <1>2, <2>1, <2>3, <2>6 DEF Progress
  <2> QED BY <2>6, <2>7 DEF WatchInv
<1>4. CASE ~(a.ok /\ decodable(a))
  <2>1. step' = Fetching(step.block, retried) /\ delivered' = delivered
    BY <1>4 DEF block
  <2>2. Setting' /\ BatchesOk' /\ HandedOk' /\ due' = due
    BY <1>1, <2>1, Waits
  <2>3. step'.kind = "block" /\ step'.block = announced
    BY <1>2, <2>1 DEF Fetching
  <2>4. Progress'
    BY <1>1, <1>2, <2>2, <2>3 DEF Progress
  <2> QED BY <2>2, <2>4 DEF WatchInv
<1> QED BY <1>3, <1>4

\* Nothing has happened at first.
LEMMA InitWatch == Init => WatchInv
<1> SUFFICES ASSUME Init PROVE WatchInv
  OBVIOUS
<1>1. announced = 0 /\ step = Idle /\ delivered = <<>> /\ Setting
  BY DEF Init, Setting
<1>2. due = 1
  BY <1>1 DEF due
<1>3. Progress
  BY <1>1, <1>2, EventWatcherAssumption DEF Progress
<1>4. BatchesOk
  BY <1>1, <1>2 DEF BatchesOk, Contiguous
<1>5. Handed = <<>>
  <2>1. PICK ss : ss = [i \in DOMAIN delivered |-> delivered[i].logs]
    OBVIOUS
  <2>2. ss = <<>>
    BY <1>1, <2>1
  <2>3. Len(ss) = 0
    BY <2>2
  <2> QED BY <2>1, <2>2, <2>3 DEF Handed, FlattenSeq
<1>6. HandedOk
  BY <1>5 DEF HandedOk
<1> QED BY <1>1, <1>3, <1>4, <1>6 DEF WatchInv

\* Every step keeps the invariant.
LEMMA NextWatch == WatchInv /\ [Next]_vars => WatchInv'
<1> SUFFICES ASSUME WatchInv, [Next]_vars PROVE WatchInv'
  OBVIOUS
<1>1. CASE \E to \in 1 .. MaxBlock : on_warp(to)
  BY <1>1, OnWarp
<1>2. CASE on_new
  BY <1>2, OnNew
<1>3. CASE \E a \in fetch_logs : warp(a)
  BY <1>3, Warps
<1>4. CASE \E a \in fetch_logs : block(a)
  BY <1>4, Blocks
<1>5. CASE UNCHANGED vars
  <2>1. UNCHANGED <<chain, config, node, delivered, announced, step>>
    BY <1>5 DEF vars
  <2>2. Setting' /\ BatchesOk' /\ HandedOk' /\ due' = due
    BY <2>1, Waits
  <2>3. Progress'
    BY <2>1, <2>2 DEF WatchInv, Progress, Idle
  <2> QED BY <2>2, <2>3 DEF WatchInv
<1> QED BY <1>1, <1>2, <1>3, <1>4, <1>5 DEF Next

\* However often pages are narrowed and blocks retried, the batches follow one
\* another without a gap or an overlap, and the logs come in the order of the
\* chain, each at most once, and only those that are watched: for any chain,
\* configuration and node.
THEOREM LogsInOrder == Spec => []InChainOrder
<1>1. WatchInv => InChainOrder
  <2>1. SUFFICES ASSUME WatchInv PROVE InChainOrder
    OBVIOUS
  <2>2. Contiguous(delivered) /\ HandedOk
    BY <2>1 DEF WatchInv, BatchesOk
  <2>3. Range(Handed) \subseteq Filtered(chain, Topics)
    BY <2>2 DEF HandedOk, Range
  <2> QED BY <2>2, <2>3 DEF InChainOrder, Contiguous, HandedOk
<1> QED BY <1>1, InitWatch, NextWatch, PTL DEF Spec

\* A watched log of a block that was handed on is missing only because its
\* event is fallible and was asked for on its own, because the node is lossy
\* and the query one that cannot be verified, because the node cut off the
\* answer at a limit the watcher was not configured with, or because the other
\* logs of its block set all of its bits of the bloom filter.
THEOREM LossesExcused == Spec => []NothingLost
<1>1. WatchInv => NothingLost
  <2>1. SUFFICES ASSUME WatchInv, NEW i \in DOMAIN delivered,
                        NEW log \in Filtered(InBlocks(delivered[i].from, delivered[i].to), Topics),
                        log \notin Range(delivered[i].logs)
                 PROVE  Excused(log, delivered[i].from, delivered[i].to, delivered[i].how)
    BY DEF NothingLost, Excused
  <2>2. AnswerOk(Range(delivered[i].logs), delivered[i].from, delivered[i].to, delivered[i].how)
    BY <2>1 DEF WatchInv, BatchesOk, BatchOk
  <2> QED BY <2>1, <2>2 DEF AnswerOk
<1> QED BY <1>1, InitWatch, NextWatch, PTL DEF Spec
=============================================================================
