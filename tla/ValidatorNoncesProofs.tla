----------------------- MODULE ValidatorNoncesProofs -----------------------
(***************************************************************************)
(* For every number of trees, messages and chunks, every chunk size and    *)
(* every reorganisation depth:                                             *)
(*                                                                         *)
(*  - no nonce signs twice.  Only the secret store, the resumes that carry *)
(*    a nonce and the history matter: the proof never looks into the       *)
(*    validator's state, which is why no replay of it can do harm;         *)
(*  - the nonce a session selected is the one the contract accepts, and    *)
(*    no share is made with any other.  Here the state matters: it agrees  *)
(*    with the chain it was computed on, live and in every snapshot.       *)
(***************************************************************************)
EXTENDS ValidatorNonces, TLAPS

\* What the argument needs to know of the types.
SecretsTyped ==
    /\ fresh \subseteq Roots
    /\ store \subseteq Nonces
    /\ \A e \in taken : e.nonce \in Nonces
    /\ spent \in [Nonces -> Nat]

\* The inductive invariant: a nonce is in one place at most, and a nonce that
\* is in none was used once or was lost.
NonceInv == SecretsTyped /\ NonceInOnePlace /\ NonceSignsOnce

\* At the start no nonce exists.
LEMMA InitNonces == Init => NonceInv
  BY DEF Init, NonceInv, SecretsTyped, NonceInOnePlace, NonceSignsOnce

\* The steps that touch neither the secrets nor the nonces that were taken.
LEMMA SecretsUntouched ==
  NonceInv /\ UNCHANGED <<secrets, taken>> => NonceInv'
  BY DEF NonceInv, SecretsTyped, NonceInOnePlace, NonceSignsOnce, secrets

\* A new tree fills the store with nonces that never existed before.
LEMMA TreeKeepsNonces ==
  ASSUME NonceInv, NEW root \in Roots, performNonceTree(root)
  PROVE  NonceInv'
<1>1. /\ root \in fresh
      /\ fresh' = fresh \ {root}
      /\ store' = store \cup ({root} \X (0 .. ChunkSize - 1))
      /\ taken' = taken
      /\ spent' = spent
  BY DEF performNonceTree
<1>2. {root} \X (0 .. ChunkSize - 1) \subseteq Nonces
  BY DEF Nonces
<1>3. SecretsTyped'
  BY <1>1, <1>2 DEF NonceInv, SecretsTyped
<1>4. \A n \in {root} \X (0 .. ChunkSize - 1) :
        n \in Nonces /\ n[1] = root /\ spent[n] = 0 /\ \A e \in taken : e.nonce # n
  BY <1>1, <1>2 DEF NonceInv, NonceInOnePlace
<1>5. NonceInOnePlace'
  <2>1. \A e \in taken : e.nonce \notin store' /\ spent[e.nonce] = 0
    BY <1>1, <1>4 DEF NonceInv, NonceInOnePlace
  <2>2. \A n \in store' : spent[n] = 0
    BY <1>1, <1>4 DEF NonceInv, NonceInOnePlace
  <2>3. ASSUME NEW n \in Nonces, n[1] \in fresh'
        PROVE  n \notin store' /\ spent[n] = 0 /\ \A e \in taken : e.nonce # n
    BY <1>1, <1>4, <2>3 DEF NonceInv, NonceInOnePlace
  <2> QED BY <1>1, <2>1, <2>2, <2>3 DEF NonceInv, NonceInOnePlace
<1> QED BY <1>1, <1>3, <1>5 DEF NonceInv, NonceSignsOnce

\* take_nonce moves a nonce from the store to one resume.
LEMMA UseKeepsNonces ==
  ASSUME NonceInv, NEW e, performUseNonce(e)
  PROVE  NonceInv'
<1>1. /\ e.nonce \in store
      /\ store' = store \ {e.nonce}
      /\ taken' = taken \cup {e}
      /\ fresh' = fresh
      /\ spent' = spent
  BY DEF performUseNonce, storeAfterTake
<1>2. e.nonce \in Nonces /\ spent[e.nonce] = 0 /\ e.nonce[1] \notin fresh
  BY <1>1 DEF NonceInv, SecretsTyped, NonceInOnePlace
<1>3. \A f \in taken : f.nonce # e.nonce
  BY <1>1 DEF NonceInv, NonceInOnePlace
<1> QED
  BY <1>1, <1>2, <1>3 DEF NonceInv, SecretsTyped, NonceInOnePlace, NonceSignsOnce

\* Reconciliation only drops nonces.
LEMMA ReconcileKeepsNonces ==
  ASSUME NonceInv, performReconcile
  PROVE  NonceInv'
  BY DEF performReconcile, resumes, NonceInv, SecretsTyped, NonceInOnePlace, NonceSignsOnce

\* handle_nonces spends what one resume carries.
LEMMA ResumeKeepsNonces ==
  ASSUME NonceInv, NEW e \in taken, resumeNonce(e)
  PROVE  NonceInv'
<1>1. /\ taken' = taken \ {e}
      /\ store' = store
      /\ fresh' = fresh
      /\ spent' = spent \/ spent' = [spent EXCEPT ![e.nonce] = @ + 1]
  BY DEF resumeNonce
<1>2. /\ e.nonce \in Nonces
      /\ e.nonce \notin store
      /\ spent[e.nonce] = 0
      /\ e.nonce[1] \notin fresh
      /\ \A f \in taken' : f.nonce # e.nonce
  BY <1>1 DEF NonceInv, SecretsTyped, NonceInOnePlace
<1>3. CASE spent' = spent
  BY <1>1, <1>3 DEF NonceInv, SecretsTyped, NonceInOnePlace, NonceSignsOnce
<1>4. CASE spent' = [spent EXCEPT ![e.nonce] = @ + 1]
  <2>1. spent' \in [Nonces -> Nat] /\ spent'[e.nonce] = 1
    BY <1>2, <1>4 DEF NonceInv, SecretsTyped
  <2>2. \A n \in Nonces : n # e.nonce => spent'[n] = spent[n]
    BY <1>4 DEF NonceInv, SecretsTyped
  <2>3. NonceSignsOnce'
    BY <2>1, <2>2 DEF NonceInv, NonceSignsOnce
  <2>4. SecretsTyped'
    BY <1>1, <2>1 DEF NonceInv, SecretsTyped
  <2>5. NonceInOnePlace'
    BY <1>1, <1>2, <2>2 DEF NonceInv, SecretsTyped, NonceInOnePlace
  <2> QED BY <2>3, <2>4, <2>5 DEF NonceInv
<1> QED BY <1>1, <1>3, <1>4

\* What a block does to nonces: nothing but ask for one.
BlockAsks ==
    /\ UNCHANGED <<secrets, taken>>
    /\ \/ uses' = uses
       \/ \E m \in Messages : \E n : uses' = uses \cup {[message |-> m, nonce |-> n]}

\* handle_sign_revealed_nonces alone asks for a nonce; no handler of a block
\* takes or spends one.
LEMMA BlocksOnlyAsk == NewBlock => BlockAsks
<1> SUFFICES ASSUME NEW b,
        \/ blockWithoutEvent(b)
        \/ \E root \in Roots : blockPreprocess(b, root)
        \/ \E m \in Messages :
            \/ blockProposed(b, m)
            \/ blockSign(b, m)
            \/ blockForeignSign(b, m)
            \/ \E approved \in BOOLEAN : blockOracleResult(b, m, approved)
            \/ \E t \in revealTx : blockAllRevealed(b, m, t)
            \/ blockCompleted(b, m)
            \/ blockAttested(b, m)
      PROVE BlockAsks
  BY DEF NewBlock
<1>1. CASE blockWithoutEvent(b)
  BY <1>1 DEF blockWithoutEvent, resumes, BlockAsks
<1>2. ASSUME NEW root \in Roots, blockPreprocess(b, root) PROVE BlockAsks
  BY <1>2 DEF blockPreprocess, resumes, BlockAsks
<1>3. ASSUME NEW m \in Messages, blockProposed(b, m) PROVE BlockAsks
  BY <1>3 DEF blockProposed, resumes, BlockAsks
<1>4. ASSUME NEW m \in Messages, blockSign(b, m) PROVE BlockAsks
  BY <1>4 DEF blockSign, resumes, BlockAsks
<1>5. ASSUME NEW m \in Messages, blockForeignSign(b, m) PROVE BlockAsks
  BY <1>5 DEF blockForeignSign, resumes, BlockAsks
<1>6. ASSUME NEW m \in Messages, NEW approved \in BOOLEAN, blockOracleResult(b, m, approved)
      PROVE  BlockAsks
  BY <1>6 DEF blockOracleResult, resumes, BlockAsks
<1>7. ASSUME NEW m \in Messages, NEW t \in revealTx, blockAllRevealed(b, m, t)
      PROVE  BlockAsks
  BY <1>7 DEF blockAllRevealed, resumes, BlockAsks
<1>8. ASSUME NEW m \in Messages, blockCompleted(b, m) PROVE BlockAsks
  BY <1>8 DEF blockCompleted, resumes, BlockAsks
<1>9. ASSUME NEW m \in Messages, blockAttested(b, m) PROVE BlockAsks
  BY <1>9 DEF blockAttested, resumes, BlockAsks
<1> QED BY <1>1, <1>2, <1>3, <1>4, <1>5, <1>6, <1>7, <1>8, <1>9

\* Every step of validator, chain and process preserves the invariant.
LEMMA NextNonces == NonceInv /\ [Next]_vars => NonceInv'
<1> SUFFICES ASSUME NonceInv, [Next]_vars
             PROVE  NonceInv'
  OBVIOUS
<1> USE SecretsUntouched
<1>1. CASE NewBlock
  BY <1>1, BlocksOnlyAsk DEF BlockAsks
<1>2. CASE Effects
  <2>1. ASSUME NEW root \in Roots, performNonceTree(root) PROVE NonceInv'
    BY <2>1, TreeKeepsNonces
  <2>2. CASE failNonceTree
    BY <2>2 DEF failNonceTree, resumes
  <2>3. ASSUME NEW e \in uses, performUseNonce(e) PROVE NonceInv'
    BY <2>3, UseKeepsNonces
  <2>4. ASSUME NEW e \in uses, failUseNonce(e) PROVE NonceInv'
    BY <2>4 DEF failUseNonce, resumes
  <2>5. ASSUME NEW e \in reveals, performReveal(e) PROVE NonceInv'
    BY <2>5 DEF performReveal
  <2>6. CASE performReconcile
    BY <2>6, ReconcileKeepsNonces
  <2> QED BY <1>2, <2>1, <2>2, <2>3, <2>4, <2>5, <2>6 DEF Effects
<1>3. CASE Resumes
  <2>1. ASSUME NEW root \in sampled, resumeNonceTree(root) PROVE NonceInv'
    BY <2>1 DEF resumeNonceTree
  <2>2. ASSUME NEW e \in opened, resumeReveal(e) PROVE NonceInv'
    BY <2>2 DEF resumeReveal
  <2>3. ASSUME NEW e \in taken, resumeNonce(e) PROVE NonceInv'
    BY <2>3, ResumeKeepsNonces
  <2> QED BY <1>3, <2>1, <2>2, <2>3 DEF Resumes
<1>4. ASSUME NEW d \in 1 .. MaxReorgDepth, reorg(d) PROVE NonceInv'
  BY <1>4 DEF reorg, resumes
<1>5. ASSUME NEW d \in 0 .. MaxReorgDepth, restart(d) PROVE NonceInv'
  BY <1>5 DEF restart, secrets, NonceInv, SecretsTyped, NonceInOnePlace, NonceSignsOnce
<1>6. CASE UNCHANGED vars
  BY <1>6 DEF vars, resumes
<1> QED BY <1>1, <1>2, <1>3, <1>4, <1>5, <1>6 DEF Next

\* Every nonce is in one place at most: in the table `nonces`, in one Nonce
\* resume, or used; whatever take_nonce, retain_nonces, reorganisations and
\* restarts do to it.
THEOREM NoncesInOnePlace == Spec => []NonceInOnePlace
<1>1. NonceInv => NonceInOnePlace
  BY DEF NonceInv
<1> QED BY <1>1, InitNonces, NextNonces, PTL DEF Spec

\* handle_nonces never computes two signature shares from one nonce.
THEOREM NoncesSignOnce == Spec => []NonceSignsOnce
<1>1. NonceInv => NonceSignsOnce
  BY DEF NonceInv
<1> QED BY <1>1, InitNonces, NextNonces, PTL DEF Spec
----------------------------------------------------------------------------
(* The chain and the validator's view of it                                *)

Stages == {"None", "WaitingForRequest", "WaitingForAttestation"} \cup InCeremony

Sessions == [stage : Stages, seq : Nat, root : Roots \cup {Absent}]

Chains ==
    [sequence : Nat, next : Nat,
     roots : [Chunks -> Roots \cup {Absent}], starts : [Chunks -> Nat]]

States ==
    [active : BOOLEAN, tracked : BOOLEAN, nextSequence : Nat,
     chunks : [Chunks -> Roots \cup {Absent, Pending}], signing : [Messages -> Sessions]]

\* Chunks are written in order, so each is written once; and one that was
\* started in its middle was started where the ceremonies had come to.
ChunksInOrder(c) ==
    \A d \in Chunks : c.roots[d] # Absent =>
        /\ d < c.next
        /\ \/ c.starts[d] = 0
           \/ d < chunkOf(c.sequence)
           \/ d = chunkOf(c.sequence) /\ c.starts[d] <= offsetOf(c.sequence)

\* The roots the validator linked are the ones the chain holds.
LinksMatch(c, v) == \A d \in Chunks : v.chunks[d] \in Roots => c.roots[d] = v.chunks[d]

\* SelectedNonceAccepted for a chain and a state of their own, with the facts
\* that keep it true: the chunk exists and the root is a root.
NoncesAccepted(c, v) ==
    \A m \in Messages : v.signing[m].stage \in InCeremony =>
        /\ v.signing[m].root \in Roots
        /\ chunkOf(v.signing[m].seq) \in Chunks
        /\ accepts(c, v.signing[m].seq, v.signing[m].root)

Agrees(c, v) ==
    /\ c \in Chains
    /\ v \in States
    /\ ChunksInOrder(c)
    /\ LinksMatch(c, v)
    /\ NoncesAccepted(c, v)

Snapshots == {x \in [chain : Chains, val : States] : Agrees(x.chain, x.val)}

\* The inductive invariant: the live state agrees with the chain, and so does
\* every snapshot with the chain it was taken on.
ChainInv ==
    /\ snaps \in Seq(Snapshots)
    /\ Len(snaps) > 0
    /\ Agrees(chain, val)

\* A state v that knows no root and follows no ceremony that w does not.
KnowsNoMore(v, w) ==
    /\ \A d \in Chunks : v.chunks[d] \in Roots => v.chunks[d] = w.chunks[d]
    /\ \A m \in Messages : v.signing[m].stage \in InCeremony => v.signing[m] = w.signing[m]

\* The chunk and the offset of the sequence number after s.
LEMMA NextSequence ==
  ASSUME NEW s \in Nat
  PROVE  /\ chunkOf(s) \in Nat
         /\ offsetOf(s) \in 0 .. ChunkSize - 1
         /\ \/ chunkOf(s + 1) = chunkOf(s) /\ offsetOf(s + 1) = offsetOf(s) + 1
            \/ chunkOf(s + 1) = chunkOf(s) + 1 /\ offsetOf(s + 1) = 0
  BY SizeAssumption, Z3 DEF chunkOf, offsetOf

\* Forgetting keeps what a state knows true.
LEMMA AgreesForgets ==
  ASSUME NEW c, NEW v, NEW w \in States, Agrees(c, v), KnowsNoMore(w, v)
  PROVE  Agrees(c, w)
  BY DEF Agrees, KnowsNoMore, LinksMatch, NoncesAccepted

\* reserve_chunk only writes a chunk without a root.
LEMMA ReserveForgets ==
  ASSUME NEW v \in States
  PROVE  reserveChunk(v) \in States /\ KnowsNoMore(reserveChunk(v), v)
<1>1. PICK e : e = expectedChunk(v)
  OBVIOUS
<1>2. CASE e \in Chunks
  <2>1. reserveChunk(v) = [v EXCEPT !.chunks[e] = Pending]
    BY <1>1, <1>2 DEF reserveChunk
  <2> QED BY <1>2, <2>1, SlotAssumption DEF States, KnowsNoMore
<1>3. CASE e \notin Chunks
  <2>1. reserveChunk(v) = v
    BY <1>1, <1>3 DEF reserveChunk
  <2> QED BY <2>1 DEF KnowsNoMore
<1> QED BY <1>2, <1>3

\* A new block times sessions out, retires the group and reserves a chunk.
LEMMA NewBlockForgets ==
  ASSUME NEW b \in Blocks, val \in States
  PROVE  onNewBlock(b) \in States /\ KnowsNoMore(onNewBlock(b), val)
<1>1. PICK v : v = beforeTopUp(b)
  OBVIOUS
<1>2. v \in States /\ KnowsNoMore(v, val)
  <2>1. b.retire \in BOOLEAN
    BY DEF Blocks, States
  <2>2. NoSession \in Sessions /\ WaitingForRequest \in Sessions
    BY DEF NoSession, WaitingForRequest, Sessions, Stages
  <2>3. NoSession.stage \notin InCeremony /\ WaitingForRequest.stage \notin InCeremony
    BY DEF NoSession, WaitingForRequest, InCeremony
  <2>4. PICK f : f = [m \in Messages |->
            CASE m \in b.dropped -> NoSession
              [] m \in b.retried -> WaitingForRequest
              [] OTHER -> val.signing[m]]
    OBVIOUS
  <2>5. f \in [Messages -> Sessions]
    BY <2>2, <2>4 DEF States
  <2>6. \A m \in Messages : f[m].stage \in InCeremony => f[m] = val.signing[m]
    BY <2>3, <2>4
  <2>7. v = [[val EXCEPT !.active = val.active /\ ~b.retire] EXCEPT !.signing = f]
    BY <1>1, <2>4 DEF beforeTopUp, onTimeouts, States
  <2>8. v \in States
    BY <2>1, <2>5, <2>7 DEF States
  <2>9. v.chunks = val.chunks /\ v.signing = f
    BY <2>7 DEF States
  <2> QED BY <2>6, <2>8, <2>9 DEF KnowsNoMore
<1>3. PICK w : w = (IF needsTopUp(v) THEN reserveChunk(v) ELSE v)
  OBVIOUS
<1>4. w \in States /\ KnowsNoMore(w, v)
  BY <1>2, <1>3, ReserveForgets DEF KnowsNoMore
<1>5. onNewBlock(b) = reconciled(w)
  BY <1>1, <1>3 DEF onNewBlock
<1>6. reconciled(w) \in States /\ reconciled(w).chunks = w.chunks /\ reconciled(w).signing = w.signing
  BY <1>4 DEF reconciled, States
<1> QED BY <1>2, <1>4, <1>5, <1>6 DEF KnowsNoMore

\* What commitBlock does to the snapshots: the last of them is the block's.
LEMMA CommitKeepsChain ==
  ASSUME ChainInv, NEW c, NEW v, Agrees(c, v), commitBlock(c, v)
  PROVE  ChainInv'
<1>1. PICK x : x = [chain |-> c, val |-> v]
  OBVIOUS
<1>2. x \in Snapshots
  BY <1>1 DEF Snapshots, Agrees
<1>3. PICK s : s = Append(snaps, x)
  OBVIOUS
<1>4. s \in Seq(Snapshots) /\ Len(s) = Len(snaps) + 1 /\ s[Len(s)] = x
  BY <1>2, <1>3 DEF ChainInv
<1>5. val' = v /\ snaps' = lastN(s, MaxReorgDepth + 1)
  BY <1>1, <1>3 DEF commitBlock
<1>6. snaps' \in Seq(Snapshots) /\ Len(snaps') > 0 /\ snaps'[Len(snaps')] = x
  <2>1. CASE Len(s) > MaxReorgDepth + 1
    <3>1. PICK k \in Nat : k = Len(s) - (MaxReorgDepth + 1) + 1
      BY <1>4, <2>1, BoundsAssumption
    <3>2. snaps' = SubSeq(s, k, Len(s)) /\ k \in 1 .. Len(s)
      BY <1>4, <1>5, <2>1, <3>1, BoundsAssumption DEF lastN
    <3> QED BY <1>4, <3>2
  <2>2. CASE ~(Len(s) > MaxReorgDepth + 1)
    BY <1>4, <1>5, <2>2 DEF lastN, ChainInv
  <2> QED BY <2>1, <2>2
<1>7. chain' = c
  BY <1>1, <1>6 DEF chain
<1> QED BY <1>5, <1>6, <1>7 DEF ChainInv

\* A rollback takes an earlier snapshot and the chain it belongs to.
LEMMA RollbackKeepsChain ==
  ASSUME ChainInv, NEW d \in 0 .. MaxReorgDepth, rollback(d)
  PROVE  ChainInv'
<1>0. Len(snaps) \in Nat /\ d \in Nat /\ d < Len(snaps)
  BY BoundsAssumption DEF rollback, ChainInv
<1>1. PICK k : k = Len(snaps) - d
  OBVIOUS
<1>2. k \in 1 .. Len(snaps) /\ val' = snaps[k].val /\ snaps' = SubSeq(snaps, 1, k)
  BY <1>0, <1>1, Z3 DEF rollback
<1>3. snaps' \in Seq(Snapshots) /\ Len(snaps') = k /\ snaps'[Len(snaps')] = snaps[k]
  BY <1>1, <1>2 DEF ChainInv
<1>4. snaps[k] \in Snapshots
  BY <1>2 DEF ChainInv
<1>5. chain' = snaps[k].chain
  BY <1>3 DEF chain
<1> QED BY <1>2, <1>3, <1>4, <1>5 DEF ChainInv, Snapshots

\* The transition of Message::NewBlock leaves a state that agrees with the
\* chain before the block's event.
LEMMA NewBlockAgrees ==
  ASSUME ChainInv, NEW b \in Blocks
  PROVE  Agrees(chain, onNewBlock(b))
<1>1. val \in States
  BY DEF ChainInv, Agrees
<1> QED BY <1>1, NewBlockForgets, AgreesForgets DEF ChainInv

\* Replacing one session keeps the agreement if the nonce of the new one is
\* accepted.
LEMMA SessionAgrees ==
  ASSUME NEW c, NEW v, Agrees(c, v), NEW m \in Messages, NEW x \in Sessions,
         x.stage \in InCeremony =>
            x.root \in Roots /\ chunkOf(x.seq) \in Chunks /\ accepts(c, x.seq, x.root)
  PROVE  Agrees(c, [v EXCEPT !.signing[m] = x])
<1>1. PICK w : w = [v EXCEPT !.signing[m] = x]
  OBVIOUS
<1>2. w \in States /\ w.chunks = v.chunks
  BY <1>1 DEF Agrees, States
<1>3. \A n \in Messages : w.signing[n] = IF n = m THEN x ELSE v.signing[n]
  BY <1>1 DEF Agrees, States
<1>4. LinksMatch(c, w)
  BY <1>2 DEF Agrees, LinksMatch
<1>5. NoncesAccepted(c, w)
  BY <1>3 DEF Agrees, NoncesAccepted
<1> QED BY <1>1, <1>2, <1>4, <1>5 DEF Agrees

\* A session that is in no ceremony has no nonce to be accepted.
LEMMA IdleSessions ==
  /\ NoSession \in Sessions /\ NoSession.stage \notin InCeremony
  /\ WaitingForRequest \in Sessions /\ WaitingForRequest.stage \notin InCeremony
  BY DEF NoSession, WaitingForRequest, Sessions, Stages, InCeremony

\* A commitment takes a chunk that no earlier one took, and starts where the
\* ceremonies have come to: linked roots and selected nonces stay valid.
LEMMA CommitmentAgrees ==
  ASSUME NEW c, NEW v, Agrees(c, v), commitChunk(c) \in Chunks, NEW root \in Roots
  PROVE  /\ Agrees(committed(c, root), v)
         /\ Agrees(committed(c, root), [v EXCEPT !.chunks[commitChunk(c)] = root])
<1>1. PICK k \in Chunks : k = commitChunk(c)
  OBVIOUS
<1>2. PICK e : e = committed(c, root)
  OBVIOUS
<1>3. c \in Chains /\ chunkOf(c.sequence) \in Nat /\ offsetOf(c.sequence) \in Nat
  BY NextSequence, SizeAssumption DEF Agrees, Chains
<1>4. k \in Nat /\ c.next <= k /\ chunkOf(c.sequence) <= k
  BY <1>1, <1>3 DEF commitChunk, Chains
<1>5. startOffset(c) \in Nat
      /\ \/ startOffset(c) = 0
         \/ k = chunkOf(c.sequence) /\ startOffset(c) = offsetOf(c.sequence)
  <2>1. CASE c.next > chunkOf(c.sequence)
    BY <2>1 DEF startOffset
  <2>2. CASE ~(c.next > chunkOf(c.sequence))
    BY <1>1, <1>3, <2>2 DEF startOffset, commitChunk
  <2> QED BY <2>1, <2>2
<1>6. /\ e \in Chains
      /\ e.next = k + 1
      /\ e.sequence = c.sequence
      /\ \A d \in Chunks : e.roots[d] = IF d = k THEN root ELSE c.roots[d]
      /\ \A d \in Chunks : e.starts[d] = IF d = k THEN startOffset(c) ELSE c.starts[d]
  <2>1. PICK r : r = [c.roots EXCEPT ![k] = root]
    OBVIOUS
  <2>2. PICK t : t = [c.starts EXCEPT ![k] = startOffset(c)]
    OBVIOUS
  <2>3. e = [c EXCEPT !.next = k + 1, !.roots = r, !.starts = t]
    BY <1>1, <1>2, <2>1, <2>2 DEF committed
  <2>4. c.roots \in [Chunks -> Roots \cup {Absent}] /\ c.starts \in [Chunks -> Nat]
    BY <1>3 DEF Chains
  <2>5. r \in [Chunks -> Roots \cup {Absent}] /\ t \in [Chunks -> Nat]
    BY <1>5, <2>1, <2>2, <2>4
  <2>6. e \in Chains /\ e.next = k + 1 /\ e.sequence = c.sequence /\ e.roots = r /\ e.starts = t
    <3>1. k + 1 \in Nat
      BY <1>4
    <3>2. DOMAIN c = {"sequence", "next", "roots", "starts"} /\ c.sequence \in Nat
      BY <1>3 DEF Chains
    <3>3. e = [sequence |-> c.sequence, next |-> k + 1, roots |-> r, starts |-> t]
      BY <1>3, <2>3 DEF Chains
    <3> QED BY <2>5, <3>1, <3>2, <3>3 DEF Chains
  <2> QED BY <2>1, <2>2, <2>4, <2>6
<1>7. ASSUME NEW d \in Chunks, e.roots[d] # Absent
      PROVE  /\ d < e.next
             /\ \/ e.starts[d] = 0
                \/ d < chunkOf(e.sequence)
                \/ d = chunkOf(e.sequence) /\ e.starts[d] <= offsetOf(e.sequence)
  <2>1. CASE d = k
    BY <1>3, <1>4, <1>5, <1>6, <2>1
  <2>2. CASE d # k
    <3>1. c.roots[d] # Absent /\ e.starts[d] = c.starts[d]
      BY <1>6, <1>7, <2>2
    <3>2. d < c.next
      BY <3>1 DEF Agrees, ChunksInOrder
    <3> QED BY <1>3, <1>4, <1>6, <3>1, <3>2 DEF Agrees, ChunksInOrder, Chains, Chunks
  <2> QED BY <2>1, <2>2
<1>8. ChunksInOrder(e)
  BY <1>7 DEF ChunksInOrder
<1>9. \A d \in Chunks : c.roots[d] # Absent => d # k
  BY <1>3, <1>4 DEF Agrees, ChunksInOrder, Chains
<1>10. ASSUME NEW m \in Messages, v.signing[m].stage \in InCeremony
       PROVE  /\ v.signing[m].root \in Roots
              /\ chunkOf(v.signing[m].seq) \in Chunks
              /\ accepts(e, v.signing[m].seq, v.signing[m].root)
  <2>1. /\ v.signing[m].root \in Roots
        /\ chunkOf(v.signing[m].seq) \in Chunks
        /\ accepts(c, v.signing[m].seq, v.signing[m].root)
    BY <1>10 DEF Agrees, NoncesAccepted
  <2>2. chunkOf(v.signing[m].seq) # k
    BY <1>9, <2>1, SlotAssumption DEF accepts
  <2> QED BY <1>6, <2>1, <2>2 DEF accepts
<1>11. NoncesAccepted(e, v)
  BY <1>10 DEF NoncesAccepted
<1>12. LinksMatch(e, v)
  <2>1. ASSUME NEW d \in Chunks, v.chunks[d] \in Roots PROVE e.roots[d] = v.chunks[d]
    BY <1>6, <1>9, <2>1, SlotAssumption DEF Agrees, LinksMatch
  <2> QED BY <2>1 DEF LinksMatch
<1>13. PICK w : w = [v EXCEPT !.chunks[k] = root]
  OBVIOUS
<1>14. /\ w \in States
       /\ w.signing = v.signing
       /\ \A d \in Chunks : w.chunks[d] = IF d = k THEN root ELSE v.chunks[d]
  BY <1>13 DEF Agrees, States
<1>15. LinksMatch(e, w)
  BY <1>6, <1>12, <1>14 DEF LinksMatch
<1>16. NoncesAccepted(e, w)
  BY <1>11, <1>14 DEF NoncesAccepted
<1> QED
  BY <1>1, <1>2, <1>6, <1>8, <1>11, <1>12, <1>13, <1>14, <1>15, <1>16 DEF Agrees

\* A ceremony more takes nothing from the earlier ones.
LEMMA SequenceAgrees ==
  ASSUME NEW c, NEW v, Agrees(c, v)
  PROVE  Agrees([c EXCEPT !.sequence = c.sequence + 1], v)
<1>1. PICK e : e = [c EXCEPT !.sequence = c.sequence + 1]
  OBVIOUS
<1>2. /\ e \in Chains
      /\ c \in Chains
      /\ e.next = c.next /\ e.roots = c.roots /\ e.starts = c.starts
      /\ e.sequence = c.sequence + 1
  BY <1>1 DEF Agrees, Chains
<1>3. PICK s \in Nat : s = c.sequence
  BY <1>2 DEF Chains
<1>4. ChunksInOrder(e)
  <2>0. c.starts \in [Chunks -> Nat]
    BY <1>2 DEF Chains
  <2>1. \A d \in Chunks : d \in Int /\ c.starts[d] \in Nat
    <3>1. \A d \in Chunks : d \in Int
      BY BoundsAssumption DEF Chunks
    <3> QED BY <2>0, <3>1
  <2>2. \A d \in Chunks : d <= chunkOf(s) => d < chunkOf(s + 1) \/ chunkOf(s) = chunkOf(s + 1)
    BY <1>3, <2>1, NextSequence
  <2>3. ASSUME NEW d \in Chunks, e.roots[d] # Absent
        PROVE  /\ d < e.next
               /\ \/ e.starts[d] = 0
                  \/ d < chunkOf(e.sequence)
                  \/ d = chunkOf(e.sequence) /\ e.starts[d] <= offsetOf(e.sequence)
    <3>1. /\ d < c.next
          /\ \/ c.starts[d] = 0
             \/ d < chunkOf(s)
             \/ d = chunkOf(s) /\ c.starts[d] <= offsetOf(s)
      BY <1>2, <1>3, <2>3 DEF Agrees, ChunksInOrder
    <3> QED BY <1>2, <1>3, <2>1, <2>2, <3>1, NextSequence, SizeAssumption
  <2> QED BY <2>3 DEF ChunksInOrder
<1>5. NoncesAccepted(e, v)
  BY <1>2, <1>3 DEF Agrees, NoncesAccepted, accepts, States, Sessions
<1> QED BY <1>1, <1>2, <1>4, <1>5 DEF Agrees, LinksMatch

----------------------------------------------------------------------------
(* The invariant, block by block                                           *)

\* A block whose event changes no session commits the new block's state.
LEMMA EmptyBlockKeepsChain ==
  ASSUME ChainInv, NEW b \in Blocks, blockWithoutEvent(b)
  PROVE  ChainInv'
  BY NewBlockAgrees, CommitKeepsChain DEF blockWithoutEvent

\* handle_preprocess links the root the contract wrote to the chunk it took.
LEMMA PreprocessKeepsChain ==
  ASSUME ChainInv, NEW b \in Blocks, NEW root \in Roots, blockPreprocess(b, root)
  PROVE  ChainInv'
<1>1. PICK v : v = onNewBlock(b)
  OBVIOUS
<1>2. PICK c : c = chain
  OBVIOUS
<1>3. Agrees(c, v) /\ commitChunk(c) \in Chunks
  BY <1>1, <1>2, NewBlockAgrees DEF blockPreprocess
<1>4. PICK w : w = IF v.tracked THEN [v EXCEPT !.chunks[commitChunk(c)] = root] ELSE v
  OBVIOUS
<1>5. Agrees(committed(c, root), w)
  BY <1>3, <1>4, CommitmentAgrees
<1>6. commitBlock(committed(c, root), w)
  BY <1>1, <1>2, <1>4 DEF blockPreprocess
<1> QED BY <1>5, <1>6, CommitKeepsChain

\* handle_transaction_proposed opens a session without a nonce.
LEMMA ProposedKeepsChain ==
  ASSUME ChainInv, NEW b \in Blocks, NEW m \in Messages, blockProposed(b, m)
  PROVE  ChainInv'
  BY NewBlockAgrees, SessionAgrees, IdleSessions, CommitKeepsChain DEF blockProposed

\* handle_sign selects the nonce of the chunk the contract will look into.
LEMMA SignKeepsChain ==
  ASSUME ChainInv, NEW b \in Blocks, NEW m \in Messages, blockSign(b, m)
  PROVE  ChainInv'
<1>1. PICK v : v = onNewBlock(b)
  OBVIOUS
<1>2. PICK c : c = chain
  OBVIOUS
<1>3. Agrees(c, v)
  BY <1>1, <1>2, NewBlockAgrees
<1>4. PICK s \in Nat : s = c.sequence
  BY <1>3 DEF Agrees, Chains
<1>5. PICK root : root = observedRoot(v, s)
  OBVIOUS
<1>6. PICK e : e = [c EXCEPT !.sequence = s + 1]
  OBVIOUS
<1>7. Agrees(e, v)
  BY <1>3, <1>4, <1>6, SequenceAgrees
<1>8. PICK w : w = IF v.tracked THEN observe(v, s) ELSE v
  OBVIOUS
<1>9. w \in States /\ KnowsNoMore(w, v)
  <2>1. v \in States /\ s + 1 \in Nat
    BY <1>3, <1>4 DEF Agrees
  <2>2. PICK g : g = [d \in Chunks |-> IF d < chunkOf(s + 1) THEN Absent ELSE v.chunks[d]]
    OBVIOUS
  <2>3. g \in [Chunks -> Roots \cup {Absent, Pending}]
        /\ \A d \in Chunks : g[d] \in Roots => g[d] = v.chunks[d]
    BY <2>1, <2>2, SlotAssumption DEF States
  <2>4. observe(v, s) = [v EXCEPT !.nextSequence = s + 1, !.chunks = g]
    BY <2>2 DEF observe
  <2>5. /\ observe(v, s) \in States
        /\ observe(v, s).chunks = g
        /\ observe(v, s).signing = v.signing
    BY <2>1, <2>3, <2>4 DEF States
  <2>6. KnowsNoMore(observe(v, s), v) /\ KnowsNoMore(v, v)
    BY <2>3, <2>5 DEF KnowsNoMore
  <2> QED BY <1>8, <2>1, <2>5, <2>6
<1>10. Agrees(e, w)
  BY <1>7, <1>9, AgreesForgets
<1>11. PICK x : x = IF root \in Roots
                    THEN [stage |-> IF m \in OracleMessages THEN "WaitingForOracle"
                                                             ELSE "CollectNonceCommitments",
                          seq |-> s, root |-> root]
                    ELSE NoSession
  OBVIOUS
<1>12. x \in Sessions
  BY <1>11, IdleSessions DEF Sessions, Stages, InCeremony
<1>13. ASSUME x.stage \in InCeremony
       PROVE  x.root \in Roots /\ chunkOf(x.seq) \in Chunks /\ accepts(e, x.seq, x.root)
  <2>1. root \in Roots /\ x.seq = s /\ x.root = root
    BY <1>11, <1>13, IdleSessions
  <2>2. chunkOf(s) \in Chunks /\ v.chunks[chunkOf(s)] = root
    BY <1>5, <2>1, SlotAssumption DEF observedRoot
  <2>3. c.roots[chunkOf(s)] = root
    BY <1>3, <2>1, <2>2 DEF Agrees, LinksMatch
  <2>4. e.sequence = s + 1 /\ e.roots = c.roots /\ e.starts = c.starts
    BY <1>3, <1>6 DEF Agrees, Chains
  <2>5. c.starts[chunkOf(s)] = 0 \/ c.starts[chunkOf(s)] <= offsetOf(s)
    BY <1>3, <1>4, <2>1, <2>2, <2>3, SlotAssumption, NextSequence DEF Agrees, ChunksInOrder
  <2>6. c.starts[chunkOf(s)] \in Nat /\ offsetOf(s) \in Nat
    BY <1>3, <1>4, <2>2, NextSequence, SizeAssumption DEF Agrees, Chains
  <2>7. offsetOf(s) >= c.starts[chunkOf(s)]
    BY <2>5, <2>6
  <2> QED BY <1>4, <2>1, <2>2, <2>3, <2>4, <2>7 DEF accepts
<1>14. Agrees(e, [w EXCEPT !.signing[m] = x])
  BY <1>10, <1>12, <1>13, SessionAgrees
<1>15. PICK y : y = IF v.tracked /\ v.signing[m] = WaitingForRequest
                    THEN [w EXCEPT !.signing[m] = x] ELSE w
  OBVIOUS
<1>16. Agrees(e, y)
  BY <1>10, <1>14, <1>15
<1>17. commitBlock(e, y)
  BY <1>1, <1>2, <1>4, <1>5, <1>6, <1>8, <1>11, <1>15 DEF blockSign
<1> QED BY <1>16, <1>17, CommitKeepsChain

\* handle_sign for another group drops a session that had no nonce.
LEMMA ForeignSignKeepsChain ==
  ASSUME ChainInv, NEW b \in Blocks, NEW m \in Messages, blockForeignSign(b, m)
  PROVE  ChainInv'
  BY NewBlockAgrees, SessionAgrees, IdleSessions, CommitKeepsChain DEF blockForeignSign

\* handle_oracle_result keeps the ceremony and its nonce, or drops both.
LEMMA OracleResultKeepsChain ==
  ASSUME ChainInv, NEW b \in Blocks, NEW m \in Messages, NEW approved \in BOOLEAN,
         blockOracleResult(b, m, approved)
  PROVE  ChainInv'
<1>1. PICK v : v = onNewBlock(b)
  OBVIOUS
<1>2. PICK c : c = chain
  OBVIOUS
<1>3. Agrees(c, v)
  BY <1>1, <1>2, NewBlockAgrees
<1>4. PICK x : x = IF approved THEN [v.signing[m] EXCEPT !.stage = "CollectNonceCommitments"]
                               ELSE NoSession
  OBVIOUS
<1>5. v.signing[m] \in Sessions /\ v.signing[m].stage \in InCeremony
  BY <1>1, <1>3 DEF blockOracleResult, Agrees, States, InCeremony
<1>6. x \in Sessions
  BY <1>4, <1>5, IdleSessions DEF Sessions, Stages, InCeremony
<1>7. x.stage \in InCeremony => x.root = v.signing[m].root /\ x.seq = v.signing[m].seq
  BY <1>4, <1>5, IdleSessions DEF Sessions
<1>8. Agrees(c, [v EXCEPT !.signing[m] = x])
  BY <1>3, <1>5, <1>6, <1>7, SessionAgrees DEF Agrees, NoncesAccepted
<1>9. commitBlock(c, [v EXCEPT !.signing[m] = x])
  BY <1>1, <1>2, <1>4 DEF blockOracleResult
<1> QED BY <1>8, <1>9, CommitKeepsChain

\* handle_sign_revealed_nonces takes over the root that was revealed, which
\* the contract only accepted because it is the session's own.
LEMMA AllRevealedKeepsChain ==
  ASSUME ChainInv, NEW b \in Blocks, NEW m \in Messages, NEW t \in revealTx,
         blockAllRevealed(b, m, t)
  PROVE  ChainInv'
<1>1. PICK v : v = onNewBlock(b)
  OBVIOUS
<1>2. PICK c : c = chain
  OBVIOUS
<1>3. Agrees(c, v)
  BY <1>1, <1>2, NewBlockAgrees
<1>4. PICK x : x = [stage |-> "CollectSigningShares", seq |-> t.seq, root |-> t.root]
  OBVIOUS
<1>5. v.signing[m] \in Sessions /\ v.signing[m].stage \in InCeremony
  BY <1>1, <1>3 DEF blockAllRevealed, Agrees, States, InCeremony
<1>6. /\ v.signing[m].root \in Roots
      /\ chunkOf(v.signing[m].seq) \in Chunks
      /\ accepts(c, v.signing[m].seq, v.signing[m].root)
  BY <1>3, <1>5 DEF Agrees, NoncesAccepted
<1>7. t.seq = v.signing[m].seq /\ accepts(c, t.seq, t.root)
  BY <1>1, <1>2 DEF blockAllRevealed
<1>8. t.root = v.signing[m].root
  BY <1>6, <1>7 DEF accepts
<1>9. x \in Sessions /\ x.seq = t.seq /\ x.root = t.root
  BY <1>4, <1>5, <1>7, <1>8 DEF Sessions, Stages, InCeremony
<1>10. Agrees(c, [v EXCEPT !.signing[m] = x])
  BY <1>3, <1>6, <1>7, <1>8, <1>9, SessionAgrees
<1>11. commitBlock(c, [v EXCEPT !.signing[m] = x])
  BY <1>1, <1>2, <1>4 DEF blockAllRevealed
<1> QED BY <1>10, <1>11, CommitKeepsChain

\* handle_sign_completed ends the use of the nonce.
LEMMA CompletedKeepsChain ==
  ASSUME ChainInv, NEW b \in Blocks, NEW m \in Messages, blockCompleted(b, m)
  PROVE  ChainInv'
<1>1. PICK v : v = onNewBlock(b)
  OBVIOUS
<1>2. PICK c : c = chain
  OBVIOUS
<1>3. Agrees(c, v)
  BY <1>1, <1>2, NewBlockAgrees
<1>4. PICK x : x = [v.signing[m] EXCEPT !.stage = "WaitingForAttestation"]
  OBVIOUS
<1>5. v.signing[m] \in Sessions
  BY <1>3 DEF Agrees, States
<1>6. x \in Sessions /\ x.stage \notin InCeremony
  BY <1>4, <1>5 DEF Sessions, Stages, InCeremony
<1>7. Agrees(c, [v EXCEPT !.signing[m] = x])
  BY <1>3, <1>6, SessionAgrees
<1>8. [v EXCEPT !.signing[m].stage = "WaitingForAttestation"] = [v EXCEPT !.signing[m] = x]
  BY <1>4
<1>9. commitBlock(c, [v EXCEPT !.signing[m] = x])
  BY <1>1, <1>2, <1>8 DEF blockCompleted
<1> QED BY <1>7, <1>9, CommitKeepsChain

\* handle_sign_attested ends the session.
LEMMA AttestedKeepsChain ==
  ASSUME ChainInv, NEW b \in Blocks, NEW m \in Messages, blockAttested(b, m)
  PROVE  ChainInv'
  BY NewBlockAgrees, SessionAgrees, IdleSessions, CommitKeepsChain DEF blockAttested

\* handle_nonce_tree at most reserves a chunk.
LEMMA NonceTreeKeepsChain ==
  ASSUME ChainInv, NEW root, resumeNonceTree(root)
  PROVE  ChainInv'
<1>1. snaps' = snaps /\ chain' = chain
  BY DEF resumeNonceTree, chain
<1>2. val \in States
  BY DEF ChainInv, Agrees
<1>3. val' \in States /\ KnowsNoMore(val', val)
  BY <1>2, ReserveForgets DEF resumeNonceTree, ensureChunkReservation, KnowsNoMore
<1>4. Agrees(chain, val')
  BY <1>3, AgreesForgets DEF ChainInv
<1> QED BY <1>1, <1>4 DEF ChainInv

\* At the start nothing is committed and no session is open.
LEMMA InitChain == Init => ChainInv
<1> SUFFICES ASSUME Init PROVE ChainInv
  OBVIOUS
<1>1. initialChain \in Chains /\ ChunksInOrder(initialChain)
  BY DEF initialChain, Chains, ChunksInOrder
<1>2. initialVal \in States
  BY IdleSessions DEF initialVal, States
<1>3. \A m \in Messages : initialVal.signing[m] = NoSession
  BY DEF initialVal
<1>4. LinksMatch(initialChain, initialVal)
  BY SlotAssumption DEF LinksMatch, initialVal
<1>5. NoncesAccepted(initialChain, initialVal)
  BY <1>3, IdleSessions DEF NoncesAccepted
<1>6. Agrees(initialChain, initialVal)
  BY <1>1, <1>2, <1>4, <1>5 DEF Agrees
<1>7. PICK x : x = [chain |-> initialChain, val |-> initialVal]
  OBVIOUS
<1>8. x \in Snapshots
  BY <1>1, <1>2, <1>6, <1>7 DEF Snapshots
<1>9. snaps = <<x>> /\ val = initialVal
  BY <1>7 DEF Init
<1>10. snaps \in Seq(Snapshots) /\ Len(snaps) = 1 /\ chain = initialChain
  BY <1>7, <1>8, <1>9 DEF chain
<1> QED BY <1>6, <1>9, <1>10 DEF ChainInv

\* The steps of effects and of the other resumes touch neither state nor chain.
LEMMA ChainUntouched == ChainInv /\ UNCHANGED <<val, snaps>> => ChainInv'
  BY DEF ChainInv, chain

\* A block, whatever it brings.
LEMMA BlockKeepsChain ==
  ASSUME ChainInv, NewBlock
  PROVE  ChainInv'
<1> PICK b \in Blocks :
      \/ blockWithoutEvent(b)
      \/ \E root \in Roots : blockPreprocess(b, root)
      \/ \E m \in Messages :
          \/ blockProposed(b, m)
          \/ blockSign(b, m)
          \/ blockForeignSign(b, m)
          \/ \E approved \in BOOLEAN : blockOracleResult(b, m, approved)
          \/ \E t \in revealTx : blockAllRevealed(b, m, t)
          \/ blockCompleted(b, m)
          \/ blockAttested(b, m)
  BY DEF NewBlock
<1>1. CASE blockWithoutEvent(b)
  BY <1>1, EmptyBlockKeepsChain
<1>2. ASSUME NEW root \in Roots, blockPreprocess(b, root) PROVE ChainInv'
  BY <1>2, PreprocessKeepsChain
<1>3. ASSUME NEW m \in Messages, blockProposed(b, m) PROVE ChainInv'
  BY <1>3, ProposedKeepsChain
<1>4. ASSUME NEW m \in Messages, blockSign(b, m) PROVE ChainInv'
  BY <1>4, SignKeepsChain
<1>5. ASSUME NEW m \in Messages, blockForeignSign(b, m) PROVE ChainInv'
  BY <1>5, ForeignSignKeepsChain
<1>6. ASSUME NEW m \in Messages, NEW approved \in BOOLEAN, blockOracleResult(b, m, approved)
      PROVE  ChainInv'
  BY <1>6, OracleResultKeepsChain
<1>7. ASSUME NEW m \in Messages, NEW t \in revealTx, blockAllRevealed(b, m, t)
      PROVE  ChainInv'
  BY <1>7, AllRevealedKeepsChain
<1>8. ASSUME NEW m \in Messages, blockCompleted(b, m) PROVE ChainInv'
  BY <1>8, CompletedKeepsChain
<1>9. ASSUME NEW m \in Messages, blockAttested(b, m) PROVE ChainInv'
  BY <1>9, AttestedKeepsChain
<1> QED BY <1>1, <1>2, <1>3, <1>4, <1>5, <1>6, <1>7, <1>8, <1>9

\* Every step of validator, chain and process preserves the agreement.
LEMMA NextChain == ChainInv /\ [Next]_vars => ChainInv'
<1> SUFFICES ASSUME ChainInv, [Next]_vars
             PROVE  ChainInv'
  OBVIOUS
<1>1. CASE NewBlock
  BY <1>1, BlockKeepsChain
<1>2. CASE Effects
  BY <1>2, ChainUntouched
     DEF Effects, performNonceTree, failNonceTree, performUseNonce, failUseNonce,
         performReveal, performReconcile
<1>3. CASE Resumes
  <2>1. ASSUME NEW root \in sampled, resumeNonceTree(root) PROVE ChainInv'
    BY <2>1, NonceTreeKeepsChain
  <2>2. ASSUME NEW e \in opened, resumeReveal(e) PROVE ChainInv'
    BY <2>2, ChainUntouched DEF resumeReveal
  <2>3. ASSUME NEW e \in taken, resumeNonce(e) PROVE ChainInv'
    BY <2>3, ChainUntouched DEF resumeNonce
  <2> QED BY <1>3, <2>1, <2>2, <2>3 DEF Resumes
<1>4. ASSUME NEW d \in 1 .. MaxReorgDepth, reorg(d) PROVE ChainInv'
  BY <1>4, RollbackKeepsChain, BoundsAssumption DEF reorg
<1>5. ASSUME NEW d \in 0 .. MaxReorgDepth, restart(d) PROVE ChainInv'
  BY <1>5, RollbackKeepsChain DEF restart
<1>6. CASE UNCHANGED vars
  BY <1>6, ChainUntouched DEF vars
<1> QED BY <1>1, <1>2, <1>3, <1>4, <1>5, <1>6 DEF Next

\* The nonce handle_sign selects from the validator's own records is one that
\* signRevealNonces of the contract accepts, for every chunk size, reservation
\* and reorganisation; so a validator never fails to take part because it
\* lost count of the chunks.
THEOREM SelectedNoncesAccepted == Spec => []SelectedNonceAccepted
<1>1. ChainInv => SelectedNonceAccepted
  BY DEF ChainInv, Agrees, NoncesAccepted, SelectedNonceAccepted
<1> QED BY <1>1, InitChain, NextChain, PTL DEF Spec

\* Nonces are only taken for messages.
UsesTyped ==
    /\ \A e \in uses : e.message \in Messages
    /\ \A e \in taken : e.message \in Messages

\* Every step keeps the messages of uses and resumes in their type.
LEMMA NextUses == UsesTyped /\ [Next]_vars => UsesTyped'
<1> SUFFICES ASSUME UsesTyped, [Next]_vars
             PROVE  UsesTyped'
  OBVIOUS
<1>1. CASE NewBlock
  BY <1>1, BlocksOnlyAsk DEF BlockAsks, UsesTyped
<1>2. CASE Effects
  BY <1>2 DEF Effects, performNonceTree, failNonceTree, performUseNonce, failUseNonce,
              performReveal, performReconcile, resumes, UsesTyped
<1>3. CASE Resumes
  BY <1>3 DEF Resumes, resumeNonceTree, resumeReveal, resumeNonce, effects, UsesTyped
<1>4. ASSUME NEW d \in 1 .. MaxReorgDepth, reorg(d) PROVE UsesTyped'
  BY <1>4 DEF reorg, effects, resumes, UsesTyped
<1>5. ASSUME NEW d \in 0 .. MaxReorgDepth, restart(d) PROVE UsesTyped'
  BY <1>5 DEF restart, UsesTyped
<1>6. CASE UNCHANGED vars
  BY <1>6 DEF vars, effects, resumes, UsesTyped
<1> QED BY <1>1, <1>2, <1>3, <1>4, <1>5, <1>6 DEF Next

\* Only handle_nonces spends, and only the nonce of the session's ceremony.
LEMMA SpendStep ==
  ASSUME NonceInv, UsesTyped, SelectedNonceAccepted, [Next]_vars,
         NEW n \in Nonces, spent'[n] # spent[n]
  PROVE  \E m \in Messages :
            /\ val.signing[m].stage = "CollectSigningShares"
            /\ nonceOf(val.signing[m]) = n
            /\ accepts(chain, val.signing[m].seq, n[1])
<1>1. spent' # spent
  OBVIOUS
<1>2. \E e \in taken : resumeNonce(e)
  <2>1. ~NewBlock
    BY <1>1, BlocksOnlyAsk DEF BlockAsks, secrets
  <2>2. ~Effects
    BY <1>1 DEF Effects, performNonceTree, failNonceTree, performUseNonce, failUseNonce,
                performReveal, performReconcile, secrets
  <2>3. \A d : ~reorg(d) /\ ~restart(d)
    BY <1>1 DEF reorg, restart, secrets
  <2>4. ~UNCHANGED vars
    BY <1>1 DEF vars, secrets
  <2>5. Resumes
    BY <2>1, <2>2, <2>3, <2>4 DEF Next
  <2> QED BY <1>1, <2>5 DEF Resumes, resumeNonceTree, resumeReveal, secrets
<1>3. PICK e \in taken : resumeNonce(e)
  BY <1>2
<1>4. /\ signsWith(val.signing[e.message], e.nonce)
      /\ spent' = [spent EXCEPT ![e.nonce] = @ + 1]
  BY <1>1, <1>3 DEF resumeNonce
<1>5. n = e.nonce
  BY <1>4 DEF NonceInv, SecretsTyped
<1>6. e.message \in Messages
  BY DEF UsesTyped
<1>7. /\ val.signing[e.message].stage = "CollectSigningShares"
      /\ nonceOf(val.signing[e.message]) = n
      /\ val.signing[e.message].root = n[1]
  BY <1>4, <1>5 DEF signsWith, nonceOf
<1>8. accepts(chain, val.signing[e.message].seq, n[1])
  BY <1>6, <1>7 DEF SelectedNonceAccepted, InCeremony
<1> QED BY <1>6, <1>7, <1>8

\* handle_nonces computes a share only with the nonce that the contract, on
\* the current chain, accepted for the ceremony the session is in; never with
\* one taken for an attempt that a reorganisation or time-out undid.
THEOREM SharesMatchCeremony == Spec => ShareMatchesCeremony
<1>1. Init => UsesTyped
  BY DEF Init, UsesTyped
<1>2. ChainInv => SelectedNonceAccepted
  BY DEF ChainInv, Agrees, NoncesAccepted, SelectedNonceAccepted
<1>3. NonceInv /\ UsesTyped /\ SelectedNonceAccepted /\ [Next]_vars =>
        [\A n \in Nonces : spent'[n] # spent[n] =>
            \E m \in Messages :
                /\ val.signing[m].stage = "CollectSigningShares"
                /\ nonceOf(val.signing[m]) = n
                /\ accepts(chain, val.signing[m].seq, n[1])]_vars
  BY SpendStep
<1> QED
  BY <1>1, <1>2, <1>3, InitNonces, NextNonces, InitChain, NextChain, NextUses, PTL
     DEF Spec, ShareMatchesCeremony
============================================================================
