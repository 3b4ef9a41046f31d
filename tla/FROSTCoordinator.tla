-------------------------- MODULE FROSTCoordinator --------------------------
(***************************************************************************)
(* One group of the contract FROSTCoordinator over its whole life: the key *)
(* generation of FROSTKeyGen, the nonce commitments of the library         *)
(* FROSTNonceCommitmentSet and the signing ceremonies of the library       *)
(* FROSTSignatureShares.                                                   *)
(*                                                                         *)
(* A nonce pair is identified by the Merkle root it was committed under    *)
(* and its offset in that chunk (the leaf hash contains the offset).  A    *)
(* signing selection is the set of signers whose leaves its Merkle root    *)
(* commits to: the accumulated commitment equals the selection's exactly   *)
(* when all of them have shared, and the aggregate then verifies under the *)
(* group key exactly when there are at least Threshold of them.            *)
(***************************************************************************)
EXTENDS FROSTKeyGen, Sequences

CONSTANTS
    Messages,      \* the non-zero messages a ceremony may be opened for
    Roots,         \* the Merkle roots of nonce chunks
    Selections,    \* the sets of signers whose Merkle roots are shared for
    ChunkSize,     \* nonces per chunk: 2^_CHUNKSZ, 1024 in the code
    MaxSequence,   \* bound: signing ceremonies of the group
    MaxChunk,      \* bound: the last chunk a participant may commit
    None           \* an empty storage slot

ASSUME ChunkAssumption == ChunkSize \in Nat \ {0}

ASSUME BoundsAssumption == MaxSequence \in Nat /\ MaxChunk \in Nat

ASSUME SelectionsAssumption == Selections \subseteq SUBSET Participants

ASSUME NoneAssumption == None \notin Messages /\ None \notin Roots

VARIABLES
    sequence,     \* GroupState.sequence: the next signature ID
    next,         \* Commitments.next, per participant
    chunks,       \* Commitments.chunks, per participant
    message,      \* Signature.message, per sequence
    shares,       \* <<sequence, selection, participant>> already aggregated
    signed,       \* Signature.signed, per sequence ({} while zero)
    revealed      \* the SignRevealedNonces events

signVars == <<sequence, next, chunks, message, shares, signed, revealed>>

vars == <<kgVars, signVars>>

Sequences64 == 0 .. MaxSequence - 1

Chunks == 0 .. MaxChunk

\* A slot of Commitments.chunks.  `at`, the sequence at which it was
\* written, is a history component that no guard reads.
EmptySlot == [root |-> None, offset |-> 0, at |-> 0]

Init ==
    /\ KGInit
    /\ sequence = 0
    /\ next = [p \in Participants |-> 0]
    /\ chunks = [p \in Participants |-> [c \in Chunks |-> EmptySlot]]
    /\ message = [s \in Sequences64 |-> None]
    /\ shares = {}
    /\ signed = [s \in Sequences64 |-> {}]
    /\ revealed = {}

----------------------------------------------------------------------------
(* FROSTNonceCommitmentSet                                                 *)

chunkOf(s) == s \div ChunkSize

offsetOf(s) == s % ChunkSize

\* A wrong choice of chunk: the one of the running sequence, always.
commitChunkCurrent(p) == chunkOf(sequence)

\* The chunk a commitment of p goes to: the one the running sequence is in,
\* unless p is ahead of it.
commitChunk(p) ==
    IF next[p] > chunkOf(sequence) THEN next[p] ELSE chunkOf(sequence)

\* A wrong start offset: nonces of sequences that already began count too.
startOffsetZero(p) == 0

\* Within a chunk that already started, only the nonces that are still ahead.
startOffset(p) ==
    IF next[p] > chunkOf(sequence) THEN 0 ELSE offsetOf(sequence)

commit(p, root) ==
    /\ commitChunk(p) \in Chunks
    /\ chunks' = [chunks EXCEPT ![p][commitChunk(p)] =
                    [root |-> root, offset |-> startOffset(p), at |-> sequence]]
    /\ next' = [next EXCEPT ![p] = commitChunk(p) + 1]

\* FROSTNonceCommitmentSet.verify: the nonce pair of sequence s lies in a
\* chunk p committed, at or after the chunk's start offset.
includesNonce(p, s) ==
    /\ chunkOf(s) \in Chunks
    /\ chunks[p][chunkOf(s)].root # None
    /\ offsetOf(s) >= chunks[p][chunkOf(s)].offset

\* preprocess: a confirmed participant commits to its next chunk.
preprocess(p, root) ==
    /\ pstatus[p] = "CONFIRMED"
    /\ commit(p, root)
    /\ UNCHANGED <<kgVars, sequence, message, shares, signed, revealed>>

----------------------------------------------------------------------------
(* Signing                                                                 *)

\* sign: anybody opens a ceremony of a finalized group for a message.
sign(m) ==
    /\ status = "FINALIZED"
    /\ sequence < MaxSequence
    /\ message' = [message EXCEPT ![sequence] = m]
    /\ sequence' = sequence + 1
    /\ UNCHANGED <<kgVars, next, chunks, shares, signed, revealed>>

\* signRevealNonces: p opens the nonce pair it committed for sequence s.
signRevealNonces(p, s) ==
    /\ message[s] # None
    /\ includesNonce(p, s)
    /\ revealed' = revealed \cup
        {[seq |-> s, participant |-> p,
          root |-> chunks[p][chunkOf(s)].root, offset |-> offsetOf(s)]}
    /\ UNCHANGED <<kgVars, sequence, next, chunks, message, shares, signed>>

\* Who has shared for a selection once p has.
sharers(s, sel, p) == {q \in sel : <<s, sel, q>> \in shares} \cup {p}

\* A wrong completion: the last complete selection becomes the signature.
completeLast(s, sel) == signed' = [signed EXCEPT ![s] = sel]

\* The first complete selection becomes the signature, later ones do not.
complete(s, sel) ==
    signed' = IF signed[s] = {} THEN [signed EXCEPT ![s] = sel] ELSE signed

\* A wrong aggregation: a selection is complete although signers are missing.
isCompleteEarly(s, sel, p) == Cardinality(sharers(s, sel, p)) >= Threshold

\* The accumulated commitment is the one of the selection.
isComplete(s, sel, p) == sharers(s, sel, p) = sel

\* signShare: p adds its share to the aggregate of the selection, once.  A
\* completed aggregate that does not verify reverts the transaction.
signShare(p, s, sel) ==
    /\ message[s] # None
    /\ p \in shared
    /\ <<s, sel, p>> \notin shares
    /\ p \in sel
    /\ shares' = shares \cup {<<s, sel, p>>}
    /\ IF isComplete(s, sel, p)
       THEN Cardinality(sel) >= Threshold /\ complete(s, sel)
       ELSE UNCHANGED signed
    /\ UNCHANGED <<kgVars, sequence, next, chunks, message, revealed>>

Next ==
    \/ KGNext /\ UNCHANGED signVars
    \/ \E p \in Participants, root \in Roots : preprocess(p, root)
    \/ \E m \in Messages : sign(m)
    \/ \E p \in Participants, s \in Sequences64 : signRevealNonces(p, s)
    \/ \E p \in Participants, s \in Sequences64, sel \in Selections :
        signShare(p, s, sel)

Spec == Init /\ [][Next]_vars

\* The members answer during key generation; nobody has to ask for signatures.
FairSpec == Spec /\ KGFairness

----------------------------------------------------------------------------
(* Invariants                                                              *)

\* Nobody chooses a nonce after seeing what it will sign: a revealed nonce
\* pair was committed when its sequence had not been used yet ("this
\* prevents participants committing to nonces after a signing ceremony has
\* already begun").
NoncesPrecommitted ==
    \A r \in revealed :
        /\ chunks[r.participant][chunkOf(r.seq)].root = r.root
        /\ chunks[r.participant][chunkOf(r.seq)].at <= r.seq

\* A participant has one nonce pair per ceremony: revealing again, after any
\* number of further commitments, can only show the same pair.
OneNoncePerCeremony ==
    \A r1, r2 \in revealed :
        r1.participant = r2.participant /\ r1.seq = r2.seq => r1 = r2

\* A completed signature carries the shares of a whole selection of at least
\* Threshold members, all of whom confirmed the group's key.
SignedByQuorum ==
    \A s \in Sequences64 : signed[s] # {} =>
        /\ status = "FINALIZED"
        /\ s < sequence
        /\ signed[s] \subseteq Confirmed
        /\ Cardinality(signed[s]) >= Threshold
        /\ \A p \in signed[s] : <<s, signed[s], p>> \in shares

----------------------------------------------------------------------------
(* Refinement                                                              *)

Signer == INSTANCE GroupSigner WITH
    ready <- status = "FINALIZED",
    requests <- [i \in 1 .. sequence |-> message[i - 1]],
    completed <- {<<s + 1, signed[s]>> : s \in {t \in Sequences64 : signed[t] # {}}},
    Signatures <- Selections

\* The group behaves as the signer that Consensus relies on; in particular
\* the signature of a request stays when another selection completes later.
ImplementsSigner == Signer!GSSpec
=============================================================================
