# Safenet in TLA+

This directory is a verification development of Safenet: the onchain contracts
(`contracts/src`), the validator and sentinel services (`crates/validator`,
`crates/sentinel`) and the runtime they share (`crates/core`).  Every module is
translated from the source; `PROJECT.json` maps each definition to the lines it
stands for.

## The system

Safenet attests Safe transactions.  A set of validators generates a FROST group
key, the group signs what `Consensus` proposes to it (transactions, and the
hand-over to the next epoch's group), and a guard on each Safe only lets
attested transactions pass.

| Component | State | Operations | Interacts with |
| --- | --- | --- | --- |
| `FROSTCoordinator` key generation (`FROSTParticipantMap`) | phase, pending counter, per-participant status, complaint counters | keyGen, commit, share, confirm, complain, respond | called by validators; calls back `Consensus` on the last confirmation |
| `FROSTCoordinator` signing (`FROSTNonceCommitmentSet`, `FROSTSignatureShares`) | sequence, nonce chunks per participant, message and aggregates per ceremony | preprocess, sign, signRevealNonces, signShare | `Consensus` opens ceremonies; completion calls back `Consensus` |
| `Consensus` | previous/active/staged epoch, group per epoch, attestations | proposeEpoch, stageEpoch, proposeTransaction, attestTransaction, callbacks | coordinator, oracles, guard |
| `SentinelOracle` and libraries | requests, commitments, bond/fee configuration, sentinel schedule | postRequest, commit, reveal, finalize, claim, arbitration, governance | asked by `Consensus`, answered by sentinels, listened to by validators |
| `Staking` | stakes, totals, per-staker withdrawal queue, time-locked proposals | stake, initiateWithdrawal(AtPosition), claimWithdrawal, propose/execute, recoverTokens | token contract |
| `SafenetGuard` | known epochs with their keys, announced transactions | updateEpoch, announce, cancel, checkTransaction | verifies signatures made through the coordinator |
| validator state machine (`crates/validator/src/state`) | rollover state, groups, nonce reservations, signing sessions | one handler per event, resume and block | the chain, its effects, its action queue |
| validator secrets and effects (`secrets`, `service/effect.rs`) | SQLite tables of round secrets, key shares, nonces | nonce trees, reveal, use once, reconcile | asynchronous: started by a transition, answered by a resume |
| indexer (`crates/core/src/index`) | safe and recent blocks, pending log pages, the query in flight | block, uncle, warp and log updates; queries and their fallbacks | RPC provider |
| runtime (`core/src/state`, `driver.rs`, `effects.rs`) | snapshots per block, running effects | transition, commit, reorg, prune | indexer, validator state machine, queue |
| transaction queue (`core/src/tx`) | queued, submitted and executed actions with nonces | queue, submit, resubmit, mark executed, prune | RPC provider |
| sentinel service (`crates/sentinel`) | requests and their votes | commit, reveal, finalize, claim | sentinel oracle, engine |
| sentinel engine (`crates/sentinel-engine`) | none between requests | a chain of checkers over one transaction, some of which read events or an order book | sentinel service, RPC provider, order book |
| explorer, scripts, examples, Certora specs | - | user interface, deployment, other verification | - |

What is hard: transactions of different senders interleave at every step of a
ceremony; the service applies effects' answers in any order, restarts between any
two of them and follows a chain that reorganises; a secret nonce must never sign
twice although everything around it is replayed; epochs switch lazily; timeouts
race late answers.  `PROJECT.json` lists these as hazards, each at its line.

### What makes each part correct

| Part | Correct when |
| --- | --- |
| key generation | the counters that drive the phases always equal what the per-participant records say; a finalised group has no unanswered complaint and no member accused by a threshold of others; nothing a participant sent is ever undone; a ceremony whose members all act ends |
| preprocessing and signing | the nonces of a ceremony were committed before its message was known; a participant's nonce belongs to one ceremony; what counts as a signature was produced by a quorum that agreed on the selection and the message |
| consensus | the schedule a reader sees changes with the block number alone; an attestation or an epoch has a signature of the right group behind it and is never replaced |
| validator nonces | a secret nonce never takes part in two signature shares, whatever is replayed; the validator's bookkeeping of chunks agrees with the chain's; the nonce it reveals is the one the contract accepts |
| sentinel oracle | every payout the rules promise goes through, out of the money of its own request; only rounding dust remains; an outcome reaches the validators only if all revealed votes agree; every request settles |
| indexer, state machine, driver | the state is the fold of exactly the canonical blocks, once each and in order, across reorganisations and restarts; the service catches up |
| transaction queue | an action is executed once; nonces have no gap; a row is forgotten only when its execution is final |
| event watcher | every log of the watched contracts is handed on once, in order, or nothing of its block is; an answer that may be incomplete is refused; no page is asked for again for ever |
| validator key generation | validators that never talk to each other agree on the ceremony after every block; nobody honest is excluded by a faulty member; the next epoch's group is there in time; shares are only published for the commitment that is onchain; members keep the keys they will need |
| sentinel service | what it tracks is what the contract has, also after it read blocks again; a claim is sent when it pays; it reveals in time what it committed; its bond comes back |
| sentinel engine | a settings change is approved only when it is one of the known harmless ones, however it is wrapped; an approved allowance is backed by what the transaction sells; the history check does not depend on how its window is cut or which read fails |
| staking (planned) | the token balance covers all stakes and pending withdrawals; a withdrawal queue stays sorted |
| guard (planned) | only attested, unexpired announced or self-administering transactions pass; an epoch is followed only with a signature of the one before |

## Modules

| Module | Stands for | Extends or uses |
| --- | --- | --- |
| `FROSTKeyGen` | `FROSTCoordinator.keyGen*`, `FROSTParticipantMap` | - |
| `FROSTCoordinator` | the rest of `FROSTCoordinator`, nonce set, share accumulation | extends `FROSTKeyGen`, implements `GroupSigner` |
| `GroupSigner` | what a group promises its callers | - |
| `Consensus` | `Consensus`, with the coordinator and oracles as its environment | implements `EpochSchedule` |
| `EpochSchedule` | the eager epoch schedule | - |
| `ValidatorNonces` | the validator's preprocessing and signing, its effects and its secret store | - |
| `SentinelOracle` | the oracle and its five libraries | - |
| `Indexer`, `StateMachine`, `Driver` | `core/src/index`, `core/src/state`, `core/src/driver.rs` | each extends the one before |
| `EventWatcher` | the queries of `core/src/index/events.rs` | the batches `Indexer` takes as complete |
| `TransactionQueue` | `core/src/tx` | - |
| `ValidatorKeyGen` | `validator/src/state/keygen.rs` and the setup effect, in several validators over the contracts | - |
| `SentinelService` | `crates/sentinel` in any number of services | instance of `SentinelOracle` |
| `SentinelEngine` | `crates/sentinel-engine` | - |
| `*Proofs` | theorems about the contracts, the nonces, the driver, the event watcher, the queue and the validators' key generation | extend the module they are about |
| `MC*` | constants, symmetries and inputs of the runs | extend the module they instantiate |

Operators whose comment starts with "A wrong" or "Wrong" are plausible mistakes in the
definition they precede; nothing uses them.  Replacing the definition by its
wrong form must break the property `PROJECT.json` names beside it, which shows
that the property notices that mistake.

### FROSTKeyGen

One group's key generation.  A transaction is one action; a call that a
`require` rejects is a disabled action.  Merkle proofs of participation become
membership in `Members`, which may be larger than `Count`: the contract is given
the root and the count separately.

`status` and `pending` are the group's packed state, `pstatus`, `complaints` and
`accusations` the participants' records, `shared` the verification shares, and
`complaint` the status of each complaint.  `KGInv` gathers what relates them.

### FROSTCoordinator and GroupSigner

The rest of a group's life, on top of its key generation: `preprocess` links roots of nonce commitments to
chunks of the sequence, `sign` opens the next ceremony, `signRevealNonces`
checks a nonce against the chunk of the ceremony, `signShare` adds a share to
the aggregate of its selection.  Points and scalars are ideal: a share either
belongs to the selection it names or is rejected, and an aggregate is the set of
its contributors.  `GroupSigner` is the promise `Consensus` relies on: a
group becomes ready once, numbers the messages it is asked to sign, and completes
each request at most once, with one signature, for the message it was opened with;
`frost_signing` shows that the coordinator implements it: a later complete selection does
not replace the signature that is stored.

### Consensus and EpochSchedule

The epochs and attestations.  The coordinator is used through the
promise of `GroupSigner`, one for each group: anybody may ask any group to sign a
message that was once proposed, and a request completes at any later time, possibly after
`Consensus` has moved on.  Storage is rolled over
lazily, on the next call that touches it.  `EpochSchedule` is the schedule as a
reader of the contract sees it, which changes with the block number alone; the
lazily updated storage implements it.  A rollover message binds the key of the new group
and not its id (`Consensus.sol:221`), and nothing keeps two groups from having one key
(`KeyOf`): what is endorsed is the key of an epoch.  The names `COInit`, `CONext`, `COSpec` and
`coordinatorKeyGenConfirm`, `signByAnybody`, `coordinatorSignShare` leave those of
`FROSTCoordinator` free, so that `ContractProofs` can extend both.

### ValidatorNonces

One validator's secret nonces for one group.  A block is one action: the
transition of `Message::NewBlock`, one event, and the snapshot of the resulting
state.  Several events are several blocks, and so is a resume between them.
Effects run beside the chain: they may be performed again or fail, and their
resumes meet the live state in any order.  A reorganisation restores a snapshot
and leaves the secret store, the running effects and the queued transactions as
they are.  A restart restores one as well and loses the running effects.
Deadlines are abstracted to "a session may time out with any block", which
includes every deadline; the other signers are the events they cause.

The point of the module is the mismatch between what is rolled back (the
bookkeeping in the state) and what is not (the store of secrets): the safety of
a nonce must not rest on the former.

### SentinelOracle

A transaction is one action; checked arithmetic that would revert disables it.
`pot[r]` is a history variable: the part of the contract's balance that was paid
in for request `r` and not paid out yet.  The contract has one balance, so a
request that overdraws its pot would spend the money of another one without
anything failing.  The configuration (fee, multipliers, share, receiver) is read
through the delayed values of the library; requests keep the configuration they
were posted with.

### Indexer, StateMachine, Driver

The chain grows, and reorganises at most `depth` blocks below the greatest
height it ever had; `depth` and `start_block` (-1 is `None`, the default) are chosen in
the beginning from `Settings`.  A block hash stands for the block's whole history, so it is
the sequence of versions from block 1.  Every request to the node is a step, and
the chain may change between any two.  The service's state is the list of
messages it has processed, so that a message lost, doubled or out of order shows.
The process may stop anywhere, also between a commit and the pruning that
follows; only the snapshots survive.

### TransactionQueue

Every request to the node is a step that may fail, and the chain, the mempool
and the process may change between any two.  Fees are abstracted to the node's
verdict on them (accepted, already known, underpriced, nonce too low).  `fork`
tells blocks of different forks apart.  The chain may reorganise while the process is
down, so that nobody sees it; `undone` is a history variable, the rows whose mark rests on
a block that is gone and that the queue has not unmarked yet.  The block watcher is abstracted to the
blocks it has announced, which `Indexer` models in detail.

### EventWatcher

`Indexer` takes the logs of a page or a block as given; this module is about how
`events.rs` gets them.  Blocks that are warped over are queried in pages, a page
that fails is halved down to single blocks and a single block is queried one event
at a time; a new block is queried by its hash, with retries, then one event at a
time.  The node is honest, capped (it answers with at most so many logs and does
not say so) or lossy (it leaves logs out).  Against the cap the watcher has
`max_logs_per_query`, which need not be set or not be low enough, against the loss the
bloom filter of the block and client-side filtering; a log that does not decode stops it.
The filter is the union of the bits of the addresses and of all topics of the block's
logs, which `Bits` may give in common.

### ValidatorKeyGen

Every validator of the configuration as the code runs it, over the coordinator's
and the consensus contract's part in the ceremony.  A block is a `newBlock` step,
in which every honest validator applies its deadlines, followed by one step per
mined transaction, whose event all of them handle; what differs between them is the
account they run as, when the answer of their setup effect comes, and what a
restart made them lose.  Honest transactions are mined in the block after they
were queued or later (a delay), in any order; faulty participants send anything
the contract accepts.  The secrets of a ceremony are version numbers, so that a
share made with other secrets than the commitment shows.  Abstracted: the signing
of the rollover (any threshold of members that hold the key; it is the subject of
`ValidatorNonces` and `FROSTCoordinator`), and groups that nobody holds any more,
which are forgotten.  Reconciliation of the secret store, an effect of `NewBlock`,
is performed with it.  The branch of `handle_epoch_staged` that recovers from
`WaitingForGenesis` is not reached, since a validator sees genesis before an epoch.

### SentinelService

Services and sentinels that do as they like, over the whole `SentinelOracle`
module.  A block is the transactions between two `endBlock`s; a service reads it
once it is complete, `NewBlock` first, then its events, and may fall behind.  A service's
transactions are mined in their order and may be left out of some blocks; the engine
answers at any time, also while blocks are read.  A process may stop at any time, between
`NewBlock` and the events of a block, or between the snapshot and its commands.  When it
starts, at once or some blocks later, it goes back to its earliest snapshot, as the
watcher tells it to (`blocks.rs:255`), without its engine checks and with its queued
transactions.  It then reads the blocks since again: those older than `MaxReorgDepth` as
one page of events without `NewBlock`, the others one by one.  `past` holds the events of
the blocks that somebody may still read.

A service can miss something of a request in three ways, which `lapsed` records; the
properties are about the requests it is not in.  Commitments read while it waits for its
engine are not counted (the finding below).  A stop less than `MaxReorgDepth` blocks after
the engine's answer forgets the vote of a commitment that was made.  A start after a long
downtime reads reveals before the `NewBlock` that would have it count them.  Each exception is
needed: without any one of them `MirrorsOracle` fails.  The requests of one block are handled in
a fixed order, where the code iterates over a hash map; they touch nothing in common.
`WaitingForRequest` is modelled and never reached: `Consensus` posts the request in
the transaction of the proposal.

### SentinelEngine

One transaction through the chain of checkers, of which the first that does not
abstain decides.  Calldata is a record of the called function and of those
arguments that some checker reads; addresses are named by what they are, with
the digits a wallet shows in `Shape`.  Reading the token's events is one step per
chunk of blocks, and each may fail; everything else is a function of the
transaction, the order book and the lists.  The module uses recursive operators
(batches contain batches), so no theorem can rest on it.

## Runs

`tlc -config <cfg> <module>` for each.  A run that terminates with no step left
has only reached its bounds or the end of a ceremony, so none checks deadlock.

| Run | Bounds | States | What it shows |
| --- | --- | --- | --- |
| `frost_nonces` | 2 participants, 2 roots, chunks of 2, 3 ceremonies | 73k | preprocessing races signing across a chunk boundary: nonces precede their ceremony's message and are never shared between ceremonies |
| `frost_signing` | 4 members, count 3, threshold 2, 2 messages, competing selections | 414k | a member too many, every order of commitments, shares, complaints, answers and confirmations, then shares for two selections: the counters are exact, a finalised group is clean, nothing is undone, a ceremony ends, only a full, agreeing quorum signs, and the coordinator implements `GroupSigner` |
| `consensus` | 3 groups, 1 transaction, 2 epochs, 2 blocks, 3 requests | 166k | proposals, callbacks and block numbers interleave: everything accepted is endorsed, and storage implements the eager schedule |
| `nonces_reorg` | 2 roots, 1 message, reorgs of depth 1, 2 ceremonies | 670k | replayed, reordered, lost and late events and answers: a nonce signs once, is the one the chain expects, and no share uses the nonce of another attempt |
| `sentinel_oracle` | 3 sentinels, 4 bond configurations (two refused), share changed between none and all, 6 blocks | 1.2M | every voting pattern, silence, dispute, arbitration and time-out while the roster and the share change: all payouts go through, only dust stays, delayed values come into force by time alone, and requests settle |
| `driver` | `max_reorg_depth` 3, pages of 2, heights 5 to 8, 2 reorganisations, 2 stops; starts at block 1 with reorgs of 3, at block 3 with reorgs of 2, and without `start_block` with reorgs of 2 | 822k | the state is the fold of the chain, the service never refuses an update it produced, and it catches up |
| `events` | 4 blocks, 5 chains, 5 configurations, 4 nodes, in all combinations | 35k | batches are contiguous and in order, a log is missing only for one of four stated reasons, and every block that can be got through is |
| `txqueue` | 2 rows, 2 in flight, depth 1, height 4, 1 reorganisation, 1 stop | 1.77M | nonces have no gap, actions execute once, and only final ones are pruned |
| `validator_keygen` | 3 honest members, a faulty one, an observer; genesis and one epoch of 16 blocks; time-out 2; 3 delays, lossy restarts and misdeeds in all | 344k | the validators agree without talking, exclude nobody honest, have their group in six time-outs, hold their keys and never share for another commitment |
| `sentinel_service` | a service, another sentinel, 1 request, windows of 2 and 3 blocks, `MaxReorgDepth` 2, 2 stops or blocks that the service is late in | 534k | a service's picture is the contract's, its transactions work, it reveals in time, bonds return |
| `sentinel_uncounted` | the same with a third sentinel, without trouble | violation | the finding below |
| `sentinel_engine` | some 600 transactions and batches, histories over 6 blocks read in chunks of 2, amounts to 15 | 584k | no batch launders a settings change, approvals are backed, the history check is exact |

Why the bounds are enough.  The key generation compares counters with `Count` and
`Threshold`; 3 and 2 are the least values at which one accusation is tolerated
and two are not, and the fourth member is the one too many.  Chunks of 2 with 3
ceremonies cross a chunk boundary; selections of 2 among 3 can overlap without
being equal.  Two epochs after genesis have a previous, an active and a staged
one at a time.  Two roots and two ceremonies are the least at which a nonce can be
mixed up, one block of reorganisation the least that rolls back the selection and
not the secret.  A fee of 5 in shares of none and all covers rounding among three
winners and both boundary cases; the two refused bond configurations show that the
constructor's checks are what the payouts rest on.  A commitment that nobody can open
behaves as one that nobody opens, so two hashes are enough.  Depths of 2 and 3 with pages
of 2 and starts up to 4 blocks behind use paging, the exact end of a page, the warp and the
single-block path; two stops let a restart be interrupted.  Two rows in two slots
fill the queue.  In `driver` the three settings are the sharp ones: without
`start_block` and with reorgs of the full depth `NeverRefused` is violated.  In `events` a
watched log has bits that those of another contract's log cover, a block holds more logs than an answer, a page has to be
halved twice, and logs of other contracts and events are among those asked for.
With four members, of which three are needed, one can be excluded and not two; a
time-out of 2 blocks can be met and missed by one block; three pieces of trouble
let the faulty member be excluded, a setup be lost and a transaction be late in one
epoch.  `ReadyInTime` is tight: with five time-outs it fails.
Windows of 2 and 3 blocks are the least in which a service can commit and reveal and
miss a block: a reveal is mined two blocks after the commit deadline at the
earliest, so with a reveal window of 1 no service could ever reveal.  Two blocks to go
back are the proposal and the commitments, or the commitments and the reveals, with an
answer of the engine in between; a stop and a late block make a bulk of events.  Two requests
would only repeat one: nothing in the service relates them.  A sentinel that does as it
likes stands for other services too, which do nothing it cannot do.

`nonces_reorg` and `frost_nonces` permute roots, `consensus` groups other than
genesis, `validator_keygen` the honest members and `sentinel_uncounted` the other sentinels:
none of them is told apart by the code, and no temporal property with fairness is
checked under symmetry.

### Fairness

- `frost_signing`: each participant commits, shares, confirms and answers
  complaints (weak fairness, per participant).  That is what `keygen.rs` does with
  every event, through a queue that retries; `CeremonyEnds` says what follows when all
  members are honest in this sense, complaints remaining arbitrary.
- `sentinel_oracle`: blocks are mined, and somebody sends `finalize` and
  `timeoutArbitration` when the contract would accept them; anybody may, and the
  sentinel service does.  Nothing is assumed about votes, claims, the arbitrator
  or governance.
- `driver`: the process makes progress (`Process`: failed requests are retried
  and a stopped process is started again by its supervisor), and the chain grows.
  Nothing is assumed about reorganisations, which are bounded in number.
- `events`: the driver keeps polling the watcher (weak fairness of `on_new` and of
  a refused query), and a node that is asked again and again answers in the end
  (strong fairness of `Answered`, since failures may come between).
- `validator_keygen` and `sentinel_service` state what must happen in bounded
  time, counted in blocks, and need no fairness.

## Proofs

All theorems hold for every value of the constants that satisfies the `ASSUME`s of
the module, which TLC evaluates on every run.  Five theorems name a further assumption in
their statement: `ValidatorsInStep`, `ValidatorsStay`, the two of the
driver (`WithinDepth`) and `OnlyRemaindersStay`.  There are about 26,000 obligations.

**Key generation** (`ContractProofs`, first part).  `KeyGenInvariant` proves `KGInv`, the
conjunction of types, `CountersExact` (each participant's counters equal the
number of complaints that the complaint table records), the exact value
of `pending` in each phase (as many as have not acted yet), the shape of the
ceremony (who may have shared and confirmed in which phase) and the two consequences
`FinalizedIsClean` and `ToleratedAccusations`.  No part is inductive alone: that
a finalised group is clean needs the counters to be exact, since `confirm` looks at
the counter and not at the complaints; that the counter hits zero with the last
participant needs the cardinality of those who acted; and that nobody acts twice
needs the shape.  The lemmas on cardinality come first, then one lemma per
action.  `KeyGenTypeCorrect`, `CountersAreExact`, `FinalizedGroupsAreClean` and
`CeremonyNeverUndone` follow.

**Preprocessing and signing** (`ContractProofs`, second part).  `GroupInv` adds to `KGInv`
that a committed chunk lies below the participant's next one and was written when no
sequence from its start offset on had begun (`ChunksAhead`), that an opened nonce
pair is what its slot still holds (`OpenedFromSlots`), and that the ceremonies
that began are those below `sequence`, of a finalised group, with shares only of
participants that have a verification share (`CeremoniesBegan`).  The first two are
what makes `NoncesPrecommitted` inductive: a commitment goes to a chunk at or above
`next`, so it cannot overwrite a slot, and the division of a sequence by the chunk
size, for any size, gives the offset that `verify` compares.  `QuorumSigns` needs
the key generation's `FinalizedIsClean`, because `signShare` asks only for a
verification share, and `CoordinatorImplementsSigner` that a finalised group has no
key generation step left.  `OneNonceIsRevealed` follows from the slots.

**Epochs and attestations** (`ContractProofs`, third part).  `ConsensusInv` is `EpochInv` (an
epoch is staged above the active one, and no epoch above the latest has a group),
the types of requests and messages, and the two properties.  `EpochInv` is what a
lazily rolled-over storage needs: `stageEpoch` may run before or after the
roll-over was stored, and in both cases the number it takes was never used, so the
group of an epoch never changes and what it signed remains signed by it, however
late it is recorded.  `EpochsAreEndorsed` is about keys: the signature endorses the key of the
group that is stored, which another finalized group may have too.  `StorageImplementsSchedule` maps the storage to what
a reader computes from it; storing a roll-over is a stutter.

**Nonces** (`ValidatorNoncesProofs`).  `NonceInv` is the typing of the parts that
hold secrets, `NonceInOnePlace` (a nonce is in the store, or on its way in one
answer, or spent) and `NonceSignsOnce`.  The argument never mentions chain,
snapshots or sessions: taking the nonce deletes it from the store in the same
transaction, roots are sampled once, and neither a reorganisation nor a
restart writes the store.  That is the
design's claim, and the theorems `NoncesInOnePlace` and `NoncesSignOnce` are its
proof for any depth of reorganisation, number of sessions and order of answers.

`SelectedNoncesAccepted` and `SharesMatchCeremony` are about the other half, the
bookkeeping that is rolled back.  `ChainInv` says that the live state agrees with the
current chain and each snapshot with its prefix of it: the chunks a validator has
registered are those the contract has, in order (`ChunksInOrder`), the roots are linked to
the same chunks (`LinksMatch`), and the nonce a session selected is accepted on that
chain (`NoncesAccepted`).  The property alone is not inductive, because a
reorganisation or a restart makes some snapshot the live state; so the invariant speaks
of all of them.  `BlocksOnlyAsk` shows that a block never spends a nonce by itself, which
leaves the resumes: an answer that comes back after a reorganisation meets a session
that may be in another ceremony, and is used only if the root and offset still agree.

**Payouts** (`SentinelOracleProofs`).  `PayoutsGoThrough` proves that no
subtraction in `claim` or in an arbitration underflows.  `PayInv` is `ConfigOK`
(every value in force or scheduled passed its check), `RequestsOK` with its part
`Covered` (a bond covers its slash, the slash of one loser covers the fee, and a
frozen request has a vote on each side, hence a loser whichever way the ruling
goes) and `BondsOK` (every bond that was taken is that of its request).  The
property is not inductive: whether a slash covers the fee is decided when the
request is posted, several steps before a dispute, by configuration that may have
changed since.  `ChangesTakeEffectByTime` uses its types: a due value that is
overwritten by a new schedule must have been stored first, or readers would see the
old one again.  `OutcomesAreUnanimous` extends it to `VoteInv`: a tally is positive
exactly if a revealed vote stands behind it, a revealed vote keeps its hash and so
cannot be committed over, and a result exists only once the request left `PENDING`,
after which nobody reveals.

`PotsCoverClaims` and `OnlyRemaindersStay` follow the money with `MoneyInv`.  `CountOK` ties the
counters, by which `finalize` and `resolveDispute` pay, to the sentinels, by whom
claims are paid: `approve` and `deny` are the numbers of those that voted so, and
`committed` is ahead of the committers by the bonds that were `Overwritten`.  `SealOK` says that
nobody claims early and that a bond has a vote behind it.  `PotOK` gives the pot in
each state; once a request is settled it is that `RestOK` bounds what remains beyond the
open claims.  A claim then leaves `Rest` as it is, and only the four ways to settle need
arithmetic: each leaves the overwritten bonds, less their slash, plus a remainder smaller than the
number of winners.  With no assumption on what sentinels commit to this gives
`Solvent`, that no request is paid for with the money of another.  That nothing else is stranded
(`OnlyDustStays`) is stated for `"Zero" \notin Hashes`: see the observation on commitments of zero.
`OnlyDustStays` says that what `finalize`, the arbitration and the claims do adds up to what
was paid in, and leaves open whose bonds are charged; on that, see the observation on silence.

**Transaction queue** (`TransactionQueueProofs`).  `QueueExecutesOnce` rests on
`OnceInv`: the table, the mempool and the chain never bind an action to two nonces
(`OneNonce`), and a row that waits for its nonce was never submitted
(`WaitingIsUnsent`).  Since a block uses each nonce of the account once, that is enough,
and it needs no assumption on the node.  `QueueLeavesNoGap` and
`QueueForgetsExecuted` hold for reorganisations at any time, also while nobody
watches.  Both speak until the queue forgets a row whose mark rests on a block that a
reorganisation has taken away and that it has not unmarked (`AllKept`); that this is the one
way to forget a row too early is what the second theorem says (see the observations).
Both rest on `GapInv`: the watcher's copy can lag behind the chain or differ from it only
above its safe block (`WatcherFollows`), a row is marked at a block that, if it is still
there, has passed the row's nonce (`MarksHold`), a nonce has one row at most, also where
the mempool or the chain holds it (`OneRow`), and only rows that the final part of the
chain executed were pruned, with every nonce above them held by a row (`PrunedBelow`).

**Driver** (`DriverProofs`).  `StateIsOneChain` and `UpdatesNeverRefused` prove
`StateIsChain` and `NeverRefused` for chains, depths, page sizes and numbers of reorganisations and stops
of any size.  They assume `WithinDepth` of the settings: the chain replaces no more blocks
than `max_reorg_depth`, and a configured start block lies outside of that window; without a
configured one, reorganisations are one block shorter than the window, or
the theorems are false (see the observations).
`DriverInv` relates the chain, the watcher, the state machine and the snapshots, which all
change at different times.  The blocks that are never replaced again (`Final`) tie them
together: the watcher's safe block, the earliest snapshot, every block of a warp and the
start block are among them.  All the rest may be of forks that are long gone, and
only has to be of one fork: the snapshots (`Nested`), and the blocks the watcher knows
(`WatcherOk`).  `Sync` says that the two sides agree on what was announced, and that a
snapshot of every parent the watcher could still go back to exists (`Covered`), which pruning and
the sliding window must keep in step.  While an update is on its way `Sync` does not
hold; `Taken` says that the state machine takes the update and that it holds afterwards.
A restart has two invariants of its own: `Scanning`, that a scan of the range, however
often it starts over, only finds final blocks where it must, and `Resuming`, that the return
to the earliest snapshot, queued before anything else, leads back to `Sync`.  One
lemma per action shows that it is kept; `ChainStep` covers all that the chain may do.

**Validators' key generation** (`ValidatorKeyGenProofs`).  `PublishedSharesMatch` rests on
`ShareInv`: what the coordinator stores of a group is well formed (`CeremoniesOk`), so is
every validator's state (`ViewsOk`), the commitments a validator has collected
are those onchain (`ViewsAgree`), and so are those whose secret shares it has queued
(`QueueAgrees`).  There is one lemma per transition of the validator, which says that
it keeps the commitments of the same group only and publishes shares of its own
commitment (`StepOk`), and one per step of the chain.  Restarts, lost blocks and secrets
that are sampled again enter only through `SetupsOk`, that the answer of a setup belongs to
the validator that asked: whether it is of the committed secrets is decided when it is
used, by `matchesCommitment`.

`ValidatorsInStep` is `LockStep` for every number of validators, faulty members, delays and
restarts.  It is about two validators at once, which differ in the account they run as, in
their secrets, and in the shares that they could verify; so each handler has two lemmas.  One
(`...Moves`) places the result in the order of epochs and groups; the other (`...Same`) says
that two states that are the same in public (`Same`) still are after the handler.  The
second is false for arbitrary states: a validator that has no secrets stays in its round
where others go on, and a round that is complete already ends at a different event.
`RoundOpen` excludes that for those that lost nothing: some member is missing in the round
they are in, and their own commitment, if it is onchain, is of the secrets they have.  To
keep it, the invariant `LockInv` must follow the commitment through the queue
(`CommitsOwn`, `QueuedOk`), across an exclusion that starts the same epoch with another group.
The theorem assumes `Honest \cap Faulty = {}`, or a commitment could come from elsewhere, and
states `LockStep` where the validators are on one side of genesis (`GenesisTogether`):
`EpochsAlike` and `GenesisOk` show that those past genesis are all in one epoch, but genesis,
which has no deadlines, can tear them apart for good.  Of four members two are faulty: one
accuses the other while an honest validator that was restarted has no secrets yet, and
so does not count the complaint.  When two later complaints about bad shares make it three, the
other honest validator halts, with its confirmation already queued; the restarted one counts
two and passes genesis.  (TLC finds this behaviour with two validators and two faulty members.)
In the run genesis has one trouble at most (`troubleLeft`), too few for it, and there
`LockStep` holds unconditionally.

`StagedMembersHoldKeys` is `KeysHeld`, also for validators that lost state: the key is there from
the staging on and all the time the epoch is the active one.  A group is
staged only after every member confirmed, and a validator confirms only when it has
verified a share of every member; between the two lie the queue, delays, restarts and
setups that are sampled again.  `KeysInv` follows the key along that way: a validator counts only
shares that are onchain (`KeyOk`); a queued confirmation is of a validator that has the
key, for a ceremony in which all have shared (`ConfirmsOk`); its own confirmation,
counted, and the signing of the rollover find the key there; and an epoch is staged once
(`EpochsOk`), so that the group whose key is kept is the one that was staged
(`StagedOk`).  Lost state is no exception because a validator that returns to the first rounds
of a ceremony in which all have shared never counts a share again, and so never
confirms.  It builds on `ShareInv` and does not need `LockInv`: what one validator holds does
not depend on agreement with others.

`ValidatorsStay` (`ValidatorStayProofs`) is `HonestStay` for any number of validators, where the
validators are on one side of genesis.  It assumes `OneFaulty`: one participant at most is faulty,
or the observation on two of seven below applies, and a round lasts two blocks at least, or
no answer to a complaint could be mined before it is due (for a time-out of 1 it is false).  The
property is about an exclusion, the last of a chain of steps in which each party was in
time; so `StayInv` says of every validator that lost nothing what it still owes the round it
is in, and that this is onchain or in the queue with blocks to spare (`InTime`): its
commitment, its secret share, its complaints about shares it could not verify, the answers
to complaints about it, its confirmation.  Being in the queue is enough only if the
contract will accept it.  So `CeremoniesInOrder` fixes the order of an onchain ceremony, in which
one of accuser and accused is always faulty; `Tallies`, that the validators count the open
complaints as the contract does; `QueueGood`, that what validators queue is genuine and
accuses only a faulty member that has shared; and `Prompt`, that a complaint the contract would
accept is fresh.  `TracesPast` and `NewUntraced` say that the group
after an exclusion was never seen before, so that no commitment or secret of an earlier attempt
gets in the way of the new one.  What the
faulty participant can do is bounded by its own messages: one complaint per validator, which is
answered before it is due; bad shares, which every victim complains about before it
confirms; and silence, for which it is the one that is excluded.  Who lost nothing is accused once
at most, which never compromises a group.
The proof stands on `LockInv` (the validators see the same round), `ShareInv` and `KeysInv`.

**Event watcher** (`EventWatcherProofs`).  `LogsInOrder` and `LossesExcused` prove
`InChainOrder` and `NothingLost` for chains, page sizes, limits, retries and nodes of any size.
`WatchInv` says that what is in flight, or pending, is the first block that was not handed on
(`Progress`), that every batch handed on is an answer in which a watched log is missing
only with an excuse (`BatchesOk`, `AnswerOk`), and that all batches together are in order
(`HandedOk`).  Each way to ask has a lemma that its answer is such an answer, which the
fallbacks (halved pages, retries, single events) then only have to choose among.  Two facts
are inductions over data: an answer shorter than the node's limit was not cut off (`CutOff`),
which is what `check_logs_limit` rests on, and handing on a batch appends it to all the
others (`FlattenAppend`).  The theorems of the library with an operator as a parameter
cannot be used for them; they take a smallest counterexample instead, among the finite
sets (`LeastSet`) or the numbers (`LeastNumber`) for which the claim fails.  The proof corrected the
property: the logs of a whole block, which are filtered by the client, pass the bloom filter but
not `check_logs_limit`, so that a capped node can hide a log as a lossy one can.  The
run now has such a node.  Of the bloom filter the proof uses only that it is the union of
what the logs set, so it holds for any collisions.

Only model-checked are:

- liveness (`CeremonyEnds`, `Settles`, `CatchesUp`, `Drains`), which is outside the
  prover's reach;
- `ReadyInTime`, which counts blocks over whole rounds and attempts and whose bound of six
  time-outs is that of the run's one faulty member and its trouble; it is false for more;
- the sentinel service (`MirrorsOracle`, `TransactionsWork`, `RevealsInTime`,
  `BondsReturn`), which asks what is `ENABLED` and folds over its requests;
- the engine (`SettingsGuarded`, `ApprovalsBacked`, `ScanExact`), whose batches are
  recursive operators.

`CountersExact` and `NonceInOnePlace` are proved and have no run of their own: the first is
part of `KGInv`.

## Findings

`sentinel_uncounted`: `handle_committed` counts commitments only in
`CollectingCommitments`, which the service enters when its engine answers
(`service.rs:313`).  Those mined before are not counted, so the reveals look
complete too early: `finalize` is queued while the oracle still waits, reverts, and
is not sent again, where the comment at `service.rs:333` says that it finalizes
"once every commit has been revealed".  The other properties of the service are
therefore stated for services that missed nothing of a request (`lapsed`).

Observations made while modelling, without a run of their own:

- Driver: on an empty database without `start_block`, the first snapshot is that of
  the oldest block inside the reorg window, and none of its parent exists
  (`index/blocks.rs:350`).  A reorganisation of the permitted depth that uncles it
  stops the service, and the restart takes the uncled block for its anchor,
  although `blocks.rs:63` promises to fail "instead of silently continuing".  Such a
  service tolerates reorganisations that are one block shorter than `max_reorg_depth`, which
  `driver` checks; the setting `<<-1, 3>>` in `MCSettings` shows the violation.  A `start_block`
  inside the window or above the head is in no setting.
- Queue: `update_block_status` prunes with the new safe block before it unmarks, and
  on startup unmarks only above that block (`tx/mod.rs:162`), although the comment at
  `tx/mod.rs:168` is about reorgs while the process was down.  A row executed in a
  block that was reorganised away meanwhile is deleted, although
  its transaction never happened.  `PrunedIsExecuted` names it as the one exception
  (`id \in undone`); without it `txqueue` is violated.
- Consensus: a rollover is endorsed for a key.  `keyGenCommit` asks for no proof that a
  participant knows what it commits to (`FROSTCoordinator.sol:371`), so a second finalized
  group may have the same key, and `stageEpoch` takes the id of either.
- Key generation: `HonestStay` is about one faulty member.  Two of seven can have an
  honest one excluded although no transaction misses a block: the contract takes
  complaints that the validators do not count any more (`FROSTCoordinator.sol:486`,
  `keygen.rs:695`).  With three counted complaints about one of them open, a late one
  by the other compromises the group onchain; an answer that is due in the same block
  then reverts, and its sender is excluded at the response deadline together with the
  accused.  TLC follows this behaviour in `ValidatorKeyGen` (five honest, two faulty,
  a time-out of 2) to a violation of `HonestStay` in 63 states.
- Oracle: when an arbitration times out or is declared out of scope, a sentinel that
  committed and stayed silent gets its bond back less the slash for silence, where the
  comments at `SentinelOracle.sol:325` and `:337` say that every committed bond returns in full
  (`SentinelOracleRequests.sol:215` too).  `OnlyDustStays` is neutral here: the
  slash was shared out by `finalize` before.  A
  commitment of zero is stored as "no commitment"
  (`SentinelOracleCommitments.sol:92`), so its sender may commit and bond again and
  strands its own first bond; `Hashes` leaves it out.
- Sentinel service: the engine's answer is in no event, so a start that goes back over it
  forgets the vote (`state/mod.rs:254`, `blocks.rs:260`).  If the proposal is older than the
  earliest snapshot, the engine is not asked again; if it is asked again, the service ignores
  its own `Committed` unless the answer comes first.  Either way the commitment is
  onchain and its vote is not revealed.  A stop within `max_reorg_depth` blocks of the
  answer is enough.  After a start claims are queued again and revert.  A start after more than
  `max_reorg_depth` blocks reads reveals in the state of collecting commitments and ignores them.
  A vote that was not revealed when others were is given up silently.
- Engine: an approval of the staking contract that is the whole transaction is not held
  against a stake: the staking checker abstains (`staking.rs:124`) and the history check finds it
  secure if the Safe paid or approved the contract before (`address_poisoning.rs:325`);
  `ApprovalsBacked` says so.
- Engine: the calls of a refund are built with chain id 0 (`refund.rs:105`), so the
  history check, which compares it with its provider's, never looks at the refund's
  receiver; the blocklist looks at the outer destination only.
- Event watcher: neither the queries of a warp nor those for single events are
  verified against the bloom filter, and the filter cannot show a missing log all of
  whose bits the other logs of the block set; nor is the number of logs of a block
  that is filtered by the client compared with the limit (`NothingLost` names these cases).
  A critical event with as many logs in one block as the limit, or a log that does
  not decode, is asked for again for ever (`Servable` in `Drains`).

## Not modelled, and why

- FROST arithmetic, curves, hashes and Merkle trees, onchain and in the validator:
  number theory rather than state; the models use them as ideal.
- Provider, logging, metrics, fee estimation, key derivation, configuration and
  service wiring: input and output without decisions the properties depend on.
- The small oracles and the delegated account: one storage write each.
- Explorer, deployment scripts, examples and Certora specifications: outside the
  protocol.
- Of modelled parts: oracles of `Consensus` other than through their callback;
  several groups in one validator's nonce store, except for the reconciliation that
  drops a group's secrets; several accounts of a queue; the thread that samples nonce
  trees ahead of their use, which is a tree that becomes available at any time.
- `Staking` and `SafenetGuard`, onchain and self-contained, come next (below).

## Plan

1. `Staking`: the withdrawal queue as a linked list, checked against a sorted
   sequence; solvency; time-locked proposals; a position that was claimed before
   its use (`Staking.sol:464`).
2. `SafenetGuard` over `Consensus`: roll-over by signature, announcements, and
   the attestation that `checkTransaction` accepts; an announcement, which carries
   no nonce, is usable once (`TransactionAnnouncement.sol:146`).
3. `ValidatorNonces` over `FROSTCoordinator` for the part of the chain it uses
   now by its events, and with it the liveness of preprocessing: a tree lost with
   a restart keeps its reservation (`preprocess.rs:91`).

Theorems, in this order: the picture the sentinel service has of the oracle
(`MirrorsOracle`), once its folds are replaced by quantifiers; solvency of `Staking`.
