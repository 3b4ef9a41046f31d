-------------------------- MODULE ValidatorKeyGen --------------------------
(***************************************************************************)
(* Key generation and epoch rollover as the validators run them            *)
(* (crates/validator/src/state/keygen.rs) over the contracts.              *)
(*                                                                         *)
(* Every honest validator derives its RolloverState from the same blocks:  *)
(* a NewBlock message, then the block's events in order.  So one block is  *)
(* one newBlock step followed by one step per mined transaction, and every *)
(* step hands its message to all honest validators.  What differs between  *)
(* validators is the account they run as, the moment their KeyGenSetup     *)
(* effect resumes, and what a restart makes them lose.  Faulty             *)
(* participants send whatever the contract accepts.                        *)
(*                                                                         *)
(* A group is identified by its epoch and its members (group_id hashes     *)
(* both, with the count and the threshold that follow from the members);   *)
(* epoch 0 is genesis.  Secrets are version numbers: a commitment made     *)
(* with version k can only be shared with version k; 0 stands for secrets  *)
(* that are not there, and for a commitment that fails its verification.   *)
(***************************************************************************)
EXTENDS Integers, FiniteSets

CONSTANTS
    Honest,          \* the validators that run this code
    Faulty,          \* the other participants of the configuration
    ActiveFrom,      \* Participant.active_from
    ActiveBefore,    \* Participant.active_before
    KeyGenTimeout,   \* ValidatorConfig.key_gen_timeout, in blocks
    BlocksPerEpoch,  \* ValidatorConfig.blocks_per_epoch
    MaxBlock,        \* bound: the last block explored
    GenesisBlocks,   \* bound: the block by which genesis is generated
    MaxTrouble       \* bound: lossy restarts, delays and misdeeds together

Participants == Honest \cup Faulty

ASSUME ConfigAssumption ==
    /\ IsFiniteSet(Participants) /\ Honest \cap Faulty = {}
    /\ ActiveFrom \in [Participants -> Nat]
    /\ ActiveBefore \in [Participants -> Nat]
    /\ KeyGenTimeout \in Nat \ {0}
    /\ BlocksPerEpoch \in Nat \ {0}

VARIABLES
    block,     \* the number of the latest block
    chain,     \* FROSTCoordinator: the ceremony of each group that was opened
    epochs,    \* Consensus: the staged epochs, with genesis
    view,      \* State of each honest validator
    setups,    \* KeyGenSetup effects that are running: <<validator, group>>
    store,     \* the SecretStore: <<validator, group, version>>
    pool,      \* transactions queued by honest validators, not yet mined
    restarts,  \* how many restarts lost something
    delays,    \* how many blocks came before a transaction or a setup was ready
    misdeeds,  \* how many invalid messages and complaints faulty members sent
    lost,      \* history: validators that lost state in the epoch they work on
    began      \* history: when a validator took up its epoch, and the first
               \* deadline of its ceremony

vars == <<block, chain, epochs, view, setups, store, pool, restarts, delays, misdeeds, lost, began>>

----------------------------------------------------------------------------
\* The map m with x for the key k.
put(m, k, x) == [y \in DOMAIN m \cup {k} |-> IF y = k THEN x ELSE m[y]]

----------------------------------------------------------------------------
(* Epochs, groups and participant sets                                     *)

\* epoch::next_number.
nextNumber(b) == 1 + b \div BlocksPerEpoch

\* group_threshold: a majority of the group.
threshold(members) == Cardinality(members) \div 2 + 1

\* A wrong min_participants: one participant too many is asked for.
minParticipantsStrict(count) == (count * 2) \div 3 + 2

\* min_participants: more than two thirds of the default set, and two at least.
minParticipants(count) ==
    LET min == (count * 2) \div 3 + 1
    IN  IF min < 2 THEN 2 ELSE min

\* The participants the configuration has for an epoch.
activeIn(epoch) ==
    {p \in Participants :
        /\ ActiveFrom[p] <= epoch
        /\ epoch = 0 \/ epoch < ActiveBefore[p]}

\* participants_set: the members without the excluded, {} for None.
participantsSet(epoch, excluded) ==
    LET members == activeIn(epoch) \ excluded
    IN  IF Cardinality(members) >= minParticipants(Cardinality(activeIn(epoch)))
        THEN members ELSE {}

\* Group.id: what the group is derived from.
groupId(epoch, members) == [epoch |-> epoch, members |-> members]

\* Group.also_exclude.  A group excludes exactly the active participants it
\* does not have.
alsoExclude(s, more) == (activeIn(s.epoch) \ s.members) \cup more

\* Group.exclude_all_others.
excludeAllOthers(s, only) == alsoExclude(s, s.members \ only)

----------------------------------------------------------------------------
(* The state of one validator.  `own` is its KeyGenCommitment, and later   *)
(* the secrets its sharing state was made of.                              *)

Observing == -1  \* KeyGenCommitment::Observing
NoSecrets == 0   \* KeyGenCommitment::Participating { secrets: None }
NoDeadline == 0  \* None: genesis has no deadlines

idle(s, phase, epoch) ==
    [phase |-> phase, epoch |-> epoch, members |-> {}, own |-> Observing,
     commitments |-> <<>>, keys |-> {}, shares |-> {}, total |-> <<>>,
     unresponded |-> <<>>, confirmations |-> {}, status |-> "Observing",
     deadline |-> NoDeadline, active |-> s.active, epochs |-> s.epochs]

initialView == idle([active |-> 0, epochs |-> {}], "WaitingForGenesis", 0)

inGroup(s, g) == groupId(s.epoch, s.members) = g

complete(s, set) == Cardinality(set) = Cardinality(s.members)

\* The later deadline, if the ceremony has deadlines at all.
pushed(s, b) == IF s.deadline = NoDeadline THEN NoDeadline ELSE b + KeyGenTimeout

\* ConfirmationDeadlines: `deadline` is the one for complaints.
responseDeadline(s) == s.deadline + KeyGenTimeout
confirmDeadline(s) == s.deadline + 2 * KeyGenTimeout

\* The result of a transition: the state, the actions and the setup effects.
result(s, acts, setup) == [s |-> s, acts |-> acts, setup |-> setup]

stay(s) == result(s, {}, {})

action(kind, s, peer, version) ==
    [kind |-> kind, group |-> groupId(s.epoch, s.members), peer |-> peer, version |-> version]

\* rollover_failure: a regular epoch is skipped, genesis halts for good.
rolloverFailure(s) == stay(idle(s, IF s.epoch = 0 THEN "Halted" ELSE "EpochSkipped", s.epoch))

\* start_key_gen: as a participant, whose secrets are still to be sampled, or
\* as an observer.
startKeyGen(v, s, epoch, members, deadline) ==
    LET started == [idle(s, "CollectingCommitments", epoch) EXCEPT
                        !.members = members,
                        !.own = IF v \in members THEN NoSecrets ELSE Observing,
                        !.deadline = deadline]
    IN  result(started, {}, IF v \in members THEN {<<v, groupId(epoch, members)>>} ELSE {})

\* restart_key_gen_excluding: genesis cannot be restarted.
restartKeyGenExcluding(v, s, excluded, deadline) ==
    LET members == IF s.epoch = 0 THEN {} ELSE participantsSet(s.epoch, excluded)
    IN  IF members = {} THEN rolloverFailure(s)
        ELSE startKeyGen(v, s, s.epoch, members, deadline)

\* A wrong generate_secret_shares: secrets of another ceremony are accepted.
matchesCommitmentAlways(v, s) == TRUE

\* generate_secret_shares: the own commitment must be made of these secrets.
matchesCommitment(v, s) == s.own = Observing \/ s.commitments[v] = s.own

\* finalize_key_gen_commitments: the secret shares are published, or the
\* ceremony is only followed.
finalizeKeyGenCommitments(v, s, deadline) ==
    IF ~matchesCommitment(v, s) THEN rolloverFailure(s)
    ELSE result([s EXCEPT !.phase = "CollectingShares", !.deadline = deadline,
                          !.total = [p \in s.members |-> 0],
                          !.unresponded = [p \in s.members |-> 0]],
                IF s.own = Observing THEN {} ELSE {action("share", s, v, s.own)}, {})

\* frost::keygen::finalize: a key share is made of one verified share of every
\* member, the own one included.
hasKeyShare(s) == s.status = "Collecting" /\ complete(s, s.shares)

\* confirm_key_gen: the key share is made as soon as every share is there.
confirmKeyGen(v, s) ==
    IF hasKeyShare(s)
    THEN result([s EXCEPT !.status = "Confirmed"], {action("confirm", s, v, 0)}, {})
    ELSE stay(s)

\* finalize_key_gen: the epoch is kept by those who hold a key share.
finalizeKeyGen(s, next) ==
    [next EXCEPT !.epochs = IF s.status = "Confirmed"
                            THEN @ \cup {groupId(s.epoch, s.members)} ELSE @]

----------------------------------------------------------------------------
(* Events                                                                  *)

\* handle_genesis_key_gen.
onKeyGen(v, s, g) ==
    IF s.phase = "WaitingForGenesis" /\ g = groupId(0, activeIn(0))
    THEN startKeyGen(v, s, 0, activeIn(0), NoDeadline)
    ELSE stay(s)

\* The own commitment is published unless it is onchain already.
publishes(v, s) == v \notin DOMAIN s.commitments

\* handle_key_gen_setup: the secrets are filled in; the round closes at once
\* when every commitment has been collected without them.
onSetup(v, s, g, version) ==
    IF s.phase = "CollectingCommitments" /\ s.own = NoSecrets /\ inGroup(s, g)
    THEN LET filled == [s EXCEPT !.own = version]
             commit == IF publishes(v, s) THEN {action("commit", s, v, version)} ELSE {}
             closed == finalizeKeyGenCommitments(v, filled, pushed(s, s.deadline))
         IN  IF ~complete(s, DOMAIN s.commitments) THEN result(filled, commit, {})
             ELSE [closed EXCEPT !.acts = @ \cup commit]
    ELSE stay(s)

\* verify_commitment: the proof of knowledge of the committed secret.  Secrets
\* are numbered from 1; 0 stands for a commitment without a valid proof.
verifyCommitment(version) == version # 0

\* handle_key_gen_committed: a commitment that fails its verification is
\* ignored; a validator without its secrets waits for handle_key_gen_setup.
onCommitted(v, s, b, g, p, version) ==
    IF s.phase = "CollectingCommitments" /\ inGroup(s, g)
    THEN LET t == IF ~verifyCommitment(version) THEN s
                  ELSE [s EXCEPT !.commitments = put(@, p, version)]
         IN  IF complete(t, DOMAIN t.commitments) /\ t.own # NoSecrets
             THEN finalizeKeyGenCommitments(v, t, pushed(s, b))
             ELSE stay(t)
    ELSE stay(s)

\* verify_encrypted_secret_share: the share for v decrypts to what the sender
\* committed to.
verifyEncryptedShare(v, bad) == v \notin bad

\* handle_key_gen_secret_shared: `bad` are the members whose encrypted share
\* does not decrypt to what the sender committed to.
onSecretShared(v, s, b, g, p, valid, bad) ==
    IF s.phase = "CollectingShares" /\ inGroup(s, g) /\ valid
    THEN LET mine == s.own # Observing
             t == [s EXCEPT !.keys = @ \cup {p},
                            !.shares = IF mine /\ verifyEncryptedShare(v, bad) THEN @ \cup {p} ELSE @]
             complaint == IF mine /\ ~verifyEncryptedShare(v, bad) THEN {action("complain", s, p, 0)} ELSE {}
             next == confirmKeyGen(v, [t EXCEPT !.phase = "CollectingConfirmations",
                                                !.status = IF mine THEN "Collecting" ELSE "Observing",
                                                !.deadline = pushed(s, b)])
         IN  IF complete(t, t.keys) THEN [next EXCEPT !.acts = @ \cup complaint]
             ELSE result(t, complaint, {})
    ELSE stay(s)

\* handle_key_gen_confirmed: the last confirmation of genesis starts the next
\* ceremony, that of a regular epoch has its rollover signed.
onConfirmed(v, s, b, g, p) ==
    LET t == [s EXCEPT !.confirmations = @ \cup {p}]
        next == nextNumber(b)
        members == participantsSet(next, {})
        skipped == finalizeKeyGen(s, idle(s, "EpochSkipped", next))
    IN  IF s.phase # "CollectingConfirmations" \/ ~inGroup(s, g) THEN stay(s)
        ELSE IF ~complete(t, t.confirmations) THEN stay(t)
        ELSE IF s.epoch # 0
        THEN stay([idle(s, "SigningRollover", s.epoch) EXCEPT
                      !.members = s.members, !.status = s.status])
        ELSE IF members = {} THEN stay(skipped)
        ELSE startKeyGen(v, skipped, next, members, b + KeyGenTimeout)

\* handle_epoch_staged: an epoch that was not expected is ignored; a validator
\* that missed genesis picks the sequence up from here.
onEpochStaged(s, g) ==
    IF s.phase = "SigningRollover" /\ inGroup(s, g)
    THEN stay(finalizeKeyGen(s, idle(s, "EpochStaged", s.epoch)))
    ELSE IF s.phase = "WaitingForGenesis" THEN stay(idle(s, "EpochSkipped", g.epoch))
    ELSE stay(s)

\* A wrong handle_key_gen_complained: a late complaint counts, too late to be
\* answered in time.
countsComplaintAlways(s, b) == s.phase \in {"CollectingShares", "CollectingConfirmations"}

\* The complaints the validators take into account.
countsComplaint(s, b) ==
    \/ s.phase = "CollectingShares"
    \/ s.phase = "CollectingConfirmations" /\ (s.deadline = NoDeadline \/ b <= s.deadline)

\* handle_key_gen_complained: too many complaints about one member end the
\* ceremony; otherwise the accused reveals the share.
onComplained(v, s, b, g, plaintiff, accused) ==
    IF inGroup(s, g) /\ countsComplaint(s, b)
    THEN LET t == [s EXCEPT !.total[accused] = @ + 1, !.unresponded[accused] = @ + 1]
         IN  IF t.total[accused] >= threshold(s.members)
             THEN restartKeyGenExcluding(v, t, alsoExclude(s, {accused}), pushed(s, b))
             ELSE result(t, IF accused = v /\ s.own # Observing
                            THEN {action("respond", s, plaintiff, 0)} ELSE {}, {})
    ELSE stay(s)

\* The answers the validators take into account.
countsResponse(s, b) ==
    \/ s.phase = "CollectingShares"
    \/ /\ s.phase = "CollectingConfirmations"
       /\ s.deadline = NoDeadline \/ b <= responseDeadline(s)

\* handle_key_gen_complaint_responded: a valid answer settles one complaint
\* about the accused, an invalid one excludes it.
onComplaintResponded(v, s, b, g, plaintiff, accused, valid) ==
    IF inGroup(s, g) /\ countsResponse(s, b)
    THEN IF s.unresponded[accused] = 0 THEN stay(s)
         ELSE IF ~valid
         THEN restartKeyGenExcluding(v, s, alsoExclude(s, {accused}), pushed(s, b))
         ELSE LET t == [s EXCEPT !.unresponded[accused] = @ - 1,
                                 !.shares = IF plaintiff = v /\ s.own # Observing
                                            THEN @ \cup {accused} ELSE @]
              IN  IF t.phase = "CollectingConfirmations" THEN confirmKeyGen(v, t) ELSE stay(t)
    ELSE stay(s)

----------------------------------------------------------------------------
(* New blocks                                                              *)

\* Only a staged epoch becomes the active one.
activated(s) == IF s.phase = "EpochStaged" THEN s.epoch ELSE s.active

\* handle_rollover_new_block: when the target epoch is due, whatever was in
\* flight for it is given up and the next ceremony starts with everyone.
rolloverNewBlock(v, s, b) ==
    LET next == nextNumber(b)
        members == participantsSet(next, {})
        t == [s EXCEPT !.active = activated(s)]
    IN  IF s.phase = "Halted" \/ s.epoch = 0 \/ s.epoch >= next THEN stay(s)
        ELSE IF members = {} THEN stay(idle(t, "EpochSkipped", next))
        ELSE startKeyGen(v, t, next, members, b + KeyGenTimeout)

\* The accused that still owe an answer.
owing(s) == {p \in s.members : s.unresponded[p] > 0}

\* The round of confirmations is over.
confirmTimeout(s, b) == b >= confirmDeadline(s)

\* A wrong handle_key_gen_timeouts: who has not shared is read off the shares
\* this validator could verify, which an observer has none of.
sharedByVerified(s) == s.shares

\* Who has published a secret share, valid for this validator or not.
sharedBy(s) == s.keys

\* handle_key_gen_timeouts: those a round still waits for at its deadline are
\* excluded.  A validator whose own setup never resumed skips the epoch.
keyGenTimeouts(v, s, b) ==
    LET restart(excluded) == restartKeyGenExcluding(v, s, excluded, b + KeyGenTimeout)
        over == s.deadline # NoDeadline /\ b >= s.deadline
    IN  CASE s.phase = "CollectingCommitments" /\ over ->
               IF s.own = NoSecrets /\ complete(s, DOMAIN s.commitments) THEN rolloverFailure(s)
               ELSE restart(excludeAllOthers(s, DOMAIN s.commitments))
          [] s.phase = "CollectingShares" /\ over -> restart(excludeAllOthers(s, sharedBy(s)))
          [] s.phase = "CollectingConfirmations" /\ over ->
               IF b >= responseDeadline(s) /\ owing(s) # {} THEN restart(alsoExclude(s, owing(s)))
               ELSE IF confirmTimeout(s, b) THEN restart(excludeAllOthers(s, s.confirmations))
               ELSE stay(s)
          [] OTHER -> stay(s)

\* A wrong handle_group_reconciliation: a staged epoch counts as active.
reconciledStaged(s) == [s EXCEPT !.epochs = {g \in @ : g.epoch >= activated(s)}]

\* handle_group_reconciliation: epochs before the active one are reaped.
reconciled(s) == [s EXCEPT !.epochs = {g \in @ : g.epoch >= s.active}]

\* The NewBlock arm of apply_transition.
onNewBlock(v, s, b) ==
    LET rolled == rolloverNewBlock(v, s, b)
        timed == keyGenTimeouts(v, rolled.s, b)
    IN  result(reconciled(timed.s), {}, rolled.setup \cup timed.setup)

\* handle_group_reconciliation: the key generation secrets are kept until
\* there is a key share.
keepsSecrets(s) ==
    /\ s.own # Observing
    /\ \/ s.phase \in {"CollectingCommitments", "CollectingShares"}
       \/ s.phase = "CollectingConfirmations" /\ s.status # "Confirmed"

\* retain_keygen_secrets: all others are deleted.
retainedSecrets(views) ==
    {e \in store : keepsSecrets(views[e[1]]) /\ inGroup(views[e[1]], e[2])}

----------------------------------------------------------------------------
(* The coordinator contract: one ceremony per group.                       *)

opened ==
    [committed |-> <<>>, shared |-> {}, confirmed |-> {}, filed |-> {}, answered |-> {},
     compromised |-> FALSE]

ceremony(g) == IF g \in DOMAIN chain THEN chain[g] ELSE opened

\* The requirements of the five entry points; keyGenAndCommit opens a group.
accepts(tx) ==
    LET c == ceremony(tx.group)
        all(set) == Cardinality(set) = Cardinality(tx.group.members)
        disputable == all(DOMAIN c.committed) /\ ~all(c.confirmed) /\ ~c.compromised
    IN  /\ tx.from \in tx.group.members
        /\ CASE tx.kind = "commit" -> tx.from \notin DOMAIN c.committed
             [] tx.kind = "share" -> disputable /\ tx.from \notin c.shared
             [] tx.kind = "complain" ->
                  /\ disputable
                  /\ tx.from \notin c.confirmed
                  /\ tx.peer \in tx.group.members \ {tx.from}
                  /\ <<tx.from, tx.peer>> \notin c.filed
             [] tx.kind = "respond" ->
                  disputable /\ <<tx.peer, tx.from>> \in c.filed \ c.answered
             [] tx.kind = "confirm" ->
                  /\ disputable
                  /\ all(c.shared)
                  /\ tx.from \notin c.confirmed
                  /\ \A q \in Participants : <<tx.from, q>> \notin c.filed \ c.answered

\* What an accepted transaction writes.
written(tx) ==
    LET c == ceremony(tx.group)
        accusers == {q \in Participants : <<q, tx.peer>> \in c.filed \ c.answered}
    IN  CASE tx.kind = "commit" -> [c EXCEPT !.committed = put(@, tx.from, tx.version)]
          [] tx.kind = "share" -> [c EXCEPT !.shared = @ \cup {tx.from}]
          [] tx.kind = "complain" ->
               [c EXCEPT !.filed = @ \cup {<<tx.from, tx.peer>>},
                         !.compromised = Cardinality(accusers) + 1 >= threshold(tx.group.members)]
          [] tx.kind = "respond" -> [c EXCEPT !.answered = @ \cup {<<tx.peer, tx.from>>}]
          [] tx.kind = "confirm" -> [c EXCEPT !.confirmed = @ \cup {tx.from}]

\* apply_transition of validator v on the event of an accepted transaction.
onEvent(v, tx) ==
    LET s == view[v]
        g == tx.group
    IN  CASE tx.kind = "commit" -> onCommitted(v, s, block, g, tx.from, tx.version)
          [] tx.kind = "share" -> onSecretShared(v, s, block, g, tx.from, tx.valid, tx.bad)
          [] tx.kind = "complain" -> onComplained(v, s, block, g, tx.from, tx.peer)
          [] tx.kind = "respond" ->
               onComplaintResponded(v, s, block, g, tx.peer, tx.from, tx.valid)
          [] tx.kind = "confirm" -> onConfirmed(v, s, block, g, tx.from)

----------------------------------------------------------------------------
(* Steps                                                                   *)

\* encode_action: the transactions validator v queues for its actions.
encoded(v, acts) ==
    {[from |-> v, kind |-> a.kind, group |-> a.group, peer |-> a.peer,
      version |-> a.version, valid |-> TRUE, bad |-> {}, queued |-> block] : a \in acts}

\* The results r of a transition become the states, queues and effects of the
\* validators of `of`; b is the block they have reached.
Apply(of, r, b) ==
    /\ view' = [v \in Honest |-> IF v \in of THEN r[v].s ELSE view[v]]
    /\ began' = [v \in Honest |->
                    [since |-> IF view'[v].epoch = view[v].epoch THEN began[v].since ELSE b,
                     deadline |-> IF view'[v].phase = "CollectingCommitments"
                                  THEN view'[v].deadline ELSE began[v].deadline]]

held(views) == {groupId(views[v].epoch, views[v].members) : v \in Honest}

\* Genesis has one trouble at most.
troubleLeft ==
    restarts + delays + misdeeds < IF block <= GenesisBlocks THEN 1 ELSE MaxTrouble

\* A block: every validator handles NewBlock.  Ceremonies that no validator
\* follows any more, and the transactions for them, are forgotten.
newBlock ==
    LET r == [v \in Honest |-> onNewBlock(v, view[v], block + 1)]
        punctual == setups = {} /\ \A tx \in pool : tx.queued < block => ~accepts(tx)
    IN  /\ block < MaxBlock
        /\ block < GenesisBlocks \/ \A v \in Honest : view[v].epoch # 0
        /\ punctual \/ troubleLeft
        /\ delays' = IF punctual THEN delays ELSE delays + 1
        /\ block' = block + 1
        /\ Apply(Honest, r, block + 1)
        /\ chain' = [g \in DOMAIN chain \cap held(view') |-> chain[g]]
        /\ pool' = {tx \in pool : tx.group \in held(view')}
        /\ setups' = {e \in setups : e[2] \in held(view')} \cup UNION {r[v].setup : v \in Honest}
        /\ store' = retainedSecrets(view')
        /\ lost' = {v \in lost : view'[v].epoch = view[v].epoch}
        /\ UNCHANGED <<epochs, restarts, misdeeds>>

\* One accepted transaction and its event.
execute(tx) ==
    LET r == [v \in Honest |-> onEvent(v, tx)]
    IN  /\ accepts(tx)
        /\ chain' = put(chain, tx.group, written(tx))
        /\ Apply(Honest, r, block)
        /\ pool' = (pool \ {tx}) \cup UNION {encoded(v, r[v].acts) : v \in Honest}
        /\ setups' = setups \cup UNION {r[v].setup : v \in Honest}
        /\ lost' = {v \in lost : view'[v].epoch = view[v].epoch}
        /\ UNCHANGED <<block, epochs, store, restarts, delays>>

\* A queued transaction is mined in a block after the one that caused it.
mine(tx) == tx.queued < block /\ execute(tx) /\ UNCHANGED misdeeds

\* A transaction of a faulty participant.
sent(p, kind, g, peer, valid, bad) ==
    [from |-> p, kind |-> kind, group |-> g, peer |-> peer,
     version |-> IF valid THEN 1 ELSE 0, valid |-> valid, bad |-> bad, queued |-> block]

\* Whatever the contract accepts in a ceremony the validators follow.
misbehave(p) ==
    \E g \in held(view), kind \in {"commit", "share", "complain", "respond", "confirm"} :
      \E valid \in (IF kind \in {"complain", "confirm"} THEN {TRUE} ELSE BOOLEAN) :
      \E peer \in (IF kind \in {"commit", "confirm", "share"} THEN {p} ELSE Participants),
         bad \in (IF kind = "share" /\ valid THEN SUBSET (Honest \cap g.members) ELSE {{}}) :
        /\ LET misdeed == ~valid \/ bad # {} \/ kind = "complain"
           IN  /\ misdeed => troubleLeft
               /\ misdeeds' = IF misdeed THEN misdeeds + 1 ELSE misdeeds
        /\ execute(sent(p, kind, g, peer, valid, bad))

\* keyGen: the genesis ceremony is opened from outside.
keyGenGenesis ==
    LET g == groupId(0, activeIn(0))
        r == [v \in Honest |-> onKeyGen(v, view[v], g)]
    IN  /\ g \notin DOMAIN chain
        /\ \A v \in Honest : view[v].phase = "WaitingForGenesis"
        /\ chain' = put(chain, g, opened)
        /\ Apply(Honest, r, block)
        /\ setups' = setups \cup UNION {r[v].setup : v \in Honest}
        /\ UNCHANGED <<block, epochs, store, pool, restarts, delays, misdeeds, lost>>

\* The epoch of the chain whose group signs: the last one that is due.
activeEpoch ==
    LET due == {g \in epochs : g.epoch * BlocksPerEpoch <= block}
    IN  CHOOSE g \in due : \A h \in due : h.epoch <= g.epoch

\* Who may sign the rollover to g: faulty members of the active group, and
\* validators that registered the same packet.
rolloverSigners(g) ==
    {p \in activeEpoch.members :
        \/ p \in Faulty
        \/ /\ view[p].phase = "SigningRollover"
           /\ inGroup(view[p], g)
           /\ view[p].active = activeEpoch.epoch
           /\ activeEpoch \in view[p].epochs}

\* stageEpoch: a finalized group, attested by the active one, before its
\* rollover block and while nothing else is staged.
stageEpoch(g) ==
    LET r == [v \in Honest |-> onEpochStaged(view[v], g)]
    IN  /\ ceremony(g).confirmed = g.members
        /\ \A h \in epochs : h.epoch <= activeEpoch.epoch
        /\ g.epoch > activeEpoch.epoch
        /\ g.epoch * BlocksPerEpoch > block
        /\ Cardinality(rolloverSigners(g)) >= threshold(activeEpoch.members)
        /\ epochs' = epochs \cup {g}
        /\ Apply(Honest, r, block)
        /\ UNCHANGED <<block, chain, setups, store, pool, restarts, delays, misdeeds, lost>>

\* store_keygen_secrets: secrets that are there are never overwritten.
storedVersion(stored, fresh) ==
    IF stored = {} THEN fresh ELSE (CHOOSE e \in stored : TRUE)[3]

\* frost::keygen::setup: fresh secrets differ from those of any commitment the
\* validator has made before.
freshSecrets(v, g) ==
    LET used == {tx.version : tx \in {t \in pool : t.from = v /\ t.group = g}}
                  \cup {ceremony(g).committed[p] : p \in {v} \cap DOMAIN ceremony(g).committed}
    IN  CHOOSE k \in 1 .. 4 : k \notin used /\ \A j \in 1 .. k - 1 : j \in used

\* KeyGenSetup is performed and resumes.
performSetup(e) ==
    LET v == e[1]
        g == e[2]
        stored == {f \in store : f[1] = v /\ f[2] = g}
        version == storedVersion(stored, freshSecrets(v, g))
        r == onSetup(v, view[v], g, version)
    IN  /\ setups' = setups \ {e}
        /\ store' = (store \ stored) \cup {<<v, g, version>>}
        /\ Apply({v}, [u \in {v} |-> r], block)
        /\ pool' = pool \cup encoded(v, r.acts)
        /\ UNCHANGED <<block, chain, epochs, restarts, delays, misdeeds, lost>>

\* The setup fails, or is lost by a restart: it resumes with nothing.
failSetup(e) ==
    /\ troubleLeft
    /\ restarts' = restarts + 1
    /\ setups' = setups \ {e}
    /\ lost' = lost \cup {e[1]}
    /\ UNCHANGED <<block, chain, epochs, view, store, pool, delays, misdeeds, began>>

\* A restart (or a reorganisation that brings the same transactions back)
\* replays the blocks since a snapshot from before the setup resumed: the
\* commitments are collected again, without secrets.  The setup runs again
\* if the block that started the ceremony is among them.
restart(v) ==
    LET s == view[v]
        g == groupId(s.epoch, s.members)
        committed == ceremony(g).committed
        again == [idle(s, "CollectingCommitments", s.epoch) EXCEPT
                    !.members = s.members, !.own = NoSecrets, !.deadline = began[v].deadline,
                    !.commitments = [p \in {q \in DOMAIN committed : committed[q] # 0}
                                        |-> committed[p]]]
        r == IF began[v].deadline # NoDeadline /\ block >= began[v].deadline
             THEN keyGenTimeouts(v, again, block) ELSE stay(again)
    IN  /\ troubleLeft
        /\ restarts' = restarts + 1
        /\ s.phase \in {"CollectingCommitments", "CollectingShares", "CollectingConfirmations"}
        /\ s.own > NoSecrets
        /\ Apply({v}, [u \in {v} |-> r], block)
        /\ setups' \in {setups, setups \cup {<<v, g>>}}
        /\ lost' = lost \cup {v}
        /\ UNCHANGED <<block, chain, epochs, store, pool, delays, misdeeds>>

Init ==
    /\ block = 0
    /\ chain = <<>>
    /\ epochs = {groupId(0, activeIn(0))}
    /\ view = [v \in Honest |-> initialView]
    /\ setups = {}
    /\ store = {}
    /\ pool = {}
    /\ restarts = 0
    /\ delays = 0
    /\ misdeeds = 0
    /\ lost = {}
    /\ began = [v \in Honest |-> [since |-> 0, deadline |-> NoDeadline]]

Next ==
    \/ newBlock
    \/ keyGenGenesis
    \/ \E tx \in pool : mine(tx)
    \/ \E p \in Faulty : misbehave(p)
    \/ \E g \in held(view) : stageEpoch(g)
    \/ \E e \in setups : performSetup(e) \/ failSetup(e)
    \/ \E v \in Honest : restart(v)

Spec == Init /\ [][Next]_vars

----------------------------------------------------------------------------
(* Properties                                                              *)

Collecting == {"CollectingCommitments", "CollectingShares", "CollectingConfirmations"}

\* What a validator's state says about the ceremony, leaving out its own part.
public(s) ==
    <<s.phase, s.epoch, s.members, s.commitments, s.keys, s.total, s.unresponded,
      s.confirmations, s.deadline>>

\* Validators never exchange a word about the ceremony, yet those that lost
\* nothing in this epoch agree, after every event and every deadline, on the
\* phase, the group and its members, on who has committed, shared, complained
\* and confirmed, and on when the round ends - as members or as observers.
LockStep == \A u, v \in Honest \ lost : public(view[u]) = public(view[v])

\* While no transaction misses a block, a single faulty member cannot have
\* anybody else excluded: neither by staying away, by bad shares, by complaints
\* at the last moment nor by false or missing answers.  (Two can: see README.)
HonestStay ==
    delays = 0 =>
        \A u \in Honest \ lost : view[u].phase \in Collecting =>
            (Honest \ lost) \cap activeIn(view[u].epoch) \subseteq view[u].members

\* A faulty member can delay the next epoch, not prevent it: six time-outs
\* after the validators took the epoch up its group is generated, if no
\* transaction misses a block and no validator loses its state.
ReadyInTime ==
    delays = 0 /\ restarts = 0 =>
        \A v \in Honest : view[v].phase \in Collecting \cup {"EpochSkipped"} /\ view[v].epoch # 0 =>
            block < began[v].since + 6 * KeyGenTimeout

\* Whoever is a member of a staged group can sign for it: a validator that saw
\* the staging, also one that lost state on the way, holds the key share from
\* then on (handle_epoch_staged), and all the time the epoch is the active one,
\* until a later one is (reconciled).  The same of genesis, once it is passed.
KeysHeld ==
    \A g \in epochs : \A v \in g.members \cap Honest :
        \/ view[v].phase = "EpochStaged" /\ view[v].epoch = g.epoch
        \/ view[v].active = g.epoch /\ view[v].epoch # 0
        => g \in view[v].epochs

\* Secret shares are only ever published for the commitment that is onchain,
\* whatever was replayed, lost or sampled again in between.
SharesMatchCommitment ==
    \A tx \in pool : tx.kind = "share" /\ tx.group \in DOMAIN chain =>
        chain[tx.group].committed[tx.from] = tx.version
============================================================================
