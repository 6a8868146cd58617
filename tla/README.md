# TRv1 chain: TLA+ models and proofs

This directory holds the formal models of the TRv1 validator: TLA+ modules translated
from the Rust sources, TLC configurations that check them on small instances, and TLAPS
proofs, for every value of the constants, about the consensus and its nodes, the network
task, the transaction flow, the boot and the validator set, stakes, slashing, fees and
rewards, the RPC view and the tiered storage. `PROJECT.json` lists the components, the
runs, the source lines behind every definition, the hazards, the theorems and the findings.

## 1. Inventory of the system

| Component | State | Operations | Interacts with |
|---|---|---|---|
| BFT state machine (`consensus/bft`) | height, round, step, lock, valid value, vote sets, cached blocks | `start_round`, `on_proposal`, `on_prevote`, `on_precommit`, `on_timeout`, `advance_height` | returns messages that the event loop carries out |
| Event loop (`validator/src/main.rs`) | last block hash, signing key, timeout channel | boot; one `select!` arm per source of events; `process_bft_output`, `propose_block`, `apply_commit`; shutdown | everything |
| P2P network (`consensus/net`) | peers with scores, channels | publish and receive over gossipsub, connections | event loop, over bounded channels |
| Mempool (`mempool`) | queues by sender, known hashes, count | `add_transaction`, `remove_committed`, `get_pending_ordered`, `clear` | RPC threads, gossip, proposer, `apply_commit` |
| Account state (`runtime/state`) | accounts (balance, nonce) | `apply_transfer`, `apply_block`, save, load | `apply_commit`, boot and shutdown |
| Validator set (`runtime/validator-set`) | validators with status | register, deregister, update stake, jail, unjail, rotate, `get_proposer` | staking pool (voting power), slashing, boot |
| Staking pool (`economics/staking`) | positions with lock tiers, total, epoch | stake, unstake, delegate, undelegate, voting power, epoch rewards | validator set, slashing |
| Slashing engine (`runtime/slashing`) | evidence, history, treasury | submit, process, slash | validator set, staking pool |
| RPC server (`rpc`) | current height, base fee, block list, shared mempool and accounts | queries, `submit_transaction` | reads what `apply_commit` writes |
| Fee market, developer rewards (`economics`) | base fee; earned and pending rewards | update and split; record and distribute | `apply_commit` updates the base fee only |
| Tiered storage (`runtime/storage`) | hot, warm and cold tier | get, put, remove, archive, locate | opened by the node, not used |
| Genesis (`genesis`) | configuration | load, validate, default testnet | boot |
| CLI (`cli`) | - | send a request | RPC server |

What is hard in this code: votes, proposals and timers of several rounds in any order; the
lock that carries safety from one round to the next; timeouts that fire late; nodes that
restart without lock and votes; two tasks that await each other on full channels; RPC
threads between the lock acquisitions of `apply_commit`; a process that dies before its
state is saved; storage calls of several threads between whose file accesses entries are
evicted; an unbounded rotation loop; withdrawals over partly locked positions; slashes whose
parts can fail separately; rounding and overflow in fees, shares and rewards. The list
`hazards` in `PROJECT.json` names each at its line.

What makes the components correct: one block per height (consensus); no second vote
(consensus); neither task stuck (network; it does not hold, section 3); money conserved and no transaction executed twice
(transactions); count, index and limits in step (mempool); the strongest validators active,
within the cap (validator set); consensus list and validator set agree (boot); locks, totals
and rates (staking); each evidence record punished once, and only the offender (slashing); readers
see the block they asked for (RPC); no written value lost, no old one read (storage); fees
follow demand and are split without loss (fees); no reward lost or paid twice (rewards).

## 2. Modules

| Module | Models | Extends / uses |
|---|---|---|
| `BftTypes` | participants, proposer rotation, blocks, votes, quorum, the prevote rule | |
| `BftVoting` | the voting discipline: abstract specification of consensus | `BftTypes` |
| `BftNode` | the node: vote sets, timers, block cache, event loop | `BftTypes`; refines `BftVoting` |
| `BftVotingProofs`, `BftNodeProofs` | theorems about the two, and the refinement | |
| `Network` | network task, event loop, channels, peer records | |
| `Lists` | `Vec::retain`, in a form the prover can unfold | |
| `Mempool` | `TransactionPool` | `Lists` |
| `Ledger` | `StateDB` as operators on account maps | |
| `TxFlow`, `TxFlowProofs` | a transaction's way through a validator process | `Ledger`, `Mempool` |
| `ValidatorSet` | `ValidatorSetManager`, `rotate`, `get_proposer` | |
| `Genesis` | a boot from the genesis file, then the running validator set | `ValidatorSet`, `Lists` |
| `Staking` | `StakingPool`, rewards | `Lists` |
| `Fees` | `FeeMarket` block by block, the fee split as operators | |
| `Rewards` | developer rewards | |
| `Economy` | the three of them in one process | `Staking`, `Fees`, `Rewards` |
| `Slashing` | `SlashingEngine` over pool and validator set | `Staking`, `ValidatorSet` |
| `EconomicsProofs` | theorems about `ValidatorSet`, `Genesis`, `Staking`, `Slashing`, `Fees`, `Rewards`, `Economy` | `DataTheorems` |
| `RpcView`, `RpcViewProofs` | RPC readers against commits | |
| `Process`, `ProcessProofs` | network task, event loop and RPC readers of one process | `Network`, `RpcView` |
| `TieredStorage`, `TieredStorageProofs` | the three storage tiers under concurrent calls | `Lists` |
| `DataTheorems` | sums, lists and division, for the proofs | |
| `MC*` | instances for TLC | |

Operators whose comment begins "Mutant of" are faulty versions of the definition that
follows them. No specification uses them; they document which bug a property catches.

### Consensus

**BftVoting** keeps, per node, height, round, step and lock, and for the network the sets of
all proposals and votes ever broadcast and of all commits. A node may act on a quorum as soon
as enough votes *of other nodes* are in the pool, and a timeout may fire whenever its timer
could be running. This is the promise: who may vote, lock and commit, and when.

**BftNode** adds what the process really has: `prevotes` and `precommits` of the current
round with one vote per voter, `validValue`/`validRound`, `proposedBlocks`, and `timers`, a
bag of spawned timeout tasks (tasks are never cancelled, so old ones fire later). Each arm of
the event loop is one action, because the loop handles one event at a time: the state machine
call, the signing of votes, the spawning of timers, `apply_commit`, `advance_height` and the
next proposal. `ImplementsVoting` states that every step is a step of `BftVoting` or leaves
its variables alone (`Voting == INSTANCE BftVoting WITH ...`); the mapping hides vote sets,
timers, valid value and cache.

Four facts of the code shape both modules:
* any node started with a key signs votes, also when its key is not in the genesis list
  (`Keyed` against `NumValidators`), and `VoteSet` counts every valid signature;
* a node never counts its own vote: `process_bft_output` broadcasts it, and gossipsub does
  not deliver a node's own messages to it;
* the proposer calls its own `on_proposal` and drops the prevote it returns;
* nothing of the consensus is written to disk. A node in `Restarting` may at any moment be
  replaced by a new process with the same key, at height 0 and round 0, without lock, votes
  and timers (`Restart`). It may then sign what contradicts its earlier votes.

Blocks are abstracted to height, proposer and a `body` that stands for the rest of the
header; a block stands for its hash. Signatures are assumed unforgeable. Nodes follow the
code (no Byzantine behaviour). The network (libp2p, external) may lose, delay and reorder;
a late copy of an old message may reach a restarted node.

### Network task

**Network** has the two tasks of a process, each at its `select!` or waiting for room in the
channel it sends to, and the five channels between them, the RPC server and the swarm. A
message is counted, not described. `conns` is the swarm's own book-keeping (external), `score`
is `PeerManager::peers`. **Process** joins it with `RpcView` (below): the message branch of the
event loop may find a quorum of precommits, and then applies the commit before it sends or
receives again; only when the state machine has moved on may it have to wait for a channel.

### Transactions

**Mempool** keeps the three fields of `TransactionPool`. The two transaction hashes of the
repository, over JSON in the mempool and over bincode in the block, are distinct
constructors. **Ledger** has `apply_transfer` with its checks, the self-transfer case and the
credit that may overflow. **TxFlow** composes them. `apply_commit` is three steps
(`ExecuteBlock`, `PruneMempool`, `FinishCommit`), because it releases the lock of one
structure before it takes the next and RPC threads run in between. `confirmed` is a history
variable: how often a transaction succeeded in the history of the current accounts. `Crash`
loses everything since the last clean shutdown; `Shutdown` may leave a torn file.

### Validators, stakes, slashing and fees

**ValidatorSet** makes each iteration of the loop in `rotate` a step, so that its termination
is a property; everything else waits, since the caller holds the locks. **Genesis** puts the
boot in front of it: load and validate, one step per registered validator, RPC state, key,
BFT list, network; a step that fails ends the process. **Staking** treats direct stakes and
delegations as one map of positions, the code for the two being the same. **Fees** has the
base fee and the height it belongs to, and the arithmetic of fee and split with its rounding
towards zero; **Rewards** has the contracts with what they earned, have pending and were
paid. **Economy** runs the three side by side: a step is a step of one of them and leaves the
others alone, so what is proved of `StakingSpec`, `FeeSpec` and `RewardsSpec` holds there.
**Slashing** runs on
pool and validator set; `process_all_evidence` is one step for every iteration order of the
`HashMap`. A record is offender, offence, height and data, which is what its hash covers; its
processed flag is the sender's to set, and `submit_evidence` refuses a record without data.

### RPC

**RpcView** has the height of the state machine, the height of the commit being applied, the
three writes of `apply_commit` (`current_height`, `base_fee`, then `block_store`), the step to
the next height, and the reads of the handlers as separate steps. `current_height` and the
header of a stored block carry the consensus height, the store knows only positions; that the
two stay in step is checked (`AnswersTheRequest`), not built in. `get_block` keeps its read
lock between its reads, `get_latest_block` does not. `told` and `served` remember what each
client knows.

### Storage

**TieredStorage** makes every access of a call to a tier a step. The cache has a lock, and
the flush of an evicted entry happens under it; files have none. Any file access may fail,
and a crash ends all calls and empties the cache. `latest` is a history variable, the last
value put and not removed; `uncertain` collects the keys for which the code itself gives up
that value (section 5), until the next put or completed remove. `Shared` is the set of keys on
which calls may overlap; on the others a call waits for the one before it, while calls on
different keys interleave freely. This serialisation is the callers': the store has no lock for
a key, so what is said of the last value concerns callers who do not work on one key at the
same time. `PutValues` tells which values are put under which key, so that a value that turns
up under another key is noticed, for shared and uncertain keys too. A flush, like every file
access, is one step: torn files are not modelled.

## 3. Runs

Passing runs:

| Run | Instance | Shows |
|---|---|---|
| `voting_agreement` | 5 validators + 1 further key, one of them restarting, 2 rounds | `Agreement`, `NoEquivocation`, `LockRespected`, `PolkaBlocksEarlierDecision` |
| `node_refines_voting` | 1 validator, restarting, + 2 further keys, 2 bodies, 2 rounds, 2 heights, timers fire | `ImplementsVoting`, `ProposePhaseEnds`, `CountsOnlyCurrentVotes`, `ProposeIsTimed`, `ValidCoversLock` |
| `process` | channels of 1, 1 peer with up to 2 connections, 1 client, 3 blocks | `AnswersTheRequest`, `PlaceholderIsInFlight`, `ToldIsServed`, `FeeFollowsBlocks`, `SettledWhileWaiting`, `TrackedAreConnected` |
| `txflow` | 5 transactions, 3 accounts, 2 heights, restarts | `SupplyConserved`, `NoReplay`, `NonceCountsConfirmed`, `PoolConsistent`, `TypeOK` |
| `validator_set` | 10 genesis files, 4 keys (one no curve point), cap 2, powers 0..2, fair | `BootAgrees`, `ActiveWithinCap`, `RotationSettles`, `RotationIsJust`, `RotationEnds`, `ProposersByPower` |
| `economy` | 1 staker, 3 entries, 2 tiers, 2 epochs; fees 2..40; 4 split configurations; 2 contracts | `TotalMatches`, `LocksHold`, `WithdrawsOldestFirst`, `RewardsWithinRate`, `FeeFollowsDemand`, `BurnAbsorbsRounding`, `RewardsConserved` |
| `slashing` | 2 validators, 1 delegator, 4 evidence records, 2 events | `PunishedOnce`, `DelegatorsNeverSlashed`, `SlashedStakeIsBooked`, `OrdersAgreeButForRounding` |
| `storage` | 2 threads, 2 keys (calls on one of them overlap), 2 values each, a cache of 1 entry, failures and crashes | `AtRestOnDisk`, `ReadsLatest`, `TypeOK` |

Runs in which the code does not do what a comment, a test or a document says:

| Run | Property | What happens |
|---|---|---|
| `four_validators_stall` | `EventuallyCommits` | four validators, all online, never commit |
| `executed_block` | `ExecutesTheCommittedBlock` | mempool content is executed in place of the block |
| `txflow_prune` | `CommittedLeaveMempool` | committed transactions stay in the mempool |
| `network_wedge` | `OutboundIsServed` | network task and event loop wait for each other for ever |

### Bounds

* `voting_agreement`. A non-proposer counts at most K - 2 prevotes when K nodes hold keys, so
  commits need q <= K - 2, and two quorums share a node that does not restart only if
  2q > K + 1. The smallest network with both and one restarting node is K = 6 with q = 4: five
  validators and a further key. Two rounds are the least in which a lock can be broken.
  `WithinRounds` stops where a node enters round 2; `OneContradiction` follows the restarted
  node until it has contradicted itself twice, so one block and one nil vote of the same kind
  and round are explored in full. Within these bounds only v0 and v1 ever propose, so the
  other four nodes are interchangeable (`FollowerSymmetry`). The theorems have no bound.
* `node_refines_voting` has a list of one validator and further keyed nodes: its quorum is
  one vote, so polkas, commits, round changes, stale timers and restarts all occur with three
  nodes. `TwoBlocks` stops at the third block: two rivals at one height, or one block for each
  of two heights, are covered. Not reached with a quorum of one: the branches of `on_prevote`
  for a nil quorum next to other votes and for a split vote; they are `PrecommitNil` with
  `SeesTwoThirdsAny` in `BftVoting`, where quorums are four.
* `process`: a channel of one message is full after each send, so every wait occurs. One client
  is enough: clients write nothing that others read except the read lock of `get_block`, which
  only delays the event loop, so what several clients see is, client by client, what one client
  sees of the same commits. The theorems have any number. Three blocks are one before, one at
  and one after the height a client asks for. What peers and timers bring is unbounded.
* `network_wedge`: with channels of two the counterexample is a filling of both directions; the
  code's channels hold 256 and nothing else is different.
* `MaxU64` is 4 in `txflow`, just the genesis supply, and heights are bounded by two, which is
  enough to execute a block twice and to restart in between.
* A rotation over four keys with cap two can swap twice, fill, and meet every kind of tie. The
  genesis files are the default testnet (over the cap), a valid list of two, two with a stake
  below the minimum (one of them also with a key that is no curve point), and six that
  `validate` refuses for different reasons. The cap is the file's `max_validators`: `ActiveCap`
  stands for it, and `GenesisAssumption` says that a file has this value or the refused 0.
* `economy`: three entries are the least in which a withdrawal empties one, splits one and
  leaves one; stakes of 3650 and 7300 earn rewards of a few units with remainders; fees from
  the floor 2 to the maximum 40 cover rounding to nothing, the forced unit and saturation; the
  split is in per cent, with launch and maturity shares that do not divide by the transition.
* Slashing percentages are those of the code; a stake of 30 makes their rounding bite, and one
  of 600 with an unlocked position of 30 makes `unstake` fail for one record and succeed for
  another. Two events are two records in both orders, or a record and a direct slash.
* `storage`: a cache of one entry evicts on every second key; two threads on two keys give
  every overlap of one call with the eviction another one causes, and on the shared key every
  overlap of two calls on one key.

Deadlock is not checked for the consensus runs, where nodes stop at `MaxRound` or `MaxHeight`
and, in small networks, really do come to rest, and in `validator_set`, where a boot from an
invalid file ends the process. All other runs check it.

### Fairness

* `BftNode!TimersFire`: a spawned timer fires, as tokio's do. This is all `ProposePhaseEnds`
  needs: it holds when the network delivers nothing. `NetworkDelivers` adds start and delivery
  of usable messages and is assumed only for `EventuallyCommits`, where more fairness makes
  the counterexample stronger.
* `Network!Fairness`: weak fairness for a send that has room; strong fairness for the branches
  of the two `select!`s, because tokio picks at random among the ready ones. It is assumed for
  `network_wedge` only, where it makes the counterexample stronger.
* `Genesis!BootSpec`: weak fairness for the rotation's own loop, which runs without interruption.

## 4. Proofs

**`BftVotingProofs`**, for every set of nodes, validator list and bound, and any set of
restarting nodes:

* `TypeCorrect`: `Spec => []TypeOK`.
* `NeverEquivocates`: `Spec => []NoEquivocation`, and `LocksAreRespected`:
  `Spec => []LockRespected`; both speak of nodes that do not restart, and assume nothing about
  who holds keys or what the restarting ones do.
* `AgreementHolds`: `QuorumOverlap => (Spec => []Agreement)`, and with it
  `PolkasBlockEarlierDecisions`. `QuorumOverlap` says that any two quorums share a node that
  does not restart: twice a quorum is more than the keyed nodes plus those of them that
  restart. It holds when only genesis validators hold keys and fewer than a third of them
  restart (lemma `ValidatorsOnlyOverlap`). It is needed: with many further keys two disjoint
  sets of nodes can each form a quorum, and a node that forgot its lock can complete both.
* `SmallNetworkStalls`: `Spec => []SmallNetworkNeverCommits`.

The assumptions are those of `BftTypes`: finitely many nodes, a non-empty validator list of
keyed nodes, natural bounds, `Nil` not a block. TLC evaluates them in every consensus run.

`Agreement` is not inductive. `IndInv` adds: votes of nodes that keep their state lie in
their past or present (`VotesFromThePast`); a precommit is backed by a polka of its round
(`PrecommitHasPolka`); a commit is backed by a quorum of precommits (`CommitHasQuorum`); the
lock is the latest precommit (`LockIsLatestPrecommit`); no proposal claims a valid round
(`NoValidRoundClaimed`); and the core, `PolkaBlocksEarlierDecision`: once a later round has a
polka for another block, the nodes that precommitted the earlier block, are not past its
round or may come back to it are too few to decide it. The step lemmas work from four facts
about any step (`MovesForward`, `NewVotes`, `LockChanges`, `NewCommits`), established once per
action in `StepFacts`. In the key case a new prevote completes a polka for `c` while round `r`
could still decide `b`: the two quorums share a node that does not restart and precommitted
`b` in round `r`, its lock is at least that recent, and `LockRespected` makes its prevote for
`c` impossible without an earlier polka for `c`, which the invariant already excludes.

`SmallNetworkStalls` rests on three facts: the proposer is never in `Propose`, so it casts no
prevote; hence a node other than the proposer sees at most `Cardinality(Keyed) - 2` prevotes
and never a polka; hence the proposer is the only one to precommit a block, and one precommit
is no quorum.

**`BftNodeProofs`**, for every number of nodes, rounds and heights:

* `NodeImplementsVoting`: `Spec => ImplementsVoting`, the refinement. Through it the node
  inherits `NodeAgreement` (`Voting!QuorumOverlap => (Spec => []Voting!Agreement)`) and
  `SmallNetworkNodesStall` from the theorems about `BftVoting`.
* `CountedVotesAreCurrent`, `ProposeAlwaysTimed`, `ValidValueCoversLock`: the three invariants
  of `BftNode` that its runs check. The last is about what the state machine records; nothing
  reads `valid_value`, and `sign_proposal` always sends no valid round (`main.rs:136`), so it
  says nothing about later proposals.

`BftVoting` acts on the pool of all votes, the node on its vote sets and on timers that may be
old, so a step can be mapped only from an invariant. `Inv` says: vote sets hold votes of the
current round, of their own type, cast by others (`CountsOnlyCurrentVotes`, `SetsByType`); no
vote of a node that has not restarted, and no timer, is ahead of its round (`VotesBehind`,
`TimersBehind`); a prevote or precommit timer was spawned for a reason that still stands in
the pool of votes (`TimersDue`); whoever waits for a proposal has a timer for it
(`ProposeTimed`); the proposer never waits for its own proposal (`ProposerPastPropose`).
`StepFacts` says once, per event, what the handling node may change (`StepOf`); the parts of
`Inv` are preserved by these facts alone. Then each arm of the event loop is shown to be an
action of `BftVoting` or a stutter.

**`TxFlowProofs`**, for any accounts, transactions, supply and pool limits: `BalancesFit`
(`[]TypeOK`), `SupplyIsConserved`, `TransactionsNeverReplayed`, `NonceIsCount`,
`PoolStaysConsistent`. `Inv` says that the accounts in memory and those in the state file, each
with its own count of successes, are `Sound`: typed, of the genesis supply, every nonce the
number of the account's successes, and a transaction confirmed at most once, and only below
the nonce (`UsedUp`). A block is a fold over its transactions; the proof follows it one
transfer at a time, and within a transfer the debit, the credit, the self-transfer and the
new account. `PoolInv` relates queues, known hashes and count.

**`TieredStorageProofs`**, for any keys, values, threads and capacity: `WrittenValuesStay`
(`Spec => []AtRestOnDisk`), `ReadsAreCurrent` (`Spec => ReadsLatest`) and `CacheWithinCapacity`
(`Spec => []TypeOK`: the recency list is the cache's keys without repetition, and within the
capacity, `Lru`). The invariant says
for every access of every kind of call how far the tiers of its key are from settled
(`CallOK`). A step touches its own key and, by eviction, at most one other; `Disturbs` states
what an eviction can do, and one lemma shows that it keeps both a settled key and a call in
flight intact. `Exclusive` (one call at a time on a key that is not shared) follows from
`Begin`. Failing accesses and crashes are steps like the others. Both theorems about values have
the exceptions their properties state: shared keys and uncertain ones, of which the code does
lose values (section 5). What they say without exception, that no key holds or answers with a
value not put under it, rests on an invariant of its own, `OwnValues`: the tiers, and the value
each call carries from one access to the next, belong to their key.

**`RpcViewProofs`**, for any number of clients and blocks: `GetBlockIsFaithful`,
`PlaceholdersAreInFlight`, `HeightsAreServed`, `FeesAreCurrent`. The invariant relates height,
fee and store at each point of `apply_commit` (`Published`), heights and positions (`InStep`),
keeps a miss a miss while `get_block` holds its lock (`StillMissed`), and bounds what clients
know by what is published (`Known`). The consensus height enters through `Published`: with n
blocks stored the state machine is at height n between commits, because a commit is of its own
height and moves it on by one.

**`ProcessProofs`**, for any capacity, peers, clients and bounds: `ChannelsBounded` (no channel
over its capacity), `RecordsAreCurrent` (`[]TrackedAreConnected`), `StandstillIsSettled`
(`[]SettledWhileWaiting`) and `ProcessServesClients`, the four promises of `RpcView` in the
composed process. `InCommit` ties the two halves together: the event loop is in `apply_commit`
exactly while a commit is published.

**`EconomicsProofs`**, component by component, for any keys, amounts and configuration:

* Validator set (`SetSpec`): `CapIsKept`, `RotationsAreJust`, `RotationsSettle`,
  `SetTypeCorrect`, `SwapsClimb`, `ProposingFollowsPower`. The ranking of `rotate` is a total
  order, so a non-empty set of validators has a strongest and a weakest member; a swap keeps
  the number of active validators; filling adds no more than there is room for. `SwapsClimb`
  is the measure behind `RotationEnds`: each swap raises the power of the active set, which the
  power of all keys bounds. For `ProposersByPower` every active key has a range of slots as
  long as its power (`RangeStarts`, `RangesFill`); `get_proposer` names the key whose range
  holds the height's slot (`ProposerHoldsSlot`), and a window of `TotalPower` heights meets
  every slot once (`WindowSlots`).
* Boot (`BootSpec`, any genesis file): `ConsensusStartsSound` (`BootAgrees`), `BootKeepsCap` and
  `BootKeepsShares`. `BootInv` follows the registration loop: the registered keys are among the
  first entries of the list, each of these has a stake in the pool, and if all entries are
  staked enough and fit, each of them is active. `Validate` supplies that no key is listed twice
  and no stake is zero. When the validators do not fit, the theorem says so too: the count told
  to RPC clients is then larger than the active set.
* Staking pool (`StakingSpec`): `LocksAreKept`, `OldestGoFirst`, `TotalIsTheEntries`,
  `RewardsStayWithinRate`. The loop of `unstake` is followed turn by turn: after i entries it
  has taken the smaller of what was asked for and what the first i hold unlocked; until nothing
  more is wanted it keeps exactly the locked entries, the turn that ends it splits one entry,
  and all later ones are appended unchanged (`OldestGoFirst`, which needs that no entry is
  empty, `AllFilled`). The last two theorems have the hypothesis `[]Fits` (all stakes together
  fit in a `u64`). It is needed: `stake` keeps its entry when `total_staked` overflows (section
  5). The rate bound sums one inequality per entry, then per key.
* Slashing (`Slashing!Spec`): `EvidencePunishedOnce`, `DelegatorsAreSafe`, `SlashesAreBooked`,
  `ProcessingOrdersAgree`. `Grown` says what a run of `process_all_evidence` over any records,
  in any order, has done so far: whose positions it can have changed, and that history, treasury
  and pool moved together; `EngineInv` adds that a punished record is marked as processed. For
  the orders: a slash multiplies a stake by a factor of 1/10000ths and rounds up, and a product
  has no order (`ProductExists`). `Close` bounds what the rounding has added to all stakes
  together, scaled to integers, by one unit per record; two ends of the same records are close
  to the same products. Who is jailed depends on the stakes before the first record alone
  (`Guilty`), and what stakes lose the treasury gets (`Wealth`). The pool agrees, up to the same
  rounding, for offenders whose unlocked stake covers their recorded one, because `unstake` then
  never fails; for others it need not (section 5).
* Fee market (`FeeSpec`): `BaseFeeFollowsDemand` and `BurnShareAbsorbsRounding`. The first has
  the hypothesis that a block's gas is at most the target times elasticity plus one
  (`WithinElasticity`); beyond that the share exceeds the fee itself and its cast to `u64` may
  truncate. A node's blocks are below the target. The second rests on a bound for each
  interpolated share: rounding towards zero moves it by less than one unit, so three shares
  together miss their exact sum by at most two, which is the burn share the property asks for.
* Developer rewards (`RewardsSpec`): `RewardsNeverLost`. The inductive part is
  `PendingWithinEarned`: what is pending for a contract is no more than it ever earned, so
  adding to it cannot overflow where adding to the earnings did not.
* `EconomyIsItsParts`: `Economy!Spec` implies `StakingSpec`, `FeeSpec` and `RewardsSpec`.

**`DataTheorems`** holds what these proofs keep needing: sums over finite sets (`SumSplit`,
`SumAdd`, `SumChange`, `SumSubset`, `SumPlus`, `SumBound`, `SumByParts`), products, lists
(`RetainFacts`, `InjectiveLen`), division. The prover cannot instantiate an induction theorem
that takes a predicate, so the lemmas do induction on a set: `NatInductive` says that a set of
naturals with 0 and closed under successor is all of them, and each proof applies it to the set
of sizes for which its claim holds.

The type invariants of `BftVoting` and `ValidatorSet` are proved and need no run.
The assumptions on constants (`BftTypes`, `KeysAssumption`, `ConfigAssumption`,
`GenesisAssumption`, `StakingAssumption`, `EvidenceAssumption`, `FeesAssumption`,
`RewardsAssumption`, and those of `Ledger`, `Mempool`, `TieredStorage` and `Network`) say that
amounts are naturals, sets of keys finite and configurations of their type; TLC evaluates them
in the runs.

Left to TLC: liveness (`ProposePhaseEnds`, `RotationEnds`), because the
prover has no `ENABLED`. The invariants behind both are proved: `ProposeAlwaysTimed` (a
timer for whoever waits for a proposal) and `SwapsClimb` (the measure of the rotation's loop).

## 5. Other disagreements met while modelling

These are visible in the models but have no run of their own.

Consensus and boot:
* `on_timeout` casts no nil prevote on a propose timeout (`state_machine.rs:279` says
  "prevote nil"; action `TimeoutPropose`).
* A locked proposer proposes a new block (`docs/architecture.md:56` says it re-proposes;
  `NewProposal`).
* A stale precommit timer makes the proposer of the current round propose once more
  (`main.rs:762` speaks of a timeout that "advances to a new round"; `TimeoutStale`).
* A restarted validator begins at height 0 and may sign votes that contradict its earlier
  ones; agreement survives only while fewer than a third restart (`Restart`).
* A node whose key is not in the genesis list is logged as running in observer mode
  (`main.rs:407`) and signs votes that the others count.
* Validators below `min_stake` or above the cap are not active in the validator set, vote in
  the BFT all the same, and are reported to RPC clients as active (`StartConsensus`,
  `StartRpc`): `validator_count` is the length of the BFT list, where `docs/rpc-reference.md:76`
  says "Number of validators in the active set" and `server.rs:20` "Number of active
  validators". `BootAgrees` states both sides: list and count are those of the active set when
  all validators fit, and the count is larger when they do not, as with the default testnet
  under a smaller cap.
* `main.rs:245` creates the fee market with `FeeConfig::default()`, not with the split of the
  genesis file; a genesis file may list an account twice.

Network and storage:
* `ConnectionClosed` removes the record of a peer that still has another connection, and
  `is_banned` is never consulted.
* A put writes the warm tier, then the cache. If another thread evicts the key's old entry in
  between, its flush puts the old value back in the warm tier (`tiered.rs:88` says "Also writes
  to the warm tier for durability"); the new one is then in the cache only, and a crash, a
  failed flush, or an `archive_keys` of the key, which drops the cached entry and archives the
  warm one, loses it without any call having failed. Two calls on one key can overtake each
  other in more ways; of such keys (`Shared`) the properties claim only that they hold values of
  their own.
* A failure or crash between `warm.remove` and `cold.archive` loses the value; one in the
  middle of a remove leaves the older copy of the cold tier, which a later get finds
  (`HalfMoved`). These keys, and those of an overtaken put, are the `uncertain` ones that
  `AtRestOnDisk` and `ReadsLatest` except.

Money:
* `apply_transfer` keeps the debit when the credit overflows, which needs genesis balances
  that add up to more than `u64::MAX`; genesis validation does not exclude them (`Transfer`;
  `SupplyConserved` has the premise that they fit).
* Deregistering and registering again undoes a jailing (`DeregisterValidator`).
* `stake` leaves its entry behind when `total_staked` overflows (`Stake`; the runs stay below
  the limit).
* A slash of a validator whose stake is locked is credited to the treasury and taken from the
  recorded stake, while `unstake` fails and the pool keeps it (`Slash`; `SlashedStakeIsBooked`
  says exactly when). `unstake` takes all or nothing, so with partly locked stakes the pool's
  loss depends on the order of the evidence by whole slashes, not by rounding.
* The same offence reported with other data is another record and is punished again, as is one
  slashed directly (`SlashValidator`); a record submitted with its processed flag set is never
  punished, and keeps the same record from being submitted later (`SubmitEvidence`).
* A slash that rounds down to zero does not jail the offender, and the evidence counts as
  processed (`ProcessSingle`).
* `burn_bps` underflows when the burn share is small and shares fall: launch 5000/5000/0 and
  maturity 4999/4999/2 (validator, treasury, developer) over three epochs give 5000, 5000 and
  1 in epoch 2 (`SplitAtEpoch`; `BurnAbsorbsRounding` has the premise of a burn share of two).
* The base fee of a node can only fall: a block holds at most 100 transactions, counted with
  21,000 gas each, which is below the target.

Elsewhere:
* `added_at` in the mempool goes back after removals (`AddTransaction`).
* `get_block` serves an all-zero block for the height being published (`GetBlockMissed`).

## 6. Plan

Done: all components but the command line client; restarts, crashes, lost messages and failing
files where the code meets them; network task, event loop and RPC readers composed; the
refinement of consensus, checked and proved; theorems for every safety property of the passing
runs. Next:

1. A theorem that the standstill of `network_wedge` is the only one: from an invariant on who
   waits for which channel, that some task can move unless both directions are full.
2. Theorems about the hazards that no run checks yet and that have a true general form, such as
   the stakes below which a slash rounds to zero.

## 7. Not modelled

* Byzantine nodes: the code accepts votes from any key, so nothing can be claimed against them.
* The event loop's arm for a received `CommitBlock` message: no node sends one.
* `prune_stale` and `last_seen` of the peer manager (never called outside tests), and the bytes
  of the codec: a message decodes or does not.
* The genesis builder and the genesis hash; file formats; torn writes of a storage file and
  `stat` errors in `locate`.
* State root, timestamps and parent hashes: carried in the header and never checked.
  `EvidenceRecord::hash` is assumed free of collisions, though it is no cryptographic hash: two
  records with one hash would count as the same.
* The query `get_accumulated_rewards`, whose `u64` sum may overflow; `distribute_rewards` goes
  through the same amounts one by one.
* Hit counters of the storage, logging, and the answers RPC reads from fixed genesis data.
* The command line client: pure I/O.
