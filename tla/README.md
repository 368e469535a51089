# Specifications of the ZKsync Era contracts and their operator tools

TLA+ specifications of the L1 contracts in `src/l1-contracts` and of the Rust tools
that operate them (`src/protocol-ops`, `src/tools`), model-checked with TLC and
proved with TLAPS. Four subjects:

* one ZK chain on its settlement layer, from the commitment of a batch to its
  finality, and the Governance contract that owns the contracts around it;
* the migration of a chain to a gateway and back, by the contracts and by the
  operator's commands;
* the replay of bundles of transactions on L1 by a tool that may be killed;
* the v31 upgrade of an ecosystem: preparation, verification, governance stages,
  the chains' upgrades, the L2 upgrade transaction, the readiness checker.

## The system

A *ZK chain* is a diamond proxy on its settlement layer (L1, or a gateway, a ZK
chain that other chains settle on). Its facets share one storage,
`ZKChainStorage`.

| Part | State | Operations | Interacts with |
|---|---|---|---|
| Committer facet | batch counters, stored batch hashes, precommitment, upgrade batch number | precommit, commit (Era VM, ZKsync OS) | CTM (is the version active), DA validator |
| Executor facet | counters, log roots, priority tree cursor | prove, execute, revert | verifier, MessageRoot |
| Mailbox facet | priority tree, request timestamps | priority requests, relay through a gateway | Bridgehub |
| Admin facet | validators, DA pair, Priority Mode, version | setters, `activatePriorityMode`, upgrades, freezing | CTM |
| Migrator facet | deposit pause, settlement layer | pause, leave, arrive, recover | chain asset handler |
| Permissionless validator | none | commit, prove and execute in one call | diamond, in Priority Mode |
| Validator timelock | commit times, delay | forwards the validators' calls | diamond |
| MessageRoot | last batch and roots per chain | add batch root | Executor |
| Chain type manager (CTM) | versions, deadlines, upgrade cuts | create chains, register upgrades, revert, set validators | diamond |
| Bridgehub, chain asset handler | settlement layers, migration numbers and intervals | migration | CTM, Migrator |
| Governance | operations and times | schedule, execute, cancel | everything |
| `protocol-ops` gateway commands | a running command, its fork, its bundle | phases of `migrate-to` and `migrate-from` | the contracts, by replayed bundles |
| `protocol-ops` replay | nonces, log, hash file | `execute-safe`, `execute-manifest`, `upgrade-broadcast` | L1 and its mempool |
| `protocol-ops` upgrade | files, artifact, manifest | prepare, broadcast, verify | L1, governance |
| upgrade readiness checker | the block of the upgrade | polls the server, then upgrades the diamond | server, diamond |

What is hard about it:

* Batches go through three stages by three calls, any suffix that is not executed
  can be reverted by validators, by the CTM or by the activation of Priority Mode,
  and what the stages keep on the side (verification, precommitment, upgrade
  batch number, commit times in the timelock) must follow.
* An upgrade transaction is scheduled, put in a batch, reverted, put in another
  and at last executed, while further upgrades arrive.
* Priority operations are appended by users while batches consume them, also while
  the chain moves from one layer to the other with its tree.
* Priority Mode changes who may do what in the middle of all this, and has to
  work against validators that do not cooperate.
* Governance runs arbitrary calls, which may call Governance again, between
  checking an operation and marking it executed.
* A migration is confirmed or undone by proofs that arrive late, or never.
* The tools read L1 at one time and act on it at another, after being killed,
  repeated, and replaced by newer code in between.
* An upgrade is prepared by one program, checked by a second that was written apart
  from the first, and executed by contracts that revert when either was wrong.

## Modules

| Module | Models | Kind |
|---|---|---|
| `PriorityTree` | `libraries/PriorityTree.sol` with `Merkle.calculateRootPaths` | operators |
| `MessageRoot` | one chain's part of `MessageRootBase.sol` | operators |
| `ZKChainBase` | the storage and each function of the facets: `CanF`, its modifiers and checks, and `F`, the storage it leaves | operators, assumptions |
| `ZKChain` | one chain: an action per external function | specification |
| `ValidatorTimelock` | a `ZKChain` behind `ValidatorTimelock.sol`; every action conjoins the timelock's part of a call and the diamond's | composition |
| `PriorityModeProgress` | that chain with a version that expires and a diamond that is frozen | composition |
| `Governance` | `governance/Governance.sol` | specification |
| `SettledChain` | what a chain promises wherever it settles | abstract specification |
| `ChainMigration` | Migrator, chain asset handler, Bridgehub and MessageRoot of L1 and a gateway | specification |
| `GatewayMigrationOps` | the phases of `migrate_to.rs` and `migrate_from.rs` on top of it | composition |
| `SafeReplay` | `execute_safe.rs`, `execute_manifest.rs`, upgrade broadcast, and L1 with its mempool | specification |
| `Diamond` | `Diamond.sol` and the routing of `DiamondProxy.sol` | operators |
| `ChainVersions` | versions, deadlines and cuts of a CTM and its chains; the cuts' verifier (`facets.rs`) | specification |
| `UpgradeCalls`, `UpgradeWorld` | the calls of the three governance stages, and what they do on L1 | operators |
| `UpgradeVerifier` | `verify-upgrade`: the checks of the merged artifact against L1 | operators |
| `UpgradeBundle` | what a prepare run records and its broadcast leaves on L1 | operators |
| `UpgradeCeremony` | the upgrade from the first prepare run to stage 3 | specification |
| `UpgradePrepare` | `upgrade-prepare-all` step by step | specification |
| `UpgradeProvenance` | `deployed_addresses.rs`: where the deployed contracts come from | specification |
| `UpgradePayload` | the upgrade's contents, its verifier, and its execution on L1 and L2 | specification |
| `UpgradeReadiness` | the readiness checker, its workflow and the server | specification |
| `ZKChainProofs`, `ZKChainHistoryProofs` | theorems about a chain, and about its history (queue, upgrades, timelock) | proofs |
| `GovernanceProofs`, `SafeReplayProofs`, `UpgradeReadinessProofs` | theorems about these specifications | proofs |
| `ChainMigrationProofs`, `GatewayMigrationOpsProofs` | the invariant of the contracts, and theorems about the commands on top of them | proofs |
| `ChainVersionsProofs` | theorems about diamonds and about the chains of a CTM | proofs |
| `MC*` | instances | model checking |

### One chain

The storage is a record `s` with the names of `ZKChainStorage`. Writing each
function as an operator on the storage lets `settleBatchesSharedBridge` chain
commit, prove and execute in one action as the code does in one transaction;
a transaction that fails leaves no trace, so it is an action that is not enabled.

* *Hashes* are injective and represented by what they hash: a stored batch hash
  is the batch, a root of the priority tree is the sequence of its leaves, a
  rolling hash is the sequence of chunks, a log root is the transactions that
  emitted the logs. `bytes32(0)` and the placeholder `bytes32(1)` are values of
  their own.
* *Batches* keep number, timestamp, state root, priority operations, lists of L2
  transactions and upgrade transaction. A batch submitted by a validator is any
  element of `NewBatches`, among them ones that claim operations out of order or
  omit the upgrade transaction. Only the next batch number is submitted, others
  fail at once. Batches of ZKsync OS have the timestamp 0, as the code stores.
* *Proofs*: the verifier (external) is a nondeterministic yes; what it was asked
  about, the public input, is kept in the history variable `proven`.
* *Versions* are natural numbers with `PatchesPerMinor` patches to a minor
  version; an upgrade transaction is identified by its nonce, the minor version.
* *Time* is `now`, moved by `Tick`. Batches may be stamped up to
  `COMMIT_TIMESTAMP_APPROXIMATION_DELTA` ahead of it.
* *Paths* in `processBatch` exist exactly when a historical root has the items at
  the cursor.
* `StartIndex` is the number of requests handed out by the old priority queue
  when the tree was set up; with `StartIndex > 0`, batch 0 stands for the last
  batch executed before that.
* Here the chain settles on L1 and is not migrating. The CTM's owner may register
  any upgrade and `protocolVersionIsActive` may answer either way at each commit;
  `PriorityModeProgress`, where progress depends on it, makes the answer a variable,
  and adds the freezing of the diamond, which stops the Mailbox, Executor and Committer
  facets and not the Admin and Migrator ones.
* The timelock's cast of the time to `uint32` wraps in 2106; the model stays below
  (`MaxTime < Uint32`).

History variables, read by no action: `proven`, `processedUpTo` (the cursor after
each executed batch), `scheduled` (upgrade transactions), `precommitBatch`, and in
`ValidatorTimelock` `committedAt`.

### Governance

An execution is not one step: `Begin` makes the checks before the calls and pushes
a frame with the storage as it is, `updateDelay`, `updateSecurityCouncil` and
`CallReturns` make the calls, `Finish` makes the checks after them and marks the
operation. While a call to another contract is open any function can be called
again. `Fail` pops a frame and restores what it saved, as a reverting call does; the
contract that made the call may carry on. The stack is empty between transactions,
and time passes only then. An operation stands for its hash. The history `h` (how
often each operation was executed, the earliest time its last scheduling allows) is
restored with the storage. The owner is fixed and ether is left out; a council that
is the zero address is a council that never calls.

### Migration

`ChainMigration` has the chain's two diamonds, the bridgehub, handler and
MessageRoot of both layers, the queue of priority transactions from L1 to the
gateway, the commitment under way to L1, and the gateway's batches on L1, which make
its messages and transaction statuses provable. There is one chain and one gateway,
batches are counted, and the pause windows of `Config.sol` are zero. The CTM of each
layer publishes versions while migrations are paused there, and each diamond is
upgraded later, L1's also while its chain is away: leaving, arriving and recovering
compare these versions (`protocol`, with the version at each burn).
`GatewayMigrationOps` adds the commands: a phase forks L1, runs
its scripts on the fork and writes a bundle, which is replayed later and perhaps more
than once; the finalizing phases first poll the gateway, with timeouts; a command
may be killed at any time. `SettledChain` has a queue and executed batches and
knows nothing of layers; `SettlesLikeOneChain` is the refinement.

### Replay

`SafeReplay` has L1 as a list of mined transactions with a status, a nonce and a
mempool per signer, and the tool with its place in the manifest. A transaction is one
of a few kinds, told apart by how L1 answers a repetition: a CREATE2 deployment, a
setup, the schedule and the execution of a governance operation, and a plain call. L1
has one of each, so a manifest has at most one transaction of every kind but calls
(`ManifestAssumption`). The tool may be killed at every step and is run again from
the first bundle. What was sent waits in the mempool under its nonce and is mined in the
order of nonces, or dropped at any time, also while a later run counts on it: then
what was sent above it waits behind a gap. The log is written in place, so that a kill
during `Truncate` and `Persist` leaves a file that no later run can parse (`torn`).

### Upgrade

`UpgradeCeremony` takes a prepare run as one step and interleaves runs of two
revisions of the code, broadcasts, verification, the three governance stages, the
emergency path, stage 3 and migrating chains. An artifact is what one run merged, with
at most one edit, a slip made when lists are copied, merged or regenerated, in the last
revision. `UpgradePrepare` takes the run apart: forks, files, failures and repetitions,
and compares a finished run with the one step (`RunIsOneStep`). `UpgradeProvenance`
translates two tables apart from each other, what the scripts pass to constructors and
what the verifier expects. The gateway's contracts take the salt of the CTM they copy,
so that they may have the addresses of their twins on L1; the CREATE2 factory has one
address everywhere. `ChainVersions` applies verified and unverified cuts to
the diamonds of two chains. `UpgradePayload` builds the payload with one of 44
deviations, publishes its bytecodes, verifies it, and executes it on L1 and on L2 of
either VM. `UpgradeReadiness` has the checker, the workflow and the server beside
each other.

Left out of these modules: call values; the ownership of the core contracts by
governance, which is taken as given; another prepare run of code whose stage 0 is
done; the server notifier's admin calls and the verification log files; in
`UpgradeProvenance` the live values among constructor arguments, which are fixed
words; in `ChainVersions` the migration pause (see `UpgradeCeremony`), batches in
flight beyond one, `executeUpgrade` and `setUpgradeDiamondCut`; in `UpgradePayload`
gas, the effect of constructor inputs, the Across recovery and WETH; in
`UpgradeReadiness` the lookback, and rollbacks of blocks.

## Runs

| Run | Instance | States | Shows |
|---|---|---|---|
| `era_chain` | Era VM behind the timelock; 3 batches, 1 chunk, 2 times, drift of 1, genesis upgrade, delays 0 and 1 | 165,648 | precommitments and timestamps stay with their batches |
| `zksync_os_chain` | ZKsync OS behind the timelock; 2 batches, 2 operations, expiration 1, versions 2 to 4, delays 0 and 1 | 324,176 | the inductive invariant `SafetyInv`; the queue, upgrades, finality, Priority Mode and the delay |
| `priority_mode_liveness` | ZKsync OS; 3 batches, 1 operation, no further upgrade; the version expires and is renewed, the diamond is frozen and unfrozen | 576,168 | overdue operations get processed once the chain is left open |
| `governance` | 3 operations, one after another and two that call out, delays 0 and 2, 3 times, depth 2 | 408,150 | operations are executed once, in order, after their delay |
| `migration_ops` | 1 operation, 2 batches, 1 transaction in flight, 2 migrations, 3 gateway batches, 1 version published on either layer | 2,199,672 | a chain settles in one place and like one that never moves; what the commands rely on |
| `safe_replay` | 3 bundles of 2 signers with 6 transactions, 2 kills, 1 drop, all modes, any set of keys | 1,055,809 | the manifest is applied in order, a whole log is clean, the replay completes unless the log is cut short |
| `upgrade_ceremony` | both CTMs, 2 chains of which one is exempt, new and legacy gateway, 2 revisions, 3 starting worlds | 62,052 | an accepted stage executes, an honest artifact is accepted, revisions are not mixed, the pause holds, the upgrade is complete |
| `upgrade_prepare` | the same, 3 runs | 332,151 | a finished run depends on code and L1 alone; the verdict on it is right |
| `upgrade_provenance` | stage, the one environment with all parts; 3 changing files, 1 change, 1 fault | 2,163 | accepted artifacts are genuine, complete regenerations are accepted |
| `chain_versions` | 2 chains, a patch, v31 with 11 deviations, deadlines of any version moved to the past, 1 revert | 338,496 | one verified cut, unless it repeats itself, fits all chains; what a stuck chain got stuck by |
| `upgrade_payload` | both VMs, 44 deviations, 2 publishing batches | 8,456 | where accepted payloads revert (in one case, on L2) and what they leave; a payload gets there |
| `upgrade_readiness` | 4 blocks, a later minor or patch version, also before the checker looks, failing requests | 2,127 | ready means the diamond can be upgraded, and with the right hash it is said |

Bounds and why they suffice. Three batches allow one executed, one proven and one
committed batch at the same time, and a multi-batch proof or execution next to a
remaining batch; two operations allow order to be violated and batches with both,
either or none; versions 2 to 4 hold a patch and a minor upgrade after the genesis
upgrade; two times separate fresh from overdue and a delay from none; two state roots
make batches of the same number differ. Reverts are unbounded, so every number can be
committed any number of times. The bounds cut off no failure: an execution may be
tried with a cursor one past the last operation. In `governance` a depth of 2 lets
every operation run inside every other and inside itself, and one of the operations
removes the minimum delay on the way. In `migration_ops` the code allows two
migrations of a chain, and a failed one can be repeated; with one transaction in
flight at a time a pause or an operation is still delivered before or after the mint and
the mint late (the queue keeps its order, and the theorems hold for any number); one
version lets either layer, and either diamond, be behind the other;
three gateway batches separate the one that mints from the one that returns. In
`safe_replay` two kills leave two runs' transactions in the mempool of a third, and
each signer has more than one transaction; one drop makes the gap. Two revisions suffice for what one
regeneration leaves over for the next. Deadlock is not checked where counters at
their bounds, or a finished command, end the behaviour; `chain_versions` checks it.

Fairness:

* `priority_mode_liveness`: weak fairness of `TickNow` (time passes) and of
  `activateNow`, which anybody may call, and strong fairness of
  `settleNow`, which anybody may call while the mode is active. It is strong because
  governance may deactivate the mode between two attempts; somebody who wants an
  operation processed keeps trying. It also includes that a proof can be produced.
  No fairness is assumed of validators, the chain's admin or governance. Whoever
  lets the version expire or freezes the diamond can stop the chain for good, so the
  property speaks of behaviours in which this ends at some time (`<>[]Open`).
* `safe_replay`: the tool runs on, is run again after a failure and killed when it
  hangs; what stays in the mempool is mined. Kills and drops are not fair, and finite.
* `upgrade_payload`: the operator prepares an honest payload at last (strong, since a
  refused one puts an end to an attempt); publishing, verifying and executing go on.
* `upgrade_readiness`: the target version is published, the server processes it and
  commits and executes its blocks, the workflow upgrades and is run again, the checker
  polls; strong for its requests, which may fail but not for ever.

## Properties

The comment above each property says what it means and which code it is about.
Each is violated when the definition it depends on is changed by one of the
definitions marked "Mutant". All hold.

Met on the way, and worth knowing. Most are cases of the runs, and the properties name
them as exceptions, so that they hold in these cases and no others:

* The replay log lacks the transactions of a bundle during which a run was killed: the
  next run skips them, and skipped transactions are not logged.
* The log is overwritten in place (`fs::write`). A kill in the middle leaves a file
  that every later run refuses, until somebody removes it (`ReplayCompletes`).
* A replay repeated after the owner cancelled the operation sends or skips what comes
  later all the same; `ManifestApplied` is about manifests that were not cancelled.
* With the current governance contract a signed replay does not know the errors that a
  repeated schedule or execution raises and gives up; only the unlocked one skips them.
  `ReplayCompletes` says so.
* Stage 3 between stages 1 and 2 makes stage 2 revert: both call `registerLegacyToken`,
  which reverts for a token that is registered (`L1AssetTracker.sol:135`), while the
  comment at `upgrade.rs:1085` says that a second call is short-circuited.
* A governance delay longer than the time bump of the fork breaks the replay that
  `upgrade-governance` makes on a fork, and the simulation of a new gateway.
* Rotated salts are refused by the verifier (`RegenerationAccepted` assumes declared
  salts), and so is a legacy gateway without intervals.
* On mainnet the permanent values configure the CREATE2 factory `0xf1Eb...`
  (`permanent-values/mainnet.toml:6`), which the verifier goes by
  (`verify_upgrade.rs:130`), and the scripts deploy through the deterministic factory
  (`Utils.sol:137`); with this configuration the verifier would recognise none of the
  scripts' deployments on L1. The model has one factory, and the run is about stage,
  where the two agree.
* When a migration failed on the gateway and the chain's diamond on L1 is upgraded before
  the failure is confirmed, `bridgeConfirmTransferResult` reverts from then on
  (`Migrator.sol:323`), and there is no other way back (`MigrationNotStuck`).
* `setProtocolVersionDeadline` has no guard: its owner may close the version that
  everybody should be at, and all chains stand until it is moved again.
* A chain that lets its version expire with its upgrade transaction outstanding is
  stranded once the next minor version is published (`StuckOnlyByDeadline`).
* The verifier accepts a list of facet cuts in which one is repeated, and the chains'
  upgrade then reverts (deviation `"repeated"`, `UpgradeApplies`).
* For a ZKsync OS delegate the verifier compares the observable hash and the derived
  address, not the blake hash, so that a payload with a stale blake hash is accepted and
  reverts on L2 (deviation `"delegateBlake"`, `AcceptedNeverReverts`).
* For the token proxy in the fixed force deployments data the verifier accepts the hash
  of the other VM's bytecode too (`UpgradedAsExpected`).
* The readiness checker waits for ever when a further version is published while it
  looks for its log (`PublishEarly`), or when its call of `getL2UpgradeTxData` fails in
  transit, which it takes for an upgrade contract before v31 (`RebuildFails`);
  `EventuallyUpgraded` is about the hash it ends up with.
* Deposits can be paused before Priority Mode is allowed and remain paused afterwards;
  the model contains this, and nothing in the repository says whether it is intended.

## Proofs

Each holds for every value of the constants that satisfies the named assumptions of the
modules, that is for any number of batches, operations, validators, versions, calls,
migrations, bundles, kills and so on, and for Era VM and ZKsync OS. "Run property" is
the property of a run that the theorem states.

| Module | Theorem | Statement | Run property |
|---|---|---|---|
| `ZKChainProofs` | `SafetyInvariance` | `Spec => []SafetyInv` | yes |
| | `TypeCorrect`, `CountersStayOrdered`, `ProofsStayValid`, `MessageRootCorrect`, `UpgradeStaysTracked`, `PriorityModeIsClean` | its conjuncts, one by one | |
| | `ExecutedBatchesAreFinal` | `Spec => ExecutedIsFinal` | yes |
| `ZKChainHistoryProofs` | `UpgradesExactlyOnce` | `Spec => []UpgradeExactlyOnce` | yes |
| | `PriorityOpsProcessedInOrder` | `Spec => []PriorityOpsInOrder` | yes |
| | `PrecommitmentIsForNextBatch` | `Spec => []PrecommitmentForNextBatch` | yes |
| | `TimestampsOfBatchesIncrease` | `Spec => []BatchTimestampsIncrease` | yes |
| | `PriorityModeSettlesPriorityOps` | `Spec => PriorityModeBatches` | yes |
| | `ActivationIsJustified` | `Spec => ActivationNeedsOverdueOp` | yes |
| | `TimelockImplementsChain` | `TimelockSpec => Spec` | |
| | `TimelockSafety` | `TimelockSpec => []SafetyInv` | yes |
| | `TimestampsAreRight` | commit times in the timelock are not too early | |
| | `DelayIsKept` | `TimelockSpec => ExecutionWaitsForDelay` | yes |
| `GovernanceProofs` | `GovernanceTypeCorrect` | `[]GovernanceTypeOK` | |
| | `OperationsExecutedOnce` | `Spec => []ExecutedOnce` | yes |
| | `PredecessorsExecutedFirst` | `Spec => []PredecessorsFirst` | yes |
| | `DelaysAreRespected` | `Spec => DelayRespected` | yes |
| | `DoneStaysDone` | an executed operation stays executed | |
| `GatewayMigrationOpsProofs` | `MigrationInvariance` | `OpsSpec => []OpsInv` | |
| | `ChainSettlesOnOneLayer` | `OpsSpec => []OneSettlementLayer` | yes |
| | `PriorityTreesAgree` | `OpsSpec => []TreesAgree` | yes |
| | `SettlementLayersAreRecorded` | `OpsSpec => []RecordedSettlementLayer` | yes |
| | `MigrationsAreNotStuck` | `OpsSpec => []MigrationNotStuck` | yes |
| | `ForksAreRecent` | `OpsSpec => []ForkSeesSettledBatch` | yes |
| | `ConfigurationArrives` | `OpsSpec => []ConfigurationIsNotLost` | yes |
| | `MigrationImplementsSettledChain` | `OpsSpec => SettlesLikeOneChain` | yes |
| `SafeReplayProofs` | `ManifestIsApplied` | `Spec => []ManifestApplied` | yes |
| | `LogsAreClean` | `Spec => []LogIsClean` | yes |
| `ChainVersionsProofs` | `ChainsOfOneVersionAreAlike` | `Spec => []UniformFacets` | yes |
| | `NoChainIsStuckBeforeItsDeadline` | `Spec => []StuckOnlyByDeadline` | yes |
| `UpgradeReadinessProofs` | `ReadyIsAlwaysSafe` | `Spec => []ReadyIsSafe` | yes |

The runs of a chain check `TimelockSpec`; `TimelockImplementsChain` carries the
theorems about `Spec` over to it.

**One chain.** `SafetyInv` is inductive: types, the order of the counters, that proofs
cover the batches stored now, the MessageRoot, the upgrade batch, no pending batch in
Priority Mode, and `TimeOK`, the lower bound on `now` without which a pause of deposits
would leave the naturals. The conjuncts need each other: that the MessageRoot is ahead
of no batch needs the order of the counters; that a proof still covers its batch needs
that commits write only above `totalBatchesVerified`; that settling in Priority Mode
starts and ends without a pending batch needs all of them. The argument has two
layers, both in `ZKChainProofs`. One *Effect* lemma per function of the storage: the
new storage is well typed, and which fields it changes and how. One *Safety* lemma per action that uses Effects and never expands a function;
`FrameSafety` serves all actions that touch no batch, `RevertedSafety` both reverts
and activation, `ExecutedSafety` both execution by validators and settlement.

**Upgrades.** `UpgradesInOrder` is about a few numbers and the upgrade transaction of
each batch: no committed batch has a transaction of a later version than the chain's,
a pending one that is recorded in no batch is in none, and no two batches have the
same. It is what lets a revert forget the record without the transaction being
repeated.

**Queue.** `QueueInOrder` adds to `PriorityOpsInOrder` that every root the tree ever had
is a root of the first of its leaves: a batch may be checked against an old root, and
consumes the same operations as from the newest. The sums over batches are carried by
an induction on the number of executed batches, made from the least element of a set of
naturals. Precommitments need that a precommitment is dropped whenever the number of
the next batch changes; timestamps need the stored batch hashes.

**Timelock.** The recorded time of a committed batch is at least `committedAt`, the time
it was last committed through the timelock, as long as it is neither executed nor of
Priority Mode; reverts leave old times behind, which are overwritten by the next commit.

**Governance.** `GovernanceInv` says that the storage in force and every storage saved
in a frame are *sound* (history and timestamps agree, predecessors are done, pending
operations wait long enough), that each frame found its predecessor done, and that what
is done in a frame is done in every frame above it and in the storage in force. The
last part is what makes the early check of the predecessor enough, and a failure
harmless: it restores a sound storage in which everything below is still done.

**Migration.** A chain goes through five stages: on L1, leaving, on the gateway,
returning, back. `Control` says what both layers know in each, `MintsOK` what the
queue to the gateway and the results of mints say of it, `TreeOfL1`, `Leaving`,
`TreeOfGateway` and `Returning` where the operations of the L1 tree that were not
processed are: in the commitment under way, in the gateway's tree, or in the queue of
relayed operations; `Intervals` ties the migration intervals to where batches were
executed; `VersionsOK` says that the L1 diamond never falls below its version at a
burn. The steps of the contracts fall into classes by what they do to this
state, and each part is preserved class by class. `OpsInv` adds what a running command,
its bundle and a replay rely on, none of which the contracts undo. For the refinement,
`SettledIs` says what the state shows of an abstract chain in each stage, and every
step shows a request, an executed batch or nothing.

**Replay.** `ManifestInv`: the tool is at a transaction only when all before it were
applied; what is in the mempool was sent under that condition; and what L1 answers
shows what was applied, so a skipped transaction was. Only a cancellation undoes any
of it. `LogInv`: what a run has executed so far was mined after everything in the
log, unless the file is torn. Both hold wherever a run is killed, because L1 and the files are all that
survives it.

**Diamonds.** `Good` is what every cut keeps: the two maps and the list of a diamond
agree, also on what a removal moved from the end into the gap. While the selectors of an
Add are worked off the facet is listed and may have no selector yet (`Kept`); a cut ends
good because its list of selectors is not empty, which `diamondCut` checks. The loops of
`diamondCut` are recursive functions. A lemma takes the sequence of their results apart
(`Loops`, `Cuttings`), and what holds after each of n results is carried to n + 1
(`UpTo`, from the least element of a set of naturals). `SameCutsSameRoutes` says that
routes after a list of cuts depend on the routes before it and on the list alone, unless
it reverts; `RemovesThenAdds` what a list of Removes and then Adds leads to, whatever
repetitions it has.

**Chains of a CTM.** `VersionsInv`: the version of a live chain is the manager's or has
a cut to a later version of that kind, a version with a cut and the manager's own have
a deadline, whatever the owner made of it, a patch changes no facets, and an upgrade
transaction is in a batch only while one is in flight. `FacetsInv` adds the facets: only the cut that leads to v31 changes any; an
accepted artifact removes what *some* good diamond with the routes of the creation cut
has, and adds what the bytecodes say; a chain before v31 has the routes of the creation
cut, whatever code was deployed when it was created, and one from v31 on has those of
the bytecodes and no other. The step that matters is a chain that applies the cut made
from another one's facets (`UpgradeRoutes`): the two have the same routes, every selector
that leads somewhere is in a Remove (`DeletionsAreComplete`), and the verifier's sets
fix what is added. The theorem does not depend on the deviations of the run: it holds of
every artifact that the verifier lets through, repeated cuts included, since those
revert. Assumed of the constants: the v31 version has a later minor version than
the one it is for, the creation cut decodes and its facets are addresses, and the
bytecodes answer selectors.

**Readiness.** `ReadinessInv`: versions do not fall from block to block, blocks are
executed after they are committed, no block of a version beyond the diamond's is
committed, and what the checker found stays true: the block of the receipt has the
target version and the ones before it are executed.

### Only model-checked

* Liveness under fairness, which the prover does not reach: `OverdueOpsProcessed`,
  `ReplayCompletes`, `EventuallyExecuted`, `EventuallyUpgraded`.
* `UpgradeApplies`: that a list of cuts which does not repeat itself applies is an
  argument about each intermediate diamond, and is checked for the artifacts of the run.
* The contents of the upgrade (`UpgradeCeremony`, `UpgradePrepare`, `UpgradeProvenance`,
  `UpgradePayload`): their properties compare what two programs compute from concrete
  tables and call lists, which is evaluation and not proof. They fold over the lists
  with operators as arguments, which the provers cannot instantiate, and
  `UpgradeProvenance` has a `RECURSIVE` operator.
* Induction over data is proved here only for recursive functions of a number, as in
  `Diamond`; the library's induction theorems and folds are out of reach.

## Plan

1. *Proofs* of the stages of `UpgradeCeremony` that do not depend on the call lists.
2. *Bridging*: routers, nullifier, vaults and trackers. Conservation of supply; a
   deposit is either received or claimed back, a withdrawal is finalised once.
3. *Interop*: statuses of bundles and calls.
4. *Merkle trees* as recursive definitions against a reference tree.
5. *Diamond cuts* chosen freely instead of those of the upgrade.

## Not modelled

* Verifiers (generated arithmetic) and data availability validators (byte-level
  checks): not state machines of interest; proofs are about their public input by
  assumption.
* System contracts, bootloader, EVM emulator: programs of the L2 virtual machine,
  except for the force deployments of the v31 upgrade transaction. What L1 relies on
  (a proven batch did what its commitment says) is an assumption.
* Encodings, fees and events: no modelled property depends on them.
* Roles of the timelock: any role holder may call at any time.
* Tokens: routers, vaults and trackers, but for the transfer records of a migration.
* The forge runner, configuration files, deployment and chain commands, simulator and
  generators: single passes over files; the modules start from what they leave.
* The liveness of the operator's migration commands: their timeouts end a run, and
  nothing obliges the operator to repeat it.
