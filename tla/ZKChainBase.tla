----------------------------- MODULE ZKChainBase -----------------------------
(***************************************************************************)
(* The storage of a ZK chain's diamond (ZKChainStorage.sol) and what the   *)
(* functions of its Committer, Executor, Mailbox and Admin facets do to    *)
(* it.  The storage is a record `s`, named as in the code; a function      *)
(* `f` of a facet is a pair of operators: CanF(s, ...), the conjunction of *)
(* its modifiers and checks, and F(s, ...), the storage it leaves behind.  *)
(* Modules with variables turn the pairs into actions; having functions of *)
(* the storage lets one transaction call several of them, as the           *)
(* PermissionlessValidator does.                                           *)
(*                                                                         *)
(* A stored batch hash is represented by the batch it is the hash of       *)
(* (hashing is injective).  A batch is a record                            *)
(*    batchNumber, timestamp                                               *)
(*    root       the new state root: two batches with the same             *)
(*               transactions and different roots are different batches    *)
(*    ops        the priority operations it claims to process, the         *)
(*               preimage of priorityOperationsHash; numberOfLayer1Txs is  *)
(*               its length                                                *)
(*    chunks     its L2 transactions, as the lists they can be precommitted*)
(*               in (the preimage of l2TxsStatusRollingHash)               *)
(*    upgradeTx  the system upgrade transaction it contains, or NoTx       *)
(***************************************************************************)
EXTENDS PriorityTree, MessageRoot

CONSTANTS
    ZKsyncOS,            \* the chain runs ZKsync OS (TRUE) or Era VM (FALSE)
    Validators,          \* addresses that the CTM may make validators
    PermissionlessValidator, \* the validator of Priority Mode
    ChainTypeManager,    \* the CTM, acting for the ecosystem's governance
    Roots, GenesisRoot,  \* state roots
    Chunks,              \* lists of L2 transactions, positive integers
    Contents,            \* what a batch may contain
    StartIndex,          \* first index of the priority tree
    PatchesPerMinor,     \* minor version of v is v \div PatchesPerMinor (2^32)
    PRIORITY_EXPIRATION,
    COMMIT_TIMESTAMP_NOT_OLDER,
    COMMIT_TIMESTAMP_APPROXIMATION_DELTA,
    PAUSE_DEPOSITS_TIME_WINDOW_START,
    MAX_ALLOWED_MINOR_VERSION_DELTA,
    InitTime, InitVersion, \* when the chain is created, and its version
    MaxBatches, MaxOps, MaxChunks, MaxTime, MaxVersion \* bounds on the counters

ASSUME ConstantsAssumption ==
    /\ ZKsyncOS \in BOOLEAN
    /\ PermissionlessValidator \notin Validators
    /\ ChainTypeManager \notin Validators
    /\ GenesisRoot \in Roots
    /\ Chunks \subseteq Nat \ {0}
    /\ Contents \subseteq [root : Roots, ops : Seq(Nat), chunks : Seq(Chunks)]
    /\ StartIndex \in Nat
    /\ PatchesPerMinor \in Nat \ {0}
    /\ PRIORITY_EXPIRATION \in Nat
    /\ COMMIT_TIMESTAMP_NOT_OLDER \in Nat
    /\ COMMIT_TIMESTAMP_APPROXIMATION_DELTA \in Nat
    /\ PAUSE_DEPOSITS_TIME_WINDOW_START \in Nat /\ PAUSE_DEPOSITS_TIME_WINDOW_START < InitTime
    /\ MAX_ALLOWED_MINOR_VERSION_DELTA \in Nat
    /\ InitTime \in Nat \ {0} /\ COMMIT_TIMESTAMP_NOT_OLDER <= InitTime
    /\ InitVersion \in Nat /\ PatchesPerMinor <= InitVersion
    /\ {MaxBatches, MaxOps, MaxChunks, MaxTime, MaxVersion} \subseteq Nat

(***************************************************************************)
(* Types.                                                                  *)
(***************************************************************************)
NoTx == 0

Times == 0 .. MaxTime + COMMIT_TIMESTAMP_APPROXIMATION_DELTA

Minor(version) == version \div PatchesPerMinor

Batch ==
    [batchNumber : Nat, timestamp : Nat, root : Roots, ops : Seq(Nat),
     chunks : Seq(Chunks), upgradeTx : Nat]

GenesisBatch ==
    [batchNumber |-> 0, timestamp |-> 0, root |-> GenesisRoot, ops |-> <<>>,
     chunks |-> <<>>, upgradeTx |-> NoTx]

\* The zero hash of a batch number nothing was stored for.
NoBatch == [unset |-> TRUE]

\* A rolling hash of precommitted chunks is the sequence of chunks; bytes32(1),
\* the placeholder, is the hash of no sequence of chunks.
DEFAULT_PRECOMMITMENT == <<0>>

\* The root of a batch's L2 to L1 logs, represented by the transactions that
\* emitted them.
l2LogsTreeRoot(b) == <<b.ops, b.chunks, b.upgradeTx>>

LogRoots == (Seq(Nat) \X Seq(Chunks) \X Nat) \cup {NoRoot}

PriorityModeInformation ==
    [canBeActivated : BOOLEAN, activated : BOOLEAN]

ZKChainStorage ==
    [validators : SUBSET Validators,
     totalBatchesExecuted : Nat,
     totalBatchesVerified : Nat,
     totalBatchesCommitted : Nat,
     storedBatchHashes : [0 .. MaxBatches -> Batch \cup {NoBatch}],
     l2LogsRootHashes : [0 .. MaxBatches -> LogRoots],
     protocolVersion : Nat,
     l2SystemContractsUpgradeTxHash : Nat,
     l2SystemContractsUpgradeBatchNumber : Nat,
     priorityTree : Tree(Nat),
     isPermanentRollup : BOOLEAN,
     precommitmentForTheLatestBatch : Seq(Nat),
     priorityModeInfo : PriorityModeInformation,
     priorityOpsRequestTimestamp : [0 .. StartIndex + MaxOps -> Nat],
     pausedDepositsTimestamp : Nat]

(***************************************************************************)
(* Modifiers.                                                              *)
(***************************************************************************)
onlyValidator(s, sender) == sender \in s.validators

onlyValidatorOrPriorityMode(s, sender) ==
    IF s.priorityModeInfo.activated
    THEN sender = PermissionlessValidator
    ELSE sender \in s.validators

notPriorityMode(s) == ~s.priorityModeInfo.activated

(***************************************************************************)
(* Committer facet.                                                        *)
(***************************************************************************)

\* precommitSharedBridge(batchNumber, chunk), Era VM only.
CanPrecommit(s, sender, batchNumber) ==
    /\ onlyValidator(s, sender)
    /\ notPriorityMode(s)
    /\ ~ZKsyncOS
    /\ batchNumber = s.totalBatchesCommitted + 1

Precommit(s, chunk) ==
    [s EXCEPT !.precommitmentForTheLatestBatch =
        IF @ = DEFAULT_PRECOMMITMENT THEN <<chunk>> ELSE Append(@, chunk)]

\* The upgrade transaction the next committed batch has to contain.
ExpectedUpgradeTx(s) ==
    IF s.l2SystemContractsUpgradeBatchNumber = 0
    THEN s.l2SystemContractsUpgradeTxHash
    ELSE NoTx

\* The range of block times [first, last] is valid at settlement layer time `now`.
ValidBlockTimes(first, last, now) ==
    /\ first <= last
    /\ now - COMMIT_TIMESTAMP_NOT_OLDER <= first
    /\ last <= now + COMMIT_TIMESTAMP_APPROXIMATION_DELTA

\* _verifyAndResetBatchPrecommitment
PrecommitmentMatches(s, b) ==
    \/ s.precommitmentForTheLatestBatch = DEFAULT_PRECOMMITMENT
    \/ s.precommitmentForTheLatestBatch = b.chunks

\* Mutant: L2 transactions are let in together with priority operations.
PriorityModeTxCountNoL2Check(s, b) ==
    s.priorityModeInfo.activated => b.ops # <<>>

PriorityModeTxCount(s, b) ==
    s.priorityModeInfo.activated => b.chunks = <<>> /\ b.ops # <<>>

\* Mutant: the previous batch's timestamp is not compared.
commitOneBatchEraNoOrder(s, prev, b, now) ==
    /\ b.batchNumber = prev.batchNumber + 1
    /\ b.upgradeTx = ExpectedUpgradeTx(s)
    /\ PrecommitmentMatches(s, b)
    /\ \E lastBlock \in Times : ValidBlockTimes(b.timestamp, lastBlock, now)
    /\ PriorityModeTxCount(s, b)

\* _commitOneBatchEra and _verifyBatchTimestamp; the time of the batch's last
\* block is checked and not kept.
commitOneBatchEra(s, prev, b, now) ==
    /\ b.batchNumber = prev.batchNumber + 1
    /\ b.upgradeTx = ExpectedUpgradeTx(s)
    /\ PrecommitmentMatches(s, b)
    /\ prev.timestamp < b.timestamp
    /\ \E lastBlock \in Times : ValidBlockTimes(b.timestamp, lastBlock, now)
    /\ PriorityModeTxCount(s, b)

\* _commitOneBatchZKsyncOS: no time is kept, the batch's timestamp is 0.
commitOneBatchZKsyncOS(s, prev, b, now) ==
    /\ b.batchNumber = prev.batchNumber + 1
    /\ b.upgradeTx = ExpectedUpgradeTx(s)
    /\ PriorityModeTxCount(s, b)
    /\ \E firstBlock, lastBlock \in Times : ValidBlockTimes(firstBlock, lastBlock, now)
    /\ b.timestamp = 0

\* commitBatchesSharedBridge: exactly one batch, on top of the last committed
\* one.  `active` is the CTM's answer to protocolVersionIsActive.
CanCommit(s, sender, active, b, now) ==
    LET prev == s.storedBatchHashes[s.totalBatchesCommitted] IN
    /\ onlyValidatorOrPriorityMode(s, sender)
    /\ active
    /\ IF ZKsyncOS
       THEN commitOneBatchZKsyncOS(s, prev, b, now)
       ELSE commitOneBatchEra(s, prev, b, now)

Commit(s, b) ==
    [s EXCEPT
        !.storedBatchHashes[b.batchNumber] = b,
        !.totalBatchesCommitted = @ + 1,
        !.l2SystemContractsUpgradeBatchNumber =
            IF ExpectedUpgradeTx(s) # NoTx THEN b.batchNumber ELSE @,
        !.precommitmentForTheLatestBatch =
            IF ZKsyncOS THEN @ ELSE DEFAULT_PRECOMMITMENT]

(***************************************************************************)
(* Executor facet.                                                         *)
(***************************************************************************)

\* The commitment of a batch: what it does; on Era also when and to which state.
commitment(b) ==
    IF ZKsyncOS
    THEN <<b.ops, b.chunks, b.upgradeTx>>
    ELSE <<b.ops, b.chunks, b.upgradeTx, b.timestamp, b.root>>

\* _getBatchProofPublicInput and _getBatchProofPublicInputZKsyncOS: what a proof
\* of batch `b` after `prev` is about.
PublicInput(prev, b) ==
    IF ZKsyncOS
    THEN <<prev.root, b.root, commitment(b)>>
    ELSE <<commitment(prev), commitment(b)>>

\* proveBatchesSharedBridge of the n batches after the last verified one.  The
\* hash checks force the batches to be the stored ones; whether the verifier
\* accepts is not in the storage.
CanProve(s, sender, n) ==
    /\ onlyValidatorOrPriorityMode(s, sender)
    /\ n >= 1
    /\ ~ZKsyncOS => n = 1
    /\ s.totalBatchesVerified + n <= s.totalBatchesCommitted

Prove(s, n) == [s EXCEPT !.totalBatchesVerified = @ + n]

\* executeBatchesSharedBridge, on L1, of the n batches after the last executed
\* one; `m` is the MessageRoot, cursor[k] is the tree's unprocessedIndex once
\* batch k is executed.
CanExecute(s, m, sender, n, cursor) ==
    LET executed == s.totalBatchesExecuted IN
    /\ onlyValidatorOrPriorityMode(s, sender)
    /\ n >= 1
    /\ executed + n <= s.totalBatchesVerified
    /\ CanAddChainBatchRoots(m, executed + 1, executed + n)
    /\ cursor[executed] = s.priorityTree.unprocessedIndex
    /\ \A k \in executed + 1 .. executed + n :
          LET b == s.storedBatchHashes[k] IN
          /\ b.batchNumber = k
          /\ CanProcess(s.priorityTree, cursor[k - 1], b.ops)
          /\ cursor[k] = cursor[k - 1] + Len(b.ops)

UpgradeExecuted(s, newTotalBatchesExecuted) ==
    /\ s.l2SystemContractsUpgradeBatchNumber # 0
    /\ s.l2SystemContractsUpgradeBatchNumber <= newTotalBatchesExecuted

\* The log roots after the execution of the n batches.
ExecutedLogRoots(s, n) ==
    [k \in DOMAIN s.l2LogsRootHashes |->
        IF k \in s.totalBatchesExecuted + 1 .. s.totalBatchesExecuted + n
        THEN l2LogsTreeRoot(s.storedBatchHashes[k])
        ELSE s.l2LogsRootHashes[k]]

Execute(s, n, cursor) ==
    LET newTotalBatchesExecuted == s.totalBatchesExecuted + n
        upgraded == UpgradeExecuted(s, newTotalBatchesExecuted)
    IN [s EXCEPT
           !.totalBatchesExecuted = newTotalBatchesExecuted,
           !.priorityTree.unprocessedIndex = cursor[newTotalBatchesExecuted],
           !.l2LogsRootHashes = ExecutedLogRoots(s, n),
           !.l2SystemContractsUpgradeTxHash = IF upgraded THEN NoTx ELSE @,
           !.l2SystemContractsUpgradeBatchNumber = IF upgraded THEN 0 ELSE @]

\* What the same transaction does to the MessageRoot (_appendMessageRoot).
AppendMessageRoots(s, m, n) ==
    AddChainBatchRoots(m, s.totalBatchesExecuted + 1, s.totalBatchesExecuted + n,
                       ExecutedLogRoots(s, n))

\* Mutants of _revertBatches: executed batches are not protected; one of the
\* resets is forgotten.
CanRevertBatchesExecuted(s, newLastBatch) == newLastBatch <= s.totalBatchesCommitted

RevertBatchesKeepsVerified(s, newLastBatch) ==
    [s EXCEPT
        !.precommitmentForTheLatestBatch = DEFAULT_PRECOMMITMENT,
        !.totalBatchesCommitted = newLastBatch,
        !.l2SystemContractsUpgradeBatchNumber = IF @ > newLastBatch THEN 0 ELSE @]

RevertBatchesKeepsPrecommitment(s, newLastBatch) ==
    [s EXCEPT
        !.totalBatchesVerified = IF newLastBatch < @ THEN newLastBatch ELSE @,
        !.totalBatchesCommitted = newLastBatch,
        !.l2SystemContractsUpgradeBatchNumber = IF @ > newLastBatch THEN 0 ELSE @]

\* _revertBatches
CanRevertBatches(s, newLastBatch) ==
    /\ newLastBatch <= s.totalBatchesCommitted
    /\ s.totalBatchesExecuted <= newLastBatch

RevertBatches(s, newLastBatch) ==
    [s EXCEPT
        !.precommitmentForTheLatestBatch = DEFAULT_PRECOMMITMENT,
        !.totalBatchesVerified = IF newLastBatch < @ THEN newLastBatch ELSE @,
        !.totalBatchesCommitted = newLastBatch,
        !.l2SystemContractsUpgradeBatchNumber = IF @ > newLastBatch THEN 0 ELSE @]

\* revertBatchesSharedBridge
CanRevert(s, sender, newLastBatch) ==
    /\ onlyValidator(s, sender) \/ sender = ChainTypeManager
    /\ notPriorityMode(s)
    /\ CanRevertBatches(s, newLastBatch)

(***************************************************************************)
(* Mailbox facet: _requestL2Transaction and _writePriorityOpHash.  The     *)
(* nonce of a priority transaction is the number of earlier ones, so the   *)
(* hash of a leaf determines its absolute index, and is represented by it. *)
(***************************************************************************)
nextPriorityTxId(s) == getTotalPriorityTxs(s.priorityTree)

\* depositsPaused, on L1 while no migration is in progress.
depositsPaused(s, now) ==
    /\ s.pausedDepositsTimestamp # 0
    /\ s.pausedDepositsTimestamp + PAUSE_DEPOSITS_TIME_WINDOW_START <= now

WritePriorityOpHash(s, op, now) ==
    LET tree == push(s.priorityTree, op) IN
    [s EXCEPT !.priorityTree = tree,
              !.priorityOpsRequestTimestamp[getTotalPriorityTxs(tree) - 1] = now]

(***************************************************************************)
(* Admin facet: validators, Priority Mode, upgrades.                       *)
(***************************************************************************)
SetValidator(s, validator, isActive) ==
    [s EXCEPT !.validators = IF isActive THEN @ \cup {validator} ELSE @ \ {validator}]

\* The pair of DA validators may be an allowed one at any time.
MakePermanentRollup(s) == [s EXCEPT !.isPermanentRollup = TRUE]

firstRequestTimestamp(s) ==
    s.priorityOpsRequestTimestamp[getFirstUnprocessedPriorityTx(s.priorityTree)]

CanPermanentlyAllowPriorityMode(s) ==
    /\ ZKsyncOS
    /\ ~s.priorityModeInfo.canBeActivated
    /\ getSize(s.priorityTree) # 0
    /\ firstRequestTimestamp(s) # 0

PermanentlyAllowPriorityMode(s) == [s EXCEPT !.priorityModeInfo.canBeActivated = TRUE]

\* Mutant: a missing request timestamp is not rejected.
CanActivatePriorityModeNoTimestamp(s, now) ==
    /\ notPriorityMode(s)
    /\ s.priorityModeInfo.canBeActivated
    /\ s.isPermanentRollup
    /\ now >= firstRequestTimestamp(s) + PRIORITY_EXPIRATION

CanActivatePriorityMode(s, now) ==
    /\ notPriorityMode(s)
    /\ s.priorityModeInfo.canBeActivated
    /\ s.isPermanentRollup
    /\ firstRequestTimestamp(s) # 0
    /\ now >= firstRequestTimestamp(s) + PRIORITY_EXPIRATION

\* Mutant: the batches that are not final are not reverted.
ActivatePriorityModeNoRevert(s) == [s EXCEPT !.priorityModeInfo.activated = TRUE]

ActivatePriorityMode(s) ==
    RevertBatches([s EXCEPT !.priorityModeInfo.activated = TRUE], s.totalBatchesExecuted)

DeactivatePriorityMode(s) == [s EXCEPT !.priorityModeInfo.activated = FALSE]

\* Mutant: a minor upgrade does not wait for the previous one.
CanUpgradeUnfinished(s, newVersion, tx) ==
    /\ newVersion > s.protocolVersion
    /\ Minor(newVersion) - Minor(s.protocolVersion) <= MAX_ALLOWED_MINOR_VERSION_DELTA
    /\ tx => Minor(newVersion) # Minor(s.protocolVersion)

\* BaseZkSyncUpgrade.upgrade, run by upgradeChainFromVersion on the settlement
\* layer; `tx` says whether the upgrade carries an L2 upgrade transaction.
CanUpgrade(s, newVersion, tx) ==
    LET patchOnly == Minor(newVersion) = Minor(s.protocolVersion) IN
    /\ newVersion > s.protocolVersion
    /\ ~patchOnly => /\ s.l2SystemContractsUpgradeTxHash = NoTx
                     /\ s.l2SystemContractsUpgradeBatchNumber = 0
    /\ Minor(newVersion) - Minor(s.protocolVersion) <= MAX_ALLOWED_MINOR_VERSION_DELTA
    /\ tx => ~patchOnly

\* The transaction's nonce is the new minor version, which identifies it.
Upgrade(s, newVersion, tx) ==
    [s EXCEPT !.protocolVersion = newVersion,
              !.l2SystemContractsUpgradeTxHash = IF tx THEN Minor(newVersion) ELSE @]

(***************************************************************************)
(* Migrator facet: pausing deposits, while the chain settles on L1.        *)
(***************************************************************************)
CanPauseDeposits(s) ==
    /\ ~s.priorityModeInfo.canBeActivated
    /\ s.pausedDepositsTimestamp = 0

\* A chain without any priority transaction pauses at once.
PauseDeposits(s, now) ==
    [s EXCEPT !.pausedDepositsTimestamp =
        IF getTotalPriorityTxs(s.priorityTree) = 0
        THEN now - PAUSE_DEPOSITS_TIME_WINDOW_START
        ELSE now]

UnpauseDeposits(s) == [s EXCEPT !.pausedDepositsTimestamp = 0]

=============================================================================
