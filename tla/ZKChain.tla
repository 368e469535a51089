------------------------------- MODULE ZKChain -------------------------------
(***************************************************************************)
(* One ZK chain on its settlement layer: batches are committed, proven,    *)
(* executed and reverted by validators, users push priority operations,    *)
(* the CTM's owner upgrades the chain, and Priority Mode lets anybody      *)
(* settle batches of overdue priority operations.  Every action is one     *)
(* transaction.                                                            *)
(***************************************************************************)
EXTENDS ZKChainBase

VARIABLES
    s,              \* the diamond's storage
    messageRoot,    \* the settlement layer's MessageRoot, for this chain
    now,            \* block.timestamp of the settlement layer
    (* History, read by no action: *)
    proven,         \* for each verified batch, the public input of its proof
    processedUpTo,  \* for each executed batch, the unprocessedIndex after it
    scheduled,      \* upgrade transactions ever scheduled
    precommitBatch  \* the batch the current precommitment was made for, or 0

historyVars == <<proven, processedUpTo, scheduled, precommitBatch>>
vars == <<s, messageRoot, now, proven, processedUpTo, scheduled, precommitBatch>>

NoProof == <<>>

Init ==
    /\ s = [validators |-> Validators,
            totalBatchesExecuted |-> 0,
            totalBatchesVerified |-> 0,
            totalBatchesCommitted |-> 0,
            storedBatchHashes |->
                [n \in 0 .. MaxBatches |-> IF n = 0 THEN GenesisBatch ELSE NoBatch],
            l2LogsRootHashes |-> [n \in 0 .. MaxBatches |-> NoRoot],
            protocolVersion |-> InitVersion,
            l2SystemContractsUpgradeTxHash |-> Minor(InitVersion),
            l2SystemContractsUpgradeBatchNumber |-> 0,
            priorityTree |-> setup(StartIndex),
            isPermanentRollup |-> FALSE,
            precommitmentForTheLatestBatch |-> DEFAULT_PRECOMMITMENT,
            priorityModeInfo |-> [canBeActivated |-> FALSE, activated |-> FALSE],
            priorityOpsRequestTimestamp |-> [i \in 0 .. StartIndex + MaxOps |-> 0],
            pausedDepositsTimestamp |-> 0]
    /\ messageRoot = addNewChain(0, MaxBatches)
    /\ now = InitTime
    /\ proven = [n \in 0 .. MaxBatches |-> NoProof]
    /\ processedUpTo = [n \in 0 .. MaxBatches |-> 0]
    /\ scheduled = {Minor(InitVersion)}
    /\ precommitBatch = 0

(***************************************************************************)
(* History bookkeeping.                                                    *)
(***************************************************************************)
\* Batches first .. last were proven, which leaves the storage `after`.
RecordProofs(first, last, after) ==
    [k \in 0 .. MaxBatches |->
        IF k \in first .. last
        THEN PublicInput(after.storedBatchHashes[k - 1], after.storedBatchHashes[k])
        ELSE IF k <= after.totalBatchesVerified THEN proven[k] ELSE NoProof]

RecordCursor(before, after, cursor) ==
    [k \in 0 .. MaxBatches |->
        IF k \in before.totalBatchesExecuted + 1 .. after.totalBatchesExecuted
        THEN cursor[k]
        ELSE processedUpTo[k]]

KeepPrecommitBatch(after) ==
    IF after.precommitmentForTheLatestBatch = DEFAULT_PRECOMMITMENT THEN 0 ELSE precommitBatch

(***************************************************************************)
(* Inputs.                                                                 *)
(***************************************************************************)
\* The batches worth submitting: the next number, an upgrade transaction that is
\* expected or none.
NewBatches ==
    {[batchNumber |-> s.totalBatchesCommitted + 1, timestamp |-> time, upgradeTx |-> tx,
      root |-> c.root, ops |-> c.ops, chunks |-> c.chunks] :
        time \in IF ZKsyncOS THEN {0} ELSE Times,
        tx \in {NoTx, s.l2SystemContractsUpgradeTxHash},
        c \in Contents}

\* How many batches it is worth trying to execute.
VerifiedCounts == 1 .. s.totalBatchesVerified - s.totalBatchesExecuted

\* The cursors of n executions in a row, with room for one that runs past the
\* last operation.
Cursors(from, n) == [from .. from + n -> 0 .. MaxOps + 1]

(***************************************************************************)
(* Batches.                                                                *)
(***************************************************************************)
precommitSharedBridge(sender, chunk) ==
    /\ \/ s.precommitmentForTheLatestBatch = DEFAULT_PRECOMMITMENT
       \/ Len(s.precommitmentForTheLatestBatch) < MaxChunks
    /\ CanPrecommit(s, sender, s.totalBatchesCommitted + 1)
    /\ s' = Precommit(s, chunk)
    /\ precommitBatch' = s.totalBatchesCommitted + 1
    /\ UNCHANGED <<messageRoot, now, proven, processedUpTo, scheduled>>

commitBatchesSharedBridge(sender, active, b) ==
    /\ s.totalBatchesCommitted < MaxBatches
    /\ CanCommit(s, sender, active, b, now)
    /\ s' = Commit(s, b)
    /\ precommitBatch' = KeepPrecommitBatch(s')
    /\ UNCHANGED <<messageRoot, now, proven, processedUpTo, scheduled>>

proveBatchesSharedBridge(sender, n) ==
    /\ CanProve(s, sender, n)
    /\ s' = Prove(s, n)
    /\ proven' = RecordProofs(s.totalBatchesVerified + 1, s.totalBatchesVerified + n, s')
    /\ UNCHANGED <<messageRoot, now, processedUpTo, scheduled, precommitBatch>>

executeBatchesSharedBridge(sender, n, cursor) ==
    /\ CanExecute(s, messageRoot, sender, n, cursor)
    /\ s' = Execute(s, n, cursor)
    /\ messageRoot' = AppendMessageRoots(s, messageRoot, n)
    /\ processedUpTo' = RecordCursor(s, s', cursor)
    /\ UNCHANGED <<now, proven, scheduled, precommitBatch>>

revertBatchesSharedBridge(sender, newLastBatch) ==
    /\ CanRevert(s, sender, newLastBatch)
    /\ s' = RevertBatches(s, newLastBatch)
    /\ proven' = RecordProofs(1, 0, s')
    /\ precommitBatch' = KeepPrecommitBatch(s')
    /\ UNCHANGED <<messageRoot, now, processedUpTo, scheduled>>

\* PermissionlessValidator.settleBatchesSharedBridge: commit, prove and execute
\* one batch in one transaction, called by anybody.
settleBatchesSharedBridge(active, b, cursor) ==
    LET committed == Commit(s, b)
        verified == Prove(committed, 1)
    IN /\ s.totalBatchesCommitted < MaxBatches
       /\ CanCommit(s, PermissionlessValidator, active, b, now)
       /\ CanProve(committed, PermissionlessValidator, 1)
       /\ committed.totalBatchesVerified + 1 = b.batchNumber
       /\ CanExecute(verified, messageRoot, PermissionlessValidator, 1, cursor)
       /\ committed.totalBatchesExecuted + 1 = b.batchNumber
       /\ s' = Execute(verified, 1, cursor)
       /\ messageRoot' = AppendMessageRoots(verified, messageRoot, 1)
       /\ proven' = RecordProofs(b.batchNumber, b.batchNumber, s')
       /\ processedUpTo' = RecordCursor(s, s', cursor)
       /\ precommitBatch' = KeepPrecommitBatch(s')
       /\ UNCHANGED <<now, scheduled>>

(***************************************************************************)
(* Users.                                                                  *)
(***************************************************************************)
requestL2Transaction ==
    /\ Len(s.priorityTree.leaves) < MaxOps
    /\ ~depositsPaused(s, now)
    /\ s' = WritePriorityOpHash(s, nextPriorityTxId(s), now)
    /\ UNCHANGED <<messageRoot, now>> /\ UNCHANGED historyVars

activatePriorityMode ==
    /\ CanActivatePriorityMode(s, now)
    /\ s' = ActivatePriorityMode(s)
    /\ proven' = RecordProofs(1, 0, s')
    /\ precommitBatch' = KeepPrecommitBatch(s')
    /\ UNCHANGED <<messageRoot, now, processedUpTo, scheduled>>

(***************************************************************************)
(* The chain's admin.                                                      *)
(***************************************************************************)
makePermanentRollup ==
    /\ ~s.isPermanentRollup
    /\ s' = MakePermanentRollup(s)
    /\ UNCHANGED <<messageRoot, now>> /\ UNCHANGED historyVars

permanentlyAllowPriorityMode ==
    /\ CanPermanentlyAllowPriorityMode(s)
    /\ s' = PermanentlyAllowPriorityMode(s)
    /\ UNCHANGED <<messageRoot, now>> /\ UNCHANGED historyVars

pauseDepositsBeforeInitiatingMigration ==
    /\ CanPauseDeposits(s)
    /\ s' = PauseDeposits(s, now)
    /\ UNCHANGED <<messageRoot, now>> /\ UNCHANGED historyVars

unpauseDeposits ==
    /\ s.pausedDepositsTimestamp # 0
    /\ s' = UnpauseDeposits(s)
    /\ UNCHANGED <<messageRoot, now>> /\ UNCHANGED historyVars

(***************************************************************************)
(* The CTM and its owner.                                                  *)
(***************************************************************************)
setValidator(validator, isActive) ==
    /\ s' = SetValidator(s, validator, isActive)
    /\ UNCHANGED <<messageRoot, now>> /\ UNCHANGED historyVars

deactivatePriorityMode ==
    /\ s.priorityModeInfo.activated
    /\ s' = DeactivatePriorityMode(s)
    /\ UNCHANGED <<messageRoot, now>> /\ UNCHANGED historyVars

\* The owner may register any upgrade of the chain's version.
upgradeChainFromVersion(newVersion, tx) ==
    /\ CanUpgrade(s, newVersion, tx)
    /\ s' = Upgrade(s, newVersion, tx)
    /\ scheduled' = IF tx THEN scheduled \cup {Minor(newVersion)} ELSE scheduled
    /\ UNCHANGED <<messageRoot, now, proven, processedUpTo, precommitBatch>>

Tick ==
    /\ now < MaxTime
    /\ now' = now + 1
    /\ UNCHANGED <<s, messageRoot>> /\ UNCHANGED historyVars

ValidatorStep ==
    \E v \in Validators :
        \/ \E chunk \in Chunks : precommitSharedBridge(v, chunk)
        \/ \E active \in BOOLEAN, b \in NewBatches : commitBatchesSharedBridge(v, active, b)
        \/ \E n \in 1 .. MaxBatches : proveBatchesSharedBridge(v, n)
        \/ \E n \in VerifiedCounts : \E cursor \in Cursors(s.totalBatchesExecuted, n) :
              executeBatchesSharedBridge(v, n, cursor)
        \/ \E newLastBatch \in 0 .. MaxBatches : revertBatchesSharedBridge(v, newLastBatch)

\* The guard of the commit is repeated here since most states fail it.
SettleStep ==
    /\ onlyValidatorOrPriorityMode(s, PermissionlessValidator)
    /\ \E active \in BOOLEAN, b \in NewBatches, cursor \in Cursors(s.totalBatchesExecuted, 1) :
          settleBatchesSharedBridge(active, b, cursor)

UserStep == requestL2Transaction \/ activatePriorityMode \/ SettleStep

AdminStep ==
    \/ makePermanentRollup
    \/ permanentlyAllowPriorityMode
    \/ pauseDepositsBeforeInitiatingMigration
    \/ unpauseDeposits

GovernanceStep ==
    \/ \E v \in Validators, isActive \in BOOLEAN : setValidator(v, isActive)
    \/ \E newLastBatch \in 0 .. MaxBatches :
          revertBatchesSharedBridge(ChainTypeManager, newLastBatch)
    \/ deactivatePriorityMode
    \/ \E newVersion \in 0 .. MaxVersion, tx \in BOOLEAN :
          upgradeChainFromVersion(newVersion, tx)

Next == ValidatorStep \/ UserStep \/ AdminStep \/ GovernanceStep \/ Tick

Spec == Init /\ [][Next]_vars

(***************************************************************************)
(* Invariants.                                                             *)
(***************************************************************************)

\* The type of every variable.
TypeOK ==
    /\ s \in ZKChainStorage
    /\ messageRoot \in [currentChainBatchNumber : Nat,
                       chainBatchRoots : [0 .. MaxBatches -> LogRoots]]
    /\ now \in Nat
    /\ DOMAIN proven = 0 .. MaxBatches
    /\ processedUpTo \in [0 .. MaxBatches -> Nat]
    /\ scheduled \subseteq Nat
    /\ precommitBatch \in Nat

\* A batch is executed only once it is verified, and verified only once it is
\* committed, whatever is reverted in between; the batch stored under a number
\* up to the last committed one has that number.
CountersOrdered ==
    /\ s.totalBatchesExecuted <= s.totalBatchesVerified
    /\ s.totalBatchesVerified <= s.totalBatchesCommitted
    /\ s.totalBatchesCommitted <= MaxBatches
    /\ \A k \in 0 .. s.totalBatchesCommitted :
          s.storedBatchHashes[k] \in Batch /\ s.storedBatchHashes[k].batchNumber = k

\* The proof that made a batch verified is about the batches stored now: no
\* batch keeps a verification that a reverted predecessor, or a reverted batch
\* of its own number, obtained (_revertBatches lowers totalBatchesVerified).
ProofsCoverStoredBatches ==
    \A k \in 1 .. s.totalBatchesVerified :
        proven[k] = PublicInput(s.storedBatchHashes[k - 1], s.storedBatchHashes[k])

\* The executed batches consume the priority queue in order, each operation
\* once: the operations of batch k are the leaves between the cursor left by
\* batch k - 1 and its own (_executeOneBatch, PriorityTree.processBatch).
PriorityOpsInOrder ==
    /\ processedUpTo[0] = 0
    /\ processedUpTo[s.totalBatchesExecuted] = s.priorityTree.unprocessedIndex
    /\ s.priorityTree.unprocessedIndex <= Len(s.priorityTree.leaves)
    /\ \A k \in 1 .. s.totalBatchesExecuted :
          /\ processedUpTo[k] = processedUpTo[k - 1] + Len(s.storedBatchHashes[k].ops)
          /\ IsSegment(s.priorityTree.leaves, processedUpTo[k - 1], s.storedBatchHashes[k].ops)

\* The MessageRoot and the chain agree on what was sent to L1: its roots are the
\* log roots of the executed batches, and "for all batches starting from
\* currentChainBatchNumber + 1, the chainBatchRoots is 0" (MessageRootBase.sol),
\* so that execution is never blocked by a root that is already there.
MessageRootFollowsExecution ==
    /\ messageRoot.currentChainBatchNumber = s.totalBatchesExecuted
    /\ messageRoot.chainBatchRoots = s.l2LogsRootHashes
    /\ \A k \in 1 .. MaxBatches :
          messageRoot.chainBatchRoots[k] =
              IF k <= s.totalBatchesExecuted THEN l2LogsTreeRoot(s.storedBatchHashes[k]) ELSE NoRoot

\* While l2SystemContractsUpgradeBatchNumber is set, it names a committed batch
\* that is not executed yet and contains the pending upgrade transaction.
UpgradeBatchTracked ==
    LET u == s.l2SystemContractsUpgradeBatchNumber IN
    u # 0 => /\ s.l2SystemContractsUpgradeTxHash # NoTx
             /\ s.totalBatchesExecuted < u /\ u <= s.totalBatchesCommitted
             /\ s.storedBatchHashes[u].upgradeTx = s.l2SystemContractsUpgradeTxHash

\* Every upgrade transaction that was scheduled is still pending or is part of
\* an executed batch, and no two committed batches contain the same one: an
\* upgrade is neither skipped nor repeated by reverts and new upgrades.
UpgradeExactlyOnce ==
    /\ \A u \in scheduled :
          \/ u = s.l2SystemContractsUpgradeTxHash
          \/ \E k \in 1 .. s.totalBatchesExecuted : s.storedBatchHashes[k].upgradeTx = u
    /\ \A i, j \in 1 .. s.totalBatchesCommitted :
          /\ s.storedBatchHashes[i].upgradeTx # NoTx
          /\ s.storedBatchHashes[i].upgradeTx = s.storedBatchHashes[j].upgradeTx
          => i = j

\* A precommitment always is for the batch to be committed next ("the latest
\* uncommitted batch (i.e. totalBatchesCommitted + 1)"): one made for a batch
\* number is gone once that number is committed or reverted.
PrecommitmentForNextBatch ==
    s.precommitmentForTheLatestBatch # DEFAULT_PRECOMMITMENT =>
        precommitBatch = s.totalBatchesCommitted + 1

\* The batches of an Era chain have increasing timestamps, none of them further
\* ahead of the settlement layer than _verifyBatchTimestamp allows.
BatchTimestampsIncrease ==
    ~ZKsyncOS => \A k \in 1 .. s.totalBatchesCommitted :
        /\ s.storedBatchHashes[k - 1].timestamp < s.storedBatchHashes[k].timestamp
        /\ s.storedBatchHashes[k].timestamp <= now + COMMIT_TIMESTAMP_APPROXIMATION_DELTA

\* In Priority Mode nothing is left half settled: activation drops every batch
\* that is not final, and from then on whole batches are settled at once, so
\* that "commit, prove, and execute batches in one go" never meets a batch of
\* the validators.
PriorityModeHasNoPendingBatch ==
    s.priorityModeInfo.activated => s.totalBatchesCommitted = s.totalBatchesExecuted

\* Time does not run backwards from the creation of the chain.
TimeOK == InitTime <= now

\* Whatever is reverted, by whom and when: the six invariants above hold at once.
\* They are inductive together: a revert is harmless to the proofs of the
\* remaining batches because the counters are ordered, and the pending upgrade
\* is tracked correctly because the number of its batch is one of them.
SafetyInv ==
    /\ TypeOK
    /\ TimeOK
    /\ CountersOrdered
    /\ ProofsCoverStoredBatches
    /\ MessageRootFollowsExecution
    /\ UpgradeBatchTracked
    /\ PriorityModeHasNoPendingBatch

(***************************************************************************)
(* Action properties.                                                      *)
(***************************************************************************)

\* Executed batches are final: the number of executed batches never falls, and
\* what is stored for an executed batch never changes.
ExecutedIsFinal ==
    [][ /\ s.totalBatchesExecuted <= s'.totalBatchesExecuted
        /\ \A k \in 0 .. s.totalBatchesExecuted :
              s'.storedBatchHashes[k] = s.storedBatchHashes[k] ]_vars

\* Priority Mode is only activated when the oldest operation of the queue has
\* waited for PRIORITY_EXPIRATION.
ActivationNeedsOverdueOp ==
    [][ ~s.priorityModeInfo.activated /\ s'.priorityModeInfo.activated =>
          /\ getSize(s.priorityTree) > 0
          /\ LET oldest == s.priorityTree.leaves[s.priorityTree.unprocessedIndex + 1]
             IN now >= s.priorityOpsRequestTimestamp[oldest] + PRIORITY_EXPIRATION ]_vars

\* A batch that becomes final while Priority Mode is active contains priority
\* operations and no transactions of L2 users (it may contain a pending upgrade
\* transaction).
PriorityModeBatches ==
    [][ \A k \in s.totalBatchesExecuted + 1 .. s'.totalBatchesExecuted :
           s.priorityModeInfo.activated =>
              s'.storedBatchHashes[k].chunks = <<>> /\ s'.storedBatchHashes[k].ops # <<>> ]_vars

=============================================================================
