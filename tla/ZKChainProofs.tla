---------------------------- MODULE ZKChainProofs ----------------------------
(***************************************************************************)
(* Proofs that the invariants of ZKChain hold for every value of its       *)
(* constants.                                                              *)
(*                                                                         *)
(* The first part says what every function of the facets leaves in the     *)
(* storage: its type, and the fields it changes and keeps.  The proofs     *)
(* about the specification cite these lemmas, not the definitions.         *)
(***************************************************************************)
EXTENDS ZKChain, TLAPS

(***************************************************************************)
(* Groups of fields that a function keeps.                                 *)
(***************************************************************************)
KeepsCounters(st, new) ==
    /\ new.totalBatchesExecuted = st.totalBatchesExecuted
    /\ new.totalBatchesVerified = st.totalBatchesVerified
    /\ new.totalBatchesCommitted = st.totalBatchesCommitted

KeepsBatches(st, new) ==
    /\ new.storedBatchHashes = st.storedBatchHashes
    /\ new.l2LogsRootHashes = st.l2LogsRootHashes

KeepsUpgrade(st, new) ==
    /\ new.protocolVersion = st.protocolVersion
    /\ new.l2SystemContractsUpgradeTxHash = st.l2SystemContractsUpgradeTxHash
    /\ new.l2SystemContractsUpgradeBatchNumber = st.l2SystemContractsUpgradeBatchNumber

KeepsQueue(st, new) ==
    /\ new.priorityTree = st.priorityTree
    /\ new.priorityOpsRequestTimestamp = st.priorityOpsRequestTimestamp

KeepsMode(st, new) ==
    /\ new.priorityModeInfo = st.priorityModeInfo
    /\ new.isPermanentRollup = st.isPermanentRollup

KeepsPrecommitment(st, new) ==
    new.precommitmentForTheLatestBatch = st.precommitmentForTheLatestBatch

(***************************************************************************)
(* Committer.                                                              *)
(***************************************************************************)

\* precommitSharedBridge changes the precommitment only.
LEMMA PrecommitEffect ==
    ASSUME NEW st \in ZKChainStorage, NEW chunk \in Chunks
    PROVE  LET new == Precommit(st, chunk) IN
           /\ new \in ZKChainStorage
           /\ KeepsCounters(st, new) /\ KeepsBatches(st, new) /\ KeepsUpgrade(st, new)
           /\ KeepsQueue(st, new) /\ KeepsMode(st, new)
           /\ new.precommitmentForTheLatestBatch # DEFAULT_PRECOMMITMENT
<1> DEFINE old == st.precommitmentForTheLatestBatch
           value == IF old = DEFAULT_PRECOMMITMENT THEN <<chunk>> ELSE Append(old, chunk)
<1>1. chunk \in Nat /\ chunk # 0 /\ old \in Seq(Nat)
  BY ConstantsAssumption, Zenon DEF ZKChainStorage
<1>2. value \in Seq(Nat)
  BY <1>1
<1>3. value # DEFAULT_PRECOMMITMENT
  <2>1. CASE old = DEFAULT_PRECOMMITMENT
    BY <1>1, <2>1, Zenon DEF DEFAULT_PRECOMMITMENT
  <2>2. CASE old # DEFAULT_PRECOMMITMENT
    <3>1. value = Append(old, chunk) /\ value[Len(value)] = chunk
      BY <1>1, <2>2
    <3>2. DEFAULT_PRECOMMITMENT[Len(DEFAULT_PRECOMMITMENT)] = 0
      BY Zenon DEF DEFAULT_PRECOMMITMENT
    <3> QED BY <1>1, <3>1, <3>2
  <2> QED BY <2>1, <2>2
<1>4. Precommit(st, chunk) = [st EXCEPT !.precommitmentForTheLatestBatch = value]
  BY DEF Precommit
<1> HIDE DEF value
<1> QED
  BY <1>2, <1>3, <1>4, Zenon DEF ZKChainStorage, KeepsCounters, KeepsBatches, KeepsUpgrade, KeepsQueue, KeepsMode

\* What Commit makes of the storage.
CommitResult(old, b, new) ==
    /\ new \in ZKChainStorage
    /\ new.totalBatchesExecuted = old.totalBatchesExecuted
    /\ new.totalBatchesVerified = old.totalBatchesVerified
    /\ new.totalBatchesCommitted = old.totalBatchesCommitted + 1
    /\ new.storedBatchHashes = [old.storedBatchHashes EXCEPT ![b.batchNumber] = b]
    /\ new.l2LogsRootHashes = old.l2LogsRootHashes
    /\ new.protocolVersion = old.protocolVersion
    /\ new.l2SystemContractsUpgradeTxHash = old.l2SystemContractsUpgradeTxHash
    /\ new.l2SystemContractsUpgradeBatchNumber =
          IF ExpectedUpgradeTx(old) # NoTx
          THEN b.batchNumber ELSE old.l2SystemContractsUpgradeBatchNumber
    /\ KeepsQueue(old, new) /\ KeepsMode(old, new)
    /\ ~ZKsyncOS => new.precommitmentForTheLatestBatch = DEFAULT_PRECOMMITMENT
    /\ ZKsyncOS => KeepsPrecommitment(old, new)

\* commitBatchesSharedBridge stores the batch under its number.
LEMMA CommitEffect ==
    ASSUME NEW st \in ZKChainStorage, NEW b \in Batch
    PROVE  CommitResult(st, b, Commit(st, b))
<1> DEFINE stored == [st.storedBatchHashes EXCEPT ![b.batchNumber] = b]
           committed == st.totalBatchesCommitted + 1
           upgrade == IF ExpectedUpgradeTx(st) # NoTx
                      THEN b.batchNumber ELSE st.l2SystemContractsUpgradeBatchNumber
           precommitment == IF ZKsyncOS THEN st.precommitmentForTheLatestBatch
                            ELSE DEFAULT_PRECOMMITMENT
<1>1. stored \in [0 .. MaxBatches -> Batch \cup {NoBatch}]
  BY Zenon DEF ZKChainStorage
<1>2. committed \in Nat /\ upgrade \in Nat
  BY DEF ZKChainStorage, Batch
<1>3. precommitment \in Seq(Nat)
  BY DEF ZKChainStorage, DEFAULT_PRECOMMITMENT
<1>4. Commit(st, b) = [st EXCEPT !.storedBatchHashes = stored, !.totalBatchesCommitted = committed,
                               !.l2SystemContractsUpgradeBatchNumber = upgrade,
                               !.precommitmentForTheLatestBatch = precommitment]
  BY Zenon DEF Commit, ZKChainStorage
<1>5. ~ZKsyncOS => precommitment = DEFAULT_PRECOMMITMENT
  BY Zenon
<1>6. ZKsyncOS => precommitment = st.precommitmentForTheLatestBatch
  BY Zenon
<1> HIDE DEF stored, committed, upgrade, precommitment
<1>7. /\ Commit(st, b) \in ZKChainStorage
      /\ Commit(st, b).precommitmentForTheLatestBatch = precommitment
      /\ Commit(st, b).storedBatchHashes = stored
      /\ Commit(st, b).totalBatchesCommitted = committed
      /\ Commit(st, b).l2SystemContractsUpgradeBatchNumber = upgrade
  BY <1>1, <1>2, <1>3, <1>4, ZenonT(40) DEF ZKChainStorage
<1>8. LET new == Commit(st, b) IN
      /\ new.totalBatchesExecuted = st.totalBatchesExecuted
      /\ new.totalBatchesVerified = st.totalBatchesVerified
      /\ new.l2LogsRootHashes = st.l2LogsRootHashes
      /\ new.protocolVersion = st.protocolVersion
      /\ new.l2SystemContractsUpgradeTxHash = st.l2SystemContractsUpgradeTxHash
      /\ KeepsQueue(st, new) /\ KeepsMode(st, new)
  BY <1>4 DEF ZKChainStorage, KeepsQueue, KeepsMode
<1> QED
  BY <1>5, <1>6, <1>7, <1>8, Zenon DEF CommitResult, stored, committed, upgrade, KeepsPrecommitment

(***************************************************************************)
(* Executor.                                                               *)
(***************************************************************************)

\* proveBatchesSharedBridge moves totalBatchesVerified only.
LEMMA ProveEffect ==
    ASSUME NEW st \in ZKChainStorage, NEW n \in Nat
    PROVE  LET new == Prove(st, n) IN
           /\ new \in ZKChainStorage
           /\ new.totalBatchesExecuted = st.totalBatchesExecuted
           /\ new.totalBatchesVerified = st.totalBatchesVerified + n
           /\ new.totalBatchesCommitted = st.totalBatchesCommitted
           /\ KeepsBatches(st, new) /\ KeepsUpgrade(st, new) /\ KeepsQueue(st, new)
           /\ KeepsMode(st, new) /\ KeepsPrecommitment(st, new)
<1> DEFINE verified == st.totalBatchesVerified + n
<1>1. verified \in Nat
  BY DEF ZKChainStorage
<1>2. Prove(st, n) = [st EXCEPT !.totalBatchesVerified = verified]
  BY Zenon DEF Prove
<1> HIDE DEF verified
<1>3. LET new == Prove(st, n) IN
      /\ new \in ZKChainStorage
      /\ new.totalBatchesExecuted = st.totalBatchesExecuted
      /\ new.totalBatchesVerified = verified
      /\ new.totalBatchesCommitted = st.totalBatchesCommitted
      /\ KeepsBatches(st, new) /\ KeepsUpgrade(st, new) /\ KeepsQueue(st, new)
      /\ KeepsMode(st, new) /\ KeepsPrecommitment(st, new)
  BY <1>1, <1>2, SMTT(30)
  DEF ZKChainStorage, KeepsBatches, KeepsUpgrade, KeepsQueue, KeepsMode, KeepsPrecommitment
<1> QED
  BY <1>3, Zenon DEF verified

\* The log roots saved by an execution of stored batches have their type.
LEMMA ExecutedLogRootsType ==
    ASSUME NEW st \in ZKChainStorage, NEW n \in Nat,
           \A k \in st.totalBatchesExecuted + 1 .. st.totalBatchesExecuted + n :
              k \in 0 .. MaxBatches => st.storedBatchHashes[k] \in Batch
    PROVE  ExecutedLogRoots(st, n) \in [0 .. MaxBatches -> LogRoots]
<1>1. st.l2LogsRootHashes \in [0 .. MaxBatches -> LogRoots]
  BY Zenon DEF ZKChainStorage
<1>2. \A b \in Batch : l2LogsTreeRoot(b) \in LogRoots
  BY Zenon DEF Batch, l2LogsTreeRoot, LogRoots
<1> QED
  BY <1>1, <1>2, Zenon DEF ExecutedLogRoots

\* What Execute makes of the storage.
ExecuteResult(old, n, cursor, new) ==
    LET upgraded == UpgradeExecuted(old, old.totalBatchesExecuted + n) IN
    /\ new \in ZKChainStorage
    /\ new.totalBatchesExecuted = old.totalBatchesExecuted + n
    /\ new.totalBatchesVerified = old.totalBatchesVerified
    /\ new.totalBatchesCommitted = old.totalBatchesCommitted
    /\ new.storedBatchHashes = old.storedBatchHashes
    /\ new.l2LogsRootHashes = ExecutedLogRoots(old, n)
    /\ new.priorityTree =
          [old.priorityTree EXCEPT !.unprocessedIndex = cursor[old.totalBatchesExecuted + n]]
    /\ new.protocolVersion = old.protocolVersion
    /\ new.l2SystemContractsUpgradeTxHash =
          IF upgraded THEN NoTx ELSE old.l2SystemContractsUpgradeTxHash
    /\ new.l2SystemContractsUpgradeBatchNumber =
          IF upgraded THEN 0 ELSE old.l2SystemContractsUpgradeBatchNumber
    /\ new.priorityOpsRequestTimestamp = old.priorityOpsRequestTimestamp
    /\ KeepsMode(old, new) /\ KeepsPrecommitment(old, new)

\* executeBatchesSharedBridge moves totalBatchesExecuted and the cursor of the
\* priority tree, saves the log roots and clears an upgrade that is executed.
LEMMA ExecuteEffect ==
    ASSUME NEW st \in ZKChainStorage, NEW n \in Nat, NEW cursor,
           cursor[st.totalBatchesExecuted + n] \in Nat,
           ExecutedLogRoots(st, n) \in [0 .. MaxBatches -> LogRoots]
    PROVE  ExecuteResult(st, n, cursor, Execute(st, n, cursor))
<1> DEFINE executed == st.totalBatchesExecuted + n
           upgraded == UpgradeExecuted(st, executed)
           tree == [st.priorityTree EXCEPT !.unprocessedIndex = cursor[executed]]
           logs == ExecutedLogRoots(st, n)
           tx == IF upgraded THEN NoTx ELSE st.l2SystemContractsUpgradeTxHash
           batch == IF upgraded THEN 0 ELSE st.l2SystemContractsUpgradeBatchNumber
<1>1. executed \in Nat /\ tx \in Nat /\ batch \in Nat
  BY DEF ZKChainStorage, NoTx
<1>2. tree \in Tree(Nat)
  BY Zenon DEF ZKChainStorage, Tree
<1>3. logs \in [0 .. MaxBatches -> LogRoots]
  BY Zenon
<1>4. Execute(st, n, cursor) =
        [st EXCEPT !.totalBatchesExecuted = executed, !.priorityTree = tree,
                  !.l2LogsRootHashes = logs, !.l2SystemContractsUpgradeTxHash = tx,
                  !.l2SystemContractsUpgradeBatchNumber = batch]
  BY Zenon DEF Execute, ZKChainStorage
<1> HIDE DEF executed, upgraded, tree, logs, tx, batch
<1>5. LET new == Execute(st, n, cursor) IN
      /\ new \in ZKChainStorage
      /\ new.totalBatchesExecuted = executed
      /\ new.priorityTree = tree
      /\ new.l2LogsRootHashes = logs
      /\ new.l2SystemContractsUpgradeTxHash = tx
      /\ new.l2SystemContractsUpgradeBatchNumber = batch
  BY <1>1, <1>2, <1>3, <1>4, ZenonT(40) DEF ZKChainStorage
<1>6. LET new == Execute(st, n, cursor) IN
      /\ new.totalBatchesVerified = st.totalBatchesVerified
      /\ new.totalBatchesCommitted = st.totalBatchesCommitted
      /\ new.storedBatchHashes = st.storedBatchHashes
      /\ new.protocolVersion = st.protocolVersion
      /\ new.priorityOpsRequestTimestamp = st.priorityOpsRequestTimestamp
      /\ KeepsMode(st, new) /\ KeepsPrecommitment(st, new)
  BY <1>4 DEF ZKChainStorage, KeepsMode, KeepsPrecommitment
<1> QED
  BY <1>5, <1>6, Zenon DEF ExecuteResult, executed, upgraded, tree, logs, tx, batch

\* _revertBatches lowers the counters of committed and verified batches.
LEMMA RevertEffect ==
    ASSUME NEW st \in ZKChainStorage, NEW newLastBatch \in Nat
    PROVE  LET new == RevertBatches(st, newLastBatch) IN
           /\ new \in ZKChainStorage
           /\ new.totalBatchesExecuted = st.totalBatchesExecuted
           /\ new.totalBatchesVerified =
                 IF newLastBatch < st.totalBatchesVerified
                 THEN newLastBatch ELSE st.totalBatchesVerified
           /\ new.totalBatchesCommitted = newLastBatch
           /\ new.l2SystemContractsUpgradeBatchNumber =
                 IF st.l2SystemContractsUpgradeBatchNumber > newLastBatch
                 THEN 0 ELSE st.l2SystemContractsUpgradeBatchNumber
           /\ new.protocolVersion = st.protocolVersion
           /\ new.l2SystemContractsUpgradeTxHash = st.l2SystemContractsUpgradeTxHash
           /\ new.precommitmentForTheLatestBatch = DEFAULT_PRECOMMITMENT
           /\ KeepsBatches(st, new) /\ KeepsQueue(st, new) /\ KeepsMode(st, new)
<1> DEFINE verified == IF newLastBatch < st.totalBatchesVerified
                       THEN newLastBatch ELSE st.totalBatchesVerified
           batch == IF st.l2SystemContractsUpgradeBatchNumber > newLastBatch
                    THEN 0 ELSE st.l2SystemContractsUpgradeBatchNumber
<1>1. verified \in Nat /\ batch \in Nat
  BY Zenon DEF ZKChainStorage
<1>2. DEFAULT_PRECOMMITMENT \in Seq(Nat)
  BY DEF DEFAULT_PRECOMMITMENT
<1>3. RevertBatches(st, newLastBatch) =
        [st EXCEPT !.precommitmentForTheLatestBatch = DEFAULT_PRECOMMITMENT,
                  !.totalBatchesVerified = verified,
                  !.totalBatchesCommitted = newLastBatch,
                  !.l2SystemContractsUpgradeBatchNumber = batch]
  BY Zenon DEF RevertBatches, ZKChainStorage
<1> HIDE DEF verified, batch
<1>4. LET new == RevertBatches(st, newLastBatch) IN
      /\ new \in ZKChainStorage
      /\ new.totalBatchesVerified = verified
      /\ new.totalBatchesCommitted = newLastBatch
      /\ new.l2SystemContractsUpgradeBatchNumber = batch
      /\ new.precommitmentForTheLatestBatch = DEFAULT_PRECOMMITMENT
  BY <1>1, <1>2, <1>3, ZenonT(40) DEF ZKChainStorage
<1>5. LET new == RevertBatches(st, newLastBatch) IN
      /\ new.totalBatchesExecuted = st.totalBatchesExecuted
      /\ new.protocolVersion = st.protocolVersion
      /\ new.l2SystemContractsUpgradeTxHash = st.l2SystemContractsUpgradeTxHash
      /\ KeepsBatches(st, new) /\ KeepsQueue(st, new) /\ KeepsMode(st, new)
  BY <1>3, Zenon DEF ZKChainStorage, KeepsBatches, KeepsQueue, KeepsMode
<1> QED
  BY <1>4, <1>5, Zenon DEF verified, batch

(***************************************************************************)
(* Mailbox, Admin, Migrator.                                               *)
(***************************************************************************)

\* A request appends to the priority tree and records its time.
LEMMA WritePriorityOpHashEffect ==
    ASSUME NEW st \in ZKChainStorage, NEW op \in Nat, NEW timestamp \in Nat
    PROVE  LET new == WritePriorityOpHash(st, op, timestamp) IN
           /\ new \in ZKChainStorage
           /\ KeepsCounters(st, new) /\ KeepsBatches(st, new) /\ KeepsUpgrade(st, new)
           /\ KeepsMode(st, new) /\ KeepsPrecommitment(st, new)
           /\ new.priorityTree = push(st.priorityTree, op)
           /\ new.priorityOpsRequestTimestamp =
                 [st.priorityOpsRequestTimestamp EXCEPT
                     ![getTotalPriorityTxs(push(st.priorityTree, op)) - 1] = timestamp]
<1> DEFINE tree == push(st.priorityTree, op)
           times == [st.priorityOpsRequestTimestamp EXCEPT ![getTotalPriorityTxs(tree) - 1] = timestamp]
<1>1. st.priorityTree \in Tree(Nat)
  BY Zenon DEF ZKChainStorage
<1>2. st.priorityTree.leaves \in Seq(Nat) /\ st.priorityTree.historicalRoots \in SUBSET Seq(Nat)
  BY <1>1, Zenon DEF Tree
<1>3. tree \in Tree(Nat)
  <2> DEFINE leaves == Append(st.priorityTree.leaves, op)
             roots == st.priorityTree.historicalRoots \cup {leaves}
  <2>1. leaves \in Seq(Nat)
    BY <1>2
  <2>2. roots \in SUBSET Seq(Nat)
    BY <1>2, <2>1, Zenon
  <2>3. tree = [st.priorityTree EXCEPT !.leaves = leaves, !.historicalRoots = roots]
    BY <1>1, Zenon DEF push, Tree
  <2> HIDE DEF leaves, roots
  <2> QED
    BY <1>1, <2>1, <2>2, <2>3, Zenon DEF Tree
<1>4. times \in [0 .. StartIndex + MaxOps -> Nat]
  BY Zenon DEF ZKChainStorage
<1>5. WritePriorityOpHash(st, op, timestamp) =
        [st EXCEPT !.priorityTree = tree, !.priorityOpsRequestTimestamp = times]
  BY Zenon DEF WritePriorityOpHash, ZKChainStorage
<1> HIDE DEF tree, times
<1>6. LET new == WritePriorityOpHash(st, op, timestamp) IN
      /\ new \in ZKChainStorage
      /\ new.priorityTree = tree
      /\ new.priorityOpsRequestTimestamp = times
      /\ KeepsCounters(st, new) /\ KeepsBatches(st, new) /\ KeepsUpgrade(st, new)
      /\ KeepsMode(st, new) /\ KeepsPrecommitment(st, new)
  BY <1>3, <1>4, <1>5, Zenon
  DEF ZKChainStorage, KeepsCounters, KeepsBatches, KeepsUpgrade, KeepsMode, KeepsPrecommitment
<1> QED
  BY <1>6, Zenon DEF tree, times

\* setValidator, makePermanentRollup, permanentlyAllowPriorityMode,
\* deactivatePriorityMode and unpauseDeposits touch neither batches nor queue.
LEMMA SwitchEffect ==
    ASSUME NEW st \in ZKChainStorage, NEW new,
           \/ \E v \in Validators, isActive \in BOOLEAN : new = SetValidator(st, v, isActive)
           \/ new = MakePermanentRollup(st)
           \/ new = PermanentlyAllowPriorityMode(st)
           \/ new = DeactivatePriorityMode(st)
           \/ new = UnpauseDeposits(st)
    PROVE  /\ new \in ZKChainStorage
           /\ KeepsCounters(st, new) /\ KeepsBatches(st, new) /\ KeepsUpgrade(st, new)
           /\ KeepsQueue(st, new) /\ KeepsPrecommitment(st, new)
           /\ new.priorityModeInfo.activated => st.priorityModeInfo.activated
<1> USE DEF ZKChainStorage, KeepsCounters, KeepsBatches, KeepsUpgrade, KeepsQueue, KeepsPrecommitment
<1>1. ASSUME NEW v \in Validators, NEW isActive \in BOOLEAN, new = SetValidator(st, v, isActive)
      PROVE  /\ new \in ZKChainStorage
             /\ KeepsCounters(st, new) /\ KeepsBatches(st, new) /\ KeepsUpgrade(st, new)
             /\ KeepsQueue(st, new) /\ KeepsPrecommitment(st, new)
             /\ new.priorityModeInfo = st.priorityModeInfo
  <2> DEFINE set == IF isActive THEN st.validators \cup {v} ELSE st.validators \ {v}
  <2>1. set \in SUBSET Validators
    BY Zenon
  <2>2. new = [st EXCEPT !.validators = set]
    BY <1>1, Zenon DEF SetValidator
  <2> HIDE DEF set
  <2> QED BY <2>1, <2>2, SMTT(30)
<1>2. CASE new = MakePermanentRollup(st)
  BY <1>2, Zenon DEF MakePermanentRollup
<1>3. CASE new = PermanentlyAllowPriorityMode(st)
  BY <1>3, Zenon DEF PermanentlyAllowPriorityMode, PriorityModeInformation
<1>4. CASE new = DeactivatePriorityMode(st)
  BY <1>4, Zenon DEF DeactivatePriorityMode, PriorityModeInformation
<1>5. CASE new = UnpauseDeposits(st)
  BY <1>5, Zenon DEF UnpauseDeposits
<1> QED
  BY <1>1, <1>2, <1>3, <1>4, <1>5, Zenon

\* Pausing deposits records a time.
LEMMA PauseEffect ==
    ASSUME NEW st \in ZKChainStorage, NEW timestamp \in Nat, InitTime <= timestamp
    PROVE  LET new == PauseDeposits(st, timestamp) IN
           /\ new \in ZKChainStorage
           /\ KeepsCounters(st, new) /\ KeepsBatches(st, new) /\ KeepsUpgrade(st, new)
           /\ KeepsQueue(st, new) /\ KeepsMode(st, new) /\ KeepsPrecommitment(st, new)
<1> DEFINE time == IF getTotalPriorityTxs(st.priorityTree) = 0
                   THEN timestamp - PAUSE_DEPOSITS_TIME_WINDOW_START ELSE timestamp
<1>1. time \in Nat
  BY ConstantsAssumption
<1>2. PauseDeposits(st, timestamp) = [st EXCEPT !.pausedDepositsTimestamp = time]
  BY Zenon DEF PauseDeposits
<1> HIDE DEF time
<1> QED
  BY <1>1, <1>2, SMTT(90) DEF ZKChainStorage, KeepsCounters, KeepsBatches, KeepsUpgrade, KeepsQueue,
                    KeepsMode, KeepsPrecommitment

\* activatePriorityMode reverts the batches that are not executed.
LEMMA ActivateEffect ==
    ASSUME NEW st \in ZKChainStorage
    PROVE  LET new == ActivatePriorityMode(st) IN
           /\ new \in ZKChainStorage
           /\ new.totalBatchesExecuted = st.totalBatchesExecuted
           /\ new.totalBatchesVerified =
                 IF st.totalBatchesExecuted < st.totalBatchesVerified
                 THEN st.totalBatchesExecuted ELSE st.totalBatchesVerified
           /\ new.totalBatchesCommitted = st.totalBatchesExecuted
           /\ new.l2SystemContractsUpgradeBatchNumber =
                 IF st.l2SystemContractsUpgradeBatchNumber > st.totalBatchesExecuted
                 THEN 0 ELSE st.l2SystemContractsUpgradeBatchNumber
           /\ new.protocolVersion = st.protocolVersion
           /\ new.l2SystemContractsUpgradeTxHash = st.l2SystemContractsUpgradeTxHash
           /\ new.precommitmentForTheLatestBatch = DEFAULT_PRECOMMITMENT
           /\ new.priorityModeInfo.activated
           /\ KeepsBatches(st, new) /\ KeepsQueue(st, new)
<1> DEFINE mid == [st EXCEPT !.priorityModeInfo.activated = TRUE]
<1>1. /\ mid \in ZKChainStorage /\ mid.priorityModeInfo.activated
      /\ KeepsCounters(st, mid) /\ KeepsBatches(st, mid) /\ KeepsUpgrade(st, mid) /\ KeepsQueue(st, mid)
  BY Zenon DEF ZKChainStorage, PriorityModeInformation, KeepsCounters, KeepsBatches, KeepsUpgrade, KeepsQueue
<1>2. ActivatePriorityMode(st) = RevertBatches(mid, st.totalBatchesExecuted)
  BY Zenon DEF ActivatePriorityMode
<1>3. st.totalBatchesExecuted \in Nat
  BY Zenon DEF ZKChainStorage
<1> HIDE DEF mid
<1> QED
  BY <1>1, <1>2, <1>3, RevertEffect
  DEF KeepsCounters, KeepsBatches, KeepsUpgrade, KeepsQueue, KeepsMode

\* An upgrade changes the version and may set the upgrade transaction.
LEMMA UpgradeEffect ==
    ASSUME NEW st \in ZKChainStorage, NEW newVersion \in Nat, NEW tx \in BOOLEAN
    PROVE  LET new == Upgrade(st, newVersion, tx) IN
           /\ new \in ZKChainStorage
           /\ KeepsCounters(st, new) /\ KeepsBatches(st, new) /\ KeepsQueue(st, new)
           /\ KeepsMode(st, new) /\ KeepsPrecommitment(st, new)
           /\ new.protocolVersion = newVersion
           /\ new.l2SystemContractsUpgradeTxHash =
                 IF tx THEN Minor(newVersion) ELSE st.l2SystemContractsUpgradeTxHash
           /\ new.l2SystemContractsUpgradeBatchNumber = st.l2SystemContractsUpgradeBatchNumber
<1> DEFINE hash == IF tx THEN Minor(newVersion) ELSE st.l2SystemContractsUpgradeTxHash
<1>1. Minor(newVersion) \in Nat
  BY ConstantsAssumption DEF Minor
<1>2. hash \in Nat
  BY <1>1, Zenon DEF ZKChainStorage
<1>3. Upgrade(st, newVersion, tx) =
        [st EXCEPT !.protocolVersion = newVersion, !.l2SystemContractsUpgradeTxHash = hash]
  BY Zenon DEF Upgrade, ZKChainStorage
<1> HIDE DEF hash
<1>4. LET new == Upgrade(st, newVersion, tx) IN
      /\ new \in ZKChainStorage
      /\ KeepsCounters(st, new) /\ KeepsBatches(st, new) /\ KeepsQueue(st, new)
      /\ KeepsMode(st, new) /\ KeepsPrecommitment(st, new)
      /\ new.protocolVersion = newVersion
      /\ new.l2SystemContractsUpgradeTxHash = hash
      /\ new.l2SystemContractsUpgradeBatchNumber = st.l2SystemContractsUpgradeBatchNumber
  BY <1>2, <1>3, ZenonT(40)
  DEF ZKChainStorage, KeepsCounters, KeepsBatches, KeepsQueue, KeepsMode, KeepsPrecommitment
<1> QED
  BY <1>4, Zenon DEF hash

(***************************************************************************)
(* Inputs.                                                                 *)
(***************************************************************************)

\* What a validator can submit is a batch with the next number.
LEMMA NewBatchType ==
    ASSUME s \in ZKChainStorage, NEW b \in NewBatches
    PROVE  b \in Batch /\ b.batchNumber = s.totalBatchesCommitted + 1
<1>1. s.totalBatchesCommitted + 1 \in Nat /\ s.l2SystemContractsUpgradeTxHash \in Nat
  BY DEF ZKChainStorage
<1>2. Times \subseteq Nat
  BY ConstantsAssumption DEF Times
<1>3. PICK time \in IF ZKsyncOS THEN {0} ELSE Times,
           tx \in {NoTx, s.l2SystemContractsUpgradeTxHash}, c \in Contents :
           b = [batchNumber |-> s.totalBatchesCommitted + 1, timestamp |-> time, upgradeTx |-> tx,
                root |-> c.root, ops |-> c.ops, chunks |-> c.chunks]
  BY DEF NewBatches
<1>4. time \in Nat /\ tx \in Nat
  BY <1>1, <1>2, ConstantsAssumption DEF NoTx
<1>5. c.root \in Roots /\ c.ops \in Seq(Nat) /\ c.chunks \in Seq(Chunks)
  BY ConstantsAssumption, Zenon
<1> QED
  BY <1>1, <1>3, <1>4, <1>5, Zenon DEF Batch

\* The types of the parts of the storage that the invariants are about.
LEMMA Types ==
    ASSUME TypeOK
    PROVE  /\ s.totalBatchesExecuted \in Nat /\ s.totalBatchesVerified \in Nat
           /\ s.totalBatchesCommitted \in Nat /\ MaxBatches \in Nat
           /\ s.l2SystemContractsUpgradeTxHash \in Nat
           /\ s.l2SystemContractsUpgradeBatchNumber \in Nat
           /\ s.storedBatchHashes \in [0 .. MaxBatches -> Batch \cup {NoBatch}]
           /\ s.l2LogsRootHashes \in [0 .. MaxBatches -> LogRoots]
           /\ messageRoot.chainBatchRoots \in [0 .. MaxBatches -> LogRoots]
           /\ s.priorityModeInfo.activated \in BOOLEAN
BY ConstantsAssumption, Zenon DEF TypeOK, ZKChainStorage, PriorityModeInformation

(***************************************************************************)
(* Initial states.                                                         *)
(***************************************************************************)

\* The state a chain is created in satisfies the invariant.
LEMMA InitSafety == Init => SafetyInv
<1> SUFFICES ASSUME Init PROVE SafetyInv
  BY Zenon
<1> USE ConstantsAssumption
<1>1. GenesisBatch \in Batch /\ GenesisBatch.batchNumber = 0
  BY DEF GenesisBatch, Batch, NoTx
<1>2. s \in ZKChainStorage
  <2>1. setup(StartIndex) \in Tree(Nat)
    BY DEF setup, Tree
  <2>2. Minor(InitVersion) \in Nat
    BY DEF Minor
  <2>3. NoRoot \in LogRoots /\ DEFAULT_PRECOMMITMENT \in Seq(Nat)
    BY DEF LogRoots, DEFAULT_PRECOMMITMENT
  <2> QED
    BY <1>1, <2>1, <2>2, <2>3, Zenon DEF Init, ZKChainStorage, PriorityModeInformation
<1>3. TypeOK
  <2>1. messageRoot \in [currentChainBatchNumber : Nat, chainBatchRoots : [0 .. MaxBatches -> LogRoots]]
    BY Zenon DEF Init, addNewChain, LogRoots
  <2>2. Minor(InitVersion) \in Nat
    BY DEF Minor
  <2> QED
    BY <1>2, <2>1, <2>2, Zenon DEF Init, TypeOK
<1>4. TimeOK
  BY DEF Init, TimeOK
<1>5. /\ s.totalBatchesExecuted = 0 /\ s.totalBatchesVerified = 0 /\ s.totalBatchesCommitted = 0
      /\ s.l2SystemContractsUpgradeBatchNumber = 0 /\ ~s.priorityModeInfo.activated
      /\ s.storedBatchHashes[0] = GenesisBatch
      /\ s.l2LogsRootHashes = [n \in 0 .. MaxBatches |-> NoRoot]
  BY DEF Init
<1>6. CountersOrdered
  BY <1>1, <1>5 DEF CountersOrdered
<1>7. ProofsCoverStoredBatches /\ UpgradeBatchTracked /\ PriorityModeHasNoPendingBatch
  BY <1>5 DEF ProofsCoverStoredBatches, UpgradeBatchTracked, PriorityModeHasNoPendingBatch
<1>8. MessageRootFollowsExecution
  BY <1>5 DEF Init, addNewChain, MessageRootFollowsExecution
<1> QED
  BY <1>3, <1>4, <1>6, <1>7, <1>8, Zenon DEF SafetyInv

(***************************************************************************)
(* Steps that leave the batches alone.                                     *)
(***************************************************************************)

\* A step that keeps the counters, the batches, the upgrade, the MessageRoot and
\* the recorded proofs, and does not activate Priority Mode, keeps the safety
\* invariants.
LEMMA FrameSafety ==
    ASSUME SafetyInv, s' \in ZKChainStorage,
           KeepsCounters(s, s'), KeepsBatches(s, s'), KeepsUpgrade(s, s'),
           s'.priorityModeInfo.activated => s.priorityModeInfo.activated,
           UNCHANGED <<messageRoot, proven, processedUpTo, scheduled>>,
           now' \in Nat, now <= now', precommitBatch' \in Nat
    PROVE  SafetyInv'
<1> USE DEF SafetyInv
<1>1. TypeOK'
  BY Zenon DEF TypeOK
<1>2. TimeOK'
  BY ConstantsAssumption DEF TimeOK, TypeOK
<1>3. CountersOrdered' /\ ProofsCoverStoredBatches' /\ MessageRootFollowsExecution'
  BY DEF KeepsCounters, KeepsBatches, CountersOrdered, ProofsCoverStoredBatches,
         MessageRootFollowsExecution
<1>4. UpgradeBatchTracked'
  BY Zenon DEF KeepsCounters, KeepsBatches, KeepsUpgrade, UpgradeBatchTracked
<1>5. PriorityModeHasNoPendingBatch'
  BY Zenon DEF KeepsCounters, PriorityModeHasNoPendingBatch
<1> QED
  BY <1>1, <1>2, <1>3, <1>4, <1>5, Zenon

\* precommitSharedBridge touches the precommitment only.
LEMMA PrecommitSafety ==
    ASSUME SafetyInv, NEW v \in Validators, NEW chunk \in Chunks, precommitSharedBridge(v, chunk)
    PROVE  SafetyInv'
<1>1. s \in ZKChainStorage /\ s.totalBatchesCommitted \in Nat /\ now \in Nat
  BY Zenon DEF SafetyInv, TypeOK, ZKChainStorage
<1>2. s' = Precommit(s, chunk) /\ precommitBatch' = s.totalBatchesCommitted + 1
      /\ UNCHANGED <<messageRoot, now, proven, processedUpTo, scheduled>>
  BY Zenon DEF precommitSharedBridge
<1> QED
  BY <1>1, <1>2, PrecommitEffect, FrameSafety DEF KeepsMode

\* A new priority operation (_writePriorityOpHash) touches the queue only.
LEMMA RequestSafety ==
    ASSUME SafetyInv, requestL2Transaction
    PROVE  SafetyInv'
<1>1. s \in ZKChainStorage /\ now \in Nat /\ precommitBatch \in Nat
  BY Zenon DEF SafetyInv, TypeOK
<1>2. nextPriorityTxId(s) \in Nat
  BY <1>1 DEF ZKChainStorage, Tree, nextPriorityTxId, getTotalPriorityTxs
<1>3. s' = WritePriorityOpHash(s, nextPriorityTxId(s), now)
      /\ UNCHANGED <<messageRoot, now, proven, processedUpTo, scheduled, precommitBatch>>
  BY Zenon DEF requestL2Transaction, historyVars
<1>4. /\ s' \in ZKChainStorage
      /\ KeepsCounters(s, s') /\ KeepsBatches(s, s') /\ KeepsUpgrade(s, s') /\ KeepsMode(s, s')
  BY <1>1, <1>2, <1>3, WritePriorityOpHashEffect, Zenon
<1> QED
  BY <1>1, <1>3, <1>4, FrameSafety DEF KeepsMode

\* The switches of the admin and of the CTM (validators, permanent rollup,
\* deposits, leaving Priority Mode) leave the batches alone.
LEMMA SwitchSafety ==
    ASSUME SafetyInv,
           \/ makePermanentRollup \/ permanentlyAllowPriorityMode \/ unpauseDeposits
           \/ deactivatePriorityMode
           \/ \E v \in Validators, isActive \in BOOLEAN : setValidator(v, isActive)
    PROVE  SafetyInv'
<1>1. s \in ZKChainStorage /\ now \in Nat /\ precommitBatch \in Nat
  BY Zenon DEF SafetyInv, TypeOK
<1>2. UNCHANGED <<messageRoot, now, proven, processedUpTo, scheduled, precommitBatch>>
  BY Zenon DEF makePermanentRollup, permanentlyAllowPriorityMode, unpauseDeposits,
         deactivatePriorityMode, setValidator, historyVars
<1>3. \/ \E v \in Validators, isActive \in BOOLEAN : s' = SetValidator(s, v, isActive)
      \/ s' = MakePermanentRollup(s)
      \/ s' = PermanentlyAllowPriorityMode(s)
      \/ s' = DeactivatePriorityMode(s)
      \/ s' = UnpauseDeposits(s)
  BY Zenon DEF makePermanentRollup, permanentlyAllowPriorityMode, unpauseDeposits,
         deactivatePriorityMode, setValidator
<1>4. /\ s' \in ZKChainStorage
      /\ KeepsCounters(s, s') /\ KeepsBatches(s, s') /\ KeepsUpgrade(s, s')
      /\ s'.priorityModeInfo.activated => s.priorityModeInfo.activated
  BY <1>1, <1>3, SwitchEffect, Zenon
<1> QED
  BY <1>1, <1>2, <1>4, FrameSafety

\* Pausing deposits (pauseDepositsBeforeInitiatingMigration) leaves the batches
\* alone.
LEMMA PauseSafety ==
    ASSUME SafetyInv, pauseDepositsBeforeInitiatingMigration
    PROVE  SafetyInv'
<1>1. s \in ZKChainStorage /\ now \in Nat /\ precommitBatch \in Nat /\ InitTime <= now
  BY Zenon DEF SafetyInv, TypeOK, TimeOK
<1>2. s' = PauseDeposits(s, now)
      /\ UNCHANGED <<messageRoot, now, proven, processedUpTo, scheduled, precommitBatch>>
  BY Zenon DEF pauseDepositsBeforeInitiatingMigration, historyVars
<1> QED
  BY <1>1, <1>2, PauseEffect, FrameSafety DEF KeepsMode

\* The passing of time and stuttering keep the invariant.
LEMMA TickSafety ==
    ASSUME SafetyInv, Tick \/ UNCHANGED vars
    PROVE  SafetyInv'
<1>1. s \in ZKChainStorage /\ now \in Nat /\ precommitBatch \in Nat
  BY Zenon DEF SafetyInv, TypeOK
<1>2. /\ s' = s /\ now' \in Nat /\ now <= now'
      /\ UNCHANGED <<messageRoot, proven, processedUpTo, scheduled, precommitBatch>>
  BY <1>1 DEF Tick, vars, historyVars
<1> QED
  BY <1>1, <1>2, FrameSafety, Zenon DEF KeepsCounters, KeepsBatches, KeepsUpgrade

(***************************************************************************)
(* Upgrades.                                                               *)
(***************************************************************************)

\* An upgrade sets a transaction only when none is pending, so no batch is
\* tracked for the transaction it replaces.
LEMMA UpgradeSafety ==
    ASSUME SafetyInv, NEW newVersion \in Nat, NEW tx \in BOOLEAN,
           upgradeChainFromVersion(newVersion, tx)
    PROVE  SafetyInv'
<1> USE DEF SafetyInv
<1>1. s \in ZKChainStorage /\ now \in Nat /\ precommitBatch \in Nat
  BY Zenon DEF TypeOK
<1>2. /\ s' = Upgrade(s, newVersion, tx) /\ CanUpgrade(s, newVersion, tx)
      /\ scheduled' = IF tx THEN scheduled \cup {Minor(newVersion)} ELSE scheduled
      /\ UNCHANGED <<messageRoot, now, proven, processedUpTo, precommitBatch>>
  BY Zenon DEF upgradeChainFromVersion
<1>3. /\ s' \in ZKChainStorage
      /\ KeepsCounters(s, s') /\ KeepsBatches(s, s') /\ KeepsMode(s, s')
      /\ s'.l2SystemContractsUpgradeTxHash =
            IF tx THEN Minor(newVersion) ELSE s.l2SystemContractsUpgradeTxHash
      /\ s'.l2SystemContractsUpgradeBatchNumber = s.l2SystemContractsUpgradeBatchNumber
  BY <1>1, <1>2, UpgradeEffect
<1>4. TypeOK'
  <2>1. Minor(newVersion) \in Nat
    BY ConstantsAssumption DEF Minor
  <2>2. scheduled' \subseteq Nat
    BY <1>2, <2>1, Zenon DEF TypeOK
  <2> QED
    BY <1>2, <1>3, <2>2, Zenon DEF TypeOK
<1>5. TimeOK'
  BY <1>2, Zenon DEF TimeOK
<1>6. CountersOrdered' /\ ProofsCoverStoredBatches' /\ MessageRootFollowsExecution'
  BY <1>2, <1>3 DEF KeepsCounters, KeepsBatches, CountersOrdered, ProofsCoverStoredBatches,
                    MessageRootFollowsExecution
<1>7. tx => s.l2SystemContractsUpgradeBatchNumber = 0
  BY <1>2, Zenon DEF CanUpgrade
<1>8. UpgradeBatchTracked'
  BY <1>3, <1>7, Zenon DEF KeepsCounters, KeepsBatches, UpgradeBatchTracked
<1>9. PriorityModeHasNoPendingBatch'
  BY <1>3, Zenon DEF KeepsCounters, KeepsMode, PriorityModeHasNoPendingBatch
<1> QED
  BY <1>4, <1>5, <1>6, <1>8, <1>9, Zenon

(***************************************************************************)
(* Batches.                                                                *)
(***************************************************************************)

\* A committed batch is stored above the verified and the executed ones.
LEMMA CommitSafety ==
    ASSUME SafetyInv, NEW v \in Validators, NEW active, NEW b \in NewBatches,
           commitBatchesSharedBridge(v, active, b)
    PROVE  SafetyInv'
<1> USE DEF SafetyInv
<1>1. s \in ZKChainStorage /\ precommitBatch \in Nat
  BY Zenon DEF TypeOK
<1>2. b \in Batch /\ b.batchNumber = s.totalBatchesCommitted + 1
  BY <1>1, NewBatchType, Zenon
<1>3. /\ s.totalBatchesCommitted < MaxBatches /\ CanCommit(s, v, active, b, now)
      /\ s' = Commit(s, b)
      /\ precommitBatch' = KeepPrecommitBatch(s')
      /\ UNCHANGED <<messageRoot, now, proven, processedUpTo, scheduled>>
  BY Zenon DEF commitBatchesSharedBridge
<1>4. /\ s' \in ZKChainStorage
      /\ s'.totalBatchesExecuted = s.totalBatchesExecuted
      /\ s'.totalBatchesVerified = s.totalBatchesVerified
      /\ s'.totalBatchesCommitted = s.totalBatchesCommitted + 1
      /\ s'.storedBatchHashes = [s.storedBatchHashes EXCEPT ![b.batchNumber] = b]
      /\ s'.l2LogsRootHashes = s.l2LogsRootHashes
      /\ s'.l2SystemContractsUpgradeTxHash = s.l2SystemContractsUpgradeTxHash
      /\ s'.l2SystemContractsUpgradeBatchNumber =
            IF ExpectedUpgradeTx(s) # NoTx
            THEN b.batchNumber ELSE s.l2SystemContractsUpgradeBatchNumber
      /\ KeepsMode(s, s')
  <2>1. CommitResult(s, b, s')
    BY <1>1, <1>2, <1>3, CommitEffect, Zenon
  <2> QED
    BY <2>1, Zenon DEF CommitResult
<1>5. /\ s'.storedBatchHashes[b.batchNumber] = b
      /\ \A k \in 0 .. MaxBatches : k # b.batchNumber =>
            s'.storedBatchHashes[k] = s.storedBatchHashes[k]
  BY <1>2, <1>3, <1>4, Types
<1>6. TypeOK'
  BY <1>1, <1>3, <1>4, Zenon DEF TypeOK, KeepPrecommitBatch
<1>7. TimeOK'
  BY <1>3, Zenon DEF TimeOK
<1>8. CountersOrdered'
  BY <1>2, <1>3, <1>4, <1>5, Types DEF CountersOrdered
<1>9. ProofsCoverStoredBatches'
  <2>1. proven' = proven
    BY <1>3, Zenon
  <2>2. /\ s.totalBatchesVerified \in Nat /\ s.totalBatchesCommitted \in Nat /\ MaxBatches \in Nat
        /\ s.totalBatchesVerified <= s.totalBatchesCommitted /\ s.totalBatchesCommitted <= MaxBatches
    BY Types, Zenon DEF CountersOrdered
  <2>3. \A k \in 1 .. s.totalBatchesVerified :
           k \in 0 .. MaxBatches /\ k - 1 \in 0 .. MaxBatches /\ k # b.batchNumber /\ k - 1 # b.batchNumber
    <3> HIDE DEF SafetyInv
    <3> QED
      BY <1>2, <2>2
  <2>4. s'.totalBatchesVerified = s.totalBatchesVerified
    BY <1>4, Zenon
  <2>5. \A k \in 1 .. s.totalBatchesVerified :
           /\ s'.storedBatchHashes[k] = s.storedBatchHashes[k]
           /\ s'.storedBatchHashes[k - 1] = s.storedBatchHashes[k - 1]
    BY <1>5, <2>3, Zenon
  <2> QED
    BY <2>1, <2>4, <2>5, Zenon DEF ProofsCoverStoredBatches
<1>10. MessageRootFollowsExecution'
  <2>1. /\ messageRoot' = messageRoot /\ s'.totalBatchesExecuted = s.totalBatchesExecuted
        /\ s'.l2LogsRootHashes = s.l2LogsRootHashes
    BY <1>3, <1>4, Zenon
  <2>2. /\ s.totalBatchesExecuted \in Nat /\ s.totalBatchesVerified \in Nat
        /\ s.totalBatchesCommitted \in Nat /\ MaxBatches \in Nat
        /\ s.totalBatchesExecuted <= s.totalBatchesVerified
        /\ s.totalBatchesVerified <= s.totalBatchesCommitted
    BY Types, Zenon DEF CountersOrdered
  <2>3. \A k \in 1 .. MaxBatches : k <= s.totalBatchesExecuted => k # b.batchNumber
    <3> HIDE DEF SafetyInv
    <3> QED
      BY <1>2, <2>2
  <2>4. \A k \in 1 .. MaxBatches : k \in 0 .. MaxBatches
    <3> HIDE DEF SafetyInv
    <3> QED
      BY <2>2
  <2> QED
    BY <1>5, <2>1, <2>3, <2>4, Zenon DEF MessageRootFollowsExecution
<1>11. b.upgradeTx = ExpectedUpgradeTx(s)
  BY <1>3, Zenon DEF CanCommit, commitOneBatchEra, commitOneBatchZKsyncOS
<1>12. UpgradeBatchTracked'
  BY <1>2, <1>4, <1>5, <1>11, Types, SMTT(30)
  DEF CountersOrdered, UpgradeBatchTracked, ExpectedUpgradeTx, NoTx
<1>13. ~s.priorityModeInfo.activated
  <2>1. onlyValidatorOrPriorityMode(s, v)
    BY <1>3, Zenon DEF CanCommit
  <2> HIDE DEF SafetyInv
  <2> QED
    BY <2>1, ConstantsAssumption, Zenon DEF onlyValidatorOrPriorityMode
<1>14. PriorityModeHasNoPendingBatch'
  BY <1>4, <1>13, Zenon DEF KeepsMode, PriorityModeHasNoPendingBatch
<1> QED
  BY <1>6, <1>7, <1>8, <1>9, <1>10, <1>12, <1>14, Zenon

\* The verified batches are the proven ones.
LEMMA ProveSafety ==
    ASSUME SafetyInv, NEW v \in Validators, NEW n \in Nat, proveBatchesSharedBridge(v, n)
    PROVE  SafetyInv'
<1> USE DEF SafetyInv
<1>1. s \in ZKChainStorage
  BY Zenon DEF TypeOK
<1>2. /\ CanProve(s, v, n) /\ s' = Prove(s, n)
      /\ proven' = RecordProofs(s.totalBatchesVerified + 1, s.totalBatchesVerified + n, s')
      /\ UNCHANGED <<messageRoot, now, processedUpTo, scheduled, precommitBatch>>
  BY Zenon DEF proveBatchesSharedBridge
<1>3. /\ s' \in ZKChainStorage
      /\ s'.totalBatchesExecuted = s.totalBatchesExecuted
      /\ s'.totalBatchesVerified = s.totalBatchesVerified + n
      /\ s'.totalBatchesCommitted = s.totalBatchesCommitted
      /\ KeepsBatches(s, s') /\ KeepsUpgrade(s, s') /\ KeepsMode(s, s')
  BY <1>1, <1>2, ProveEffect, Zenon
<1>4. TypeOK'
  BY <1>2, <1>3, Zenon DEF TypeOK, RecordProofs
<1>5. TimeOK'
  BY <1>2, Zenon DEF TimeOK
<1>6. CountersOrdered'
  BY <1>2, <1>3, Types, SMTT(30) DEF CountersOrdered, CanProve, KeepsBatches
<1>7. ProofsCoverStoredBatches'
  BY <1>2, <1>3, <1>6, Types, SMTT(30) DEF ProofsCoverStoredBatches, RecordProofs, KeepsBatches, CountersOrdered
<1>8. MessageRootFollowsExecution'
  BY <1>2, <1>3, Zenon DEF MessageRootFollowsExecution, KeepsBatches
<1>9. UpgradeBatchTracked'
  BY <1>3, Zenon DEF UpgradeBatchTracked, KeepsBatches, KeepsUpgrade
<1>10. PriorityModeHasNoPendingBatch'
  BY <1>3, Zenon DEF KeepsMode, PriorityModeHasNoPendingBatch
<1> QED
  BY <1>4, <1>5, <1>6, <1>7, <1>8, <1>9, <1>10, Zenon

\* What a revert by a validator or the CTM (revertBatchesSharedBridge) and the
\* activation of Priority Mode share: batches above newLastBatch are dropped
\* together with their verification and their upgrade.
RevertedTo(newLastBatch) ==
    /\ CanRevertBatches(s, newLastBatch)
    /\ s' \in ZKChainStorage
    /\ s'.totalBatchesExecuted = s.totalBatchesExecuted
    /\ s'.totalBatchesVerified = IF newLastBatch < s.totalBatchesVerified
                                 THEN newLastBatch ELSE s.totalBatchesVerified
    /\ s'.totalBatchesCommitted = newLastBatch
    /\ s'.l2SystemContractsUpgradeBatchNumber =
          IF s.l2SystemContractsUpgradeBatchNumber > newLastBatch
          THEN 0 ELSE s.l2SystemContractsUpgradeBatchNumber
    /\ s'.l2SystemContractsUpgradeTxHash = s.l2SystemContractsUpgradeTxHash
    /\ KeepsBatches(s, s')
    /\ s'.priorityModeInfo.activated => newLastBatch = s.totalBatchesExecuted
    /\ proven' = RecordProofs(1, 0, s')
    /\ precommitBatch' = KeepPrecommitBatch(s')
    /\ UNCHANGED <<messageRoot, now, processedUpTo, scheduled>>

\* Such a revert keeps the invariant.
LEMMA RevertedSafety ==
    ASSUME SafetyInv, NEW newLastBatch \in Nat, RevertedTo(newLastBatch)
    PROVE  SafetyInv'
<1> DEFINE executed == s.totalBatchesExecuted
           verified == s.totalBatchesVerified
           committed == s.totalBatchesCommitted
<1>1. /\ TypeOK /\ TimeOK /\ CountersOrdered /\ ProofsCoverStoredBatches
      /\ MessageRootFollowsExecution /\ UpgradeBatchTracked
  BY Zenon DEF SafetyInv
<1>2. /\ executed \in Nat /\ verified \in Nat /\ committed \in Nat /\ MaxBatches \in Nat
      /\ s.l2SystemContractsUpgradeBatchNumber \in Nat
  BY <1>1, Types, Zenon
<1>3. executed <= verified /\ verified <= committed /\ committed <= MaxBatches
  BY <1>1, Zenon DEF CountersOrdered
<1>4. /\ newLastBatch <= committed /\ executed <= newLastBatch
      /\ s'.totalBatchesExecuted = executed /\ s'.totalBatchesCommitted = newLastBatch
      /\ s'.totalBatchesVerified = IF newLastBatch < verified THEN newLastBatch ELSE verified
      /\ s'.storedBatchHashes = s.storedBatchHashes /\ s'.l2LogsRootHashes = s.l2LogsRootHashes
      /\ proven' = RecordProofs(1, 0, s') /\ messageRoot' = messageRoot
  BY Zenon DEF RevertedTo, CanRevertBatches, KeepsBatches
<1> HIDE DEF executed, verified, committed
<1>5. /\ s'.totalBatchesExecuted <= s'.totalBatchesVerified
      /\ s'.totalBatchesVerified <= s'.totalBatchesCommitted
      /\ s'.totalBatchesCommitted <= MaxBatches
      /\ s'.totalBatchesVerified \in Nat /\ s'.totalBatchesVerified <= verified
      /\ 0 .. newLastBatch \subseteq 0 .. committed
  BY <1>2, <1>3, <1>4
<1>6. TypeOK' /\ TimeOK'
  <2>1. /\ s' \in ZKChainStorage /\ precommitBatch' = KeepPrecommitBatch(s')
        /\ UNCHANGED <<messageRoot, now, processedUpTo, scheduled>>
    BY Zenon DEF RevertedTo
  <2>2. precommitBatch' \in Nat
    <3>1. precommitBatch \in Nat
      BY <1>1, Zenon DEF TypeOK
    <3> QED
      BY <2>1, <3>1, Zenon DEF KeepPrecommitBatch
  <2>3. DOMAIN proven' = 0 .. MaxBatches
    BY <1>4, Zenon DEF RecordProofs
  <2> QED
    BY <1>1, <2>1, <2>2, <2>3, Zenon DEF TypeOK, TimeOK
<1>7. CountersOrdered'
  <2>1. \A k \in 0 .. committed :
           s.storedBatchHashes[k] \in Batch /\ s.storedBatchHashes[k].batchNumber = k
    BY <1>1, Zenon DEF CountersOrdered, committed
  <2>2. \A k \in 0 .. newLastBatch :
           s'.storedBatchHashes[k] \in Batch /\ s'.storedBatchHashes[k].batchNumber = k
    BY <1>4, <1>5, <2>1, Zenon
  <2> QED
    BY <1>4, <1>5, <2>2, Zenon DEF CountersOrdered
<1>8. ProofsCoverStoredBatches'
  <2> SUFFICES ASSUME NEW k \in 1 .. s'.totalBatchesVerified
               PROVE  proven'[k] = PublicInput(s'.storedBatchHashes[k - 1], s'.storedBatchHashes[k])
    BY Zenon DEF ProofsCoverStoredBatches
  <2>1. k \in 0 .. MaxBatches /\ k <= s'.totalBatchesVerified /\ k \in 1 .. verified /\ k \notin 1 .. 0
    BY <1>2, <1>3, <1>5
  <2>2. proven'[k] = proven[k]
    BY <1>4, <2>1, Zenon DEF RecordProofs
  <2>3. proven[k] = PublicInput(s.storedBatchHashes[k - 1], s.storedBatchHashes[k])
    BY <1>1, <2>1, Zenon DEF ProofsCoverStoredBatches, verified
  <2> QED
    BY <1>4, <2>2, <2>3, Zenon
<1>9. MessageRootFollowsExecution'
  BY <1>1, <1>4, Zenon DEF MessageRootFollowsExecution, executed
<1>10. UpgradeBatchTracked'
  <2> DEFINE u == s.l2SystemContractsUpgradeBatchNumber
  <2>1. /\ s'.l2SystemContractsUpgradeBatchNumber = IF u > newLastBatch THEN 0 ELSE u
        /\ s'.l2SystemContractsUpgradeTxHash = s.l2SystemContractsUpgradeTxHash
    BY Zenon DEF RevertedTo
  <2>2. u # 0 => /\ s.l2SystemContractsUpgradeTxHash # NoTx
                 /\ executed < u
                 /\ s.storedBatchHashes[u].upgradeTx = s.l2SystemContractsUpgradeTxHash
    BY <1>1, Zenon DEF UpgradeBatchTracked, executed
  <2>3. u \in Nat
    BY <1>2, Zenon
  <2> HIDE DEF u
  <2>4. s'.l2SystemContractsUpgradeBatchNumber # 0 =>
           s'.l2SystemContractsUpgradeBatchNumber = u /\ u # 0 /\ u <= newLastBatch
    BY <2>1, <2>3
  <2> QED
    BY <1>4, <2>1, <2>2, <2>4, Zenon DEF UpgradeBatchTracked
<1>11. PriorityModeHasNoPendingBatch'
  BY Zenon DEF PriorityModeHasNoPendingBatch, RevertedTo
<1> QED
  BY <1>6, <1>7, <1>8, <1>9, <1>10, <1>11, Zenon DEF SafetyInv

\* revertBatchesSharedBridge, impossible in Priority Mode.
LEMMA RevertSafety ==
    ASSUME SafetyInv, NEW sender, NEW newLastBatch \in Nat,
           revertBatchesSharedBridge(sender, newLastBatch)
    PROVE  SafetyInv'
<1>1. s \in ZKChainStorage
  BY Zenon DEF SafetyInv, TypeOK
<1>2. /\ CanRevertBatches(s, newLastBatch) /\ ~s.priorityModeInfo.activated
      /\ s' = RevertBatches(s, newLastBatch)
      /\ proven' = RecordProofs(1, 0, s') /\ precommitBatch' = KeepPrecommitBatch(s')
      /\ UNCHANGED <<messageRoot, now, processedUpTo, scheduled>>
  BY Zenon DEF revertBatchesSharedBridge, CanRevert, notPriorityMode
<1>3. /\ s' \in ZKChainStorage
      /\ s'.totalBatchesExecuted = s.totalBatchesExecuted
      /\ s'.totalBatchesVerified = IF newLastBatch < s.totalBatchesVerified
                                   THEN newLastBatch ELSE s.totalBatchesVerified
      /\ s'.totalBatchesCommitted = newLastBatch
      /\ s'.l2SystemContractsUpgradeBatchNumber =
            IF s.l2SystemContractsUpgradeBatchNumber > newLastBatch
            THEN 0 ELSE s.l2SystemContractsUpgradeBatchNumber
      /\ s'.l2SystemContractsUpgradeTxHash = s.l2SystemContractsUpgradeTxHash
      /\ KeepsBatches(s, s') /\ KeepsMode(s, s')
  BY <1>1, <1>2, RevertEffect, Zenon
<1>4. ~s'.priorityModeInfo.activated
  BY <1>2, <1>3, Zenon DEF KeepsMode
<1> QED
  BY <1>2, <1>3, <1>4, RevertedSafety, Zenon DEF RevertedTo

\* activatePriorityMode reverts to the last executed batch.
LEMMA ActivateSafety ==
    ASSUME SafetyInv, activatePriorityMode
    PROVE  SafetyInv'
<1>1. s \in ZKChainStorage /\ s.totalBatchesExecuted \in Nat
  BY Types, Zenon DEF SafetyInv, TypeOK
<1>2. /\ s' = ActivatePriorityMode(s)
      /\ proven' = RecordProofs(1, 0, s') /\ precommitBatch' = KeepPrecommitBatch(s')
      /\ UNCHANGED <<messageRoot, now, processedUpTo, scheduled>>
  BY Zenon DEF activatePriorityMode
<1>3. /\ s' \in ZKChainStorage
      /\ s'.totalBatchesExecuted = s.totalBatchesExecuted
      /\ s'.totalBatchesVerified = IF s.totalBatchesExecuted < s.totalBatchesVerified
                                   THEN s.totalBatchesExecuted ELSE s.totalBatchesVerified
      /\ s'.totalBatchesCommitted = s.totalBatchesExecuted
      /\ s'.l2SystemContractsUpgradeBatchNumber =
            IF s.l2SystemContractsUpgradeBatchNumber > s.totalBatchesExecuted
            THEN 0 ELSE s.l2SystemContractsUpgradeBatchNumber
      /\ s'.l2SystemContractsUpgradeTxHash = s.l2SystemContractsUpgradeTxHash
      /\ KeepsBatches(s, s')
  BY <1>1, <1>2, ActivateEffect, Zenon
<1>4. CanRevertBatches(s, s.totalBatchesExecuted)
  BY Types, SMTT(30) DEF CanRevertBatches, CountersOrdered, SafetyInv
<1> QED
  BY <1>1, <1>2, <1>3, <1>4, RevertedSafety, Zenon DEF RevertedTo

(***************************************************************************)
(* Execution.  `mid` is the storage executeBatchesSharedBridge starts from:*)
(* s itself, or what the PermissionlessValidator has made of s by then.    *)
(***************************************************************************)

\* What Execute needs of the storage it starts from.
ReadyToExecute(mid) ==
    /\ mid \in ZKChainStorage
    /\ mid.totalBatchesExecuted = s.totalBatchesExecuted
    /\ mid.l2LogsRootHashes = s.l2LogsRootHashes
    /\ mid.totalBatchesVerified <= mid.totalBatchesCommitted
    /\ mid.totalBatchesCommitted <= MaxBatches
    /\ \A k \in 0 .. mid.totalBatchesCommitted :
          mid.storedBatchHashes[k] \in Batch /\ mid.storedBatchHashes[k].batchNumber = k
    /\ \A k \in 0 .. s.totalBatchesExecuted :
          mid.storedBatchHashes[k] = s.storedBatchHashes[k]
    /\ LET u == mid.l2SystemContractsUpgradeBatchNumber IN
       u # 0 => /\ mid.l2SystemContractsUpgradeTxHash # NoTx
                /\ mid.totalBatchesExecuted < u /\ u <= mid.totalBatchesCommitted
                /\ mid.storedBatchHashes[u].upgradeTx = mid.l2SystemContractsUpgradeTxHash

\* Execution moves the executed counter up to a verified batch, gives the
\* MessageRoot the log roots of exactly the batches it executes, and forgets the
\* upgrade once the batch that contains it is executed.
LEMMA ExecutedSafety ==
    ASSUME SafetyInv, NEW mid, ReadyToExecute(mid), NEW sender, NEW n \in Nat,
           NEW cursor \in Cursors(s.totalBatchesExecuted, n),
           CanExecute(mid, messageRoot, sender, n, cursor),
           s' = Execute(mid, n, cursor),
           messageRoot' = AppendMessageRoots(mid, messageRoot, n)
    PROVE  /\ s' \in ZKChainStorage
           /\ messageRoot' \in [currentChainBatchNumber : Nat,
                                chainBatchRoots : [0 .. MaxBatches -> LogRoots]]
           /\ RecordCursor(s, s', cursor) \in [0 .. MaxBatches -> Nat]
           /\ CountersOrdered' /\ MessageRootFollowsExecution' /\ UpgradeBatchTracked'
           /\ s'.totalBatchesExecuted = s.totalBatchesExecuted + n
           /\ s'.totalBatchesVerified = mid.totalBatchesVerified
           /\ s'.totalBatchesCommitted = mid.totalBatchesCommitted
           /\ s'.storedBatchHashes = mid.storedBatchHashes
           /\ s'.priorityModeInfo = mid.priorityModeInfo
<1> DEFINE e == s.totalBatchesExecuted
           verified == mid.totalBatchesVerified
           committed == mid.totalBatchesCommitted
           roots == ExecutedLogRoots(mid, n)
<1>1. TypeOK /\ MessageRootFollowsExecution
  BY Zenon DEF SafetyInv
<1>2. /\ mid \in ZKChainStorage /\ mid.totalBatchesExecuted = e
      /\ mid.l2LogsRootHashes = s.l2LogsRootHashes
      /\ verified <= committed /\ committed <= MaxBatches
  BY Zenon DEF ReadyToExecute
<1>3. /\ e \in Nat /\ MaxBatches \in Nat /\ verified \in Nat /\ committed \in Nat
      /\ mid.l2SystemContractsUpgradeBatchNumber \in Nat
      /\ s.l2LogsRootHashes \in [0 .. MaxBatches -> LogRoots]
      /\ mid.storedBatchHashes \in [0 .. MaxBatches -> Batch \cup {NoBatch}]
  <2>1. /\ e \in Nat /\ MaxBatches \in Nat
        /\ s.l2LogsRootHashes \in [0 .. MaxBatches -> LogRoots]
    BY <1>1, Types, Zenon
  <2>2. /\ verified \in Nat /\ committed \in Nat
        /\ mid.l2SystemContractsUpgradeBatchNumber \in Nat
        /\ mid.storedBatchHashes \in [0 .. MaxBatches -> Batch \cup {NoBatch}]
    BY <1>2, Zenon DEF ZKChainStorage
  <2> QED
    BY <2>1, <2>2, Zenon
<1>4. n >= 1 /\ e + n <= verified
  <2>1. n >= 1 /\ mid.totalBatchesExecuted + n <= verified
    BY Zenon DEF CanExecute
  <2> QED
    BY <1>2, <2>1, Zenon
<1>5. \A k \in e + 1 .. e + n : k \in 0 .. MaxBatches /\ mid.storedBatchHashes[k] \in Batch
  <2>1. \A k \in 0 .. committed : mid.storedBatchHashes[k] \in Batch
    BY Zenon DEF ReadyToExecute
  <2> HIDE DEF e, verified, committed
  <2>2. \A k \in e + 1 .. e + n : k \in 0 .. MaxBatches /\ k \in 0 .. committed
    BY <1>2, <1>3, <1>4
  <2> QED
    BY <2>1, <2>2, Zenon
<1>6. \A k \in e .. e + n : cursor[k] \in Nat
  <2>1. 0 .. MaxOps + 1 \subseteq Nat
    BY ConstantsAssumption
  <2> QED
    BY <2>1, Zenon DEF Cursors
<1>7. ExecuteResult(mid, n, cursor, s')
  <2>1. cursor[mid.totalBatchesExecuted + n] \in Nat
    <3>1. cursor[e + n] \in Nat
      <4> HIDE DEF e
      <4>1. e + n \in e .. e + n
        BY <1>3
      <4> QED
        BY <1>6, <4>1, Zenon
    <3> QED
      BY <1>2, <3>1, Zenon
  <2>2. ExecutedLogRoots(mid, n) \in [0 .. MaxBatches -> LogRoots]
    BY <1>2, <1>5, ExecutedLogRootsType, ZenonT(60)
  <2> QED
    BY <1>2, <2>1, <2>2, ExecuteEffect, Zenon
<1>8. /\ s' \in ZKChainStorage
      /\ s'.totalBatchesExecuted = e + n
      /\ s'.totalBatchesVerified = verified
      /\ s'.totalBatchesCommitted = committed
      /\ s'.storedBatchHashes = mid.storedBatchHashes
      /\ s'.l2LogsRootHashes = roots
      /\ s'.l2SystemContractsUpgradeTxHash =
            IF UpgradeExecuted(mid, e + n) THEN NoTx ELSE mid.l2SystemContractsUpgradeTxHash
      /\ s'.l2SystemContractsUpgradeBatchNumber =
            IF UpgradeExecuted(mid, e + n) THEN 0 ELSE mid.l2SystemContractsUpgradeBatchNumber
      /\ s'.priorityModeInfo = mid.priorityModeInfo
  <2> HIDE DEF e
  <2> QED
    BY <1>2, <1>7, Zenon DEF ExecuteResult, KeepsMode
<1>9. roots \in [0 .. MaxBatches -> LogRoots]
  BY <1>2, <1>5, ExecutedLogRootsType, ZenonT(60)
<1>10. /\ messageRoot'.currentChainBatchNumber = e + n
       /\ messageRoot'.chainBatchRoots =
             [k \in 0 .. MaxBatches |-> IF k \in e + 1 .. e + n
                                        THEN roots[k] ELSE messageRoot.chainBatchRoots[k]]
       /\ messageRoot' = [currentChainBatchNumber |-> messageRoot'.currentChainBatchNumber,
                          chainBatchRoots |-> messageRoot'.chainBatchRoots]
  <2>1. messageRoot' = AppendMessageRoots(mid, messageRoot, n)
    BY Zenon
  <2>2. messageRoot.currentChainBatchNumber = e
    BY <1>1, Zenon DEF MessageRootFollowsExecution
  <2> HIDE DEF roots
  <2> QED
    BY <1>1, <1>2, <1>3, <2>1, <2>2 DEF AppendMessageRoots, AddChainBatchRoots, TypeOK, roots
<1>11. \A k \in 0 .. MaxBatches :
          roots[k] = IF k \in e + 1 .. e + n
                     THEN l2LogsTreeRoot(mid.storedBatchHashes[k])
                     ELSE s.l2LogsRootHashes[k]
  <2>1. DOMAIN mid.l2LogsRootHashes = 0 .. MaxBatches
    BY <1>2, <1>3, Zenon
  <2> QED
    BY <1>2, <2>1, Zenon DEF ExecutedLogRoots
<1> HIDE DEF roots
<1>12. messageRoot'.chainBatchRoots = roots
  <2>1. messageRoot.chainBatchRoots = s.l2LogsRootHashes
    BY <1>1, Zenon DEF MessageRootFollowsExecution
  <2>2. \A k \in 0 .. MaxBatches : messageRoot'.chainBatchRoots[k] = roots[k]
    BY <1>10, <1>11, <2>1, Zenon
  <2>3. messageRoot'.chainBatchRoots =
           [k \in 0 .. MaxBatches |-> messageRoot'.chainBatchRoots[k]]
    BY <1>10, Zenon
  <2> QED
    BY <1>9, <2>2, <2>3, Zenon
<1>13. messageRoot' \in [currentChainBatchNumber : Nat,
                         chainBatchRoots : [0 .. MaxBatches -> LogRoots]]
  <2>1. e + n \in Nat
    <3> HIDE DEF e
    <3> QED
      BY <1>3
  <2> QED
    BY <1>9, <1>10, <1>12, <2>1, Zenon
<1>14. RecordCursor(s, s', cursor) \in [0 .. MaxBatches -> Nat]
  <2>1. processedUpTo \in [0 .. MaxBatches -> Nat]
    BY <1>1, Zenon DEF TypeOK
  <2>2. \A k \in e + 1 .. e + n : k \in e .. e + n
    <3> HIDE DEF e
    <3> QED
      BY <1>3
  <2>3. \A k \in 0 .. MaxBatches :
           (IF k \in e + 1 .. e + n THEN cursor[k] ELSE processedUpTo[k]) \in Nat
    BY <1>6, <2>1, <2>2, Zenon
  <2> QED
    BY <1>8, <2>3, Zenon DEF RecordCursor
<1>15. CountersOrdered'
  <2>1. \A k \in 0 .. committed :
           mid.storedBatchHashes[k] \in Batch /\ mid.storedBatchHashes[k].batchNumber = k
    BY Zenon DEF ReadyToExecute
  <2> QED
    BY <1>2, <1>4, <1>8, <2>1, Zenon DEF CountersOrdered
<1>16. MessageRootFollowsExecution'
  <2>1. \A k \in 1 .. MaxBatches :
           s.l2LogsRootHashes[k] = IF k <= e THEN l2LogsTreeRoot(s.storedBatchHashes[k]) ELSE NoRoot
    BY <1>1, Zenon DEF MessageRootFollowsExecution
  <2>2. \A k \in 0 .. e : mid.storedBatchHashes[k] = s.storedBatchHashes[k]
    BY Zenon DEF ReadyToExecute
  <2> HIDE DEF e
  <2>3. ASSUME NEW k \in 1 .. MaxBatches
        PROVE  roots[k] = IF k <= e + n THEN l2LogsTreeRoot(mid.storedBatchHashes[k]) ELSE NoRoot
    <3>1. k \in 0 .. MaxBatches /\ (k \in e + 1 .. e + n => k <= e + n)
      BY <1>3
    <3>2. k \notin e + 1 .. e + n => (k <= e + n <=> k <= e)
      BY <1>3
    <3>3. k <= e => k \in 0 .. e
      BY <1>3
    <3> QED
      BY <1>11, <2>1, <2>2, <3>1, <3>2, <3>3, Zenon
  <2> QED
    BY <1>8, <1>10, <1>12, <2>3, Zenon DEF MessageRootFollowsExecution
<1>17. UpgradeBatchTracked'
  <2> DEFINE u == mid.l2SystemContractsUpgradeBatchNumber
  <2>1. u # 0 => /\ mid.l2SystemContractsUpgradeTxHash # NoTx /\ u <= committed
                 /\ mid.storedBatchHashes[u].upgradeTx = mid.l2SystemContractsUpgradeTxHash
    BY Zenon DEF ReadyToExecute
  <2>2. u # 0 /\ ~UpgradeExecuted(mid, e + n) => ~(u <= e + n)
    BY Zenon DEF UpgradeExecuted
  <2>3. ~(u <= e + n) => e + n < u
    <3>1. u \in Nat
      BY <1>3, Zenon
    <3> HIDE DEF u, e
    <3> QED
      BY <1>3, <3>1
  <2> QED
    BY <1>8, <2>1, <2>2, <2>3, Zenon DEF UpgradeBatchTracked
<1> QED
  BY <1>8, <1>13, <1>14, <1>15, <1>16, <1>17, Zenon

\* executeBatchesSharedBridge by a validator.
LEMMA ExecuteSafety ==
    ASSUME SafetyInv, NEW v \in Validators, NEW n \in Nat,
           NEW cursor \in Cursors(s.totalBatchesExecuted, n),
           executeBatchesSharedBridge(v, n, cursor)
    PROVE  SafetyInv'
<1> USE DEF SafetyInv
<1>1. /\ CanExecute(s, messageRoot, v, n, cursor)
      /\ s' = Execute(s, n, cursor)
      /\ messageRoot' = AppendMessageRoots(s, messageRoot, n)
      /\ processedUpTo' = RecordCursor(s, s', cursor)
      /\ UNCHANGED <<now, proven, scheduled, precommitBatch>>
  BY Zenon DEF executeBatchesSharedBridge
<1>2. ReadyToExecute(s)
  BY Zenon DEF ReadyToExecute, TypeOK, CountersOrdered, UpgradeBatchTracked
<1>3. /\ s' \in ZKChainStorage
      /\ messageRoot' \in [currentChainBatchNumber : Nat,
                           chainBatchRoots : [0 .. MaxBatches -> LogRoots]]
      /\ processedUpTo' \in [0 .. MaxBatches -> Nat]
      /\ CountersOrdered' /\ MessageRootFollowsExecution' /\ UpgradeBatchTracked'
      /\ s'.totalBatchesVerified = s.totalBatchesVerified
      /\ s'.storedBatchHashes = s.storedBatchHashes
      /\ s'.priorityModeInfo = s.priorityModeInfo
  BY <1>1, <1>2, ExecutedSafety, Zenon
<1>4. TypeOK' /\ TimeOK'
  BY <1>1, <1>3, Zenon DEF TypeOK, TimeOK
<1>5. ProofsCoverStoredBatches'
  BY <1>1, <1>3, Zenon DEF ProofsCoverStoredBatches
<1>6. ~s.priorityModeInfo.activated
  BY <1>1, ConstantsAssumption, Zenon DEF CanExecute, onlyValidatorOrPriorityMode
<1>7. PriorityModeHasNoPendingBatch'
  BY <1>3, <1>6, Zenon DEF PriorityModeHasNoPendingBatch
<1> QED
  BY <1>3, <1>4, <1>5, <1>7, Zenon

\* settleBatchesSharedBridge commits, proves and executes a batch: afterwards
\* the batch is verified by its own proof and nothing is pending.
LEMMA SettleSafety ==
    ASSUME SafetyInv, NEW active, NEW b \in NewBatches,
           NEW cursor \in Cursors(s.totalBatchesExecuted, 1),
           settleBatchesSharedBridge(active, b, cursor)
    PROVE  SafetyInv'
<1> USE DEF SafetyInv
<1> DEFINE committed == Commit(s, b)
           verified == Prove(committed, 1)
<1>1. s \in ZKChainStorage /\ precommitBatch \in Nat
  BY Zenon DEF TypeOK
<1>2. b \in Batch /\ b.batchNumber = s.totalBatchesCommitted + 1
  BY <1>1, NewBatchType, Zenon
<1>3. /\ s.totalBatchesCommitted < MaxBatches
      /\ CanCommit(s, PermissionlessValidator, active, b, now)
      /\ committed.totalBatchesVerified + 1 = b.batchNumber
      /\ committed.totalBatchesExecuted + 1 = b.batchNumber
      /\ CanExecute(verified, messageRoot, PermissionlessValidator, 1, cursor)
      /\ s' = Execute(verified, 1, cursor)
      /\ messageRoot' = AppendMessageRoots(verified, messageRoot, 1)
      /\ proven' = RecordProofs(b.batchNumber, b.batchNumber, s')
      /\ processedUpTo' = RecordCursor(s, s', cursor)
      /\ precommitBatch' = KeepPrecommitBatch(s')
      /\ UNCHANGED <<now, scheduled>>
  BY Zenon DEF settleBatchesSharedBridge
<1>num. /\ s.totalBatchesExecuted \in Nat /\ s.totalBatchesVerified \in Nat
        /\ s.totalBatchesCommitted \in Nat /\ MaxBatches \in Nat
        /\ b.batchNumber \in 1 .. MaxBatches /\ b.batchNumber \in Nat
  <2>1. /\ s.totalBatchesExecuted \in Nat /\ s.totalBatchesVerified \in Nat
        /\ s.totalBatchesCommitted \in Nat /\ MaxBatches \in Nat
    BY Types, Zenon
  <2>2. s.totalBatchesCommitted < MaxBatches
    BY <1>3, Zenon
  <2>3. b.batchNumber = s.totalBatchesCommitted + 1
    BY <1>2, Zenon
  <2> HIDE DEF SafetyInv
  <2> QED
    BY <2>1, <2>2, <2>3
<1>range. /\ 0 .. s.totalBatchesCommitted \subseteq (0 .. MaxBatches) \ {b.batchNumber}
          /\ 0 .. b.batchNumber = (0 .. s.totalBatchesCommitted) \cup {b.batchNumber}
  <2> HIDE DEF SafetyInv
  <2> QED
    BY <1>num, <1>2
<1>4. /\ committed \in ZKChainStorage
      /\ committed.totalBatchesExecuted = s.totalBatchesExecuted
      /\ committed.totalBatchesVerified = s.totalBatchesVerified
      /\ committed.totalBatchesCommitted = s.totalBatchesCommitted + 1
      /\ committed.storedBatchHashes = [s.storedBatchHashes EXCEPT ![b.batchNumber] = b]
      /\ committed.l2LogsRootHashes = s.l2LogsRootHashes
      /\ committed.l2SystemContractsUpgradeTxHash = s.l2SystemContractsUpgradeTxHash
      /\ committed.l2SystemContractsUpgradeBatchNumber =
            IF ExpectedUpgradeTx(s) # NoTx
            THEN b.batchNumber ELSE s.l2SystemContractsUpgradeBatchNumber
  <2>1. CommitResult(s, b, committed)
    BY <1>1, <1>2, CommitEffect, Zenon
  <2> HIDE DEF committed
  <2> QED
    BY <2>1, Zenon DEF CommitResult
<1> HIDE DEF committed
<1>5. /\ verified \in ZKChainStorage
      /\ verified.totalBatchesExecuted = committed.totalBatchesExecuted
      /\ verified.totalBatchesVerified = committed.totalBatchesVerified + 1
      /\ verified.totalBatchesCommitted = committed.totalBatchesCommitted
      /\ KeepsBatches(committed, verified) /\ KeepsUpgrade(committed, verified)
  BY <1>4, ProveEffect, Zenon
<1> HIDE DEF verified
<1>6. /\ verified.storedBatchHashes[b.batchNumber] = b
      /\ \A k \in 0 .. s.totalBatchesCommitted :
            verified.storedBatchHashes[k] = s.storedBatchHashes[k]
  <2>1. verified.storedBatchHashes = [s.storedBatchHashes EXCEPT ![b.batchNumber] = b]
    BY <1>4, <1>5, Zenon DEF KeepsBatches
  <2>2. s.storedBatchHashes \in [0 .. MaxBatches -> Batch \cup {NoBatch}]
    BY Types, Zenon
  <2> HIDE DEF SafetyInv
  <2> QED
    BY <1>num, <1>range, <2>1, <2>2
<1>7. b.upgradeTx = ExpectedUpgradeTx(s)
  BY <1>3, Zenon DEF CanCommit, commitOneBatchEra, commitOneBatchZKsyncOS
<1>8. ReadyToExecute(verified)
  <2>1. \A k \in 0 .. verified.totalBatchesCommitted :
           /\ verified.storedBatchHashes[k] \in Batch
           /\ verified.storedBatchHashes[k].batchNumber = k
    <3>1. verified.totalBatchesCommitted = b.batchNumber
      BY <1>2, <1>4, <1>5, Zenon
    <3>2. \A k \in 0 .. s.totalBatchesCommitted :
             s.storedBatchHashes[k] \in Batch /\ s.storedBatchHashes[k].batchNumber = k
      BY Zenon DEF CountersOrdered
    <3> HIDE DEF SafetyInv
    <3> QED
      BY <1>num, <1>range, <1>2, <1>6, <3>1, <3>2
  <2>2. LET u == verified.l2SystemContractsUpgradeBatchNumber IN
        u # 0 => /\ verified.l2SystemContractsUpgradeTxHash # NoTx
                 /\ verified.totalBatchesExecuted < u /\ u <= verified.totalBatchesCommitted
                 /\ verified.storedBatchHashes[u].upgradeTx =
                       verified.l2SystemContractsUpgradeTxHash
    <3> DEFINE u == verified.l2SystemContractsUpgradeBatchNumber
               old == s.l2SystemContractsUpgradeBatchNumber
               tx == s.l2SystemContractsUpgradeTxHash
    <3>1. /\ u = IF ExpectedUpgradeTx(s) # NoTx THEN b.batchNumber ELSE old
          /\ verified.l2SystemContractsUpgradeTxHash = tx
          /\ verified.totalBatchesExecuted = s.totalBatchesExecuted
      BY <1>4, <1>5, Zenon DEF KeepsUpgrade
    <3>2. verified.totalBatchesCommitted = b.batchNumber
      BY <1>2, <1>4, <1>5, Zenon
    <3>3. s.totalBatchesExecuted <= s.totalBatchesVerified /\ s.totalBatchesVerified <= s.totalBatchesCommitted
      BY Zenon DEF CountersOrdered
    <3>4. s.totalBatchesExecuted < b.batchNumber
      <4> HIDE DEF SafetyInv
      <4> QED
        BY <1>num, <1>2, <3>3
    <3>5. CASE ExpectedUpgradeTx(s) # NoTx
      <4>1. u = b.batchNumber
        BY <3>1, <3>5, Zenon
      <4>2. b.upgradeTx = tx /\ tx # NoTx
        BY <1>7, <3>5, Zenon DEF ExpectedUpgradeTx
      <4>3. b.batchNumber <= b.batchNumber
        BY <1>num
      <4> QED
        BY <1>6, <3>1, <3>2, <3>4, <4>1, <4>2, <4>3, Zenon
    <3>6. CASE ExpectedUpgradeTx(s) = NoTx /\ old # 0
      <4>1. /\ tx # NoTx /\ s.totalBatchesExecuted < old /\ old <= s.totalBatchesCommitted
            /\ s.storedBatchHashes[old].upgradeTx = tx
        BY <3>6, Zenon DEF UpgradeBatchTracked
      <4>2. old \in Nat
        BY Types, Zenon
      <4>3. old \in 0 .. s.totalBatchesCommitted /\ old <= b.batchNumber
        <5> HIDE DEF SafetyInv, old
        <5> QED
          BY <1>num, <1>2, <4>1, <4>2
      <4>4. u = old
        BY <3>1, <3>6, Zenon
      <4> QED
        BY <1>6, <3>1, <3>2, <4>1, <4>3, <4>4, Zenon
    <3>7. CASE ExpectedUpgradeTx(s) = NoTx /\ old = 0
      <4>1. u = 0
        BY <3>1, <3>7, Zenon
      <4> QED
        BY <4>1, Zenon
    <3> QED
      BY <3>5, <3>6, <3>7, Zenon
  <2>3. \A k \in 0 .. s.totalBatchesExecuted :
           verified.storedBatchHashes[k] = s.storedBatchHashes[k]
    <3>1. s.totalBatchesExecuted <= s.totalBatchesVerified /\ s.totalBatchesVerified <= s.totalBatchesCommitted
      BY Zenon DEF CountersOrdered
    <3>2. 0 .. s.totalBatchesExecuted \subseteq 0 .. s.totalBatchesCommitted
      <4> HIDE DEF SafetyInv
      <4> QED
        BY <1>num, <3>1
    <3> QED
      BY <1>6, <3>2, Zenon
  <2>4. /\ verified.totalBatchesExecuted = s.totalBatchesExecuted
        /\ verified.l2LogsRootHashes = s.l2LogsRootHashes
    BY <1>4, <1>5, Zenon DEF KeepsBatches
  <2>5. /\ verified.totalBatchesVerified <= verified.totalBatchesCommitted
        /\ verified.totalBatchesCommitted <= MaxBatches
    <3>1. /\ verified.totalBatchesVerified = b.batchNumber
          /\ verified.totalBatchesCommitted = b.batchNumber
      BY <1>2, <1>3, <1>4, <1>5, ZenonT(40)
    <3> QED
      BY <1>num, <3>1, SMTT(30)
  <2> HIDE DEF SafetyInv
  <2> QED
    BY <1>5, <2>1, <2>2, <2>3, <2>4, <2>5, Zenon DEF ReadyToExecute
<1>9. /\ s' \in ZKChainStorage
      /\ messageRoot' \in [currentChainBatchNumber : Nat,
                           chainBatchRoots : [0 .. MaxBatches -> LogRoots]]
      /\ processedUpTo' \in [0 .. MaxBatches -> Nat]
      /\ CountersOrdered' /\ MessageRootFollowsExecution' /\ UpgradeBatchTracked'
      /\ s'.totalBatchesExecuted = s.totalBatchesExecuted + 1
      /\ s'.totalBatchesVerified = verified.totalBatchesVerified
      /\ s'.totalBatchesCommitted = verified.totalBatchesCommitted
      /\ s'.storedBatchHashes = verified.storedBatchHashes
  BY <1>3, <1>8, ExecutedSafety, ZenonT(60)
<1>10. TypeOK' /\ TimeOK'
  BY <1>1, <1>3, <1>9, Zenon DEF TypeOK, TimeOK, RecordProofs, KeepPrecommitBatch
<1>11. ProofsCoverStoredBatches'
  <2>1. /\ s'.totalBatchesVerified = b.batchNumber
        /\ s.totalBatchesVerified = b.batchNumber - 1
        /\ s.totalBatchesCommitted = b.batchNumber - 1
        /\ b.batchNumber \in 1 .. MaxBatches
    <3>2. s.totalBatchesVerified + 1 = b.batchNumber
      BY <1>3, <1>4, Zenon
    <3>3. s'.totalBatchesVerified = s.totalBatchesVerified + 1
      BY <1>4, <1>5, <1>9, Zenon
    <3> HIDE DEF SafetyInv
    <3> QED
      BY <1>num, <1>2, <3>2, <3>3, SMTT(30)
  <2> SUFFICES ASSUME NEW k \in 1 .. b.batchNumber
               PROVE  proven'[k] = PublicInput(s'.storedBatchHashes[k - 1], s'.storedBatchHashes[k])
    BY <2>1, Zenon DEF ProofsCoverStoredBatches
  <2>2. k \in 0 .. MaxBatches /\ k \in Nat
    BY <2>1, Types
  <2>5. proven'[k] = IF k \in b.batchNumber .. b.batchNumber
                     THEN PublicInput(s'.storedBatchHashes[k - 1], s'.storedBatchHashes[k])
                     ELSE IF k <= s'.totalBatchesVerified THEN proven[k] ELSE NoProof
    <3>1. proven' = RecordProofs(b.batchNumber, b.batchNumber, s')
      BY <1>3, Zenon
    <3> HIDE DEF SafetyInv
    <3> QED
      BY <2>2, <3>1, Zenon DEF RecordProofs
  <2>3. CASE k = b.batchNumber
    BY <1>num, <2>2, <2>3, <2>5, SMTT(30)
  <2>4. CASE k < b.batchNumber
    <3>1. proven'[k] = proven[k]
      BY <1>num, <2>1, <2>2, <2>4, <2>5, SMTT(30)
    <3>2. proven[k] = PublicInput(s.storedBatchHashes[k - 1], s.storedBatchHashes[k])
      BY <2>1, <2>2, <2>4, SMTT(30) DEF ProofsCoverStoredBatches
    <3>3. /\ s'.storedBatchHashes[k] = s.storedBatchHashes[k]
          /\ s'.storedBatchHashes[k - 1] = s.storedBatchHashes[k - 1]
      BY <1>6, <1>9, <2>1, <2>2, <2>4
    <3> QED
      BY <3>1, <3>2, <3>3, Zenon
  <2>6. k = b.batchNumber \/ k < b.batchNumber
    <3> HIDE DEF SafetyInv
    <3> QED
      BY <1>num
  <2> QED
    BY <2>3, <2>4, <2>6, Zenon
<1>12. PriorityModeHasNoPendingBatch'
  <2>1. s'.totalBatchesCommitted = b.batchNumber
    BY <1>2, <1>4, <1>5, <1>9, Zenon
  <2>2. s'.totalBatchesExecuted = b.batchNumber
    BY <1>3, <1>4, <1>9, Zenon
  <2> QED
    BY <2>1, <2>2, Zenon DEF PriorityModeHasNoPendingBatch
<1> QED
  BY <1>9, <1>10, <1>11, <1>12, Zenon

(***************************************************************************)
(* The theorems.                                                           *)
(***************************************************************************)

\* Every transaction preserves the invariant.
LEMMA NextSafety == SafetyInv /\ [Next]_vars => SafetyInv'
<1> SUFFICES ASSUME SafetyInv, [Next]_vars PROVE SafetyInv'
  BY Zenon
<1>1. /\ 1 .. MaxBatches \subseteq Nat /\ 0 .. MaxBatches \subseteq Nat
      /\ 0 .. MaxVersion \subseteq Nat /\ VerifiedCounts \subseteq Nat
  BY ConstantsAssumption DEF VerifiedCounts
<1>2. CASE ValidatorStep
  <2>1. PICK v \in Validators :
          \/ \E chunk \in Chunks : precommitSharedBridge(v, chunk)
          \/ \E active \in BOOLEAN, b \in NewBatches : commitBatchesSharedBridge(v, active, b)
          \/ \E n \in 1 .. MaxBatches : proveBatchesSharedBridge(v, n)
          \/ \E n \in VerifiedCounts : \E cursor \in Cursors(s.totalBatchesExecuted, n) :
                executeBatchesSharedBridge(v, n, cursor)
          \/ \E newLastBatch \in 0 .. MaxBatches : revertBatchesSharedBridge(v, newLastBatch)
    BY <1>2, Zenon DEF ValidatorStep
  <2>2. CASE \E chunk \in Chunks : precommitSharedBridge(v, chunk)
    BY <2>2, PrecommitSafety, Zenon
  <2>3. CASE \E active \in BOOLEAN, b \in NewBatches : commitBatchesSharedBridge(v, active, b)
    BY <2>3, CommitSafety, Zenon
  <2>4. CASE \E n \in 1 .. MaxBatches : proveBatchesSharedBridge(v, n)
    BY <1>1, <2>4, ProveSafety, Zenon
  <2>5. CASE \E n \in VerifiedCounts : \E cursor \in Cursors(s.totalBatchesExecuted, n) :
                executeBatchesSharedBridge(v, n, cursor)
    BY <1>1, <2>5, ExecuteSafety, Zenon
  <2>6. CASE \E newLastBatch \in 0 .. MaxBatches : revertBatchesSharedBridge(v, newLastBatch)
    BY <1>1, <2>6, RevertSafety, Zenon
  <2> QED
    BY <2>1, <2>2, <2>3, <2>4, <2>5, <2>6, Zenon
<1>3. CASE UserStep
  <2>1. CASE requestL2Transaction
    BY <2>1, RequestSafety, Zenon
  <2>2. CASE activatePriorityMode
    BY <2>2, ActivateSafety, Zenon
  <2>3. CASE SettleStep
    BY <2>3, SettleSafety, Zenon DEF SettleStep
  <2> QED
    BY <1>3, <2>1, <2>2, <2>3, Zenon DEF UserStep
<1>4. CASE AdminStep
  BY <1>4, SwitchSafety, PauseSafety, Zenon DEF AdminStep
<1>5. CASE GovernanceStep
  <2>1. CASE \E newLastBatch \in 0 .. MaxBatches :
                revertBatchesSharedBridge(ChainTypeManager, newLastBatch)
    BY <1>1, <2>1, RevertSafety, Zenon
  <2>2. CASE \E newVersion \in 0 .. MaxVersion, tx \in BOOLEAN :
                upgradeChainFromVersion(newVersion, tx)
    BY <1>1, <2>2, UpgradeSafety, Zenon
  <2> QED
    BY <1>5, <2>1, <2>2, SwitchSafety, Zenon DEF GovernanceStep
<1>6. CASE Tick \/ UNCHANGED vars
  BY <1>6, TickSafety, Zenon
<1> QED
  BY <1>2, <1>3, <1>4, <1>5, <1>6, Zenon DEF Next

\* The safety invariants hold in every reachable state of a chain, for any
\* number of batches, operations, validators and upgrades.
THEOREM SafetyInvariance == Spec => []SafetyInv
BY InitSafety, NextSafety, PTL DEF Spec

\* Every variable keeps its type, in particular no counter goes below zero.
THEOREM TypeCorrect == Spec => []TypeOK
<1>1. SafetyInv => TypeOK
  BY Zenon DEF SafetyInv
<1> QED
  BY <1>1, SafetyInvariance, PTL

\* Batches are executed only once verified and verified only once committed,
\* whatever is reverted (totalBatchesExecuted <= totalBatchesVerified <=
\* totalBatchesCommitted in ZKChainStorage).
THEOREM CountersStayOrdered == Spec => []CountersOrdered
<1>1. SafetyInv => CountersOrdered
  BY Zenon DEF SafetyInv
<1> QED
  BY <1>1, SafetyInvariance, PTL

\* A verified batch was proven as it is stored now, on top of the batch that is
\* stored before it now: no proof outlives a revert of what it is about.
THEOREM ProofsStayValid == Spec => []ProofsCoverStoredBatches
<1>1. SafetyInv => ProofsCoverStoredBatches
  BY Zenon DEF SafetyInv
<1> QED
  BY <1>1, SafetyInvariance, PTL

\* The MessageRoot has the log roots of exactly the executed batches.
THEOREM MessageRootCorrect == Spec => []MessageRootFollowsExecution
<1>1. SafetyInv => MessageRootFollowsExecution
  BY Zenon DEF SafetyInv
<1> QED
  BY <1>1, SafetyInvariance, PTL

\* l2SystemContractsUpgradeBatchNumber names the pending batch of the upgrade.
THEOREM UpgradeStaysTracked == Spec => []UpgradeBatchTracked
<1>1. SafetyInv => UpgradeBatchTracked
  BY Zenon DEF SafetyInv
<1> QED
  BY <1>1, SafetyInvariance, PTL

\* In Priority Mode no batch is committed without being executed.
THEOREM PriorityModeIsClean == Spec => []PriorityModeHasNoPendingBatch
<1>1. SafetyInv => PriorityModeHasNoPendingBatch
  BY Zenon DEF SafetyInv
<1> QED
  BY <1>1, SafetyInvariance, PTL

(***************************************************************************)
(* Finality.                                                               *)
(***************************************************************************)

\* What a step must not undo.
KeepsExecuted(old, new) ==
    /\ old.totalBatchesExecuted <= new.totalBatchesExecuted
    /\ \A k \in 0 .. old.totalBatchesExecuted :
          new.storedBatchHashes[k] = old.storedBatchHashes[k]

\* Only commits write a stored batch hash, and they write above the executed
\* ones; only executions move totalBatchesExecuted.
LEMMA StepKeepsExecuted ==
    ASSUME SafetyInv, Next
    PROVE  KeepsExecuted(s, s')
<1> USE DEF KeepsExecuted
<1>1. /\ s \in ZKChainStorage /\ now \in Nat /\ InitTime <= now
      /\ s.totalBatchesExecuted \in Nat /\ s.totalBatchesCommitted \in Nat
      /\ s.totalBatchesExecuted <= s.totalBatchesCommitted
      /\ s.storedBatchHashes \in [0 .. MaxBatches -> Batch \cup {NoBatch}]
  <2>1. TypeOK /\ TimeOK /\ CountersOrdered
    BY Zenon DEF SafetyInv
  <2>2. s \in ZKChainStorage /\ now \in Nat /\ InitTime <= now
    BY <2>1, Zenon DEF TypeOK, TimeOK
  <2> QED
    BY <2>1, <2>2, Types DEF CountersOrdered
<1>2. /\ 1 .. MaxBatches \subseteq Nat /\ 0 .. MaxBatches \subseteq Nat
      /\ 0 .. MaxVersion \subseteq Nat /\ VerifiedCounts \subseteq Nat
  BY ConstantsAssumption DEF VerifiedCounts
<1>3. ASSUME NEW sender, NEW chunk \in Chunks, precommitSharedBridge(sender, chunk)
      PROVE  KeepsExecuted(s, s')
  <2>1. s' = Precommit(s, chunk)
    BY <1>3, Zenon DEF precommitSharedBridge
  <2>2. KeepsCounters(s, s') /\ KeepsBatches(s, s')
    BY <1>1, <2>1, PrecommitEffect, Zenon
  <2> QED
    BY <1>1, <2>2 DEF KeepsCounters, KeepsBatches
<1>4. ASSUME NEW b \in NewBatches
      PROVE  KeepsExecuted(s, Commit(s, b))
  <2>1. b \in Batch /\ b.batchNumber = s.totalBatchesCommitted + 1
    BY <1>1, NewBatchType, Zenon
  <2>2. /\ Commit(s, b).totalBatchesExecuted = s.totalBatchesExecuted
        /\ Commit(s, b).storedBatchHashes = [s.storedBatchHashes EXCEPT ![b.batchNumber] = b]
    BY <1>1, <2>1, CommitEffect, Zenon DEF CommitResult
  <2> QED
    BY <1>1, <2>1, <2>2, SMTT(30)
<1>5. ASSUME NEW sender, NEW n \in Nat, proveBatchesSharedBridge(sender, n)
      PROVE  KeepsExecuted(s, s')
  <2>1. s' = Prove(s, n)
    BY <1>5, Zenon DEF proveBatchesSharedBridge
  <2>2. s'.totalBatchesExecuted = s.totalBatchesExecuted /\ KeepsBatches(s, s')
    BY <1>1, <2>1, ProveEffect, Zenon
  <2> QED
    BY <1>1, <2>2 DEF KeepsBatches
<1>6. ASSUME NEW mid \in ZKChainStorage, NEW n \in Nat, NEW cursor
      PROVE  KeepsExecuted(mid, Execute(mid, n, cursor))
  <2>1. /\ Execute(mid, n, cursor).totalBatchesExecuted = mid.totalBatchesExecuted + n
        /\ Execute(mid, n, cursor).storedBatchHashes = mid.storedBatchHashes
    BY Zenon DEF Execute, ZKChainStorage
  <2>2. mid.totalBatchesExecuted \in Nat
    BY Zenon DEF ZKChainStorage
  <2> QED
    BY <2>1, <2>2
<1>7. ASSUME NEW sender, NEW newLastBatch \in Nat,
             revertBatchesSharedBridge(sender, newLastBatch)
      PROVE  KeepsExecuted(s, s')
  <2>1. s' = RevertBatches(s, newLastBatch)
    BY <1>7, Zenon DEF revertBatchesSharedBridge
  <2>2. s'.totalBatchesExecuted = s.totalBatchesExecuted /\ KeepsBatches(s, s')
    BY <1>1, <2>1, RevertEffect, ZenonT(40)
  <2> QED
    BY <1>1, <2>2 DEF KeepsBatches
<1>8. ASSUME activatePriorityMode PROVE KeepsExecuted(s, s')
  <2>1. s' = ActivatePriorityMode(s)
    BY <1>8, Zenon DEF activatePriorityMode
  <2>2. s'.totalBatchesExecuted = s.totalBatchesExecuted /\ KeepsBatches(s, s')
    BY <1>1, <2>1, ActivateEffect, Zenon
  <2> QED
    BY <1>1, <2>2 DEF KeepsBatches
<1>9. ASSUME SettleStep PROVE KeepsExecuted(s, s')
  <2>1. PICK b \in NewBatches, cursor \in Cursors(s.totalBatchesExecuted, 1) :
          s' = Execute(Prove(Commit(s, b), 1), 1, cursor)
    BY <1>9, Zenon DEF SettleStep, settleBatchesSharedBridge
  <2>2. Commit(s, b) \in ZKChainStorage
    BY <1>1, NewBatchType, CommitEffect, Zenon DEF CommitResult
  <2>3. /\ Prove(Commit(s, b), 1) \in ZKChainStorage
        /\ Prove(Commit(s, b), 1).totalBatchesExecuted = Commit(s, b).totalBatchesExecuted
        /\ Prove(Commit(s, b), 1).storedBatchHashes = Commit(s, b).storedBatchHashes
    BY <2>2, ProveEffect, Zenon DEF KeepsBatches
  <2>4. Commit(s, b).totalBatchesExecuted = s.totalBatchesExecuted
    BY <1>1, NewBatchType, CommitEffect, ZenonT(40) DEF CommitResult
  <2>5. KeepsExecuted(s, Commit(s, b))
    BY <1>4, Zenon
  <2>6. KeepsExecuted(Prove(Commit(s, b), 1), s')
    <3>1. 1 \in Nat
      BY Zenon
    <3> QED
      BY <1>6, <2>1, <2>3, <3>1, Zenon
  <2> QED
    BY <1>1, <2>3, <2>4, <2>5, <2>6, Zenon
<1>10. ASSUME requestL2Transaction PROVE KeepsExecuted(s, s')
  <2>1. nextPriorityTxId(s) \in Nat
    BY <1>1, SMTT(30) DEF ZKChainStorage, Tree, nextPriorityTxId, getTotalPriorityTxs
  <2>2. KeepsCounters(s, s') /\ KeepsBatches(s, s')
    BY <1>1, <1>10, <2>1, WritePriorityOpHashEffect, ZenonT(40) DEF requestL2Transaction
  <2> QED
    BY <1>1, <2>2 DEF KeepsCounters, KeepsBatches
<1>11. ASSUME AdminStep \/ deactivatePriorityMode
              \/ \E v \in Validators, isActive \in BOOLEAN : setValidator(v, isActive)
       PROVE  KeepsExecuted(s, s')
  <2>1. \/ s' = PauseDeposits(s, now)
        \/ s' = MakePermanentRollup(s) \/ s' = PermanentlyAllowPriorityMode(s)
        \/ s' = DeactivatePriorityMode(s) \/ s' = UnpauseDeposits(s)
        \/ \E v \in Validators, isActive \in BOOLEAN : s' = SetValidator(s, v, isActive)
    BY <1>11, Zenon DEF AdminStep, makePermanentRollup, permanentlyAllowPriorityMode, unpauseDeposits,
                 deactivatePriorityMode, setValidator, pauseDepositsBeforeInitiatingMigration
  <2>2. KeepsCounters(s, s') /\ KeepsBatches(s, s')
    BY <1>1, <2>1, SwitchEffect, PauseEffect, Zenon
  <2> QED
    BY <1>1, <2>2 DEF KeepsCounters, KeepsBatches
<1>12. ASSUME NEW newVersion \in Nat, NEW tx \in BOOLEAN, upgradeChainFromVersion(newVersion, tx)
       PROVE  KeepsExecuted(s, s')
  <2>1. s' = Upgrade(s, newVersion, tx)
    BY <1>12, Zenon DEF upgradeChainFromVersion
  <2>2. KeepsCounters(s, s') /\ KeepsBatches(s, s')
    BY <1>1, <2>1, UpgradeEffect, Zenon
  <2> QED
    BY <1>1, <2>2 DEF KeepsCounters, KeepsBatches
<1>13. ASSUME Tick PROVE KeepsExecuted(s, s')
  BY <1>1, <1>13 DEF Tick
<1> HIDE DEF KeepsExecuted
<1>14. ASSUME ValidatorStep PROVE KeepsExecuted(s, s')
  <2>1. PICK v \in Validators :
          \/ \E chunk \in Chunks : precommitSharedBridge(v, chunk)
          \/ \E active \in BOOLEAN, b \in NewBatches : commitBatchesSharedBridge(v, active, b)
          \/ \E n \in 1 .. MaxBatches : proveBatchesSharedBridge(v, n)
          \/ \E n \in VerifiedCounts : \E cursor \in Cursors(s.totalBatchesExecuted, n) :
                executeBatchesSharedBridge(v, n, cursor)
          \/ \E newLastBatch \in 0 .. MaxBatches : revertBatchesSharedBridge(v, newLastBatch)
    BY <1>14, Zenon DEF ValidatorStep
  <2>2. CASE \E chunk \in Chunks : precommitSharedBridge(v, chunk)
    BY <1>3, <2>2, Zenon
  <2>3. CASE \E active \in BOOLEAN, b \in NewBatches : commitBatchesSharedBridge(v, active, b)
    BY <1>4, <2>3, Zenon DEF commitBatchesSharedBridge
  <2>4. CASE \E n \in 1 .. MaxBatches : proveBatchesSharedBridge(v, n)
    BY <1>2, <1>5, <2>4, Zenon
  <2>5. CASE \E n \in VerifiedCounts : \E cursor \in Cursors(s.totalBatchesExecuted, n) :
                executeBatchesSharedBridge(v, n, cursor)
    BY <1>1, <1>2, <1>6, <2>5, Zenon DEF executeBatchesSharedBridge
  <2>6. CASE \E newLastBatch \in 0 .. MaxBatches : revertBatchesSharedBridge(v, newLastBatch)
    BY <1>2, <1>7, <2>6, Zenon
  <2> QED
    BY <2>1, <2>2, <2>3, <2>4, <2>5, <2>6, Zenon
<1>15. ASSUME GovernanceStep PROVE KeepsExecuted(s, s')
  BY <1>2, <1>7, <1>11, <1>12, <1>15, Zenon DEF GovernanceStep
<1> QED
  BY <1>8, <1>9, <1>10, <1>11, <1>13, <1>14, <1>15, Zenon DEF Next, UserStep

\* Executed batches are final: no sequence of reverts, activations of Priority
\* Mode and upgrades lowers totalBatchesExecuted or replaces an executed batch.
THEOREM ExecutedBatchesAreFinal == Spec => ExecutedIsFinal
<1>1. SafetyInv /\ [Next]_vars =>
        [ /\ s.totalBatchesExecuted <= s'.totalBatchesExecuted
          /\ \A k \in 0 .. s.totalBatchesExecuted :
                s'.storedBatchHashes[k] = s.storedBatchHashes[k] ]_vars
  BY StepKeepsExecuted, Zenon DEF KeepsExecuted
<1> QED
  BY <1>1, SafetyInvariance, PTL DEF Spec, ExecutedIsFinal

==============================================================================
