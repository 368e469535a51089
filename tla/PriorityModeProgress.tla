------------------------ MODULE PriorityModeProgress ------------------------
(***************************************************************************)
(* Whether Priority Mode gets the priority operations processed.  What can *)
(* stop it lies outside the chain's own storage: a batch is committed only *)
(* while the chain's protocol version is active, which the deadline of the *)
(* version and the owner of the chain type manager decide, and the owner   *)
(* may freeze the diamond, whose Mailbox, Executor and Committer facets    *)
(* then revert (DeployCTMUtils.s.sol, isFreezable).                        *)
(***************************************************************************)
EXTENDS ValidatorTimelock

VARIABLES
    protocolVersionIsActive, \* of the chain's version, in the chain type manager
    isFrozen                 \* of the diamond's storage

haltVars == <<protocolVersionIsActive, isFrozen>>

progressVars == <<allVars, haltVars>>

ProgressInit ==
    /\ TimelockInit
    /\ protocolVersionIsActive = TRUE
    /\ isFrozen = FALSE

\* settleBatchesSharedBridge, called by anybody; see `settle`.
settleNow ==
    /\ ~isFrozen
    /\ onlyValidatorOrPriorityMode(s, PermissionlessValidator)
    /\ \E b \in NewBatches, cursor \in Cursors(s.totalBatchesExecuted, 1) :
          settleBatchesSharedBridge(protocolVersionIsActive, b, cursor)
    /\ committedAt' = [committedAt EXCEPT ![s'.totalBatchesCommitted] = now]
    /\ UNCHANGED <<executionDelay, committedBatchTimestamp>>
    /\ UNCHANGED haltVars

\* The other calls of the facets that can be frozen; only chains on ZKsync OS have a
\* Priority Mode, and they have no precommitments.
Freezable ==
    /\ ~isFrozen
    /\ \/ \E from, to \in 0 .. MaxBatches, b \in NewBatches :
             commit(from, to, protocolVersionIsActive, b)
       \/ \E n \in 1 .. MaxBatches : prove(n)
       \/ \E from, to \in 0 .. MaxBatches, n \in VerifiedCounts :
             \E cursor \in Cursors(s.totalBatchesExecuted, n) : execute(from, to, n, cursor)
       \/ \E newLastBatch \in 0 .. MaxBatches :
             \/ revert(newLastBatch)
             \/ revertBatchesSharedBridge(ChainTypeManager, newLastBatch) /\ UNCHANGED timelockVars
       \/ requestL2Transaction /\ UNCHANGED timelockVars
    /\ UNCHANGED haltVars

\* The calls of the Admin and Migrator facets but for activatePriorityMode, and of
\* the timelock alone.
NotFreezable ==
    /\ \/ /\ \/ AdminStep \/ deactivatePriorityMode
             \/ \E v \in Validators, isActive \in BOOLEAN : setValidator(v, isActive)
             \/ \E newVersion \in 0 .. MaxVersion, tx \in BOOLEAN : upgradeChainFromVersion(newVersion, tx)
          /\ UNCHANGED timelockVars
       \/ \E delay \in Delays : setExecutionDelay(delay)
    /\ UNCHANGED haltVars

activateNow == activatePriorityMode /\ UNCHANGED timelockVars /\ UNCHANGED haltVars

TickNow == Tick /\ UNCHANGED timelockVars /\ UNCHANGED haltVars

\* The deadline of the version passes, or setProtocolVersionDeadline moves it.
DeadlineStep ==
    /\ protocolVersionIsActive' = ~protocolVersionIsActive
    /\ UNCHANGED isFrozen /\ UNCHANGED allVars

freezeDiamond ==
    /\ ~isFrozen
    /\ isFrozen' = TRUE
    /\ UNCHANGED protocolVersionIsActive /\ UNCHANGED allVars

unfreezeDiamond ==
    /\ isFrozen
    /\ isFrozen' = FALSE
    /\ UNCHANGED protocolVersionIsActive /\ UNCHANGED allVars

ProgressNext ==
    \/ settleNow \/ Freezable \/ NotFreezable \/ activateNow \/ TickNow
    \/ DeadlineStep \/ freezeDiamond \/ unfreezeDiamond

\* Time passes, and there is somebody who wants the priority operations settled:
\* anybody may activate Priority Mode, and once it is active anybody may settle a
\* batch.  Governance may deactivate it in between, so that settling is enabled
\* again and again and not for good.  Nothing is assumed of the validators, the
\* chain's admin or governance.
ProgressSpec ==
    /\ ProgressInit /\ [][ProgressNext]_progressVars
    /\ WF_progressVars(TickNow) /\ WF_progressVars(activateNow) /\ SF_progressVars(settleNow)

(***************************************************************************)
(* Properties.                                                             *)
(***************************************************************************)

\* What the chain cannot do without: governance leaves it an active version and a
\* diamond that is not frozen (Committer.sol, InvalidProtocolVersion).
Open == protocolVersionIsActive /\ ~isFrozen

\* Priority Mode's purpose: on a permanent rollup that allowed it and that is open
\* from some time on, a requested operation is processed even if the validators
\* stop, keep committing batches without it, or keep reverting them, and even if
\* governance keeps deactivating Priority Mode.  A chain whose version expired, or
\* whose diamond is frozen, is at governance's mercy: nothing is said of it.  The
\* model's clock stops at MaxTime and its batches at MaxBatches: operations that
\* cannot become overdue before the one, or that meet the other, are left out.
OverdueOpsProcessed ==
    <>[]Open =>
    \A i \in 0 .. MaxOps - 1 :
        /\ s.priorityModeInfo.canBeActivated
        /\ s.isPermanentRollup
        /\ i < Len(s.priorityTree.leaves)
        /\ s.priorityOpsRequestTimestamp[StartIndex + i] + PRIORITY_EXPIRATION <= MaxTime
        ~> \/ i < s.priorityTree.unprocessedIndex
           \/ s.totalBatchesExecuted = MaxBatches

=============================================================================
