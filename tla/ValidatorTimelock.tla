-------------------------- MODULE ValidatorTimelock --------------------------
(***************************************************************************)
(* A ZK chain whose validator is the ValidatorTimelock                     *)
(* (validators/ValidatorTimelock.sol): the accounts that hold a role for   *)
(* the chain call the timelock, which notes when batches are committed,    *)
(* refuses to execute a batch before executionDelay has passed, and        *)
(* forwards the call to the diamond.  The CTM can still revert batches     *)
(* directly, and in Priority Mode the PermissionlessValidator settles      *)
(* batches directly: the timelock is not told of either.                   *)
(*                                                                         *)
(* A call and the call it forwards are one transaction, so every action    *)
(* below conjoins the timelock's part with the chain's action.  The two    *)
(* read the range of batches from different places: the timelock from the  *)
(* arguments, the diamond from the batches in the call's data.             *)
(***************************************************************************)
EXTENDS ZKChain

CONSTANTS
    Timelock,   \* the address of the timelock
    Delays,     \* the delays its owner sets
    Uint32      \* number of values of a uint32

ASSUME TimelockAssumption ==
    /\ Timelock \in Validators
    /\ Delays # {} /\ Delays \subseteq 0 .. Uint32 - 1
    /\ Uint32 \in Nat /\ InitTime <= MaxTime /\ MaxTime < Uint32

VARIABLES
    executionDelay,
    committedBatchTimestamp, \* a uint32 for each batch number, 0 if never set
    committedAt              \* history: when the stored batch was committed

timelockVars == <<executionDelay, committedBatchTimestamp, committedAt>>

TimelockInit ==
    /\ Init
    /\ executionDelay \in Delays
    /\ committedBatchTimestamp = [k \in 0 .. MaxBatches |-> 0]
    /\ committedAt = [k \in 0 .. MaxBatches |-> 0]

\* Mutant: the bounds of the call are not compared with the batches in its data.
CheckBatchBoundsSkipped(from, to, first, last) == TRUE

\* BatchDecoder: the range in the call's arguments is the range in its data.
CheckBatchBounds(from, to, first, last) == from = first /\ to = last

recordBatchCommitment(from, to) ==
    [k \in DOMAIN committedBatchTimestamp |->
        IF k \in from .. to THEN now % Uint32 ELSE committedBatchTimestamp[k]]

\* The check of executeBatchesSharedBridge; a zero timestamp passes once
\* executionDelay has passed since the epoch.
DelayPassed(from, to) ==
    \A k \in (from .. to) \cap DOMAIN committedBatchTimestamp :
        now >= committedBatchTimestamp[k] + executionDelay

commit(from, to, active, b) ==
    /\ CheckBatchBounds(from, to, b.batchNumber, b.batchNumber)
    /\ committedBatchTimestamp' = recordBatchCommitment(from, to)
    /\ commitBatchesSharedBridge(Timelock, active, b)
    /\ committedAt' = [committedAt EXCEPT ![b.batchNumber] = now]
    /\ UNCHANGED executionDelay

execute(from, to, n, cursor) ==
    /\ CheckBatchBounds(from, to, s.totalBatchesExecuted + 1, s.totalBatchesExecuted + n)
    /\ DelayPassed(from, to)
    /\ executeBatchesSharedBridge(Timelock, n, cursor)
    /\ UNCHANGED timelockVars

precommit(chunk) == precommitSharedBridge(Timelock, chunk) /\ UNCHANGED timelockVars

prove(n) == proveBatchesSharedBridge(Timelock, n) /\ UNCHANGED timelockVars

revert(newLastBatch) ==
    revertBatchesSharedBridge(Timelock, newLastBatch) /\ UNCHANGED timelockVars

setExecutionDelay(delay) ==
    /\ executionDelay' = delay
    /\ UNCHANGED <<committedBatchTimestamp, committedAt>> /\ UNCHANGED vars

\* Batches that do not go through the timelock.
settle ==
    /\ SettleStep
    /\ committedAt' = [committedAt EXCEPT ![s'.totalBatchesCommitted] = now]
    /\ UNCHANGED <<executionDelay, committedBatchTimestamp>>

Direct ==
    /\ requestL2Transaction \/ activatePriorityMode \/ AdminStep \/ GovernanceStep \/ Tick
    /\ UNCHANGED timelockVars

TimelockNext ==
    \/ \E chunk \in Chunks : precommit(chunk)
    \/ \E from, to \in 0 .. MaxBatches, active \in BOOLEAN, b \in NewBatches :
          commit(from, to, active, b)
    \/ \E n \in 1 .. MaxBatches : prove(n)
    \/ \E from, to \in 0 .. MaxBatches, n \in VerifiedCounts :
          \E cursor \in Cursors(s.totalBatchesExecuted, n) : execute(from, to, n, cursor)
    \/ \E newLastBatch \in 0 .. MaxBatches : revert(newLastBatch)
    \/ \E delay \in Delays : setExecutionDelay(delay)
    \/ settle
    \/ Direct

allVars == <<vars, timelockVars>>

TimelockSpec == TimelockInit /\ [][TimelockNext]_allVars

(***************************************************************************)
(* Properties.                                                             *)
(***************************************************************************)

\* No batch becomes final through the timelock before executionDelay has passed
\* since that very batch was committed, however batches of its number were
\* reverted by the timelock, the CTM or Priority Mode before.
ExecutionWaitsForDelay ==
    [][ ~s.priorityModeInfo.activated =>
          \A k \in s.totalBatchesExecuted + 1 .. s'.totalBatchesExecuted :
              now >= committedAt[k] + executionDelay ]_allVars

=============================================================================
