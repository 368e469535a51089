------------------------- MODULE GatewayMigrationOps -------------------------
(***************************************************************************)
(* The operator's side of a migration: the phase commands of protocol-ops  *)
(* (commands/chain/gateway/migrate_to.rs and migrate_from.rs) composed     *)
(* with the contracts of ChainMigration.  A command forks L1, runs its     *)
(* forge scripts on the fork and writes a bundle of calls; the bundle is   *)
(* replayed on L1 later, possibly more than once, when L1 may have moved   *)
(* on.  The finalizing phases first poll the gateway, with timeouts.  A    *)
(* command may be killed at any time and is simply run again.              *)
(*                                                                         *)
(* The fork of a phase that does not wait is taken and used in one step:   *)
(* it never changes, so only its age at the replay can be told.  The       *)
(* events that tell the server of a migration are left out.                *)
(***************************************************************************)
EXTENDS ChainMigration

VARIABLES
    cmd,     \* the finalizing command that is running, if any
    bundle,  \* the calls written by the last command
    replay   \* the calls of the bundle that are still to be sent

opsVars == <<cmd, bundle, replay>>

allVars == <<vars, opsVars>>

Idle == [phase |-> "none", step |-> "none", polled |-> FALSE, mint |-> 0, fork |-> 0, ok |-> FALSE]

OpsInit ==
    /\ Init
    /\ cmd = Idle
    /\ bundle = <<>>
    /\ replay = <<>>

(***************************************************************************)
(* The phases that do not wait: the guard is what their scripts and the    *)
(* tool require of the fork and of the gateway, the bundle what they send. *)
(***************************************************************************)

WriteBundle(calls) ==
    /\ cmd.phase = "none"
    /\ replay = <<>>
    /\ bundle' = calls
    /\ UNCHANGED <<vars, cmd, replay>>

\* resolve_settlement_layer: an error for a chain that settles on L1.
SettlesOnGateway == hub["L1"] = "GW"

\* phase-0-pause-deposits, the same call in both directions
RunPausePhase ==
    /\ CanPauseDeposits
    /\ WriteBundle(<<[call |-> "pause", mint |-> 0]>>)

\* phase-1-submit of migrate-to
RunSubmitPhase ==
    /\ CanBridgeBurn("L1")
    /\ WriteBundle(<<[call |-> "submit", mint |-> 0]>>)

\* phase-1-submit of migrate-from: L1 cannot simulate what the gateway does.
RunSubmitFromPhase ==
    /\ SettlesOnGateway
    /\ WriteBundle(<<[call |-> "burn", mint |-> 0]>>)

\* resolve_chain_diamond_on_gateway and resolve_gateway_validator_timelock
RegisteredOnGateway == chain["GW"].deployed

\* Mutant: phase 3 does not look at the gateway.
RunValidatorsPhaseBlind ==
    /\ SettlesOnGateway
    /\ WriteBundle(<<[call |-> "validators", mint |-> 0], [call |-> "daPair", mint |-> 0]>>)

\* phase-3-validators of migrate-to
RunValidatorsPhase ==
    /\ SettlesOnGateway
    /\ RegisteredOnGateway
    /\ WriteBundle(<<[call |-> "validators", mint |-> 0], [call |-> "daPair", mint |-> 0]>>)

\* phase-3-set-da-validator-pair of migrate-from
RunSetDAPhase == WriteBundle(<<[call |-> "setDA", mint |-> 0]>>)

(***************************************************************************)
(* phase-2-finalize of migrate-to: finalize_migration.                     *)
(***************************************************************************)

Running(phase, step) == cmd.phase = phase /\ cmd.step = step

Goto(step) == cmd' = [cmd EXCEPT !.step = step, !.polled = FALSE]

Poll == cmd' = [cmd EXCEPT !.polled = TRUE]

Stop == cmd' = Idle

\* find_migration_tx and extract_priority_op_hash: the last migration started.
StartFinalize ==
    /\ cmd.phase = "none"
    /\ replay = <<>>
    /\ SettlesOnGateway
    /\ mints # <<>>
    /\ cmd' = [Idle EXCEPT !.phase = "finalize", !.step = "receipt", !.mint = Len(mints)]
    /\ UNCHANGED <<vars, bundle, replay>>

\* wait_for_l2_tx_receipt: a reverted transaction is an error.
WaitForReceipt ==
    /\ Running("finalize", "receipt")
    /\ CASE mints[cmd.mint].status = "pending" -> Poll
         [] mints[cmd.mint].status = "failure" -> Stop
         [] OTHER -> Goto("finalized")
    /\ UNCHANGED <<vars, bundle, replay>>

\* wait_for_gateway_block_finalized
WaitForBlockFinalized ==
    /\ Running("finalize", "finalized")
    /\ IF mints[cmd.mint].batch <= gatewayBatch THEN Goto("proof") ELSE Poll
    /\ UNCHANGED <<vars, bundle, replay>>

\* get_finalize_params, then the fork of L1 that the script will see.
ForkForFinalize ==
    /\ Running("finalize", "proof")
    /\ cmd' = [cmd EXCEPT !.step = "script", !.fork = gatewayBatch,
                          !.ok = CanClearTransfer(cmd.mint, "success")]
    /\ UNCHANGED <<vars, bundle, replay>>

\* finishMigrateChainToGateway on the fork
FinalizeScript ==
    /\ Running("finalize", "script")
    /\ bundle' = IF cmd.ok THEN <<[call |-> "confirm", mint |-> cmd.mint]>> ELSE bundle
    /\ Stop
    /\ UNCHANGED <<vars, replay>>

(***************************************************************************)
(* phase-2-finalize of migrate-from.                                       *)
(***************************************************************************)

StartFinalizeFrom ==
    /\ cmd.phase = "none"
    /\ replay = <<>>
    /\ SettlesOnGateway
    /\ cmd' = [Idle EXCEPT !.phase = "finalizeFrom", !.step = "receipt"]
    /\ UNCHANGED <<vars, bundle, replay>>

\* wait_for_l2_tx_receipt and get_finalize_withdrawal_params: the burn was not
\* executed yet, reverted (an error that is not retried), or sent its message.
WaitForWithdrawal ==
    /\ Running("finalizeFrom", "receipt")
    /\ CASE withdrawal.sent -> Goto("executed")
         [] ~withdrawal.sent /\ (\E i \in DOMAIN toGateway : toGateway[i].kind = "burn") -> Poll
         [] OTHER -> Stop
    /\ UNCHANGED <<vars, bundle, replay>>

\* Mutant: the fork is taken before the batch is executed on L1.
WaitForBatchExecutedNot ==
    /\ Running("finalizeFrom", "executed")
    /\ Goto("fork")
    /\ UNCHANGED <<vars, bundle, replay>>

\* wait_for_gateway_batch_executed_on_l1, on L1 itself
WaitForBatchExecuted ==
    /\ Running("finalizeFrom", "executed")
    /\ IF withdrawal.batch <= gatewayBatch THEN Goto("fork") ELSE Poll
    /\ UNCHANGED <<vars, bundle, replay>>

ForkForFinalizeFrom ==
    /\ Running("finalizeFrom", "fork")
    /\ cmd' = [cmd EXCEPT !.step = "script", !.fork = gatewayBatch,
                          !.ok = CanVerifyWithdrawal /\ CanBridgeMint("L1", withdrawal.data)]
    /\ UNCHANGED <<vars, bundle, replay>>

\* finishMigrateChainFromGateway on the fork
FinalizeFromScript ==
    /\ Running("finalizeFrom", "script")
    /\ bundle' = IF cmd.ok THEN <<[call |-> "finalize", mint |-> 0]>> ELSE bundle
    /\ Stop
    /\ UNCHANGED <<vars, replay>>

\* A wait gives up after its deadline, which passes only after a first poll
\* that found nothing.
Timeout ==
    /\ cmd.polled
    /\ Stop
    /\ UNCHANGED <<vars, bundle, replay>>

\* The tool is killed: a finalizing command, or the replay of a bundle.
Killed ==
    /\ cmd # Idle \/ replay # <<>>
    /\ Stop
    /\ replay' = <<>>
    /\ UNCHANGED <<vars, bundle>>

(***************************************************************************)
(* The replay of the bundle on L1, from its first call each time.          *)
(***************************************************************************)

StartReplay ==
    /\ cmd.phase = "none"
    /\ bundle # <<>>
    /\ replay = <<>>
    /\ replay' = bundle
    /\ UNCHANGED <<vars, cmd, bundle>>

\* Whether L1 accepts the call now.
CanCall(c) ==
    CASE c.call = "pause" -> CanPauseDeposits
      [] c.call = "submit" -> CanBridgeBurn("L1")
      [] c.call = "confirm" -> CanClearTransfer(c.mint, "success")
      [] c.call = "finalize" -> CanVerifyWithdrawal /\ CanBridgeMint("L1", withdrawal.data)
      [] OTHER -> TRUE

Call(c) ==
    \/ c.call = "pause" /\ PauseDeposits
    \/ c.call = "submit" /\ MigrateToGateway
    \/ c.call = "confirm" /\ ConfirmSuccess(c.mint)
    \/ c.call = "finalize" /\ FinalizeMigration
    \/ c.call = "setDA" /\ (SetDAValidatorPair \/ (chain["L1"].daPair /\ UNCHANGED vars))
    \/ c.call \in {"burn", "validators", "daPair"} /\ RequestOnGateway(c.call)

ReplayCall ==
    /\ replay # <<>>
    /\ CanCall(Head(replay))
    /\ Call(Head(replay))
    /\ replay' = Tail(replay)
    /\ UNCHANGED <<cmd, bundle>>

\* A call that reverts ends the replay.
ReplayReverts ==
    /\ replay # <<>>
    /\ ~CanCall(Head(replay))
    /\ replay' = <<>>
    /\ UNCHANGED <<vars, cmd, bundle>>

Commands ==
    \/ RunPausePhase \/ RunSubmitPhase \/ RunSubmitFromPhase \/ RunValidatorsPhase \/ RunSetDAPhase
    \/ StartFinalize \/ StartFinalizeFrom

Waits ==
    \/ WaitForReceipt \/ WaitForBlockFinalized \/ ForkForFinalize \/ FinalizeScript
    \/ WaitForWithdrawal \/ WaitForBatchExecuted \/ ForkForFinalizeFrom \/ FinalizeFromScript

\* Calls that are not made by the tool: the admin may reopen deposits or allow
\* Priority Mode, and anyone may confirm the result of a mint, a failure too,
\* which the tool has no command for.
Contracts ==
    /\ \/ Environment \/ UnpauseDeposits \/ PermanentlyAllowPriorityMode
       \/ \E i \in DOMAIN mints : ConfirmSuccess(i) \/ ConfirmFailure(i)
    /\ UNCHANGED opsVars

OpsNext ==
    \/ Commands \/ Waits \/ Timeout \/ Killed
    \/ StartReplay \/ ReplayCall \/ ReplayReverts
    \/ Contracts

OpsSpec == OpsInit /\ [][OpsNext]_allVars

(***************************************************************************)
(* Properties.                                                             *)
(***************************************************************************)

\* "A fork taken too early ... reverts with InvalidProof" (migrate_from.rs): the
\* fork on which a finalizing script runs always has the gateway batch that the
\* script proves a message of.
ForkSeesSettledBatch ==
    cmd.step = "script" =>
        (IF cmd.phase = "finalize" THEN mints[cmd.mint].batch ELSE withdrawal.batch) <= cmd.fork

\* What phase 3 sends to the gateway is never lost: the chain is registered
\* there before its validators and its DA pair arrive, whatever happened between
\* the command, the replay of its bundle and the execution on the gateway.
ConfigurationIsNotLost ==
    toGateway # <<>> /\ Head(toGateway).kind \in {"validators", "daPair"} =>
        SucceedsOnGateway(Head(toGateway))

=============================================================================
