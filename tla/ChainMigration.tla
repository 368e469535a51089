---------------------------- MODULE ChainMigration ----------------------------
(***************************************************************************)
(* The migration of a ZK chain from L1 to a gateway and back: the Migrator *)
(* facet of the chain's two diamonds, and the ChainAssetHandler, Bridgehub *)
(* and MessageRoot of the two settlement layers.  L1 reaches the gateway   *)
(* by priority transactions, executed in order; the gateway reaches L1 by  *)
(* messages and transaction statuses that are provable once the gateway's  *)
(* batch is executed on L1.                                                *)
(*                                                                         *)
(* One chain, one gateway and one chain type manager on each layer, whose  *)
(* versions are published independently.  Batches are counted: their       *)
(* hashes, the upgrade transaction, the precommitment and                  *)
(* isPermanentRollup travel with the commitment unchanged and are left     *)
(* out.  The pause windows of common/Config.sol are zero, so a pause takes *)
(* effect at once.                                                         *)
(***************************************************************************)
EXTENDS PriorityTree

CONSTANTS
    StartIndex,     \* startIndex of the priority tree
    MaxOps,         \* bound: requested priority operations
    MaxBatches,     \* bound: committed batches
    MaxInFlight,    \* bound: transactions on their way to the gateway
    MaxMigrations,  \* bound: attempts to migrate to the gateway
    MaxGatewayBatches, \* bound: gateway batches executed on L1
    MaxVersions     \* bound: protocol versions published on both layers

ASSUME MigrationAssumption ==
    /\ StartIndex \in Nat
    /\ MaxOps \in Nat
    /\ MaxBatches \in Nat
    /\ MaxInFlight \in Nat
    /\ MaxMigrations \in Nat
    /\ MaxGatewayBatches \in Nat
    /\ MaxVersions \in Nat

Layers == {"L1", "GW"}

\* MIGRATION_NUMBER_L1_TO_SETTLEMENT_LAYER and back, MAX_ALLOWED_NUMBER_OF_MIGRATIONS.
ToGateway == 1
ToL1 == 2
MAX_ALLOWED_NUMBER_OF_MIGRATIONS == 2

VARIABLES
    chain,       \* the storage of the chain's diamond on each layer
    hub,         \* settlementLayer[chain] in the Bridgehub of each layer
    handler,     \* migrationNumber and migrationPaused of each ChainAssetHandler
    root,        \* currentChainBatchNumber[chain] in each MessageRoot
    inProgress,  \* isMigrationInProgress on L1
    interval,    \* _migrationInterval[chain][1] on L1
    toGateway,   \* the priority transactions on their way from L1 to the gateway
    mints,       \* the mints sent to the gateway: their status there, and depositHappened
    gatewayBatch,\* number of gateway batches executed on L1
    withdrawal,  \* the message of a burn on the gateway, finalized or not
    protocol,    \* protocolVersion of each layer's manager and diamond, and of each burn on L1
    settledOn    \* history: where each executed batch was settled

vars == <<chain, hub, handler, root, inProgress, interval, toGateway, mints,
          gatewayBatch, withdrawal, protocol, settledOn>>

NoInterval == [from |-> 0, to |-> 0, lower |-> 0, upper |-> 0, sl |-> "none", isActive |-> FALSE]

NoWithdrawal == [sent |-> FALSE, finalized |-> FALSE, batch |-> 0, data |-> "none"]

\* A diamond that does not exist yet.
NoDiamond ==
    [deployed |-> FALSE, settlementLayer |-> "none", paused |-> FALSE, canBeActivated |-> FALSE,
     committed |-> 0, executed |-> 0, tree |-> EmptyTree, daPair |-> FALSE, validators |-> FALSE]

Init ==
    /\ chain = [L1 |-> [NoDiamond EXCEPT !.deployed = TRUE, !.tree = setup(StartIndex),
                                         !.daPair = TRUE, !.validators = TRUE],
                GW |-> NoDiamond]
    /\ hub = [L1 |-> "L1", GW |-> "none"]
    /\ handler = [l \in Layers |-> [migrationNumber |-> 0, migrationPaused |-> FALSE]]
    /\ root = [l \in Layers |-> 0]
    /\ inProgress = FALSE
    /\ interval = NoInterval
    /\ toGateway = <<>>
    /\ mints = <<>>
    /\ gatewayBatch = 0
    /\ withdrawal = NoWithdrawal
    /\ protocol = [ctm |-> [l \in Layers |-> 0], chain |-> [l \in Layers |-> 0], burned |-> <<>>]
    /\ settledOn = <<>>

(***************************************************************************)
(* Priority operations.                                                    *)
(***************************************************************************)

\* A priority transaction for the gateway, appended to its queue.
SendToGateway(kind, arg) ==
    /\ Len(toGateway) < MaxInFlight
    /\ toGateway' = Append(toGateway, [kind |-> kind, arg |-> arg])

depositsPaused(c, migrating) == c.paused \/ migrating

\* _requestL2Transaction on L1: into the tree of L1, and relayed when the
\* chain settles on the gateway.
RequestL2Transaction ==
    LET op == Len(chain["L1"].tree.leaves) + 1
    IN /\ op <= MaxOps
       /\ ~depositsPaused(chain["L1"], inProgress)
       /\ chain' = [chain EXCEPT !["L1"].tree = push(@, op)]
       /\ IF chain["L1"].settlementLayer # "none"
          THEN SendToGateway("op", op)
          ELSE UNCHANGED toGateway
       /\ UNCHANGED <<hub, handler, root, inProgress, interval, mints, gatewayBatch,
                      withdrawal, protocol, settledOn>>

\* pauseDepositsBeforeInitiatingMigration
CanPauseDeposits ==
    /\ ~chain["L1"].canBeActivated
    /\ ~chain["L1"].paused
    /\ chain["L1"].settlementLayer # "none" =>
          /\ getTotalPriorityTxs(chain["L1"].tree) # 0
          /\ hub["L1"] # "L1"

PauseDeposits ==
    /\ CanPauseDeposits
    /\ chain' = [chain EXCEPT !["L1"].paused = TRUE]
    /\ IF chain["L1"].settlementLayer # "none"
       THEN SendToGateway("pause", 0)
       ELSE UNCHANGED toGateway
    /\ UNCHANGED <<hub, handler, root, inProgress, interval, mints, gatewayBatch,
                   withdrawal, protocol, settledOn>>

UnpauseDeposits ==
    /\ chain["L1"].paused
    /\ ~inProgress
    /\ chain' = [chain EXCEPT !["L1"].paused = FALSE]
    /\ UNCHANGED <<hub, handler, root, inProgress, interval, toGateway, mints, gatewayBatch,
                   withdrawal, protocol, settledOn>>

\* permanentlyAllowPriorityMode; every operation of the model has a timestamp.
PermanentlyAllowPriorityMode ==
    /\ chain["L1"].settlementLayer = "none"
    /\ ~chain["L1"].canBeActivated
    /\ getSize(chain["L1"].tree) # 0
    /\ chain' = [chain EXCEPT !["L1"].canBeActivated = TRUE]
    /\ UNCHANGED <<hub, handler, root, inProgress, interval, toGateway, mints, gatewayBatch,
                   withdrawal, protocol, settledOn>>

(***************************************************************************)
(* Settlement, with the detail of ZKChain left out: a batch is committed,  *)
(* then executed with the next operations of the tree of its layer.        *)
(***************************************************************************)

\* onlySettlementLayer
Settles(c) == c.deployed /\ c.settlementLayer = "none"

CommitBatch(l) ==
    /\ Settles(chain[l])
    /\ chain[l].daPair /\ chain[l].validators
    /\ chain[l].committed < MaxBatches
    /\ chain' = [chain EXCEPT ![l].committed = @ + 1]
    /\ UNCHANGED <<hub, handler, root, inProgress, interval, toGateway, mints, gatewayBatch,
                   withdrawal, protocol, settledOn>>

RevertBatch(l) ==
    /\ Settles(chain[l])
    /\ chain[l].validators
    /\ chain[l].committed > chain[l].executed
    /\ chain' = [chain EXCEPT ![l].committed = @ - 1]
    /\ UNCHANGED <<hub, handler, root, inProgress, interval, toGateway, mints, gatewayBatch,
                   withdrawal, protocol, settledOn>>

\* A batch executed on the gateway is part of the gateway batch that is being
\* built.
ExecuteBatch(l, k) ==
    /\ Settles(chain[l])
    /\ chain[l].validators
    /\ chain[l].committed > chain[l].executed
    /\ k <= getSize(chain[l].tree)
    /\ root[l] + 1 = chain[l].executed + 1
    /\ chain' = [chain EXCEPT ![l].executed = @ + 1, ![l].tree.unprocessedIndex = @ + k]
    /\ root' = [root EXCEPT ![l] = @ + 1]
    /\ settledOn' = Append(settledOn,
                          [sl |-> l, slBatch |-> IF l = "GW" THEN gatewayBatch + 1 ELSE 0])
    /\ UNCHANGED <<hub, handler, inProgress, interval, toGateway, mints, gatewayBatch,
                   withdrawal, protocol>>

\* setDAValidatorPair and the validator's role, by the admin on L1.
SetDAValidatorPair ==
    /\ ~chain["L1"].daPair
    /\ chain' = [chain EXCEPT !["L1"].daPair = TRUE]
    /\ UNCHANGED <<hub, handler, root, inProgress, interval, toGateway, mints, gatewayBatch,
                   withdrawal, protocol, settledOn>>

\* pauseMigration and unpauseMigration
SetMigrationPaused(l) ==
    /\ handler' = [handler EXCEPT ![l].migrationPaused = ~@]
    /\ UNCHANGED <<chain, hub, root, inProgress, interval, toGateway, mints, gatewayBatch,
                   withdrawal, protocol, settledOn>>

(***************************************************************************)
(* Protocol versions, with the detail of ChainVersions left out: a manager *)
(* publishes the next version while migrations are paused on its layer,    *)
(* and the diamond applies the cut of its version later.                   *)
(***************************************************************************)

\* _setNewVersionUpgrade
SetNewVersionUpgrade(l) ==
    /\ handler[l].migrationPaused
    /\ protocol.ctm["L1"] + protocol.ctm["GW"] < MaxVersions
    /\ protocol' = [protocol EXCEPT !.ctm[l] = @ + 1]
    /\ UNCHANGED <<chain, hub, handler, root, inProgress, interval, toGateway, mints, gatewayBatch,
                   withdrawal, settledOn>>

\* upgradeChainFromVersion is not onlySettlementLayer.  A diamond whose chain is
\* away asks its settlement layer for a version (BaseZkSyncUpgrade.upgrade): L1's
\* gets the one of the gateway's own diamond, which is upgraded first and left
\* out here; the gateway's calls L1's virtual address and reverts.
UpgradeChainFromVersion(l) ==
    /\ chain[l].deployed
    /\ l = "GW" => chain[l].settlementLayer = "none"
    /\ protocol.chain[l] < protocol.ctm[l]
    /\ protocol' = [protocol EXCEPT !.chain[l] = @ + 1]
    /\ UNCHANGED <<chain, hub, handler, root, inProgress, interval, toGateway, mints, gatewayBatch,
                   withdrawal, settledOn>>

(***************************************************************************)
(* Leaving a settlement layer.                                             *)
(***************************************************************************)

\* prepareChainCommitment
prepareChainCommitment(c) ==
    [committed |-> c.committed, executed |-> c.executed, priorityTree |-> getCommitment(c.tree)]

\* forwardedBridgeBurn of the Migrator facet; the version passed to it is the
\* diamond's, or it reverts.
CanForwardedBridgeBurn(c) ==
    /\ ~c.canBeActivated
    /\ c.settlementLayer = "none"
    /\ getSize(c.tree) = 0
    /\ c.paused
    /\ c.committed = c.executed

\* bridgeBurn of the ChainAssetHandler of layer l, up to the first write.
CanBridgeBurn(l) ==
    /\ ~handler[l].migrationPaused
    /\ chain[l].deployed
    /\ hub[l] = l
    /\ protocol.chain[l] = protocol.ctm[l]
    /\ CanForwardedBridgeBurn(chain[l])
    /\ handler[l].migrationNumber < MAX_ALLOWED_NUMBER_OF_MIGRATIONS
    /\ l = "L1" => handler[l].migrationNumber + 1 = ToGateway

\* _buildBridgehubMintData
bridgehubMintData(l) ==
    [batchNumber |-> root[l],
     migrationNumber |-> handler[l].migrationNumber + 1,
     chainData |-> prepareChainCommitment(chain[l])]

\* What bridgeBurn writes on layer l when the chain leaves for layer `to`.
BridgeBurn(l, to) ==
    /\ hub' = [hub EXCEPT ![l] = to]
    /\ chain' = [chain EXCEPT ![l].settlementLayer = to]
    /\ handler' = [handler EXCEPT ![l].migrationNumber = @ + 1]

\* Mutant: the first batch on the gateway counts as one of L1.
recordMigrationToSLOffByOne(batchNumber, slBatch) ==
    [from |-> batchNumber + 1, to |-> 0, lower |-> slBatch, upper |-> 0, sl |-> "GW",
     isActive |-> TRUE]

\* _recordMigrationToSL of the L1ChainAssetHandler
recordMigrationToSL(batchNumber, slBatch) ==
    [from |-> batchNumber, to |-> 0, lower |-> slBatch, upper |-> 0, sl |-> "GW",
     isActive |-> TRUE]

\* _recordMigrationFromSL of the L1ChainAssetHandler
recordMigrationFromSL(i, batchNumber, slBatch) ==
    [i EXCEPT !.to = batchNumber, !.upper = slBatch, !.isActive = FALSE]

\* bridgeBurn on L1, called through the asset router, which sends the mint
\* to the gateway and remembers the deposit; with _recordMigrationToSL.
MigrateToGateway ==
    /\ CanBridgeBurn("L1")
    /\ Len(mints) < MaxMigrations
    /\ BridgeBurn("L1", "GW")
    /\ inProgress' = TRUE
    /\ interval' = recordMigrationToSL(root["L1"], gatewayBatch)
    /\ SendToGateway("mint", bridgehubMintData("L1"))
    /\ mints' = Append(mints, [status |-> "pending", batch |-> 0, depositHappened |-> TRUE])
    /\ protocol' = [protocol EXCEPT !.burned = Append(@, protocol.chain["L1"])]
    /\ UNCHANGED <<root, gatewayBatch, withdrawal, settledOn>>

\* What the admin asks of the gateway from L1: to burn the chain there, to
\* register the validators, to set the pair of DA validators.
RequestOnGateway(kind) ==
    /\ SendToGateway(kind, 0)
    /\ UNCHANGED <<chain, hub, handler, root, inProgress, interval, mints, gatewayBatch,
                   withdrawal, protocol, settledOn>>

(***************************************************************************)
(* Arriving at a settlement layer.                                         *)
(***************************************************************************)

\* forwardedBridgeMint of the manager, which creates the diamond with its own
\* version, and of the Migrator facet, on layer l.  The mint that arrives on the
\* gateway is that of the last burn.
CanForwardedBridgeMint(l, c, d) ==
    /\ IF c.deployed
       THEN c.paused /\ c.settlementLayer # "none" /\ protocol.chain[l] = protocol.ctm[l]
       ELSE protocol.burned[Len(mints)] = protocol.ctm[l]
    /\ l = "L1" => /\ c.deployed
                   /\ isHistoricalRoot(c.tree, d.priorityTree)
                   /\ CanL1Reinit(c.tree, d.priorityTree)
    /\ l = "GW" /\ c.deployed => checkGWReinit(c.tree, d.priorityTree)

ForwardedBridgeMint(l, c, d) ==
    [c EXCEPT !.deployed = TRUE,
              !.committed = d.committed,
              !.executed = d.executed,
              !.tree = IF l = "L1" THEN L1Reinit(@, d.priorityTree)
                       ELSE initFromCommitment(@, d.priorityTree),
              !.settlementLayer = "none",
              !.daPair = FALSE,
              !.paused = FALSE]

\* bridgeMint of the ChainAssetHandler of layer l
CanBridgeMint(l, d) ==
    /\ ~handler[l].migrationPaused
    /\ l = "L1" => /\ handler[l].migrationNumber # 0 => handler[l].migrationNumber = ToGateway
                   /\ d.migrationNumber = ToL1
                   /\ interval.isActive
    /\ hub[l] # l
    /\ chain[l].deployed => root[l] <= d.batchNumber
    /\ CanForwardedBridgeMint(l, chain[l], d.chainData)

BridgeMint(l, d) ==
    /\ handler' = [handler EXCEPT ![l].migrationNumber = d.migrationNumber]
    /\ hub' = [hub EXCEPT ![l] = l]
    /\ root' = [root EXCEPT ![l] = d.batchNumber]
    /\ chain' = [chain EXCEPT ![l] = ForwardedBridgeMint(l, @, d.chainData)]
    /\ protocol' = [protocol EXCEPT !.chain[l] = protocol.ctm[l]]

(***************************************************************************)
(* The gateway executes the transactions from L1 in order.                 *)
(***************************************************************************)

\* The transaction at the head of the queue, of this kind, is executed.
Dequeue(kind) ==
    /\ toGateway # <<>>
    /\ Head(toGateway).kind = kind
    /\ toGateway' = Tail(toGateway)

\* The status of the last mint, in the gateway batch that is being built.
MintStatus(status) ==
    mints' = [mints EXCEPT ![Len(mints)].status = status, ![Len(mints)].batch = gatewayBatch + 1]

GatewayMint ==
    /\ Dequeue("mint")
    /\ CanBridgeMint("GW", Head(toGateway).arg)
    /\ BridgeMint("GW", Head(toGateway).arg)
    /\ MintStatus("success")
    /\ UNCHANGED <<inProgress, interval, gatewayBatch, withdrawal, settledOn>>

\* bridgehubRequestL2TransactionOnGateway: no check that deposits are open.
GatewayOp ==
    /\ Dequeue("op")
    /\ chain["GW"].deployed
    /\ chain' = [chain EXCEPT !["GW"].tree = push(@, Head(toGateway).arg)]
    /\ UNCHANGED <<hub, handler, root, inProgress, interval, mints, gatewayBatch,
                   withdrawal, protocol, settledOn>>

\* requestPauseDepositsForChainOnGateway, pauseDepositsOnGateway
GatewayPause ==
    /\ Dequeue("pause")
    /\ chain["GW"].deployed
    /\ chain' = [chain EXCEPT !["GW"].paused = TRUE]
    /\ UNCHANGED <<hub, handler, root, inProgress, interval, mints, gatewayBatch,
                   withdrawal, protocol, settledOn>>

\* bridgeBurn on the gateway, whose data is sent to L1 as a message.
GatewayBurn ==
    /\ Dequeue("burn")
    /\ CanBridgeBurn("GW")
    /\ BridgeBurn("GW", "L1")
    /\ withdrawal' = [sent |-> TRUE, finalized |-> FALSE, batch |-> gatewayBatch + 1,
                      data |-> bridgehubMintData("GW")]
    /\ UNCHANGED <<root, inProgress, interval, mints, gatewayBatch, settledOn, protocol>>

\* addValidatorRoles of the gateway's ValidatorTimelock, setDAValidatorPair.
GatewayConfigure(kind) ==
    /\ Dequeue(kind)
    /\ chain["GW"].deployed
    /\ chain' = [chain EXCEPT !["GW"].validators = @ \/ kind = "validators",
                              !["GW"].daPair = @ \/ kind = "daPair"]
    /\ UNCHANGED <<hub, handler, root, inProgress, interval, mints, gatewayBatch,
                   withdrawal, protocol, settledOn>>

\* The conditions of the actions above on the gateway's state.
SucceedsOnGateway(tx) ==
    CASE tx.kind = "mint" -> CanBridgeMint("GW", tx.arg)
      [] tx.kind = "burn" -> CanBridgeBurn("GW")
      [] OTHER -> chain["GW"].deployed

\* A transaction that reverts leaves nothing but its status.
GatewayRevert ==
    /\ toGateway # <<>>
    /\ ~SucceedsOnGateway(Head(toGateway))
    /\ toGateway' = Tail(toGateway)
    /\ IF Head(toGateway).kind = "mint" THEN MintStatus("failure") ELSE UNCHANGED mints
    /\ UNCHANGED <<chain, hub, handler, root, inProgress, interval, gatewayBatch,
                   withdrawal, protocol, settledOn>>

\* The gateway's batch is executed on L1; a gateway batch of the model has
\* something of this chain in it that L1 can ask about.
GatewaySettles ==
    /\ gatewayBatch < MaxGatewayBatches
    /\ \/ \E i \in DOMAIN mints : mints[i].batch = gatewayBatch + 1
       \/ withdrawal.batch = gatewayBatch + 1
       \/ \E k \in DOMAIN settledOn : settledOn[k].slBatch = gatewayBatch + 1
    /\ gatewayBatch' = gatewayBatch + 1
    /\ UNCHANGED <<chain, hub, handler, root, inProgress, interval, toGateway, mints,
                   withdrawal, protocol, settledOn>>

(***************************************************************************)
(* Back on L1.                                                             *)
(***************************************************************************)

\* _verifyAndClearTransfer of the L1Nullifier, for the i-th mint: its status
\* is provable, and was not confirmed before.
CanClearTransfer(i, status) ==
    /\ mints[i].depositHappened
    /\ mints[i].status = status
    /\ mints[i].batch <= gatewayBatch

\* Mutant: the deposit is not deleted.
ClearTransferKeeps(i) == UNCHANGED mints

ClearTransfer(i) == mints' = [mints EXCEPT ![i].depositHappened = FALSE]

\* bridgeConfirmTransferResult with TxStatus.Success
ConfirmSuccess(i) ==
    /\ CanClearTransfer(i, "success")
    /\ ClearTransfer(i)
    /\ inProgress' = FALSE
    /\ chain' = [chain EXCEPT !["L1"].paused = FALSE]
    /\ UNCHANGED <<hub, handler, root, interval, toGateway, gatewayBatch, withdrawal,
                   protocol, settledOn>>

\* Mutant: the diamond must have its manager's version.
CanRecoverLatest(i) ==
    /\ handler["L1"].migrationNumber = ToGateway
    /\ chain["L1"].settlementLayer # "none"
    /\ protocol.chain["L1"] = protocol.ctm["L1"]

\* What bridgeConfirmTransferResult requires of a failed migration: the version
\* of the burn, among others.
CanRecover(i) ==
    /\ handler["L1"].migrationNumber = ToGateway
    /\ chain["L1"].settlementLayer # "none"
    /\ protocol.chain["L1"] = protocol.burned[i]

\* bridgeConfirmTransferResult with TxStatus.Failure
ConfirmFailure(i) ==
    /\ CanClearTransfer(i, "failure")
    /\ CanRecover(i)
    /\ ClearTransfer(i)
    /\ hub' = [hub EXCEPT !["L1"] = "L1"]
    /\ handler' = [handler EXCEPT !["L1"].migrationNumber = @ - 1]
    /\ interval' = NoInterval
    /\ inProgress' = FALSE
    /\ chain' = [chain EXCEPT !["L1"].paused = FALSE, !["L1"].settlementLayer = "none"]
    /\ UNCHANGED <<root, toGateway, gatewayBatch, withdrawal, protocol, settledOn>>

\* _verifyWithdrawal: the gateway's message is provable and not finalized.
CanVerifyWithdrawal ==
    /\ withdrawal.sent
    /\ ~withdrawal.finalized
    /\ withdrawal.batch <= gatewayBatch

\* finalizeDeposit of the L1Nullifier: bridgeMint on L1, with
\* _recordMigrationFromSL.
FinalizeMigration ==
    /\ CanVerifyWithdrawal
    /\ CanBridgeMint("L1", withdrawal.data)
    /\ BridgeMint("L1", withdrawal.data)
    /\ withdrawal' = [withdrawal EXCEPT !.finalized = TRUE]
    /\ interval' = recordMigrationFromSL(interval, withdrawal.data.batchNumber, gatewayBatch)
    /\ UNCHANGED <<inProgress, toGateway, mints, gatewayBatch, settledOn>>

\* Everything but the admin's calls: users, validators, owners, the gateway.
Environment ==
    \/ RequestL2Transaction
    \/ \E l \in Layers : CommitBatch(l) \/ RevertBatch(l)
    \/ \E l \in Layers, k \in 0 .. MaxOps : ExecuteBatch(l, k)
    \/ \E l \in Layers : SetMigrationPaused(l) \/ SetNewVersionUpgrade(l) \/ UpgradeChainFromVersion(l)
    \/ GatewayMint \/ GatewayOp \/ GatewayPause \/ GatewayBurn
    \/ \E kind \in {"validators", "daPair"} : GatewayConfigure(kind)
    \/ GatewayRevert
    \/ GatewaySettles

(***************************************************************************)
(* Properties.                                                             *)
(***************************************************************************)

\* A chain settles on one layer at a time: whatever is delayed, fails, is
\* confirmed late or retried, the two diamonds of a chain never both accept
\* batches (onlySettlementLayer of the Executor and Committer facets), and a
\* chain that permanently allowed Priority Mode, which needs L1, is never away.
OneSettlementLayer ==
    /\ ~(Settles(chain["L1"]) /\ Settles(chain["GW"]))
    /\ chain["L1"].canBeActivated => chain["L1"].settlementLayer = "none"

\* The places of the operations that the gateway has still to receive.
OpsInFlight == {i \in DOMAIN toGateway : toGateway[i].kind = "op"}

\* "We only check deposits paused on L1 to keep the GW and L1 Priority queues
\* the same" (Mailbox.sol, _writePriorityOp): once the chain is on the gateway,
\* its tree there is the first part of the tree of L1, and the operations on
\* their way are the others, in the order of the requests (which number them); a
\* mint on its way carries every operation requested on L1, so that none is left
\* on a layer that never processes it.
TreesAgree ==
    /\ Settles(chain["GW"]) =>
          LET onL1 == chain["L1"].tree.leaves
              onGateway == chain["GW"].tree.leaves
          IN /\ IsSegment(onL1, 0, onGateway)
             /\ {toGateway[i].arg : i \in OpsInFlight} =
                   {onL1[n] : n \in Len(onGateway) + 1 .. Len(onL1)}
             /\ \A i, j \in OpsInFlight : i < j => toGateway[i].arg < toGateway[j].arg
    /\ \A i \in DOMAIN toGateway : toGateway[i].kind = "mint" =>
          toGateway[i].arg.chainData.priorityTree.sides = chain["L1"].tree.leaves

\* isValidSettlementLayer of the L1ChainAssetHandler, by its interval loop.
isValidSettlementLayer(n, sl, slBatch) ==
    IF handler["L1"].migrationNumber < ToGateway \/ interval.sl = "none" \/ n <= interval.from
    THEN sl = "L1"
    ELSE IF interval.isActive
    THEN sl = interval.sl /\ slBatch >= interval.lower
    ELSE IF n <= interval.to
    THEN sl = interval.sl /\ interval.lower <= slBatch /\ slBatch <= interval.upper
    ELSE sl = "L1"

\* The recorded intervals tell the truth: a proof of a message of any executed
\* batch is accepted with the settlement layer and the gateway batch it was
\* really settled in, as soon as that gateway batch is on L1, and with no other
\* settlement layer.
RecordedSettlementLayer ==
    \A k \in DOMAIN settledOn :
        LET at == settledOn[k]
        IN at.slBatch <= gatewayBatch =>
              /\ isValidSettlementLayer(k, at.sl, at.slBatch)
              /\ \A b \in 0 .. gatewayBatch, l \in Layers \ {at.sl} : ~isValidSettlementLayer(k, l, b)

\* What gets a migration stuck.  One that failed on the gateway can be undone on
\* L1 as soon as its failure is provable, unless the chain's diamond on L1 was
\* upgraded since the burn: versions never go back, so that from then on
\* bridgeConfirmTransferResult reverts for good.  Nothing else does that: no
\* pause, no publication of a version on either layer, no other migration.  And
\* "we assume that GW -> L1 transactions can never fail and provide no recovery
\* mechanism from it" (Migrator.sol, forwardedBridgeBurn): the finalization of a
\* return reverts only while migrations are paused, deposits are not, by the
\* admin's choice, or the diamond is still to be upgraded to its manager's
\* version; never for what the gateway sent.
MigrationNotStuck ==
    /\ \A i \in DOMAIN mints : CanClearTransfer(i, "failure") =>
          \/ CanRecover(i)
          \/ protocol.chain["L1"] > protocol.burned[i]
    /\ /\ CanVerifyWithdrawal
       /\ ~handler["L1"].migrationPaused
       /\ chain["L1"].paused
       /\ protocol.chain["L1"] = protocol.ctm["L1"]
       => CanBridgeMint("L1", withdrawal.data)

\* The diamond that holds the chain's state: the one on the gateway from the
\* mint there to the mint back on L1.
Home ==
    IF chain["L1"].settlementLayer # "none" /\ chain["GW"].deployed THEN chain["GW"] ELSE chain["L1"]

Settled == INSTANCE SettledChain WITH
    requested <- chain["L1"].tree.leaves,
    settled <- SubSeq(Home.tree.leaves, 1, Home.tree.unprocessedIndex),
    batches <- Home.executed

\* A chain that migrates settles like one that never does: operations are
\* processed once, in the order of the requests on L1, and executed batches are
\* final, across migrations, failed ones included.
SettlesLikeOneChain == Settled!Spec

=============================================================================
