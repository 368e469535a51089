----------------------------- MODULE UpgradeCalls -----------------------------
(***************************************************************************)
(* The governance calls of the v31 ecosystem upgrade and what they do on   *)
(* L1: the three stages that upgrade-prepare-all merges from the core, the *)
(* CTM, the PUH and the gateway scripts, and the execution of one stage as *)
(* one transaction.  A CTM is named by its flavor, as in the artifact.     *)
(*                                                                         *)
(* An address is <<kind, part, revision>>.  Contracts that exist before    *)
(* the upgrade have revision 0.  What a prepare run deploys by CREATE2 has *)
(* the revision of the code it was deployed from: the same code gives the  *)
(* same address and other code another one.                                *)
(***************************************************************************)
EXTENDS Integers, Sequences, FiniteSets, SequencesExt, FiniteSetsExt

CONSTANTS
    CtmOrder,      \* the flavors, in the order of the environment's configuration
    Chains,        \* the registered chains
    ExemptChains,  \* chains the message root of this environment leaves out
    PuhGoverned,   \* whether governance is a ProtocolUpgradeHandler
    NewGateway,    \* whether the upgrade brings up a new gateway
    LegacyGateway, \* whether there is a legacy gateway to decommission
    Intervals,     \* the chains of its recorded migration intervals, in order
    DaPairs,       \* the flavors with a configured rollup DA pair
    Delay,         \* initial delay of the upgrade timers
    MaxRev         \* bound: revisions of the code

Flavors == Range(CtmOrder)
Revs == 1..MaxRev

ASSUME UpgradeAssumption ==
    /\ CtmOrder # <<>> /\ Flavors \subseteq {"era", "zksync_os"} /\ IsInjective(CtmOrder)
    /\ ExemptChains \subseteq Chains
    /\ PuhGoverned \in BOOLEAN /\ NewGateway \in BOOLEAN /\ LegacyGateway \in BOOLEAN
    /\ Intervals \in Seq(Chains) /\ DaPairs \subseteq Flavors
    /\ Delay \in Nat /\ MaxRev \in Nat \ {0}

Parts == {"core"} \cup Flavors \cup (IF PuhGoverned THEN {"puh"} ELSE {})
                  \cup (IF NewGateway THEN {"gateway"} ELSE {})

Live(kind, part) == <<kind, part, 0>>

Bool(b) == Live("bool", IF b THEN "true" ELSE "false")

Cah == Live("chainAssetHandler", "core")
Bridgehub == Live("bridgehub", "core")
Puh == Live("protocolUpgradeHandler", "puh")
Ctm(f) == Live("ctm", f)
Vt(f) == Live("validatorTimelock", f)
DaManager(f) == Live("rollupDAManager", f)

\* The CTM of the representative chain, which the new gateway hosts.
Representative == CtmOrder[1]

Call(op, on, arg) == [op |-> op, on |-> on, arg |-> arg]

UpgradeCall(admin, proxy, impl) == Call("upgrade", admin, <<proxy, impl>>)

-----------------------------------------------------------------------------
(* The calls of each script. *)

CorePart == <<"bridgehub", "nullifier", "assetRouter", "nativeTokenVault", "messageRoot",
              "ctmDeploymentTracker", "chainAssetHandler">>

CoreUpgradeCall(kind, rev) ==
    LET arg == <<Live(kind, "core"), <<kind, "core", rev>>>>
        admin == Live("proxyAdmin", "core") IN
    IF kind = "messageRoot"
    THEN Call("upgradeAndCall", admin, Append(arg, Live("initializeL1V31Upgrade", "core")))
    ELSE Call("upgrade", admin, arg)

CoreStage0 == <<Call("pauseMigration", Cah, <<>>)>>

CoreStage1(rev) ==
    LET tracker == <<"assetTracker", "core", rev>>
        sender == <<"chainRegistrationSender", "core", rev>> IN
    <<Call("pauseMigration", Cah, <<>>)>>
    \o [i \in 1..Len(CorePart) |-> CoreUpgradeCall(CorePart[i], rev)]
    \o <<Call("acceptOwnership", sender, <<>>),
         Call("acceptOwnership", tracker, <<>>),
         Call("setAssetTracker", Live("nativeTokenVault", "core"), <<tracker>>),
         Call("setAddressesV31", Bridgehub, <<sender>>),
         Call("setAddresses", Cah, <<>>)>>

CoreStage2 ==
    (IF LegacyGateway
     THEN [i \in 1..Len(Intervals) |->
              Call("setHistoricalMigrationInterval", Cah, <<Live("chain", Intervals[i])>>)]
          \o <<Call("setSettlementLayerStatus", Bridgehub,
                    <<Live("chain", "legacyGateway"), Bool(FALSE)>>)>>
     ELSE <<>>)
    \o <<Call("unpauseMigration", Cah, <<>>)>>

CtmStage0(f, rev) == <<Call("startTimer", <<"timer", f, rev>>, <<>>)>>

CtmStage1(f, rev) ==
    <<Call("checkDeadline", <<"timer", f, rev>>, <<>>),
      Call("checkMigrationsPaused", <<"stageValidator", f, rev>>, <<>>),
      UpgradeCall(Live("proxyAdmin", f), Ctm(f), <<"ctm", f, rev>>),
      Call("setChainCreationParams", Ctm(f), <<<<"creationParams", f, rev>>>>),
      Call("setNewVersionUpgrade", Ctm(f),
           <<<<"upgradeCut", f, rev>>, Live("oldVersion", f), Live("newVersion", "core"),
             <<"verifier", f, rev>>>>),
      UpgradeCall(Live("proxyAdmin", f), Vt(f), <<"validatorTimelock", f, rev>>)>>

CtmStage2(f, rev) ==
    LET validator == <<"stageValidator", f, rev>> IN
    <<Call("checkProtocolUpgradePresence", validator, <<>>),
      Call("checkMigrationsUnpaused", validator, <<>>)>>

PuhCalls(rev) ==
    <<Call("upgradeAndCall", Live("proxyAdmin", "puh"),
           <<Puh, <<"protocolUpgradeHandler", "puh", rev>>>>),
      Call("updateSecurityCouncil", Puh, <<<<"securityCouncil", "puh", rev>>>>),
      Call("updateGuardians", Puh, <<<<"guardians", "puh", rev>>>>),
      Call("updateEmergencyUpgradeBoard", Puh, <<<<"emergencyBoard", "puh", rev>>>>)>>

\* The calls of GatewayVotePreparation: a priority transaction to the new
\* gateway is preceded by the approval of the base token it costs.
Priority(op, target, payload) ==
    <<Call("approve", Live("zkToken", "core"), <<Live("assetRouter", "core"), Live("mint", op)>>),
      Call(op, Bridgehub, <<Live("chain", "newGateway"), target, payload, Live("mint", op)>>)>>

GatewayCtmAsset == Live("ctmAsset", Representative)

GatewayCalls(rev) ==
    <<Call("setSettlementLayerStatus", Bridgehub, <<Live("chain", "newGateway"), Bool(TRUE)>>)>>
    \o Priority("addChainTypeManager", Live("l2Bridgehub", "gateway"), <<"ctm", "gateway", rev>>)
    \o <<Call("setAssetDeploymentTracker", Live("assetRouter", "core"),
              <<Ctm(Representative), Live("ctmDeploymentTracker", "core")>>),
         Call("registerCTMAssetOnL1", Live("ctmDeploymentTracker", "core"), <<Ctm(Representative)>>)>>
    \o Priority("setAssetHandlerAddress", Live("assetRouter", "core"), GatewayCtmAsset)
    \o Priority("setCTMAssetAddress", Live("ctmDeploymentTracker", "core"), <<"ctm", "gateway", rev>>)
    \o Priority("acceptDAManager", <<"rollupDAManager", "gateway", rev>>, Bool(TRUE))
    \o Priority("acceptServerNotifier", <<"serverNotifier", "gateway", rev>>, Bool(TRUE))
    \o Priority("setGatewaySettlementFee", Live("gwAssetTracker", "gateway"), Live("fee", "gateway"))

\* rollup_da_manager_setup_calls.
RollupDaCalls ==
    FlattenSeq([i \in 1..Len(CtmOrder) |->
        LET f == CtmOrder[i] IN
        IF f \in DaPairs
        THEN <<Call("acceptOwnership", DaManager(f), <<>>),
               Call("updateDAPair", DaManager(f), <<Live("daPair", f)>>)>>
        ELSE <<>>])

\* One block of calls for each CTM.
PerCtm(calls) == FlattenSeq([i \in 1..Len(CtmOrder) |-> calls[CtmOrder[i]]])

\* write_merged_ecosystem_toml: `revs` gives the revision each part's TOML was
\* written from, and `accepts` are the deferred acceptOwnership targets.
MergedCalls(stage, revs, accepts) ==
    CASE stage = 0 -> CoreStage0 \o PerCtm([f \in Flavors |-> CtmStage0(f, revs[f])])
                      \o (IF PuhGoverned THEN PuhCalls(revs["puh"]) ELSE <<>>)
                      \o [i \in 1..Len(accepts) |-> Call("acceptOwnership", accepts[i], <<>>)]
      [] stage = 1 -> CoreStage1(revs["core"]) \o PerCtm([f \in Flavors |-> CtmStage1(f, revs[f])])
                      \o RollupDaCalls
      [] stage = 2 -> CoreStage2 \o PerCtm([f \in Flavors |-> CtmStage2(f, revs[f])])
                      \o (IF NewGateway
                          THEN <<Call("registerLegacyToken", <<"assetTracker", "core", revs["core"]>>,
                                      <<Live("zkTokenAssetId", "core")>>)>>
                               \o GatewayCalls(revs["gateway"])
                          ELSE <<>>)

=============================================================================
