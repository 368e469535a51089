--------------------------- MODULE UpgradeVerifier ---------------------------
(***************************************************************************)
(* ecosystem verify-upgrade: the checks that the merged artifact of the    *)
(* v31 upgrade has to pass against the state of L1 before it is signed.    *)
(* Errors are what rejects an artifact; warnings are left out.             *)
(*                                                                         *)
(* An artifact is what one prepare run merged, with at most one edit:  a   *)
(* slip made while call lists are copied, merged or regenerated.           *)
(***************************************************************************)
EXTENDS UpgradeWorld

\* rev: the code the run was made from; admin: the flavors whose CTM belonged
\* to governance then; accepts: the deferred acceptOwnership targets.
NoEdit == [kind |-> "none", stage |-> 0, at |-> 0, part |-> "core"]

Stages == 0..2

\* part: one part's TOML is left over from the revision before.
PartRevs(a) ==
    [p \in Parts |-> IF a.edit.kind = "part" /\ a.edit.part = p THEN a.rev - 1 ELSE a.rev]

OtherFlavor(part) == IF part = "era" THEN "zksync_os" ELSE IF part = "zksync_os" THEN "era" ELSE part

\* stale: one call keeps the addresses of the revision before; crossed: one call
\* is the other CTM's.
Older(addr) == IF addr[3] > 1 THEN <<addr[1], addr[2], addr[3] - 1>> ELSE addr
Crossed(addr) == <<addr[1], OtherFlavor(addr[2]), addr[3]>>

EditCall(c, F(_)) == [op |-> c.op, on |-> F(c.on), arg |-> [i \in DOMAIN c.arg |-> F(c.arg[i])]]

CallsOf(a, stage) ==
    LET cs == MergedCalls(stage, PartRevs(a), a.accepts)
        i == a.edit.at
        here(kind) == a.edit.kind = kind /\ a.edit.stage = stage IN
    CASE here("drop") -> RemoveAt(cs, i)
      [] here("repeat") -> InsertAt(cs, i, cs[i])
      [] here("swap") -> [cs EXCEPT ![i] = cs[i + 1], ![i + 1] = cs[i]]
      [] here("stale") -> [cs EXCEPT ![i] = EditCall(cs[i], Older)]
      [] here("crossed") -> [cs EXCEPT ![i] = EditCall(cs[i], Crossed)]
      [] OTHER -> cs

\* The edits that can be made to an artifact without edits.
Edits(a) ==
    LET at(kind, stage, last) == {[kind |-> kind, stage |-> stage, at |-> i, part |-> "core"] : i \in 1..last}
        len(stage) == Len(MergedCalls(stage, PartRevs(a), a.accepts)) IN
    UNION {at("drop", s, len(s)) \cup at("repeat", s, len(s)) \cup at("swap", s, len(s) - 1) : s \in Stages}
    \cup (IF a.rev > 1 THEN UNION {at("stale", s, len(s)) : s \in Stages}
                            \cup {[NoEdit EXCEPT !.kind = "part", !.part = p] : p \in Parts}
                       ELSE {})
    \cup (IF Cardinality(Flavors) = 2 THEN UNION {at("crossed", s, len(s)) : s \in Stages} ELSE {})

-----------------------------------------------------------------------------
(* Checks on one call: target and selector, then arguments. *)

\* verify_call_by_name and verify_call_by_address.
CallIs(cs, i, on, op) == i \in DOMAIN cs /\ cs[i].on = on /\ cs[i].op = op

CallIsWith(cs, i, on, op, arg) == CallIs(cs, i, on, op) /\ cs[i].arg = arg

\* The artifact's table of addresses, [core] and [ctms.<flavor>].
Field(a, kind, part) == <<kind, part, PartRevs(a)[part]>>

NumCtms == Len(CtmOrder)

\* The first of the positions first, first + size, ..., one for each CTM, with
\* target on; 0 if none.
FirstBlock(cs, on, first, size) ==
    LET found == {i \in {first + k * size : k \in 0..NumCtms - 1} :
                     i \in DOMAIN cs /\ cs[i].on = on} IN
    IF found = {} THEN 0 ELSE Min(found)

-----------------------------------------------------------------------------
(* Stage 0. *)

\* collect_pre_governance_accept_ownership_targets: read from the live state.
AcceptTargets(a, w) ==
    {x \in UNION {{Ctm(f), Vt(f), Field(a, "timer", f)}
                  \cup (IF f \in DaPairs THEN {} ELSE {DaManager(f)})
                  \cup (IF f = "zksync_os" THEN {Field(a, "verifier", f)} ELSE {}) : f \in Flavors} :
        x \in w.pending}

\* verify_pre_governance_accept_ownership_tail.
AcceptTailOK(cs, tail, targets) ==
    /\ \A i \in DOMAIN cs : i <= tail => cs[i].op # "acceptOwnership"
    /\ \A i \in DOMAIN cs : i > tail => cs[i].op = "acceptOwnership" /\ cs[i].on \in targets
    /\ \A i, j \in DOMAIN cs : tail < i /\ i < j => cs[i].on # cs[j].on
    /\ \A x \in targets : \E i \in DOMAIN cs : i > tail /\ cs[i].on = x

PuhUpgradeOK(a, w, cs, i) ==
    LET impl == Field(a, "protocolUpgradeHandler", "puh") IN
    CallIsWith(cs, i, Live("proxyAdmin", "puh"), "upgradeAndCall", <<Puh, impl>>) /\ HasCode(w, impl)

\* The three bodies of the handler, each in the table of the artifact and with code.
PuhBodyOK(a, w, cs, i, op, kind) ==
    LET body == Field(a, kind, "puh") IN
    CallIsWith(cs, i, Puh, op, <<body>>) /\ HasCode(w, body)

PuhBlockOK(a, w, cs, base) ==
    /\ PuhUpgradeOK(a, w, cs, base + 1)
    /\ PuhBodyOK(a, w, cs, base + 2, "updateSecurityCouncil", "securityCouncil")
    /\ PuhBodyOK(a, w, cs, base + 3, "updateGuardians", "guardians")
    /\ PuhBodyOK(a, w, cs, base + 4, "updateEmergencyUpgradeBoard", "emergencyBoard")

\* The timer calls, in any order of CTMs.
TimersOK(a, cs) ==
    \A f \in Flavors :
        LET timer == Field(a, "timer", f) IN
        CallIs(cs, FirstBlock(cs, timer, 2, 1), timer, "startTimer")

Stage0OK(a, w) ==
    LET cs == CallsOf(a, 0)
        base == 1 + NumCtms
        tail == base + (IF PuhGoverned THEN 4 ELSE 0)
        targets == AcceptTargets(a, w) IN
    /\ CallIs(cs, 1, Cah, "pauseMigration")
    /\ TimersOK(a, cs)
    /\ PuhGoverned => PuhBlockOK(a, w, cs, base)
    /\ AcceptTailOK(cs, tail, targets)
    /\ Len(cs) = tail + Cardinality(targets)

-----------------------------------------------------------------------------
(* Stage 1. *)

\* Targets and selectors of the calls of the core: pause, seven upgrades, the
\* ownership of the two new contracts and the wiring of both.
CoreShapeOK(a, cs) ==
    LET n == 1 + Len(CorePart) IN
    /\ CallIs(cs, 1, Cah, "pauseMigration")
    /\ \A i \in 1..Len(CorePart) :
          CallIs(cs, 1 + i, Live("proxyAdmin", "core"),
                 IF CorePart[i] = "messageRoot" THEN "upgradeAndCall" ELSE "upgrade")
    /\ CallIs(cs, n + 1, Field(a, "chainRegistrationSender", "core"), "acceptOwnership")
    /\ CallIs(cs, n + 2, Field(a, "assetTracker", "core"), "acceptOwnership")
    /\ CallIs(cs, n + 3, Live("nativeTokenVault", "core"), "setAssetTracker")
    /\ CallIs(cs, n + 4, Bridgehub, "setAddressesV31")
    /\ CallIs(cs, n + 5, Cah, "setAddresses")

\* What was accepted is what is wired in.
WiringOK(cs) ==
    LET n == 1 + Len(CorePart) IN
    cs[n + 3].arg = <<cs[n + 2].on>> /\ cs[n + 4].arg = <<cs[n + 1].on>>

\* verify_upgrade_call_args.
UpgradeArgsOK(a, cs, i, kind) == cs[i].arg = <<Live(kind, "core"), Field(a, kind, "core")>>

\* verify_message_root_upgrade_call_args.
MessageRootArgsOK(a, cs, i) ==
    cs[i].arg = <<Live("messageRoot", "core"), Field(a, "messageRoot", "core"),
                  Live("initializeL1V31Upgrade", "core")>>

CorePayloadsOK(a, cs) ==
    \A i \in 1..Len(CorePart) :
        IF CorePart[i] = "messageRoot" THEN MessageRootArgsOK(a, cs, 1 + i)
        ELSE UpgradeArgsOK(a, cs, 1 + i, CorePart[i])

\* find_ctm_block_start: the six calls of a CTM, by the target of the first.
CtmBlock(a, cs, f) == FirstBlock(cs, Field(a, "timer", f), 14, 6)

CtmShapeOK(a, cs, f) ==
    LET block == CtmBlock(a, cs, f) IN
    /\ CallIs(cs, block, Field(a, "timer", f), "checkDeadline")
    /\ CallIs(cs, block + 1, Field(a, "stageValidator", f), "checkMigrationsPaused")
    /\ CallIs(cs, block + 2, Live("proxyAdmin", f), "upgrade")
    /\ CallIs(cs, block + 3, Ctm(f), "setChainCreationParams")
    /\ CallIs(cs, block + 4, Ctm(f), "setNewVersionUpgrade")
    /\ CallIs(cs, block + 5, Live("proxyAdmin", f), "upgrade")

\* verify_ctm_upgrade_call_args.
CtmUpgradeArgsOK(a, cs, i, f) == cs[i].arg = <<Ctm(f), Field(a, "ctm", f)>>

\* verify_validator_timelock_upgrade_call_args.
VtUpgradeArgsOK(a, cs, i, f) == cs[i].arg = <<Vt(f), Field(a, "validatorTimelock", f)>>

\* verify_set_chain_creation_params_payload; the parameters are one value.
CreationParamsOK(a, cs, i, f) == cs[i].arg = <<Field(a, "creationParams", f)>>

\* verify_set_new_version_upgrade_payload; the old version is the one the CTM
\* has on L1.
NewVersionOK(a, w, cs, i, f) ==
    /\ ~Upgraded(w, f)
    /\ cs[i].arg = <<Field(a, "upgradeCut", f), Live("oldVersion", f), Live("newVersion", "core"),
                     Field(a, "verifier", f)>>

CtmPayloadsOK(a, w, cs, f) ==
    LET block == CtmBlock(a, cs, f) IN
    /\ CtmUpgradeArgsOK(a, cs, block + 2, f)
    /\ CreationParamsOK(a, cs, block + 3, f)
    /\ NewVersionOK(a, w, cs, block + 4, f)
    /\ VtUpgradeArgsOK(a, cs, block + 5, f)

\* Mutant: the two calls of a pair may come in either order.
MutantRollupDaTailOK(cs, start) ==
    \A f \in DaPairs : \E i, j \in start + 1..Len(cs) :
        /\ CallIs(cs, i, DaManager(f), "acceptOwnership")
        /\ CallIsWith(cs, j, DaManager(f), "updateDAPair", <<Live("daPair", f)>>)

\* verify_rollup_da_manager_setup_calls: pairs of calls in any order of CTMs.
RollupDaTailOK(cs, start) ==
    LET pairs == 1..Cardinality(DaPairs) IN
    /\ \A k \in pairs : \E f \in DaPairs :
          /\ CallIs(cs, start + 2 * k - 1, DaManager(f), "acceptOwnership")
          /\ CallIsWith(cs, start + 2 * k, DaManager(f), "updateDAPair", <<Live("daPair", f)>>)
    /\ \A f \in DaPairs : \E k \in pairs : CallIs(cs, start + 2 * k - 1, DaManager(f), "acceptOwnership")

Stage1OK(a, w) ==
    LET cs == CallsOf(a, 1)
        canonical == 13 + NumCtms * 6 IN
    /\ Len(cs) = canonical + 2 * Cardinality(DaPairs)
    /\ CoreShapeOK(a, cs) /\ WiringOK(cs) /\ CorePayloadsOK(a, cs)
    /\ \A f \in Flavors : CtmShapeOK(a, cs, f) /\ CtmPayloadsOK(a, w, cs, f)
    /\ RollupDaTailOK(cs, canonical)

-----------------------------------------------------------------------------
(* Stage 2. *)

\* Mutant: forgets the call after the intervals.
MutantDecommissionLen(cs) ==
    Min({i \in 1..Len(cs) + 1 : i = Len(cs) + 1 \/ cs[i].op # "setHistoricalMigrationInterval"}) - 1

\* The prefix that decommissions the legacy gateway.  The target of the interval
\* calls is not compared; only a nonempty list of them is followed by the
\* call that takes the gateway off the list of settlement layers.
DecommissionLen(cs) ==
    LET m == Min({i \in 1..Len(cs) + 1 :
                     i = Len(cs) + 1 \/ cs[i].op # "setHistoricalMigrationInterval"}) - 1 IN
    IF m = 0 THEN 0 ELSE m + 1

\* check_historical_migration_interval.
IntervalOK(c, chain) == c.arg = <<Live("chain", chain)>>

\* check_set_settlement_layer_status.
LayerStatusOK(cs, i, layer, status) ==
    CallIsWith(cs, i, Bridgehub, "setSettlementLayerStatus", <<Live("chain", layer), Bool(status)>>)

DecommissionOK(cs) ==
    LET n == DecommissionLen(cs) IN
    /\ Len(Intervals) = IF n = 0 THEN 0 ELSE n - 1
    /\ \A i \in 1..n - 1 : IntervalOK(cs[i], Intervals[i])
    /\ n > 0 => LayerStatusOK(cs, n, "legacyGateway", FALSE)

CtmStage2OK(a, cs, f, prefix) ==
    LET validator == Field(a, "stageValidator", f)
        block == FirstBlock(cs, validator, prefix + 2, 2) IN
    /\ CallIs(cs, block, validator, "checkProtocolUpgradePresence")
    /\ CallIs(cs, block + 1, validator, "checkMigrationsUnpaused")

\* check_priority_request_common: the request goes to the new gateway.
PriorityRequestOK(cs, i, op) ==
    /\ i \in DOMAIN cs /\ cs[i].on = Bridgehub /\ cs[i].op = op
    /\ cs[i].arg[1] = Live("chain", "newGateway")

\* A direct request: target, selector and argument of the L2 call.
DirectRequestOK(cs, i, op, target, payload) ==
    PriorityRequestOK(cs, i, op) /\ cs[i].arg[2] = target /\ cs[i].arg[3] = payload

\* A request through a second bridge, and the data that bridge is called with.
TwoBridgesRequestOK(cs, i, op, bridge, payload) ==
    PriorityRequestOK(cs, i, op) /\ cs[i].arg[2] = bridge /\ cs[i].arg[3] = payload

\* check_register_legacy_token, check_set_asset_deployment_tracker and
\* check_register_ctm_asset_on_l1.
LegacyTokenOK(a, cs, i) ==
    CallIsWith(cs, i, Field(a, "assetTracker", "core"), "registerLegacyToken",
               <<Live("zkTokenAssetId", "core")>>)

DeploymentTrackerOK(cs, i) ==
    CallIsWith(cs, i, Live("assetRouter", "core"), "setAssetDeploymentTracker",
               <<Ctm(Representative), Live("ctmDeploymentTracker", "core")>>)

CtmAssetOK(cs, i) ==
    CallIsWith(cs, i, Live("ctmDeploymentTracker", "core"), "registerCTMAssetOnL1", <<Ctm(Representative)>>)

\* The approvals: of one token, for the asset router, and each for exactly what
\* the request after it mints.  Which token is not compared.
ApprovalsOK(cs, base) ==
    LET at == {base + k : k \in {3, 7, 9, 11, 13, 15}} IN
    /\ \A i \in at :
          /\ i + 1 \in DOMAIN cs /\ cs[i].op = "approve"
          /\ cs[i].arg = <<Live("assetRouter", "core"), cs[i + 1].arg[4]>>
    /\ \A i, j \in at : cs[i].on = cs[j].on

\* verify_gateway_bring_up_calls: the sixteen calls after the first `base`.
GatewayOK(a, cs, base) ==
    LET gwCtm == Field(a, "ctm", "gateway") IN
    /\ LegacyTokenOK(a, cs, base + 1)
    /\ LayerStatusOK(cs, base + 2, "newGateway", TRUE)
    /\ DirectRequestOK(cs, base + 4, "addChainTypeManager", Live("l2Bridgehub", "gateway"), gwCtm)
    /\ DeploymentTrackerOK(cs, base + 5)
    /\ CtmAssetOK(cs, base + 6)
    /\ TwoBridgesRequestOK(cs, base + 8, "setAssetHandlerAddress", Live("assetRouter", "core"), GatewayCtmAsset)
    /\ TwoBridgesRequestOK(cs, base + 10, "setCTMAssetAddress", Live("ctmDeploymentTracker", "core"), gwCtm)
    /\ DirectRequestOK(cs, base + 12, "acceptDAManager", Field(a, "rollupDAManager", "gateway"), Bool(TRUE))
    /\ DirectRequestOK(cs, base + 14, "acceptServerNotifier", Field(a, "serverNotifier", "gateway"), Bool(TRUE))
    /\ DirectRequestOK(cs, base + 16, "setGatewaySettlementFee", Live("gwAssetTracker", "gateway"),
                       Live("fee", "gateway"))
    /\ ApprovalsOK(cs, base)

Stage2OK(a) ==
    LET cs == CallsOf(a, 2)
        prefix == DecommissionLen(cs)
        canonical == prefix + 1 + NumCtms * 2 IN
    /\ DecommissionOK(cs)
    /\ CallIs(cs, prefix + 1, Cah, "unpauseMigration")
    /\ \A f \in Flavors : CtmStage2OK(a, cs, f, prefix)
    /\ NewGateway => GatewayOK(a, cs, canonical)
    /\ Len(cs) = canonical + (IF NewGateway THEN 16 ELSE 0)

-----------------------------------------------------------------------------
(* The state of L1 and the provenance of the addresses. *)

OwnedOrPending(w, x) == x \in w.owned \/ x \in w.pending

\* verify_v31_core_wiring, as far as the ceremony changes what it reads: the new
\* contracts wait for governance to accept them.
CoreWiringOK(a, w) ==
    /\ Field(a, "assetTracker", "core") \in w.pending
    /\ Field(a, "chainRegistrationSender", "core") \in w.pending

ValidatorTimelocksOK(w) == \A f \in Flavors : OwnedOrPending(w, Vt(f))

RollupDaManagersOK(w) == \A f \in Flavors : OwnedOrPending(w, DaManager(f))

VerifierOwnershipOK(a, w) ==
    \A f \in Flavors \cap {"zksync_os"} : OwnedOrPending(w, Field(a, "verifier", f))

TimerAdminOK(a, w) == \A f \in Flavors : f \in a.admin <=> Ctm(f) \in w.owned

\* verify_v31_chain_settlement_layers.
SettlementLayersOK(away) == away \subseteq ExemptChains

\* verify_v31_artifact_state.
StateOK(a, w, away) ==
    /\ CoreWiringOK(a, w)
    /\ ValidatorTimelocksOK(w)
    /\ RollupDaManagersOK(w)
    /\ VerifierOwnershipOK(a, w)
    /\ TimerAdminOK(a, w)
    /\ SettlementLayersOK(away)

\* Mutant: only the core contracts are traced to the code.
MutantProvenanceOK(a, w, code) ==
    /\ PartRevs(a)["core"] = code
    /\ \A p \in Parts : <<p, PartRevs(a)[p]>> \in w.deployed

\* verify_v31_provenance: every address of the artifact was deployed, by a
\* logged transaction, from the code the verifier was built with.
ProvenanceOK(a, w, code) ==
    \A p \in Parts : PartRevs(a)[p] = code /\ <<p, code>> \in w.deployed

\* verify (v31): any error rejects the artifact.
Accepts(a, w, code, away) ==
    /\ StateOK(a, w, away)
    /\ ProvenanceOK(a, w, code)
    /\ Stage0OK(a, w)
    /\ Stage1OK(a, w)
    /\ Stage2OK(a)

=============================================================================
