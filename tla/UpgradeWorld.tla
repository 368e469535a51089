----------------------------- MODULE UpgradeWorld -----------------------------
(***************************************************************************)
(* The state of L1 that the calls of the v31 upgrade read and write, and   *)
(* the execution of a list of calls as one transaction of the governance   *)
(* contract: a call that reverts undoes the calls before it.               *)
(***************************************************************************)
EXTENDS UpgradeCalls

\* Contracts with a two-step ownership that the upgrade hands to governance.
LiveOwnables == {Ctm(f) : f \in Flavors} \cup {Vt(f) : f \in Flavors}
                \cup {DaManager(f) : f \in Flavors}

Proxies == {Live(CorePart[i], "core") : i \in 1..Len(CorePart)}
           \cup {Ctm(f) : f \in Flavors} \cup {Vt(f) : f \in Flavors} \cup {Puh}

\* The proxy admin of a proxy: one for the core and one for each CTM.
AdminOf(proxy) == Live("proxyAdmin", proxy[2])

Timers == {<<"timer", f, r>> : f \in Flavors, r \in Revs}

None == Live("none", "none")

\* L1 before the upgrade.  `owned` are the contracts governance owns already,
\* `pending` those proposed to it, `admins` the parts whose proxy admin it owns.
WorldBefore(owned, pending, admins) ==
    [ok |-> TRUE,
     paused |-> FALSE,              \* ChainAssetHandler.migrationPaused
     owned |-> owned,               \* owner() is governance
     pending |-> pending,           \* pendingOwner() is governance
     admins |-> admins,             \* parts whose ProxyAdmin is governance's
     deployed |-> {},               \* <<part, revision>> deployed on L1
     impl |-> [p \in Proxies |-> None],    \* new implementation of a proxy
     deadline |-> [t \in Timers |-> 0],    \* deadline of a started timer
     initialized |-> FALSE,         \* L1MessageRoot.initializeL1V31Upgrade ran
     tracker |-> None,              \* NativeTokenVault's asset tracker
     sender |-> None,               \* Bridgehub's chain registration sender
     cached |-> FALSE,              \* ChainAssetHandler.setAddresses ran
     params |-> [f \in Flavors |-> None],  \* chain creation parameters
     cut |-> [f \in Flavors |-> None],     \* upgrade cut of the old version
     verifier |-> [f \in Flavors |-> None],
     council |-> [k \in {"securityCouncil", "guardians", "emergencyBoard"} |-> None],
     pairs |-> {},                  \* flavors whose DA pair is allowed
     intervals |-> {},              \* chains with a historical interval
     layers |-> IF LegacyGateway THEN {"legacyGateway"} ELSE {}, \* whitelisted
     registered |-> {},             \* trackers where the ZK token is registered
     allowance |-> FALSE,           \* the router may spend the base token
     adt |-> FALSE,                 \* deployment tracker of the CTM asset set
     ctmAsset |-> FALSE,            \* CTM asset registered on L1
     requests |-> <<>>]             \* priority requests to the new gateway

\* A CTM has the new version exactly when the cut to it is set.
Upgraded(w, f) == w.cut[f] # None

\* A contract that is called or installed has code.
HasCode(w, a) == a[3] = 0 \/ <<a[2], a[3]>> \in w.deployed

PriorityOps == {"addChainTypeManager", "setAssetHandlerAddress", "setCTMAssetAddress",
                "acceptDAManager", "acceptServerNotifier", "setGatewaySettlementFee"}

\* GovernanceUpgradeTimer.checkDeadline.
TimerExpired(w, timer, now) == w.deadline[timer] # 0 /\ now >= w.deadline[timer]

\* ProxyAdmin.upgrade and upgradeAndCall; the call appended to the upgrade of the
\* message root runs once, with every chain on L1.
CanInstall(w, c, away) ==
    /\ c.on = AdminOf(c.arg[1]) /\ c.on[2] \in w.admins /\ HasCode(w, c.arg[2])
    /\ Len(c.arg) = 3 => ~w.initialized /\ away \subseteq ExemptChains

\* Whether governance may make call c in world w at time `now`, when the chains
\* `away` settle on a gateway.
CanCall(w, c, now, away) ==
    CASE c.op = "startTimer" -> w.deadline[c.on] = 0
      [] c.op = "checkDeadline" -> TimerExpired(w, c.on, now)
      [] c.op = "checkMigrationsPaused" -> w.paused
      [] c.op = "checkMigrationsUnpaused" -> ~w.paused
      [] c.op = "checkProtocolUpgradePresence" -> Upgraded(w, c.on[2])
      [] c.op \in {"upgrade", "upgradeAndCall"} -> CanInstall(w, c, away)
      [] c.op = "acceptOwnership" -> c.on \in w.pending
      [] c.op = "setAssetTracker" -> w.impl[c.on] # None
      [] c.op = "setAddressesV31" -> w.impl[c.on] # None
      [] c.op = "setChainCreationParams" -> c.on \in w.owned
      [] c.op = "setNewVersionUpgrade" ->
            c.on \in w.owned /\ w.impl[c.on] # None /\ w.paused /\ ~Upgraded(w, c.on[2])
      [] c.op = "updateDAPair" -> c.on \in w.owned
      [] c.op = "setHistoricalMigrationInterval" ->
            w.impl[c.on] # None /\ w.impl[Live("messageRoot", "core")] # None
      [] c.op = "registerLegacyToken" -> w.tracker = c.on /\ c.on \notin w.registered
      [] c.op = "registerCTMAssetOnL1" -> w.adt
      [] c.op \in PriorityOps ->
            w.allowance /\ (w.tracker # None => w.tracker \in w.registered)
      [] OTHER -> TRUE

\* What an upgrade to `impl` with the call appended to it changes.
Install(w, c) ==
    [w EXCEPT !.impl[c.arg[1]] = c.arg[2], !.initialized = @ \/ Len(c.arg) = 3]

AcceptOwnership(w, x) == [w EXCEPT !.owned = @ \cup {x}, !.pending = @ \ {x}]

\* Mutant: a settlement layer is never taken off the list.
MutantSetSettlementLayerStatus(w, layer, status) == [w EXCEPT !.layers = @ \cup {layer}]

SetSettlementLayerStatus(w, layer, status) ==
    [w EXCEPT !.layers = IF status = Bool(TRUE) THEN @ \cup {layer} ELSE @ \ {layer}]

DoCall(w, c, now) ==
    CASE c.op = "pauseMigration" -> [w EXCEPT !.paused = TRUE]
      [] c.op = "unpauseMigration" -> [w EXCEPT !.paused = FALSE]
      [] c.op = "startTimer" -> [w EXCEPT !.deadline[c.on] = now + Delay]
      [] c.op \in {"upgrade", "upgradeAndCall"} -> Install(w, c)
      [] c.op = "acceptOwnership" -> AcceptOwnership(w, c.on)
      [] c.op = "setAssetTracker" -> [w EXCEPT !.tracker = c.arg[1]]
      [] c.op = "setAddressesV31" -> [w EXCEPT !.sender = c.arg[1]]
      [] c.op = "setAddresses" -> [w EXCEPT !.cached = TRUE]
      [] c.op = "setChainCreationParams" -> [w EXCEPT !.params[c.on[2]] = c.arg[1]]
      [] c.op = "setNewVersionUpgrade" ->
            [w EXCEPT !.cut[c.on[2]] = c.arg[1], !.verifier[c.on[2]] = c.arg[4]]
      [] c.op \in {"updateSecurityCouncil", "updateGuardians", "updateEmergencyUpgradeBoard"} ->
            [w EXCEPT !.council[c.arg[1][1]] = c.arg[1]]
      [] c.op = "updateDAPair" -> [w EXCEPT !.pairs = @ \cup {c.on[2]}]
      [] c.op = "setHistoricalMigrationInterval" ->
            [w EXCEPT !.intervals = @ \cup {c.arg[1][2]}]
      [] c.op = "setSettlementLayerStatus" -> SetSettlementLayerStatus(w, c.arg[1][2], c.arg[2])
      [] c.op = "registerLegacyToken" -> [w EXCEPT !.registered = @ \cup {c.on}]
      [] c.op = "approve" -> [w EXCEPT !.allowance = TRUE]
      [] c.op = "setAssetDeploymentTracker" -> [w EXCEPT !.adt = TRUE]
      [] c.op = "registerCTMAssetOnL1" -> [w EXCEPT !.ctmAsset = TRUE]
      [] c.op \in PriorityOps ->
            [w EXCEPT !.allowance = FALSE, !.requests = Append(@, <<c.op, c.arg[2], c.arg[3]>>)]
      [] OTHER -> w

\* One call.  A call to an address without code succeeds and does nothing.
CallStep(w, c, now, away) ==
    IF ~w.ok \/ (HasCode(w, c.on) /\ ~CanCall(w, c, now, away)) THEN [w EXCEPT !.ok = FALSE]
    ELSE IF HasCode(w, c.on) THEN DoCall(w, c, now) ELSE w

Execute(w, calls, now, away) ==
    FoldLeft(LAMBDA v, c : CallStep(v, c, now, away), w, calls)

\* Mutant: unpauses after the calls.
MutantExecuteEmergency(w, calls, now, away) ==
    [Execute(w, calls, now, away) EXCEPT !.paused = FALSE]

\* executeEmergencyUpgrade of the handler unfreezes and unpauses before the
\* calls of the proposal.
ExecuteEmergency(w, calls, now, away) ==
    Execute([w EXCEPT !.paused = FALSE], calls, now, away)

=============================================================================
