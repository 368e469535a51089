--------------------------- MODULE UpgradeProvenance ---------------------------
(***************************************************************************)
(* Where the contracts of the v31 upgrade come from.  The scripts deploy   *)
(* each contract through the CREATE2 factory (on the new gateway: by L1 to *)
(* L2 transactions, some of them through deployers that create several     *)
(* contracts), and the hash of every transaction is appended to            *)
(* transactions.txt, which later regenerations keep.  The verifier         *)
(* (deployed_addresses.rs) rebuilds from that file what was deployed and   *)
(* compares each address of the artifact with the file and the constructor *)
(* arguments it expects.                                                   *)
(*                                                                         *)
(* Two tables are translated apart from each other: what the scripts pass  *)
(* to the constructors (Script) and what the verifier expects (Expected).  *)
(* A CREATE2 address is named by what determines it: the bytecode (a file  *)
(* in one of its versions), the salt and the constructor arguments.  The   *)
(* factory has one address on every chain, so a contract of the gateway    *)
(* with the arguments of its L1 twin also has the twin's address.          *)
(***************************************************************************)
EXTENDS Integers, Sequences, FiniteSets, FiniteSetsExt

CONSTANTS
    Env,           \* the environment: "stage", "testnet" or "mainnet"
    Parts,         \* what is deployed: "core", the flavors, "gateway", "puh"
    GatewayFlavor, \* the flavor of the CTM the new gateway copies
    Changing,      \* the files that are changed between regenerations
    MaxChanges,    \* bound: changes of files and of the salts
    MaxFaults      \* bound: broadcasts that go wrong

Flavors == {"era", "zksync_os"}

ASSUME ProvenanceAssumption ==
    /\ Env \in {"stage", "testnet", "mainnet"}
    /\ Parts \subseteq Flavors \cup {"core", "gateway", "puh"}
    /\ "core" \in Parts
    /\ "gateway" \in Parts => GatewayFlavor \in Parts \cap Flavors
    /\ "puh" \in Parts => "zksync_os" \in Parts
    /\ MaxChanges \in Nat /\ MaxFaults \in Nat

(***************************************************************************)
(* Constructor arguments: a live contract, another value, an entry of the  *)
(* artifact, what a deployer of the gateway created, the gateway's salt.   *)
(***************************************************************************)
Live(n) == <<"live", n>>

LiveOf(n, f) == <<"live", n, f>>

Word(n) == <<"word", n>>

WordOf(n, f) == <<"word", n, f>>

New(p, n) == <<"new", p, n, "address">>

Child(n, k) == <<"new", "gateway", n, k>>

GatewaySalt == <<"salt">>

Init0(file, args) == [file |-> file, args |-> args]

PerFlavor(f, era, os) == IF f = "era" THEN era ELSE os

Testnet == Env # "mainnet"

IsTestnet == Word(IF Testnet THEN "testnet" ELSE "mainnet")

(***************************************************************************)
(* What the scripts deploy.                                                *)
(***************************************************************************)

\* A transparent proxy deployed together with its implementation.
Tupp(p, impl, admin, init) == Init0("Proxy", <<New(p, impl), admin, Word(init)>>)

CoreScript ==
    [bridgehub |-> Init0("L1Bridgehub", <<Live("governance"), Word("maxChains")>>),
     messageRoot |-> Init0(IF Env = "stage" THEN "L1MessageRootStageSepolia" ELSE "L1MessageRoot",
                           <<Live("bridgehub"), Word("legacyGateway"), Live("cah")>>),
     nullifier |-> Init0("L1Nullifier", <<Live("bridgehub"), Live("messageRoot"),
                                          Word("legacyEra"), Live("eraDiamond")>>),
     assetRouter |-> Init0("L1AssetRouter", <<Live("weth"), Live("bridgehub"), Live("nullifier"),
                                              Word("legacyEra"), Live("eraDiamond")>>),
     ntv |-> Init0("L1NativeTokenVault", <<Live("weth"), Live("assetRouter"), Live("nullifier")>>),
     tracker |-> Init0("L1AssetTracker", <<Live("bridgehub"), Live("ntv"), Live("messageRoot")>>),
     trackerProxy |-> Tupp("core", "tracker", Live("proxyAdmin"), "initialize(deployer)"),
     ctmTracker |-> Init0("CTMDeploymentTracker", <<Live("bridgehub"), Live("assetRouter")>>),
     cah |-> Init0("L1ChainAssetHandler", <<Live("governance"), Live("bridgehub")>>),
     sender |-> Init0("ChainRegistrationSender", <<Live("bridgehub")>>),
     senderProxy |-> Tupp("core", "sender", Live("proxyAdmin"), "initialize(deployer)")]

\* The verifier's owner is an argument for ZKsync OS only.
VerifierScript(f) ==
    Init0(IF Testnet THEN PerFlavor(f, "EraTestnetVerifier", "ZKsyncOSTestnetVerifier")
                     ELSE PerFlavor(f, "EraDualVerifier", "ZKsyncOSDualVerifier"),
          <<New(f, "fflonk"), New(f, "plonk")>> \o PerFlavor(f, <<>>, <<Word("deployer")>>))

CtmScript(f) ==
    [defaultUpgrade |-> Init0(PerFlavor(f, "EraSettlementLayerV31Upgrade",
                                           "ZKsyncOSSettlementLayerV31Upgrade"), <<>>),
     genesisUpgrade |-> Init0("L1GenesisUpgrade", <<>>),
     fflonk |-> Init0(PerFlavor(f, "EraVerifierFflonk", "ZKsyncOSVerifierFflonk"), <<>>),
     plonk |-> Init0(PerFlavor(f, "EraVerifierPlonk", "ZKsyncOSVerifierPlonk"), <<>>),
     verifier |-> VerifierScript(f),
     eip7702 |-> Init0("EIP7702Checker", <<>>),
     stageValidator |-> Init0("UpgradeStageValidator", <<LiveOf("ctm", f), Word("newVersion")>>),
     timer |-> Init0("GovernanceUpgradeTimer", <<Word("delay"), Word("twoWeeks"),
                                                 Live("governance"), Live("ecosystemAdmin")>>),
     supplierImpl |-> Init0("BytecodesSupplier", <<>>),
     supplier |-> Tupp(f, "supplierImpl", LiveOf("proxyAdmin", f), "initialize()"),
     permissionlessImpl |-> Init0("PermissionlessValidator", <<>>),
     permissionless |-> Tupp(f, "permissionlessImpl", LiveOf("proxyAdmin", f), "initialize()"),
     ctm |-> Init0(PerFlavor(f, "EraChainTypeManager", "ZKsyncOSChainTypeManager"),
                   <<Live("bridgehub"), Word("interopCenter"), New(f, "supplier"),
                     New(f, "permissionless")>>),
     serverNotifier |-> Init0("ServerNotifier", <<>>),
     validatorTimelock |-> Init0(PerFlavor(f, "ValidatorTimelock", "MultisigCommitter"),
                                 <<Live("bridgehub")>>),
     executor |-> Init0("ExecutorFacet", <<Word("l1ChainId")>>),
     admin |-> Init0("AdminFacet", <<Word("l1ChainId"), LiveOf("daManager", f)>>),
     mailbox |-> Init0("MailboxFacet", <<Word("legacyEra"), Word("l1ChainId"), Live("cah"),
                                         New(f, "eip7702"), IsTestnet>>),
     getters |-> Init0("GettersFacet", <<>>),
     migrator |-> Init0("MigratorFacet", <<Word("l1ChainId"), IsTestnet>>),
     committer |-> Init0("CommitterFacet", <<Word("l1ChainId")>>),
     diamondInit |-> Init0("DiamondInit", <<Word(f)>>)]

\* The part of the configuration that all the deployers of the gateway share.
DeployerConfig == <<GatewaySalt, Word("aliasedGovernance")>>

GatewayFacets ==
    <<New("gateway", "admin"), New("gateway", "mailbox"), New("gateway", "executor"),
      New("gateway", "getters"), New("gateway", "migrator"), New("gateway", "committer"),
      New("gateway", "diamondInit")>>

GatewayScript ==
    LET f == GatewayFlavor
        proxyAdmin == Child("proxyAdminDeployer", "proxyAdmin")
    IN [admin |-> Init0("AdminFacet", <<Word("l1ChainId"), Child("daDeployer", "daManager")>>),
        mailbox |-> Init0("MailboxFacet", <<Word("legacyEra"), Word("l1ChainId"), Word("l2Cah"),
                                            Word("zero"), IsTestnet>>),
        executor |-> Init0("ExecutorFacet", <<Word("l1ChainId")>>),
        getters |-> Init0("GettersFacet", <<>>),
        migrator |-> Init0("MigratorFacet", <<Word("l1ChainId"), IsTestnet>>),
        committer |-> Init0("CommitterFacet", <<Word("l1ChainId")>>),
        diamondInit |-> Init0("DiamondInit", <<Word(f)>>),
        genesisUpgrade |-> Init0("L1GenesisUpgrade", <<>>),
        daDeployer |-> Init0("GatewayCTMDeployerDA", DeployerConfig),
        proxyAdminDeployer |-> Init0("GatewayCTMDeployerProxyAdmin", DeployerConfig),
        timelockDeployer |-> Init0("GatewayCTMDeployerValidatorTimelock",
                                   DeployerConfig \o <<proxyAdmin>>),
        verifiersDeployer |-> Init0(PerFlavor(f, "GatewayCTMDeployerVerifiers",
                                                 "GatewayCTMDeployerVerifiersZKsyncOS"),
                                    DeployerConfig \o <<IsTestnet, Word(f)>>),
        ctmDeployer |-> Init0(PerFlavor(f, "GatewayCTMDeployerCTM",
                                           "GatewayCTMDeployerCTMZKsyncOS"),
                              DeployerConfig \o <<WordOf("genesis", f), proxyAdmin,
                                  Child("timelockDeployer", "validatorTimelock")>>
                              \o GatewayFacets
                              \o <<New("gateway", "genesisUpgrade"),
                                   Child("verifiersDeployer", "verifier")>>)]

\* The protocol upgrade handler and its three bodies (external script
\* DeployPUHAndGuardians.s.sol, modelled from its use).
PuhScript ==
    [impl |-> Init0(IF Testnet THEN "TestnetProtocolUpgradeHandler" ELSE "ProtocolUpgradeHandler",
                    <<Live("l2Governor"), LiveOf("ctm", "era"), LiveOf("ctm", "zksync_os"), Live("bridgehub"),
                      Live("nullifier"), Live("assetRouter"), Live("ntv"), Live("cah"),
                      Word("registeredEra")>>),
     guardians |-> Init0("Guardians", <<Live("governance"), Live("bridgehub"), Word("registeredEra"),
                                        Word("guardians")>>),
     council |-> Init0("SecurityCouncil", <<Live("governance"), Word("firstEight")>>),
     board |-> Init0("EmergencyUpgradeBoard", <<Live("governance"), New("puh", "council"),
                                                New("puh", "guardians"), Live("foundation")>>)]

Script(p) ==
    CASE p = "core" -> CoreScript
      [] p \in Flavors -> CtmScript(p)
      [] p = "gateway" -> GatewayScript
      [] p = "puh" -> PuhScript

Contracts == UNION {{<<p, n>> : n \in DOMAIN Script(p)} : p \in Parts}

Creation(c) == Script(c[1])[c[2]]

Files == {Creation(c).file : c \in Contracts}

(***************************************************************************)
(* Addresses, and the artifact of a run of the scripts.                    *)
(***************************************************************************)
Create2(file, version, salt, args) == <<"create2", file, version, salt, args>>

FileOf(a) == a[2]

VersionOf(a) == a[3]

SaltOf(a) == a[4]

ArgsOf(a) == a[5]

Created(deployer, k) == <<"created", deployer, k>>

\* The salts: the environment declares one for core and one for each CTM, the
\* gateway takes that of the CTM it copies, the handler's never changes.
Salt(p, s) ==
    CASE p = "gateway" -> <<"salt", GatewayFlavor, s>>
      [] p = "puh" -> <<"salt", "puh", 0>>
      [] OTHER -> <<"salt", p, s>>

\* A part's contracts are on L1 or on the gateway.
At(p, a) == <<IF p = "gateway" THEN "gateway" ELSE "l1", a>>

\* An argument, given the addresses of the artifact and of the deployers.
Resolve(t, addr, s) ==
    CASE t[1] = "new" -> IF t[4] = "address" THEN addr[<<t[2], t[3]>>]
                         ELSE Created(addr[<<t[2], t[3]>>], t[4])
      [] t[1] = "salt" -> Salt("gateway", s)
      [] OTHER -> t

\* The addresses a run deploys at, with the files in these versions and the
\* salt of each part.
Deployed(versions, s) ==
    LET addr[c \in Contracts] ==
            LET i == Creation(c)
            IN Create2(i.file, versions[i.file], Salt(c[1], s),
                       [k \in DOMAIN i.args |-> Resolve(i.args[k], addr, s)])
    IN [c \in Contracts |-> addr[c]]

\* What the artifact names: the contracts, but for the deployers and the
\* implementations that only the proxies' slots name; and what the deployers
\* create on the gateway.
Hidden == {"supplierImpl", "permissionlessImpl", "daDeployer", "proxyAdminDeployer",
           "timelockDeployer", "verifiersDeployer", "ctmDeployer"}

Children ==
    [daManager |-> "daDeployer", validatorTimelock |-> "timelockDeployer",
     verifier |-> "verifiersDeployer", serverNotifierImpl |-> "ctmDeployer",
     serverNotifier |-> "ctmDeployer", ctmImpl |-> "ctmDeployer", ctmProxy |-> "ctmDeployer",
     diamondCut |-> "ctmDeployer"]

GatewayChildren == IF "gateway" \in Parts THEN {<<"gateway", k>> : k \in DOMAIN Children} ELSE {}

Named == {c \in Contracts : c[2] \notin Hidden}

ArtifactOf(addr) ==
    [c \in Named \cup GatewayChildren |->
        IF c \in Named THEN addr[c] ELSE Created(addr[<<"gateway", Children[c[2]]>>], c[2])]

VARIABLES
    versions, \* the version of each file in the repository and its hash list
    salt,     \* the salt the environment declares now
    artifact, \* the artifact of the last run of the scripts, or <<>>
    pending,  \* the deployments of that run that are not sent yet
    onChain,  \* the contracts deployed, with the chain each is on
    log,      \* the deployments whose hash is in transactions.txt
    faults    \* broadcasts that went wrong

vars == <<versions, salt, artifact, pending, onChain, log, faults>>

Init ==
    /\ versions = [x \in Files |-> 0]
    /\ salt = 1
    /\ artifact = <<>>
    /\ pending = {}
    /\ onChain = {}
    /\ log = {}
    /\ faults = 0

\* The scripts run from nothing on a fork: an L1 contract that is there already
\* is not deployed again, the gateway's transactions are made every time.
Prepare ==
    LET addr == Deployed(versions, salt)
        toSend == {c \in Contracts : c[1] = "gateway" \/ At(c[1], addr[c]) \notin onChain}
    IN /\ artifact' = ArtifactOf(addr)
       /\ pending' = {<<c[1], addr[c]>> : c \in toSend}
       /\ UNCHANGED <<versions, salt, onChain, log, faults>>

\* Mutant: each broadcast starts transactions.txt anew.
LoggedAnew(sent) == sent

Logged(sent) == log \cup sent

\* The parts in the order of the manifest's bundles.
Order == SelectSeq(<<"core", "era", "zksync_os", "gateway", "puh">>, LAMBDA p : p \in Parts)

FirstPending(p) ==
    \E i \in DOMAIN Order :
        /\ Order[i] = p
        /\ \E t \in pending : t[1] = p
        /\ \A t \in pending : \E j \in i .. Len(Order) : t[1] = Order[j]

\* The next part of the run's transactions is sent and logged.  It may go wrong:
\* the hashes do not reach transactions.txt (the tool is killed, or run without
\* --out), or a transaction that succeeds on L1 fails on the gateway.
Broadcast(p) ==
    LET sent == {t[2] : t \in {u \in pending : u[1] = p}}
        there == {At(p, a) : a \in sent}
    IN /\ FirstPending(p)
       /\ pending' = {t \in pending : t[1] # p}
       /\ \/ /\ onChain' = onChain \cup there
             /\ log' = Logged(sent)
             /\ UNCHANGED faults
          \/ /\ faults < MaxFaults
             /\ faults' = faults + 1
             /\ \/ /\ onChain' = onChain \cup there
                   /\ UNCHANGED log
                \/ /\ p = "gateway"
                   /\ \E x \in there \ onChain : onChain' = onChain \cup (there \ {x})
                   /\ log' = Logged(sent)
       /\ UNCHANGED <<versions, salt, artifact>>

Changes == MapThenSumSet(LAMBDA x : versions[x], Files) + salt - 1

\* A contract is changed, and with it its hash in AllContractsHashes.json.
ChangeFile(x) ==
    /\ x \in Files
    /\ Changes < MaxChanges
    /\ versions' = [versions EXCEPT ![x] = @ + 1]
    /\ UNCHANGED <<salt, artifact, pending, onChain, log, faults>>

\* The environment declares new salts for core and the CTMs.
RotateSalts ==
    /\ Changes < MaxChanges
    /\ salt' = salt + 1
    /\ UNCHANGED <<versions, artifact, pending, onChain, log, faults>>

(***************************************************************************)
(* What the verifier expects, read from the artifact, from live contracts  *)
(* and from the environment.                                               *)
(***************************************************************************)
ExpectedCore ==
    [cah |-> Init0("L1ChainAssetHandler", <<Live("governance"), Live("bridgehub")>>),
     messageRoot |-> Init0(IF Env = "stage" THEN "L1MessageRootStageSepolia" ELSE "L1MessageRoot",
                           <<Live("bridgehub"), Word("legacyGateway"), Live("cah")>>),
     ntv |-> Init0("L1NativeTokenVault", <<Live("weth"), Live("assetRouter"), Live("nullifier")>>),
     ctmTracker |-> Init0("CTMDeploymentTracker", <<Live("bridgehub"), Live("assetRouter")>>),
     tracker |-> Init0("L1AssetTracker", <<Live("bridgehub"), Live("ntv"), Live("messageRoot")>>),
     assetRouter |-> Init0("L1AssetRouter", <<Live("weth"), Live("bridgehub"), Live("nullifier"),
                                              Word("legacyEra"), Live("eraDiamond")>>),
     nullifier |-> Init0("L1Nullifier", <<Live("bridgehub"), Live("messageRoot"),
                                          Word("legacyEra"), Live("eraDiamond")>>),
     bridgehub |-> Init0("L1Bridgehub", <<Live("governance"), Word("maxChains")>>),
     sender |-> Init0("ChainRegistrationSender", <<Live("bridgehub")>>)]

ExpectedCtmBase(f) ==
    [genesisUpgrade |-> Init0("L1GenesisUpgrade", <<>>),
     getters |-> Init0("GettersFacet", <<>>),
     defaultUpgrade |-> Init0(PerFlavor(f, "EraSettlementLayerV31Upgrade",
                                           "ZKsyncOSSettlementLayerV31Upgrade"), <<>>),
     plonk |-> Init0(PerFlavor(f, "EraVerifierPlonk", "ZKsyncOSVerifierPlonk"), <<>>),
     fflonk |-> Init0(PerFlavor(f, "EraVerifierFflonk", "ZKsyncOSVerifierFflonk"), <<>>),
     serverNotifier |-> Init0("ServerNotifier", <<>>),
     eip7702 |-> Init0("EIP7702Checker", <<>>),
     diamondInit |-> Init0("DiamondInit", <<Word(f)>>),
     executor |-> Init0("ExecutorFacet", <<Word("l1ChainId")>>),
     admin |-> Init0("AdminFacet", <<Word("l1ChainId"), LiveOf("daManager", f)>>),
     verifier |-> IF f = "zksync_os"
                  THEN Init0(IF Env # "mainnet" THEN "ZKsyncOSTestnetVerifier"
                                                ELSE "ZKsyncOSDualVerifier",
                             <<New(f, "fflonk"), New(f, "plonk"), Word("deployer")>>)
                  ELSE Init0(IF Env # "mainnet" THEN "EraTestnetVerifier" ELSE "EraDualVerifier",
                             <<New(f, "fflonk"), New(f, "plonk")>>)]

ExpectedCtm(f) ==
    [committer |-> Init0("CommitterFacet", <<Word("l1ChainId")>>),
     mailbox |-> Init0("MailboxFacet", <<Word("legacyEra"), Word("l1ChainId"), Live("cah"),
                                         New(f, "eip7702"), IsTestnet>>),
     migrator |-> Init0("MigratorFacet", <<Word("l1ChainId"), IsTestnet>>),
     timer |-> Init0("GovernanceUpgradeTimer", <<Word("delay"), Word("twoWeeks"),
                                                 Live("governance"), Live("ecosystemAdmin")>>),
     stageValidator |-> Init0("UpgradeStageValidator", <<LiveOf("ctm", f), Word("newVersion")>>),
     ctm |-> Init0(PerFlavor(f, "EraChainTypeManager", "ZKsyncOSChainTypeManager"),
                   <<Live("bridgehub"), Word("interopCenter"), New(f, "supplier"),
                     New(f, "permissionless")>>),
     validatorTimelock |-> Init0(PerFlavor(f, "ValidatorTimelock", "MultisigCommitter"),
                                 <<Live("bridgehub")>>)]

ExpectedGateway ==
    [admin |-> Init0("AdminFacet", <<Word("l1ChainId"), New("gateway", "daManager")>>),
     mailbox |-> Init0("MailboxFacet", <<Word("legacyEra"), Word("l1ChainId"), Word("l2Cah"),
                                         Word("zero"), IsTestnet>>),
     executor |-> Init0("ExecutorFacet", <<Word("l1ChainId")>>),
     getters |-> Init0("GettersFacet", <<>>),
     migrator |-> Init0("MigratorFacet", <<Word("l1ChainId"), IsTestnet>>),
     committer |-> Init0("CommitterFacet", <<Word("l1ChainId")>>),
     diamondInit |-> Init0("DiamondInit", <<Word(GatewayFlavor)>>),
     genesisUpgrade |-> Init0("L1GenesisUpgrade", <<>>)]

ExpectedPuh ==
    [impl |-> Init0(IF Env = "mainnet" THEN "ProtocolUpgradeHandler"
                                       ELSE "TestnetProtocolUpgradeHandler",
                    <<Live("l2Governor"), LiveOf("ctm", "era"), LiveOf("ctm", "zksync_os"),
                      Live("bridgehub"), Live("nullifier"), Live("assetRouter"), Live("ntv"),
                      Live("cah"), Word("registeredEra")>>),
     guardians |-> Init0("Guardians", <<Live("governance"), Live("bridgehub"), Word("registeredEra"),
                                        Word("guardians")>>),
     council |-> Init0("SecurityCouncil", <<Live("governance"), Word("firstEight")>>),
     board |-> Init0("EmergencyUpgradeBoard", <<Live("governance"), New("puh", "council"),
                                                New("puh", "guardians"), Live("foundation")>>)]

(***************************************************************************)
(* The verifier.                                                           *)
(***************************************************************************)

\* The deployments of transactions.txt that are recognised: those whose bytecode
\* is in the current list of hashes.  Older ones are skipped.
Recognised(a) == a \in log /\ VersionOf(a) = versions[FileOf(a)]

\* A recognised deployment has a salt that the environment declares.
SaltsDeclared == \A a \in log : Recognised(a) => SaltOf(a) \in {Salt(p, salt) : p \in Parts}

Args(i, art) == [k \in DOMAIN i.args |-> Resolve(i.args[k], art, salt)]

Matches(a, file, args) == FileOf(a) = file /\ ArgsOf(a) = args

\* expect_create2_params.
FromCreate2(a, file, args) == Recognised(a) /\ Matches(a, file, args)

AllFromCreate2(p, expected, art) ==
    \A n \in DOMAIN expected :
        FromCreate2(art[<<p, n>>], expected[n].file, Args(expected[n], art))

\* Mutant: only the proxy is compared.
MutantProxyFromCreate2(a, impl, admin, init) ==
    /\ Recognised(a) /\ FileOf(a) = "Proxy"
    /\ ArgsOf(a)[2] = admin /\ ArgsOf(a)[3] = init

\* A proxy, with the implementation that its slot names.
ProxyFromCreate2(a, impl, admin, init) ==
    /\ Recognised(a) /\ FileOf(a) = "Proxy"
    /\ LET slot == ArgsOf(a)[1]
       IN /\ Matches(a, "Proxy", <<slot, admin, init>>)
          /\ FromCreate2(slot, impl.file, impl.args)

CoreProvenanceOK(art) ==
    /\ AllFromCreate2("core", ExpectedCore, art)
    /\ ProxyFromCreate2(art[<<"core", "trackerProxy">>], ExpectedCore.tracker,
                        Live("proxyAdmin"), Word("initialize(deployer)"))
    /\ ProxyFromCreate2(art[<<"core", "senderProxy">>], ExpectedCore.sender,
                        Live("proxyAdmin"), Word("initialize(deployer)"))

\* expected_v31_added_facets: the facets' selectors are read from their code on L1.
OnL1(a) == At("core", a) \in onChain

Facets == {"admin", "getters", "mailbox", "executor", "migrator", "committer"}

FacetsHaveCode(f, art) == \A n \in Facets : OnL1(art[<<f, n>>])

CtmProvenanceOK(f, art) ==
    /\ AllFromCreate2(f, ExpectedCtmBase(f), art)
    /\ AllFromCreate2(f, ExpectedCtm(f), art)
    /\ ProxyFromCreate2(art[<<f, "supplier">>], Init0("BytecodesSupplier", <<>>),
                        LiveOf("proxyAdmin", f), Word("initialize()"))
    /\ ProxyFromCreate2(art[<<f, "permissionless">>], Init0("PermissionlessValidator", <<>>),
                        LiveOf("proxyAdmin", f), Word("initialize()"))

PuhProvenanceOK(art) == AllFromCreate2("puh", ExpectedPuh, art)

\* expect_create2_params_by_file: the one deployment of a deployer, if there is one.
ByFile(file, args) ==
    LET found == {a \in log : Recognised(a) /\ Matches(a, file, args)}
    IN IF Cardinality(found) = 1 THEN found ELSE {}

\* getResult() of a deployer, called on the gateway, gives address a for k.
GetResult(d, k, a) == At("gateway", d) \in onChain /\ a = Created(d, k)

\* The facets in the diamond cut of the artifact are those it names.
DiamondCutOK(art) ==
    LET cut == art[<<"gateway", "diamondCut">>]
        args == ArgsOf(cut[2])
    IN /\ FileOf(cut[2]) \in {"GatewayCTMDeployerCTM", "GatewayCTMDeployerCTMZKsyncOS"}
       /\ \A i \in 1 .. 6 : args[5 + i] = Args([args |-> GatewayFacets], art)[i]

CtmDeployerArgs(art, proxyAdmin) ==
    Args([args |-> DeployerConfig \o <<WordOf("genesis", GatewayFlavor)>>], art)
    \o <<proxyAdmin, art[<<"gateway", "validatorTimelock">>]>>
    \o Args([args |-> GatewayFacets], art)
    \o <<art[<<"gateway", "genesisUpgrade">>], art[<<"gateway", "verifier">>]>>

GatewayDeployersOK(art) ==
    LET config == Args([args |-> DeployerConfig], art)
        at(k) == art[<<"gateway", k>>]
    IN /\ \E d \in ByFile("GatewayCTMDeployerDA", config) :
              GetResult(d, "daManager", at("daManager"))
       /\ \E d \in ByFile(PerFlavor(GatewayFlavor, "GatewayCTMDeployerVerifiers",
                                                  "GatewayCTMDeployerVerifiersZKsyncOS"),
                          config \o <<IsTestnet, Word(GatewayFlavor)>>) :
              GetResult(d, "verifier", at("verifier"))
       /\ \E pa \in ByFile("GatewayCTMDeployerProxyAdmin", config) :
              LET proxyAdmin == Created(pa, "proxyAdmin")
              IN /\ GetResult(pa, "proxyAdmin", proxyAdmin)
                 /\ \E d \in ByFile("GatewayCTMDeployerValidatorTimelock",
                                    config \o <<proxyAdmin>>) :
                        GetResult(d, "validatorTimelock", at("validatorTimelock"))
                 /\ \E d \in ByFile(PerFlavor(GatewayFlavor, "GatewayCTMDeployerCTM",
                                                            "GatewayCTMDeployerCTMZKsyncOS"),
                                    CtmDeployerArgs(art, proxyAdmin)) :
                        \A k \in {j \in DOMAIN Children : Children[j] = "ctmDeployer"} :
                            GetResult(d, k, at(k))

GatewayProvenanceOK(art) ==
    /\ DiamondCutOK(art)
    /\ AllFromCreate2("gateway", ExpectedGateway, art)
    /\ GatewayDeployersOK(art)

Accepts(art) ==
    /\ SaltsDeclared
    /\ CoreProvenanceOK(art)
    /\ \A f \in Parts \cap Flavors : CtmProvenanceOK(f, art) /\ FacetsHaveCode(f, art)
    /\ "gateway" \in Parts => GatewayProvenanceOK(art)
    /\ "puh" \in Parts => PuhProvenanceOK(art)

Next ==
    \/ Prepare
    \/ \E p \in Parts : Broadcast(p)
    \/ \E x \in Changing : ChangeFile(x)
    \/ RotateSalts

Spec == Init /\ [][Next]_vars

(***************************************************************************)
(* Properties.                                                             *)
(***************************************************************************)

\* The addresses without their salts, all the way down.
RECURSIVE Unsalted(_)
Unsalted(a) ==
    CASE a[1] = "create2" ->
             <<"create2", FileOf(a), VersionOf(a),
               [k \in DOMAIN ArgsOf(a) |-> Unsalted(ArgsOf(a)[k])]>>
      [] a[1] = "created" -> <<"created", Unsalted(a[2]), a[3]>>
      [] a[1] = "salt" -> <<"salt">>
      [] OTHER -> a

\* The artifact, and the artifact with one address replaced by another one that
\* transactions.txt has for the same file.
Edited ==
    LET Others(c) == {a \in log : FileOf(a) = FileOf(artifact[c])}
        OtherDeployers(c) == {d \in log : FileOf(d) = FileOf(artifact[c][2])}
    IN {artifact}
       \cup UNION {{[artifact EXCEPT ![c] = a] : a \in Others(c)} : c \in Named}
       \cup UNION {{[artifact EXCEPT ![c] = Created(d, c[2])] : d \in OtherDeployers(c)} :
                       c \in GatewayChildren}

\* Contracts that exist: on L1 all of them and the implementations behind the
\* proxies, on the gateway the deployers of what they created.  The facets of the
\* gateway are left out: the verifier sees only their L1 transactions.
IsDeployed(art) ==
    /\ \A c \in {d \in Named : d[1] # "gateway"} :
           /\ OnL1(art[c])
           /\ FileOf(art[c]) = "Proxy" => OnL1(ArgsOf(art[c])[1])
    /\ \A c \in GatewayChildren : At("gateway", art[c][2]) \in onChain

\* An artifact that the verifier accepts (deployed_addresses.rs) names deployed
\* contracts of the current code with the arguments the current scripts pass,
\* down to the contracts among the arguments: only salts may differ.  Neither a
\* stale artifact nor one with an address of an earlier regeneration, of a
\* broadcast that failed on the gateway or of one that was never sent is
\* accepted, though transactions.txt has them all.
AcceptedIsGenuine ==
    artifact # <<>> =>
        LET fresh == ArtifactOf(Deployed(versions, salt))
        IN \A art \in {a \in Edited : Accepts(a)} :
               /\ IsDeployed(art)
               /\ \A c \in DOMAIN art : Unsalted(art[c]) = Unsalted(fresh[c])

\* The artifact's run is of the current code and salts, all of it was sent, and
\* neither this nor an earlier broadcast went wrong.
Regenerated ==
    /\ artifact = ArtifactOf(Deployed(versions, salt))
    /\ pending = {}
    /\ faults = 0

\* What transactions.txt has from earlier regenerations, under the same salts,
\* never keeps the verifier from accepting such an artifact: the older
\* deployments are skipped, and what was not deployed again is found in an older
\* line of the file.
RegenerationAccepted == Regenerated /\ SaltsDeclared => Accepts(artifact)

================================================================================
