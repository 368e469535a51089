--------------------------- MODULE UpgradePayload ---------------------------
(***************************************************************************)
(* The contents of one CTM's v31 upgrade: the ProposedUpgrade that the     *)
(* chains execute and the parameters that new chains are created with.     *)
(* A prepare run builds them (with at most one deviation from what the     *)
(* scripts should produce) and publishes the bytecodes of the L2 upgrade   *)
(* transaction in batches; the verifier of protocol-ops compares every     *)
(* part with its own lists; an accepted payload is executed by a chain on  *)
(* L1 and by the upgrade transaction on its L2, and new chains are         *)
(* created.  The lists are those of the source, every address being named  *)
(* by the contract that belongs there.  A field of the payload whose value *)
(* is only compared is "right" or "wrong" (or "zero"); a bytecode of the   *)
(* fixed data may also be the right one of the other VM.                   *)
(***************************************************************************)
EXTENDS Naturals, Sequences, FiniteSets, TLC

CONSTANTS Flavors,      \* VMs of the CTM: subset of {"era", "zkos"}
          Deviations,   \* mistakes a prepare run can make
          Touched,      \* contracts whose deployment a deviation touches
          FirstBatch,   \* files of the first publishing transaction
          Others        \* files somebody else may publish meanwhile

VARIABLES flavor, pc, payload, batches, published, chain, l2, newChain

vars == <<flavor, pc, payload, batches, published, chain, l2, newChain>>

-----------------------------------------------------------------------------
\* The lists of the verifier.

\* Contracts at the same fixed address on both VMs.
Core ==
    {"L2Bridgehub", "L2AssetRouter", "L2NativeTokenVault", "L2MessageRoot",
     "L2MessageVerification", "L2ChainAssetHandler", "L2InteropRootStorage",
     "BaseTokenHolder", "L2AssetTracker", "InteropCenter", "InteropHandler",
     "GWAssetTracker"}

\* era.rs: the file at each fixed address.
expected_v31_era_force_deployments ==
    [a \in {"Ecrecover", "SHA256", "Identity", "EcAdd", "EcMul", "EcPairing",
            "Modexp", "AccountCodeStorage", "NonceHolder", "KnownCodesStorage",
            "ImmutableSimulator", "ContractDeployer", "L1Messenger",
            "MsgValueSimulator", "SystemContext", "BootloaderUtilities",
            "EventWriter", "Compressor", "Keccak256", "PubdataChunkPublisher",
            "CodeOracle", "EvmGasManager", "EvmPredeploysManager",
            "EvmHashesStorage", "P256Verify", "Create2Factory",
            "SloadContract", "SystemContractProxyAdmin"} \cup Core |-> a]
    @@ ("Zero" :> "EmptyContract") @@ ("Bootloader" :> "EmptyContract")
    @@ ("L2BaseToken" :> "L2BaseTokenEra") @@ ("Upgrader" :> "L2V31Upgrade")

EXPECTED_V31_ERA_BYTECODES ==
    {"Bootloader", "DefaultAccount", "EvmEmulator", "EmptyContract",
     "Ecrecover", "SHA256", "Identity", "EcAdd", "EcMul", "EcPairing",
     "Modexp", "AccountCodeStorage", "NonceHolder", "KnownCodesStorage",
     "ImmutableSimulator", "ContractDeployer", "L1Messenger",
     "MsgValueSimulator", "L2BaseTokenEra", "SystemContext",
     "BootloaderUtilities", "EventWriter", "Compressor", "Keccak256",
     "CodeOracle", "EvmGasManager", "EvmPredeploysManager",
     "EvmHashesStorage", "P256Verify", "PubdataChunkPublisher",
     "Create2Factory", "SloadContract", "SystemContractProxyAdmin",
     "L2Bridgehub", "L2AssetRouter", "L2NativeTokenVault", "L2MessageRoot",
     "L2MessageVerification", "L2ChainAssetHandler", "L2InteropRootStorage",
     "BaseTokenHolder", "L2AssetTracker", "InteropCenter", "InteropHandler",
     "GWAssetTracker", "TransparentUpgradeableProxy", "BeaconProxy",
     "L2SharedBridgeLegacy", "BridgedStandardERC20", "DiamondProxy",
     "ProxyAdmin", "L2V31Upgrade"}

\* zksync_os.rs: the implementation behind the proxy at each fixed address.
expected_v31_zksync_os_force_deployments ==
    ("L2NativeTokenVault" :> "L2NativeTokenVaultZKOS")
    @@ ("L2BaseToken" :> "L2BaseTokenZKOS") @@ ("L1Messenger" :> "L1MessengerZKOS")
    @@ [a \in Core \cup {"SystemContext"} |-> a]

EXPECTED_V31_ZKSYNC_OS_BYTECODES ==
    {"SystemContractProxy", "SystemContractProxyAdmin", "L2Bridgehub",
     "L2AssetRouter", "L2NativeTokenVaultZKOS", "L2MessageRoot",
     "L2MessageVerification", "L2ChainAssetHandler", "L2InteropRootStorage",
     "BaseTokenHolder", "L2AssetTracker", "InteropCenter", "InteropHandler",
     "GWAssetTracker", "UpgradeableBeaconDeployer", "L2V31Upgrade",
     "L2BaseTokenZKOS", "L1MessengerZKOS", "SystemContext"}

Expected ==
    IF flavor = "era" THEN expected_v31_era_force_deployments
                      ELSE expected_v31_zksync_os_force_deployments
ExpectedBytecodes ==
    IF flavor = "era" THEN EXPECTED_V31_ERA_BYTECODES
                      ELSE EXPECTED_V31_ZKSYNC_OS_BYTECODES

\* The three base system contracts whose hashes a chain keeps on L1.
BaseHashes ==
    IF flavor = "era"
      THEN [bootloader |-> "Bootloader", account |-> "DefaultAccount", evm |-> "EvmEmulator"]
      ELSE [bootloader |-> "zero", account |-> "zero", evm |-> "zero"]

HashKind == IF flavor = "era" THEN "zk" ELSE "evm"
Hash(file) == [file |-> file, kind |-> HashKind]

\* A ZKsync OS bytecode info: the file of its observable hash, and the file
\* of its blake hash and length, by which the VM finds the code.
Info(file) == [file |-> file, blake |-> file]

\* Addresses are tuples: <<name>> or one derived from a bytecode info.
generate_zksync_os_random_address(info) == <<"derived", info.file, info.blake>>

Delegate ==
    IF flavor = "era" THEN <<"Upgrader">>
    ELSE generate_zksync_os_random_address(Info("L2V31Upgrade"))

FixedFields ==
    {"l1ChainId", "eraChainId", "l1AssetRouter", "l2TokenProxyBytecodeHash",
     "aliasedL1Governance", "maxNumberOfZKChains", "bytecodeInfos",
     "legacyImpls", "aliasedChainRegistrationSender",
     "dangerousTestOnlyForcedBeacon", "zkTokenAssetId"}
RightFixed == [f \in FixedFields |-> "right"]

\* What the contracts on L2 take from the data: nothing reads the bytecode infos.
Configured(fixed) == [f \in FixedFields \ {"bytecodeInfos"} |-> fixed[f]]

-----------------------------------------------------------------------------
\* Preparing: what the scripts build.

\* One deployment; n is its place among those of the same address.
Deployment(a) ==
    LET file == Expected[a]
    IN  IF flavor = "era"
          THEN [to |-> <<a>>, n |-> 1, file |-> file, value |-> 0,
                ctor |-> a = "L2ChainAssetHandler",
                input |-> IF a = "L2ChainAssetHandler" THEN "right" ELSE "empty"]
          ELSE [to |-> <<a>>, n |-> 1, type |-> "proxy", impl |-> Info(file),
                proxy |-> Info("SystemContractProxy")]

Prepared ==
    [hashes |-> BaseHashes, nonEmpty |-> {}, version |-> "v31",
     tx |-> [type |-> flavor, from |-> "forceDeployer", to |-> "complexUpgrader",
             gasLimit |-> "limit", pubdata |-> 800, nonce |-> "minor", nonZero |-> {}],
     deps |-> [h \in {Hash(f) : f \in ExpectedBytecodes} |-> 1],
     selector |-> flavor,
     deployments |->
        {Deployment(a) : a \in DOMAIN Expected}
        \cup (IF flavor = "era" THEN {}
              ELSE {[to |-> Delegate, n |-> 1, type |-> "unsafe",
                     impl |-> Info("L2V31Upgrade"), proxy |-> Info("none")]}),
     delegateTo |-> Delegate,
     zksyncOS |-> flavor = "zkos", ctmDeployer |-> "right",
     fixed |-> RightFixed, additional |-> "empty", toml |-> RightFixed,
     params |-> [genesisUpgrade |-> "right", diamondInit |-> "right",
                 root |-> "right", commitment |-> "right",
                 index |-> IF flavor = "era" THEN "right" ELSE "zero",
                 hashes |-> BaseHashes, fixed |-> RightFixed]]

\* A payload with the deployments to one address mapped.
Changed(p, a, D(_)) ==
    [p EXCEPT !.deployments = UNION {IF e.to = <<a>> THEN D(e) ELSE {e} : e \in @}]

DeviateTx(p, d) ==
    CASE d = "noTx" -> [p EXCEPT !.tx.type = "none"]
      [] d = "otherTx" -> [p EXCEPT !.tx.type = IF @ = "era" THEN "zkos" ELSE "era"]
      [] d = "from" -> [p EXCEPT !.tx.from = "other"]
      [] d = "to" -> [p EXCEPT !.tx.to = "other"]
      [] d = "gas" -> [p EXCEPT !.tx.gasLimit = "above"]
      [] d = "lowGas" -> [p EXCEPT !.tx.gasLimit = "below"]
      [] d = "pubdata" -> [p EXCEPT !.tx.pubdata = 0]
      [] d = "nonce" -> [p EXCEPT !.tx.nonce = "other"]
      [] d = "value" -> [p EXCEPT !.tx.nonZero = {"value"}]
      [] d = "selector" -> [p EXCEPT !.selector = IF @ = "era" THEN "zkos" ELSE "era"]
      [] d = "delegate" -> [p EXCEPT !.delegateTo = <<"Other">>]
      [] d = "flag" -> [p EXCEPT !.zksyncOS = ~@]
      [] d = "ctmDeployer" -> [p EXCEPT !.ctmDeployer = "wrong"]
      [] d = "additional" -> [p EXCEPT !.additional = "other"]
      [] d = "depMissing" -> [p EXCEPT !.deps = [h \in DOMAIN @ \ {Hash("L2V31Upgrade")} |-> 1]]
      [] d = "depTwice" -> [p EXCEPT !.deps[Hash("L2V31Upgrade")] = 2]
      [] d = "depExtra" -> [p EXCEPT !.deps = (Hash("MockContract") :> 1) @@ @]
      [] d = "depKind" ->
           [p EXCEPT !.deps =
              [h \in {[file |-> f, kind |-> IF HashKind = "zk" THEN "evm" ELSE "zk"] :
                      f \in ExpectedBytecodes} |-> 1]]
      [] OTHER -> p

DeviateDeployment(p, d, a) ==
    CASE d = "fdMissing" -> Changed(p, a, LAMBDA e : {})
      [] d = "fdTwice" -> Changed(p, a, LAMBDA e : {e, [e EXCEPT !.n = 2]})
      [] d = "fdExtra" ->
           [p EXCEPT !.deployments = @ \cup {[Deployment(a) EXCEPT !.to = <<"Other">>]}]
      [] d = "fdFile" ->
           Changed(p, a, LAMBDA e : {IF flavor = "era" THEN [e EXCEPT !.file = "L2V31Upgrade"]
                                     ELSE [e EXCEPT !.impl = Info("L2V31Upgrade")]})
      [] d = "fdCtor" /\ flavor = "era" -> Changed(p, a, LAMBDA e : {[e EXCEPT !.ctor = ~@]})
      [] d = "fdValue" /\ flavor = "era" -> Changed(p, a, LAMBDA e : {[e EXCEPT !.value = 1]})
      [] d = "fdInput" /\ flavor = "era" -> Changed(p, a, LAMBDA e : {[e EXCEPT !.input = "wrong"]})
      [] d = "fdUnsafe" /\ flavor = "zkos" -> Changed(p, a, LAMBDA e : {[e EXCEPT !.type = "unsafe"]})
      [] d = "fdBlake" /\ flavor = "zkos" -> Changed(p, a, LAMBDA e : {[e EXCEPT !.impl.blake = "stale"]})
      [] d = "fdProxy" /\ flavor = "zkos" -> Changed(p, a, LAMBDA e : {[e EXCEPT !.proxy.blake = "stale"]})
      [] d = "delegateBlake" /\ flavor = "zkos" ->
           LET info == [Info("L2V31Upgrade") EXCEPT !.blake = "stale"]
               to == generate_zksync_os_random_address(info)
           IN  [p EXCEPT !.delegateTo = to,
                         !.deployments = {IF e.to = Delegate
                                            THEN [e EXCEPT !.to = to, !.impl = info]
                                            ELSE e : e \in @}]
      [] OTHER -> p

DeviateData(p, d, f) ==
    CASE d = "hash" -> [p EXCEPT !.hashes.bootloader = "MockContract"]
      [] d = "noHash" -> [p EXCEPT !.hashes.bootloader = "zero"]
      [] d = "timestamp" -> [p EXCEPT !.nonEmpty = {"upgradeTimestamp"}]
      [] d = "version" -> [p EXCEPT !.version = "other"]
      [] d = "fixed" -> [p EXCEPT !.fixed[f] = "wrong"]
      [] d = "toml" -> [p EXCEPT !.fixed[f] = "wrong", !.toml[f] = "wrong",
                                 !.params.fixed[f] = "wrong"]
      [] d = "otherVM" /\ f \in {"l2TokenProxyBytecodeHash", "bytecodeInfos"} ->
           [p EXCEPT !.fixed[f] = "otherVM", !.toml[f] = "otherVM", !.params.fixed[f] = "otherVM"]
      [] d = "infoBlake" /\ f = "bytecodeInfos" ->
           [p EXCEPT !.fixed[f] = "stale", !.toml[f] = "stale", !.params.fixed[f] = "stale"]
      [] d = "genesisUpgrade" -> [p EXCEPT !.params.genesisUpgrade = "zero"]
      [] d = "diamondInit" -> [p EXCEPT !.params.diamondInit = "wrong"]
      [] d = "root" -> [p EXCEPT !.params.root = "zero"]
      [] d = "commitment" -> [p EXCEPT !.params.commitment = "wrong"]
      [] d = "index" -> [p EXCEPT !.params.index = IF @ = "zero" THEN "wrong" ELSE "zero"]
      [] d = "initHash" -> [p EXCEPT !.params.hashes.evm = IF @ = "zero" THEN "EvmEmulator" ELSE "zero"]
      [] d = "initFixed" -> [p EXCEPT !.params.fixed[f] = "wrong"]
      [] OTHER -> p

Deviate(p, d, a, f) == DeviateData(DeviateDeployment(DeviateTx(p, d), d, a), d, f)

-----------------------------------------------------------------------------
\* Publishing: BytecodePublisher simulates, then broadcasts the batches.

\* Files still to publish, in two transactions.
\* Mutant: bytecodes already published are not skipped.
MutantpublishBytecodesInBatches ==
    SelectSeq(<<ExpectedBytecodes \cap FirstBatch, ExpectedBytecodes \ FirstBatch>>,
              LAMBDA b : b # {})
publishBytecodesInBatches ==
    LET toPublish == {f \in ExpectedBytecodes : Hash(f) \notin published}
    IN  SelectSeq(<<toPublish \cap FirstBatch, toPublish \ FirstBatch>>,
                  LAMBDA b : b # {})

Prepare(d) ==
    /\ pc = "none"
    /\ payload' \in {Deviate(Prepared, d, a, f) : a \in Touched, f \in FixedFields}
    /\ batches' = publishBytecodesInBatches
    /\ pc' = "prepared"
    /\ UNCHANGED <<flavor, published, chain, l2, newChain>>

\* publishEraBytecode and publishEVMBytecode keep a mapping each.
PublishedHash(f) == Hash(f)

\* BytecodesSupplier reverts a transaction one of whose bytecodes has been
\* published since the simulation; the replay of the batches then stops.
CanPublishBytecodes(hashes) == hashes \cap published = {}

PublishBatch ==
    /\ pc = "prepared" /\ batches # <<>>
    /\ LET hashes == {PublishedHash(f) : f \in Head(batches)}
       IN  IF CanPublishBytecodes(hashes)
             THEN /\ published' = published \cup hashes
                  /\ batches' = Tail(batches)
             ELSE batches' = <<>> /\ UNCHANGED published
    /\ UNCHANGED <<flavor, pc, payload, chain, l2, newChain>>

OtherPublishes(f) ==
    /\ f \in ExpectedBytecodes /\ Hash(f) \notin published
    /\ published' = published \cup {Hash(f)}
    /\ UNCHANGED <<flavor, pc, payload, batches, chain, l2, newChain>>

-----------------------------------------------------------------------------
\* Verifying.

\* expect_zk_bytecode for Era, expect_zero_bytecode_hash for ZKsync OS.
verify_static_fields(p) ==
    p.hashes = BaseHashes /\ p.nonEmpty = {} /\ p.version = "v31"

\* Every dependency is a file of the list, once, and published.
\* Mutant: the supplier is not asked.
Mutantverify_factory_deps(deps) ==
    /\ \A h \in DOMAIN deps : h.kind = HashKind /\ h.file \in ExpectedBytecodes /\ deps[h] = 1
    /\ \A f \in ExpectedBytecodes : Hash(f) \in DOMAIN deps
verify_factory_deps(deps) ==
    /\ \A h \in DOMAIN deps : h.kind = HashKind /\ h.file \in ExpectedBytecodes /\ deps[h] = 1
    /\ \A f \in ExpectedBytecodes : Hash(f) \in DOMAIN deps
    /\ DOMAIN deps \subseteq published

\* The deployments are those expected at each address, each once
\* (expected_map.remove).
EachOnce(ds) ==
    /\ \A e \in ds : e.n = 1 /\ Len(e.to) = 1 /\ e.to[1] \in DOMAIN Expected
    /\ \A a \in DOMAIN Expected : \E e \in ds : e.to = <<a>>

verify_l2_chain_asset_handler_input(input) == input = "right"

verify_v31_era_force_deployments(ds) ==
    /\ EachOnce(ds)
    /\ \A e \in ds :
          /\ e.file = Expected[e.to[1]] /\ e.value = 0
          /\ e.ctor <=> e.to = <<"L2ChainAssetHandler">>
          /\ IF e.to = <<"L2ChainAssetHandler">>
               THEN verify_l2_chain_asset_handler_input(e.input)
               ELSE e.input = "empty"

\* Observable hash, blake hash and length against AllContractsHashes.json.
verify_zksync_os_bytecode_info_triplet(info, file) == info = Info(file)

verify_zksync_os_deployed_bytecode_info(e, file) ==
    /\ verify_zksync_os_bytecode_info_triplet(e.impl, file)
    /\ verify_zksync_os_bytecode_info_triplet(e.proxy, "SystemContractProxy")

verify_v31_zksync_os_force_deployments(ds) ==
    /\ EachOnce(ds)
    /\ \A e \in ds :
          /\ e.type = "proxy"
          /\ verify_zksync_os_deployed_bytecode_info(e, Expected[e.to[1]])

\* The delegate's address is derived from the info it is deployed with; of
\* the info only the observable hash is compared.
verify_zksync_os_l2_v31_deployment(e) ==
    /\ e.type = "unsafe"
    /\ e.to = generate_zksync_os_random_address(e.impl)
    /\ e.impl.file = "L2V31Upgrade"

verify_zksync_os_force_deploy_and_upgrade(p) ==
    LET delegates == {e \in p.deployments : e.to = p.delegateTo}
    IN  /\ verify_v31_zksync_os_force_deployments(p.deployments \ delegates)
        /\ Cardinality(delegates) = 1
        /\ \A e \in delegates : verify_zksync_os_l2_v31_deployment(e)

verify_era_force_deploy_and_upgrade(p) ==
    p.delegateTo = <<"Upgrader">> /\ verify_v31_era_force_deployments(p.deployments)

\* What a field may be.  The hash of the token proxy is that of BeaconProxy for
\* either VM.  A bytecode info is read by its length: as an Era hash, or as one or
\* two ZKsync OS infos, of which the observable hash alone is compared.
AcceptedValues(f) ==
    CASE f = "l2TokenProxyBytecodeHash" -> {"right", "otherVM"}
      [] f = "bytecodeInfos" -> {"right", "otherVM", "stale"}
      [] OTHER -> {"right"}

\* FixedForceDeploymentsData::verify, field by field.
\* Mutant: eraChainId is not compared.
MutantFixedForceDeploymentsData_verify(fixed) ==
    \A f \in FixedFields \ {"eraChainId"} : fixed[f] \in AcceptedValues(f)
FixedForceDeploymentsData_verify(fixed) == \A f \in FixedFields : fixed[f] \in AcceptedValues(f)

verify_l2_v31_upgrade_inner_calldata(p) ==
    /\ p.zksyncOS = (flavor = "zkos")
    /\ p.ctmDeployer = "right"
    /\ p.fixed = p.toml
    /\ FixedForceDeploymentsData_verify(p.fixed)
    /\ p.additional = "empty"

verify_l2_protocol_upgrade_tx(p) ==
    /\ p.tx = Prepared.tx
    /\ p.selector = flavor
    /\ verify_factory_deps(p.deps)
    /\ IF flavor = "era" THEN verify_era_force_deploy_and_upgrade(p)
                         ELSE verify_zksync_os_force_deploy_and_upgrade(p)
    /\ verify_l2_v31_upgrade_inner_calldata(p)

verify_v31_template(p) == verify_static_fields(p) /\ verify_l2_protocol_upgrade_tx(p)

InitializeDataNewChain_verify(hashes) == hashes = BaseHashes

verify_set_chain_creation_params_payload(p) ==
    /\ p.params.genesisUpgrade = "right" /\ p.params.diamondInit = "right"
    /\ p.params.root = "right" /\ p.params.commitment = "right"
    /\ p.params.index = IF flavor = "era" THEN "right" ELSE "zero"
    /\ p.params.fixed = p.toml
    /\ FixedForceDeploymentsData_verify(p.params.fixed)
    /\ InitializeDataNewChain_verify(p.params.hashes)

Accepted(p) == verify_v31_template(p) /\ verify_set_chain_creation_params_payload(p)

Verify ==
    /\ pc = "prepared" /\ pc' = "accepted"
    /\ payload \in {p \in {payload} : Accepted(p)}
    /\ UNCHANGED <<flavor, payload, batches, published, chain, l2, newChain>>

\* A payload that is rejected once its batches are through is prepared anew.
Regenerate ==
    /\ pc = "prepared" /\ batches = <<>>
    /\ payload \notin {p \in {payload} : Accepted(p)}
    /\ pc' = "none" /\ payload' = Prepared
    /\ UNCHANGED <<flavor, batches, published, chain, l2, newChain>>

-----------------------------------------------------------------------------
\* Executing on L1.

Revert ==
    pc' = "reverted" /\ UNCHANGED <<payload, batches, published, chain, l2, newChain>>

\* Chain type managers of both flavors.
_setChainCreationParamsOK(c) ==
    /\ c.genesisUpgrade # "zero" /\ c.root # "zero"
    /\ IF flavor = "era" THEN c.commitment # "zero" /\ c.index # "zero"
                         ELSE c.commitment = "right"

Stage1 ==
    /\ pc = "accepted"
    /\ IF _setChainCreationParamsOK(payload.params)
         THEN pc' = "staged" /\ UNCHANGED <<payload, batches, published, chain, l2, newChain>>
         ELSE Revert
    /\ UNCHANGED flavor

MAX_NEW_FACTORY_DEPS == 64
NumberOfDeps(deps) ==
    Cardinality(DOMAIN deps) + Cardinality({h \in DOMAIN deps : deps[h] = 2})

\* EraSettlementLayerV31Upgrade and ZKsyncOSSettlementLayerV31Upgrade.
getL2UpgradeTxDataOK(p) == p.selector = flavor /\ p.zksyncOS = (flavor = "zkos")

validateUpgradeTransaction(tx) ==
    /\ tx.gasLimit = "limit" /\ tx.pubdata > 0
    /\ tx.from = "forceDeployer" /\ tx.nonZero = {}

\* BaseZkSyncUpgrade.upgrade; a transaction of type 0 is not set.
_setL2SystemContractUpgradeOK(p) ==
    p.tx.type # "none" =>
       /\ p.tx.type = flavor
       /\ validateUpgradeTransaction(p.tx)
       /\ p.tx.nonce = "minor"
       /\ NumberOfDeps(p.deps) <= MAX_NEW_FACTORY_DEPS

UpgradeChain ==
    /\ pc = "staged"
    /\ IF /\ getL2UpgradeTxDataOK(payload)
          /\ "upgradeTimestamp" \notin payload.nonEmpty /\ payload.version = "v31"
          /\ _setL2SystemContractUpgradeOK(payload)
         THEN /\ chain' = [h \in DOMAIN chain |->
                             IF payload.hashes[h] = "zero" THEN chain[h] ELSE payload.hashes[h]]
              /\ pc' = IF payload.tx.type = "none" THEN "executed" ELSE "upgraded"
              /\ UNCHANGED <<payload, batches, published, l2, newChain>>
         ELSE Revert
    /\ UNCHANGED flavor

\* createNewChain: DiamondInit, and the genesis upgrade with the CTM's data.
CreateChain ==
    /\ pc \in {"staged", "upgraded", "executed"} /\ ~newChain.made
    /\ LET c == payload.params
       IN  IF flavor = "era" => \A h \in DOMAIN c.hashes : c.hashes[h] # "zero"
             THEN /\ newChain' = [made |-> TRUE, hashes |-> c.hashes,
                                  config |-> [fixed |-> Configured(c.fixed), ctmDeployer |-> "right"]]
                  /\ UNCHANGED <<pc, payload, batches, published, chain, l2>>
             ELSE Revert
    /\ UNCHANGED flavor

-----------------------------------------------------------------------------
\* Executing on L2.

\* The deployment that stands at an address after all of them.
LastTo(p, a) ==
    LET es == {e \in p.deployments : e.to = <<a>>}
    IN  CHOOSE e \in es : \A o \in es : o.n <= e.n

\* The VM finds a ZKsync OS bytecode by its blake hash.
DeployedCode(e) ==
    IF flavor = "era" THEN [file |-> e.file, via |-> "direct"]
    ELSE [file |-> e.impl.blake, via |-> IF e.type = "unsafe" THEN "direct" ELSE "proxy"]

CodeAfter(p) ==
    [a \in DOMAIN l2.code |->
       IF \E e \in p.deployments : e.to = <<a>> THEN DeployedCode(LastTo(p, a))
                                                ELSE l2.code[a]]

\* Bytecodes the sequencer has from the supplier.
Known(p) == {h.file : h \in DOMAIN p.deps \cap published}

\* ContractDeployer.forceDeployOnAddresses.
forceDeployOnAddressesOK(p) ==
    \A e \in p.deployments :
       /\ e.file \in Known(p) /\ e.value = 0
       /\ e.ctor => e.file # "SystemContractProxyAdmin"

\* L2GenesisForceDeploymentsHelper.updateZKsyncOSContract: an implementation
\* that is there already is kept, a missing proxy is deployed.
updateZKsyncOSContractOK(p, e) ==
    /\ e.impl.blake \in Known(p)
       \/ generate_zksync_os_random_address(e.impl) \in l2.impls
    /\ \A a \in DOMAIN l2.code :
          e.to = <<a>> => \/ l2.code[a].via = "proxy"
                          \/ l2.code[a].file = "none" /\ e.proxy = Info("SystemContractProxy")

conductContractUpgradesOK(p) ==
    \A e \in p.deployments :
       IF e.type = "unsafe" THEN e.impl.blake \in Known(p)
                            ELSE updateZKsyncOSContractOK(p, e)

\* What L2V31Upgrade initialises must be of the new version.
Initialised ==
    {"L2MessageRoot", "L2Bridgehub", "L2AssetRouter", "L2NativeTokenVault",
     "L2ChainAssetHandler", "L2AssetTracker", "GWAssetTracker",
     "InteropHandler", "InteropCenter", "L2BaseToken"}

L2V31UpgradeOK(p) ==
    /\ \E e \in p.deployments : /\ e.to = p.delegateTo
                                /\ DeployedCode(e).file = "L2V31Upgrade"
    /\ \A a \in Initialised : CodeAfter(p)[a].file = Expected[a]

L2ComplexUpgraderOK(p) ==
    /\ DOMAIN p.deps \subseteq published
    /\ p.tx.to = "complexUpgrader"
    /\ IF flavor = "era" THEN forceDeployOnAddressesOK(p) ELSE conductContractUpgradesOK(p)
    /\ L2V31UpgradeOK(p)

\* Only a ZKsync OS chain has its base token supply to backfill.
ExecuteOnL2 ==
    /\ pc = "upgraded"
    /\ IF payload \in {p \in {payload} : L2ComplexUpgraderOK(p)}
         THEN /\ l2' = [code |-> CodeAfter(payload),
                        impls |-> l2.impls \cup
                           (IF flavor = "era" THEN {}
                            ELSE {generate_zksync_os_random_address(e.impl) :
                                  e \in payload.deployments}),
                        config |-> [fixed |-> Configured(payload.fixed),
                                    ctmDeployer |-> payload.ctmDeployer],
                        backfill |-> payload.zksyncOS]
              /\ pc' = "executed"
              /\ UNCHANGED <<payload, batches, published, chain, newChain>>
         ELSE pc' = "revertedOnL2" /\ UNCHANGED <<payload, batches, published, chain, l2, newChain>>
    /\ UNCHANGED flavor

-----------------------------------------------------------------------------
Contracts ==
    DOMAIN expected_v31_era_force_deployments \cup {"L2WrappedBaseToken", "Other"}

\* The L2 before v31: absent are contracts that v31 introduces.
OldCode(absent) ==
    [a \in Contracts |->
       IF a \in absent \cup {"Other", "Upgrader"} THEN [file |-> "none", via |-> "direct"]
       ELSE [file |-> "v30",
             via |-> IF a \in DOMAIN expected_v31_zksync_os_force_deployments
                        /\ flavor = "zkos" THEN "proxy" ELSE "direct"]]

NoConfig == [fixed |-> Configured([f \in FixedFields |-> "old"]), ctmDeployer |-> "old"]

\* unchanged are implementations v31 leaves as they were.
Init ==
    /\ flavor \in Flavors
    /\ pc = "none" /\ payload = Prepared /\ batches = <<>> /\ published = {}
    /\ chain = [h \in DOMAIN BaseHashes |-> IF flavor = "era" THEN "v30" ELSE "zero"]
    /\ newChain = [made |-> FALSE, hashes |-> BaseHashes, config |-> NoConfig]
    /\ \E absent \in {{}, {"InteropCenter", "GWAssetTracker"}},
          unchanged \in {{}, {"L2MessageVerification"}} :
          l2 = [code |-> OldCode(absent), config |-> NoConfig, backfill |-> FALSE,
                impls |-> IF flavor = "era" THEN {}
                          ELSE {generate_zksync_os_random_address(Info(f)) : f \in unchanged}]

Next ==
    \/ \E d \in Deviations : Prepare(d)
    \/ PublishBatch
    \/ \E f \in Others : OtherPublishes(f)
    \/ Verify
    \/ Regenerate
    \/ Stage1
    \/ UpgradeChain
    \/ CreateChain
    \/ ExecuteOnL2

\* The operator carries a correct preparation through, again if need be.
Fairness ==
    /\ SF_vars(Prepare("none"))
    /\ WF_vars(PublishBatch) /\ WF_vars(Verify) /\ WF_vars(Regenerate)
    /\ WF_vars(Stage1) /\ WF_vars(UpgradeChain) /\ WF_vars(ExecuteOnL2)

Spec == Init /\ [][Next]_vars /\ Fairness

-----------------------------------------------------------------------------
\* An accepted payload does not revert: not in stage 1, not when a chain executes
\* the upgrade on L1 and not when a chain is created; nor in the upgrade
\* transaction on L2, which needs every deployed bytecode among its dependencies
\* and published, and a delegate with the code of L2V31Upgrade, but for one case.
\* Of the delegate's bytecode info on ZKsync OS the verifier compares the
\* observable hash (zksync_os.rs, verify_zksync_os_l2_v31_deployment) and the VM
\* finds the code by the blake hash.
AcceptedNeverReverts ==
    /\ pc # "reverted"
    /\ pc = "revertedOnL2" =>
          /\ flavor = "zkos"
          /\ \E e \in payload.deployments : e.to = payload.delegateTo /\ e.impl.blake # e.impl.file

\* A chain that executed an accepted payload runs at every address of the
\* lists the expected contract, behind its proxy on ZKsync OS, nothing else
\* has changed, its L2 contracts are configured with the live values, and L1
\* has the hashes of the new base system contracts.  The one value that may be
\* off is the hash of the token proxy: that of the other VM is accepted too
\* (fixed_force_deployment.rs, "Try ZK lookup first; fall back to EVM deployed
\* lookup").  A chain created with the accepted parameters is set up as the
\* upgraded chain is: the same data for its L2 contracts and the same base system
\* contracts (both compare forceDeploymentsData with the same artifact).
UpgradedAsExpected ==
    pc = "executed" =>
       /\ \A a \in Contracts :
             IF a \in DOMAIN Expected
               THEN l2.code[a] = [file |-> Expected[a],
                                  via |-> IF flavor = "era" THEN "direct" ELSE "proxy"]
               ELSE l2.code[a].file \in {"none", "v30"}
       /\ \A f \in DOMAIN l2.config.fixed :
             \/ l2.config.fixed[f] = "right"
             \/ f = "l2TokenProxyBytecodeHash" /\ l2.config.fixed[f] = "otherVM"
       /\ l2.config.ctmDeployer = "right"
       /\ l2.backfill = (flavor = "zkos")
       /\ chain = BaseHashes
       /\ newChain.made => newChain.hashes = chain /\ newChain.config = l2.config

\* Whatever others publish meanwhile, a payload is eventually accepted and taken to
\* its end on L2: bytecodes already published are skipped (BytecodePublisher), and a
\* stopped replay is prepared again.
EventuallyExecuted == <>(pc \in {"executed", "revertedOnL2"})
=============================================================================
