-------------------------- MODULE MCUpgradeProvenance --------------------------
EXTENDS UpgradeProvenance

\* Both CTMs, the upgrade handler and a new gateway.
AllParts == {"core", "era", "zksync_os", "gateway", "puh"}

\* A facet of L1 and of the gateway, an implementation behind a proxy, and a
\* deployer whose contract is an argument of two others.
MCChanging == {"MailboxFacet", "BytecodesSupplier", "GatewayCTMDeployerProxyAdmin"}

================================================================================
