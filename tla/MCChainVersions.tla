---------------------------- MODULE MCChainVersions ----------------------------
(***************************************************************************)
(* Instances of ChainVersions: two chains, four facets before v31 and six  *)
(* after, with functions that move from one facet to another.              *)
(***************************************************************************)
EXTENDS ChainVersions

MCSelectors ==
    {"getName", "genesisUpgrade", "upgradeChainFromVersion", "freezeDiamond", "forwardedBridgeBurn",
     "facets", "requestL2Transaction", "commitBatches", "executeBatches"}

\* A function of the Admin facet moves to the Migrator and one of the
\* Executor to the Committer.
MCBytecode ==
    [admin_v30            |-> {"getName", "genesisUpgrade", "upgradeChainFromVersion", "freezeDiamond",
                               "forwardedBridgeBurn"},
     getters_v30          |-> {"getName", "facets"},
     mailbox_v30          |-> {"getName", "requestL2Transaction"},
     executor_v30         |-> {"getName", "commitBatches", "executeBatches"},
     admin_facet_addr     |-> {"getName", "genesisUpgrade", "upgradeChainFromVersion", "freezeDiamond"},
     getters_facet_addr   |-> {"getName", "facets"},
     mailbox_facet_addr   |-> {"getName", "requestL2Transaction"},
     executor_facet_addr  |-> {"getName", "executeBatches"},
     migrator_facet_addr  |-> {"getName", "forwardedBridgeBurn"},
     committer_facet_addr |-> {"getName", "commitBatches"}]

MCAddresses == DOMAIN MCBytecode

MCInitialCut ==
    <<[facet |-> "admin_v30", action |-> "Add", isFreezable |-> FALSE,
       selectors |-> <<"genesisUpgrade", "upgradeChainFromVersion", "freezeDiamond", "forwardedBridgeBurn">>],
      [facet |-> "getters_v30", action |-> "Add", isFreezable |-> FALSE, selectors |-> <<"facets">>],
      [facet |-> "mailbox_v30", action |-> "Add", isFreezable |-> TRUE, selectors |-> <<"requestL2Transaction">>],
      [facet |-> "executor_v30", action |-> "Add", isFreezable |-> TRUE,
       selectors |-> <<"commitBatches", "executeBatches">>]>>

================================================================================
