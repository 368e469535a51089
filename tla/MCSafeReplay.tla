----------------------------- MODULE MCSafeReplay -----------------------------
(* Instances of SafeReplay for TLC: three bundles of two signers. *)
EXTENDS SafeReplay

MCBundles ==
    <<[target |-> "deployer", txs |-> <<"create2", "setup", "call">>],
      [target |-> "owner", txs |-> <<"schedule", "execute">>],
      [target |-> "deployer", txs |-> <<"call">>]>>

AllModes == {"manifest", "broadcast", "unlocked"}
=============================================================================
