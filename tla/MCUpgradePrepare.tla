--------------------------- MODULE MCUpgradePrepare ---------------------------
(* Instances of UpgradePrepare. *)
EXTENDS UpgradePrepare

Both == <<"era", "zksync_os">>
OneInterval == <<"c1">>

\* Governance owns the CTMs, all is still with the old owner, or the transfers
\* of an earlier attempt are pending.
Core == {"core", "puh"}
DaPending == {DaManager(f) : f \in DaPairs}
Handed == WorldBefore(LiveOwnables \ DaPending, DaPending, Core \cup Flavors)
Untouched == WorldBefore({}, DaPending, Core)
Resumed == WorldBefore({Ctm(f) : f \in Flavors}, {Vt(f) : f \in Flavors} \cup DaPending, Core)
MCWorlds == {Handed, Untouched, Resumed}

=============================================================================
