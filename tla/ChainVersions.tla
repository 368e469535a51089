----------------------------- MODULE ChainVersions -----------------------------
(***************************************************************************)
(* Protocol versions of the chains of one chain type manager: the manager  *)
(* publishes a diamond cut per old version with a deadline for it          *)
(* (ChainTypeManagerBase.sol), each chain applies the cut of its version   *)
(* when it likes (Admin.sol, BaseZkSyncUpgrade.sol), new chains start from *)
(* the creation cut, and a chain commits batches only while its version is *)
(* active (Committer.sol).  The facet cuts of the v31 upgrade come from an *)
(* artifact a script prepares from one chain's facets (FacetCutsLib.sol)   *)
(* and the verifier reconstructs (facets.rs, stage1.rs); governance        *)
(* executes its stage 1 once it is accepted.                               *)
(*                                                                         *)
(* A version is minor * PatchBase + patch.  The chains settle on L1; Prove *)
(* and Execute are one step; a chain has at most one batch in flight.  The *)
(* chain's admin may upgrade it at any time, so the timestamp after which  *)
(* a validator may is left out.                                            *)
(***************************************************************************)
EXTENDS Diamond, FiniteSets

CONSTANTS
    Chains,         \* chain ids
    Era,            \* the chain the verifier looks at first
    InitialCut,     \* facet cuts a chain is created with before v31
    Bytecode,       \* facet address -> selectors its code answers, getName included
    PatchBase,      \* versions per minor version
    StartVersion,   \* version of the chain type manager at first
    OldVersion,     \* version the v31 upgrade is for
    NewVersion,     \* the v31 version
    MaxPatch,       \* bound: patch versions published of a minor version
    PatchDeadlines, \* deadlines governance gives versions a patch replaces
    DeadlineChanges,\* deadlines the owner sets for a version on its own
    Deviations,     \* how an artifact may differ from what the script writes
    MaxReverts      \* bound: batches reverted

ASSUME ConstantsAssumption ==
    /\ Era \in Chains
    /\ PatchDeadlines \cup DeadlineChanges \subseteq {"finite", "past", "max"}
    /\ {StartVersion, OldVersion, NewVersion} \subseteq Nat /\ PatchBase \in Nat \ {0}
    /\ StartVersion <= OldVersion /\ OldVersion \div PatchBase < NewVersion \div PatchBase
    /\ MaxPatch \in 0 .. PatchBase - 1
    /\ InitialCut \in Seq(FacetCuts) /\ \A i \in DOMAIN InitialCut : InitialCut[i].facet \in Addresses
    /\ Bytecode \in [Addresses -> SUBSET Selectors]

VARIABLES
    ctm,        \* protocolVersion, initialCut, upgradeCut and deadline per version
    code,       \* addresses with code
    chainIds,   \* registered chains, in order
    chains,     \* per chain: ds, version, tx, batch
    accepted,   \* <<>>, or the artifact the verifier accepted
    reverts     \* batches reverted so far

vars == <<ctm, code, chainIds, chains, accepted, reverts>>

Minor(v) == v \div PatchBase

Versions == StartVersion .. NewVersion + MaxPatch

NoCut == [facetCuts |-> <<>>, newVersion |-> 0, l2Tx |-> FALSE]

Live(c) == c \in Range(chainIds)

Remove_(selectors) == [facet |-> Zero, action |-> "Remove", isFreezable |-> FALSE, selectors |-> selectors]

(***************************************************************************)
(* The v31 facets, by the name of their address in the artifact.           *)
(***************************************************************************)

EXPECTED_V31_UPGRADE_FACETS ==
    <<[facet |-> "admin_facet_addr",     isFreezable |-> FALSE],
      [facet |-> "getters_facet_addr",   isFreezable |-> FALSE],
      [facet |-> "mailbox_facet_addr",   isFreezable |-> TRUE],
      [facet |-> "executor_facet_addr",  isFreezable |-> TRUE],
      [facet |-> "migrator_facet_addr",  isFreezable |-> FALSE],
      [facet |-> "committer_facet_addr", isFreezable |-> TRUE]>>

NewFacets == {EXPECTED_V31_UPGRADE_FACETS[i].facet : i \in DOMAIN EXPECTED_V31_UPGRADE_FACETS}

ASSUME NewFacetsAssumption == NewFacets \subseteq Addresses

\* getName is in every facet and in no cut.
getAllSelectors(f) ==
    LET answered == Bytecode[f] \ {"getName"}
    IN  CHOOSE list \in Injection(1 .. Cardinality(answered), answered) : TRUE

getChainCreationFacetCuts ==
    [i \in DOMAIN EXPECTED_V31_UPGRADE_FACETS |->
       LET e == EXPECTED_V31_UPGRADE_FACETS[i]
       IN  [facet |-> e.facet, action |-> "Add", isFreezable |-> e.isFreezable,
            selectors |-> getAllSelectors(e.facet)]]

getDeletionCuts(ds) == [i \in DOMAIN ds.facets |-> Remove_(FacetList(ds)[i])]

(***************************************************************************)
(* The verifier.                                                           *)
(***************************************************************************)

FacetInfo(facet, action, is_freezable, selectors) ==
    [facet |-> facet, action |-> action, isFreezable |-> is_freezable, selectors |-> selectors]

\* The lists of cuts and of selectors become sets.
FacetCutSet(cuts) ==
    {FacetInfo(cuts[i].facet, cuts[i].action, cuts[i].isFreezable, Range(cuts[i].selectors)) : i \in DOMAIN cuts}

facet_selectors_from_bytecode(f) == Bytecode[f] \ {"getName"}

expected_v31_added_facets ==
    {LET e == EXPECTED_V31_UPGRADE_FACETS[i]
     IN  FacetInfo(e.facet, "Add", e.isFreezable, facet_selectors_from_bytecode(e.facet)) :
        i \in DOMAIN EXPECTED_V31_UPGRADE_FACETS}

\* The Era chain if it has the old version, else the first chain that has,
\* else none.
find_representative_chain_diamond(old) ==
    LET all    == <<Era>> \o chainIds
        has(i) == Live(all[i]) /\ chains[all[i]].version = old
    IN  {all[i] : i \in {j \in DOMAIN all : has(j) /\ \A k \in 1 .. j - 1 : ~has(k)}}

\* Mutant: Adds may come before Removes.
Mutantproposed_upgrade_facet_cuts_ok(cuts) ==
    \A i \in DOMAIN cuts : /\ cuts[i].action \in {"Add", "Remove"}
                           /\ cuts[i].action = "Remove" => cuts[i].facet = Zero

proposed_upgrade_facet_cuts_ok(cuts) ==
    \A i \in DOMAIN cuts :
       \/ cuts[i].action = "Add"
       \/ /\ cuts[i].action = "Remove"
          /\ \A j \in 1 .. i - 1 : cuts[j].action # "Add"
          /\ cuts[i].facet = Zero

verify_v31_upgrade_facet_cuts(a) ==
    /\ proposed_upgrade_facet_cuts_ok(a.cuts)
    /\ NewFacets \subseteq code
    /\ \E c \in find_representative_chain_diamond(a.old) :
          FacetCutSet(a.cuts) = FacetCutSet(getDeletionCuts(chains[c].ds)) \cup expected_v31_added_facets

\* Mutant: the creation cut is only compared with the artifact, that is, with itself.
Mutantverify_v31_chain_creation_facet_cuts(a) ==
    NewFacets \subseteq code

verify_v31_chain_creation_facet_cuts(a) ==
    /\ a.creation \in Seq(FacetCuts)
    /\ \A i \in DOMAIN a.creation : a.creation[i].action = "Add"
    /\ NewFacets \subseteq code
    /\ FacetCutSet(a.creation) = expected_v31_added_facets

\* The call is decoded first: what does not decode is refused.
verify_set_new_version_upgrade_payload(a) ==
    /\ a.cuts \in Seq(FacetCuts)
    /\ a.old = OldVersion
    /\ a.old = ctm.protocolVersion
    /\ a.deadline = "max"
    /\ a.new = NewVersion
    /\ verify_v31_upgrade_facet_cuts(a)

(***************************************************************************)
(* The facets are deployed, an artifact is prepared and verified.          *)
(***************************************************************************)

RemoveAt(cuts, i) == SubSeq(cuts, 1, i - 1) \o SubSeq(cuts, i + 1, Len(cuts))

\* Single differences from what the script writes.
Deviate(name, a) ==
    CASE name = "none"       -> {a}
      [] name = "deadline"   -> {[a EXCEPT !.deadline = "finite"]}
      [] name = "old"        -> {[a EXCEPT !.old = StartVersion]}
      [] name = "new"        -> {[a EXCEPT !.new = @ + 1]}
      [] name = "freezable"  -> {[a EXCEPT !.cuts[i].isFreezable = ~@] : i \in DOMAIN a.cuts}
      [] name = "dropped"    -> {[a EXCEPT !.cuts = RemoveAt(@, i)] : i \in DOMAIN a.cuts}
      [] name = "selector"   -> {[a EXCEPT !.cuts[i].selectors = Tail(@)] : i \in DOMAIN a.cuts}
      [] name = "order"      -> {[a EXCEPT !.cuts = [i \in DOMAIN @ |-> @[Len(@) + 1 - i]]]}
      [] name = "replace"    -> {[a EXCEPT !.cuts[i].action = "Replace"] : i \in DOMAIN a.cuts}
      [] name = "facet"      -> {[a EXCEPT !.cuts[i].facet = f] : i \in DOMAIN a.cuts, f \in code}
      [] name = "repeated"   -> {[a EXCEPT !.cuts = Append(@, @[Len(@)])],
                                 [a EXCEPT !.cuts = <<Head(@)>> \o @],
                                 [a EXCEPT !.cuts[1].selectors = <<Head(@)>> \o @]}
      [] name = "creation"   -> {[a EXCEPT !.creation = RemoveAt(@, i)] : i \in DOMAIN a.creation}
                                  \cup {[a EXCEPT !.creation[i].isFreezable = ~@] : i \in DOMAIN a.creation}

Deploy ==
    /\ ~(NewFacets \subseteq code)
    /\ code' = code \cup NewFacets
    /\ UNCHANGED <<ctm, chainIds, chains, accepted, reverts>>

\* The script takes the facets to remove from a chain that has the manager's
\* version; a rejected artifact is dropped.
PrepareAndVerify(c) ==
    /\ accepted = <<>> /\ Live(c) /\ chains[c].version = ctm.protocolVersion
    /\ \E name \in Deviations :
         \E a \in Deviate(name, [old      |-> ctm.protocolVersion,
                                 new      |-> NewVersion,
                                 deadline |-> "max",
                                 cuts     |-> getDeletionCuts(chains[c].ds) \o getChainCreationFacetCuts,
                                 creation |-> getChainCreationFacetCuts]) :
            /\ verify_set_new_version_upgrade_payload(a)
            /\ verify_v31_chain_creation_facet_cuts(a)
            /\ accepted' = <<a>>
    /\ UNCHANGED <<ctm, code, chainIds, chains, reverts>>

(***************************************************************************)
(* The chain type manager.                                                 *)
(***************************************************************************)

\* Migrations are paused, too: when, is the subject of UpgradeCeremony.
CanSetNewVersionUpgrade(old) == ctm.protocolVersion = old

_setNewVersionUpgrade(m, cut, old, deadline) ==
    [m EXCEPT !.protocolVersion = cut.newVersion,
              !.upgradeCut[old] = cut,
              !.deadline[old] = deadline,
              !.deadline[cut.newVersion] = "max"]

\* Stage 1 of the upgrade: setChainCreationParams and setNewVersionUpgrade
\* in one governance transaction.
Stage1 ==
    /\ accepted # <<>> /\ CanSetNewVersionUpgrade(accepted[1].old)
    /\ LET a == accepted[1]
       IN  ctm' = _setNewVersionUpgrade([ctm EXCEPT !.initialCut = a.creation],
                                        [facetCuts |-> a.cuts, newVersion |-> a.new, l2Tx |-> TRUE],
                                        a.old, a.deadline)
    /\ UNCHANGED <<code, chainIds, chains, accepted, reverts>>

createNewPatchUpgrade(new, deadline) ==
    /\ CanSetNewVersionUpgrade(ctm.protocolVersion)
    /\ Minor(new) = Minor(ctm.protocolVersion) /\ new > ctm.protocolVersion
    /\ ctm' = _setNewVersionUpgrade(ctm, [facetCuts |-> <<>>, newVersion |-> new, l2Tx |-> FALSE],
                                    ctm.protocolVersion, deadline)
    /\ UNCHANGED <<code, chainIds, chains, accepted, reverts>>

\* The owner sets the deadline of any version: replaced, current or yet to come.
setProtocolVersionDeadline(v, deadline) ==
    /\ ctm' = [ctm EXCEPT !.deadline[v] = deadline]
    /\ UNCHANGED <<code, chainIds, chains, accepted, reverts>>

\* Time passes a finite deadline.
Expire(v) ==
    /\ ctm.deadline[v] = "finite"
    /\ ctm' = [ctm EXCEPT !.deadline[v] = "past"]
    /\ UNCHANGED <<code, chainIds, chains, accepted, reverts>>

protocolVersionIsActive(v) == ctm.deadline[v] \in {"finite", "max"}

\* A new chain starts with its genesis upgrade transaction.
createNewChain(c) ==
    /\ ~Live(c)
    /\ LET r == diamondCut(EmptyDiamond, ctm.initialCut, code)
       IN  /\ r.ok /\ Reaches(r.ds, "genesisUpgrade")
           /\ chains' = [chains EXCEPT ![c] = [ds |-> r.ds, version |-> ctm.protocolVersion,
                                               tx |-> "set", batch |-> 0]]
    /\ chainIds' = Append(chainIds, c)
    /\ UNCHANGED <<ctm, code, accepted, reverts>>

(***************************************************************************)
(* A chain.                                                                *)
(***************************************************************************)

\* Mutant: a patch, too, waits for the previous upgrade to be finalized.
Mutant_setNewProtocolVersionOK(ch, new) ==
    /\ new > ch.version
    /\ ch.tx = "none"

\* Only a change of the minor version waits for the previous upgrade's transaction.
_setNewProtocolVersionOK(ch, new) ==
    /\ new > ch.version
    /\ Minor(new) # Minor(ch.version) => ch.tx = "none"

\* A version without transaction (a patch) keeps the one outstanding; the
\* v31 upgrade needs all committed batches executed.
upgradeChainFromVersion(c) ==
    LET ch  == chains[c]
        cut == ctm.upgradeCut[ch.version]
    IN  /\ Live(c) /\ cut # NoCut
        /\ Reaches(ch.ds, "upgradeChainFromVersion")
        /\ cut.l2Tx => ch.batch = 0
        /\ _setNewProtocolVersionOK(ch, cut.newVersion)
        /\ \E r \in {diamondCut(ch.ds, cut.facetCuts, code)} :
             /\ r.ok
             /\ chains' = [chains EXCEPT ![c] = [ch EXCEPT !.ds = r.ds, !.version = cut.newVersion,
                                                           !.tx = IF cut.l2Tx THEN "set" ELSE @]]
        /\ UNCHANGED <<ctm, code, chainIds, accepted, reverts>>

\* The upgrade transaction goes into the first batch committed after it is set.
Commit(c) ==
    /\ Live(c) /\ Reaches(chains[c].ds, "commitBatches")
    /\ protocolVersionIsActive(chains[c].version)
    /\ chains[c].batch = 0
    /\ chains' = [chains EXCEPT ![c].batch = 1, ![c].tx = IF @ = "set" THEN "batched" ELSE @]
    /\ UNCHANGED <<ctm, code, chainIds, accepted, reverts>>

Execute(c) ==
    /\ Live(c) /\ Reaches(chains[c].ds, "executeBatches")
    /\ chains[c].batch = 1
    /\ chains' = [chains EXCEPT ![c].batch = 0, ![c].tx = "none"]
    /\ UNCHANGED <<ctm, code, chainIds, accepted, reverts>>

Revert(c) ==
    /\ Live(c) /\ Reaches(chains[c].ds, "executeBatches")
    /\ chains[c].batch = 1 /\ reverts < MaxReverts
    /\ chains' = [chains EXCEPT ![c].batch = 0, ![c].tx = IF @ = "batched" THEN "set" ELSE @]
    /\ reverts' = reverts + 1
    /\ UNCHANGED <<ctm, code, chainIds, accepted>>

\* freezeDiamond and unfreezeDiamond.
ToggleFreeze(c) ==
    /\ Live(c) /\ Reaches(chains[c].ds, "freezeDiamond")
    /\ chains' = [chains EXCEPT ![c].ds.isFrozen = ~@]
    /\ UNCHANGED <<ctm, code, chainIds, accepted, reverts>>

(***************************************************************************)
(* The specification.                                                      *)
(***************************************************************************)

Init ==
    /\ ctm = [protocolVersion |-> StartVersion,
              initialCut      |-> InitialCut,
              upgradeCut      |-> [v \in Versions |-> NoCut],
              deadline        |-> [v \in Versions |-> IF v = StartVersion THEN "max" ELSE "none"]]
    /\ code = {InitialCut[i].facet : i \in DOMAIN InitialCut}
    /\ chainIds = <<>>
    /\ chains = [c \in Chains |-> [ds |-> EmptyDiamond, version |-> 0, tx |-> "none", batch |-> 0]]
    /\ accepted = <<>>
    /\ reverts = 0

Patches == {v \in Versions : v % PatchBase <= MaxPatch}

Next ==
    \/ Deploy \/ Stage1
    \/ \E v \in Patches, d \in PatchDeadlines : createNewPatchUpgrade(v, d)
    \/ \E v \in Versions : Expire(v) \/ \E d \in DeadlineChanges : setProtocolVersionDeadline(v, d)
    \/ \E c \in Chains : \/ PrepareAndVerify(c) \/ createNewChain(c) \/ upgradeChainFromVersion(c)
                         \/ Commit(c) \/ Execute(c) \/ Revert(c) \/ ToggleFreeze(c)

Spec == Init /\ [][Next]_vars

(***************************************************************************)
(* Properties.                                                             *)
(***************************************************************************)

\* Chains of one version route every call alike, whether created with that
\* version or upgraded to it, by whatever patches, from whatever version
\* (setChainCreationParams and setNewVersionUpgrade of one accepted artifact),
\* and each diamond's two maps and list agree after every cut (Diamond.sol).
UniformFacets ==
    \A c \in Range(chainIds) :
       /\ Consistent(chains[c].ds)
       /\ \A d \in Range(chainIds) :
            chains[c].version = chains[d].version => Routing(chains[c].ds) = Routing(chains[d].ds)

\* The facet changes of the upgrade from the chain's version do not revert.
CutApplies(c) == diamondCut(chains[c].ds, ctm.upgradeCut[chains[c].version].facetCuts, code).ok

\* A list of cuts that names a cut, or a function in one of them, twice.
Repeats(cuts) ==
    \E i \in DOMAIN cuts : \/ \E j \in 1 .. i - 1 : cuts[i] = cuts[j]
                           \/ ~IsInjective(cuts[i].selectors)

\* Every chain behind the manager's version has a cut to apply, and its
\* facet changes do not revert: one cut, made from one chain's facets, fits
\* all chains of the old version (FacetCutsLib.sol, facets.rs).  The one
\* exception is a list that repeats itself, which the verifier, comparing
\* sets (facet_cut_set.rs), cannot tell from the right one.  The chain's
\* admin reaches the upgrade and the unfreezing, frozen or not: the Admin
\* facet is not freezable in every accepted artifact.
UpgradeApplies ==
    \A c \in Range(chainIds) :
       /\ Reaches(chains[c].ds, "upgradeChainFromVersion") /\ Reaches(chains[c].ds, "freezeDiamond")
       /\ chains[c].version # ctm.protocolVersion =>
          /\ ctm.upgradeCut[chains[c].version] # NoCut
          /\ CutApplies(c) <=> ~Repeats(ctm.upgradeCut[chains[c].version].facetCuts)

\* What a chain can do on its own.
CanMove(c) ==
    LET ch  == chains[c]
        cut == ctm.upgradeCut[ch.version]
    IN  \/ ch.batch = 1
        \/ protocolVersionIsActive(ch.version)
        \/ cut # NoCut /\ _setNewProtocolVersionOK(ch, cut.newVersion) /\ CutApplies(c)

\* A chain that can neither commit, execute nor upgrade has an expired
\* version, and one of three things happened: the owner of the manager closed
\* the version everyone should be at (setProtocolVersionDeadline has no
\* guard); the next minor version was published while the chain's upgrade
\* transaction was outstanding (Committer.sol, second comment in
\* commitBatchesSharedBridge); or the facet cuts revert, which UpgradeApplies
\* is about.  No chain that is behind by patches only gets there, whatever
\* the owner does to the deadlines.
StuckOnlyByDeadline ==
    \A c \in Range(chainIds) :
       ~CanMove(c) =>
          /\ ctm.deadline[chains[c].version] = "past"
          /\ \/ chains[c].version = ctm.protocolVersion
             \/ /\ Minor(ctm.upgradeCut[chains[c].version].newVersion) > Minor(chains[c].version)
                /\ chains[c].tx = "set" \/ ~CutApplies(c)

================================================================================
