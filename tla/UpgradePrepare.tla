---------------------------- MODULE UpgradePrepare ----------------------------
(***************************************************************************)
(* upgrade-prepare-all step by step: every step runs on a fork of L1,      *)
(* records its transactions in memory and leaves its results in a file     *)
(* that later steps read.  A step may fail and the command may be killed   *)
(* at any point: the fork and the recorded transactions are gone, the      *)
(* files stay, and the command is run again, perhaps from other code and   *)
(* with part of an earlier manifest broadcast.  UpgradeCeremony takes such *)
(* a run as one step.  No governance transaction is executed meanwhile.    *)
(***************************************************************************)
EXTENDS UpgradeVerifier, UpgradeBundle

CONSTANTS
    Worlds,     \* the states of L1 the first run may start from
    Away,       \* chains that settle on a gateway
    Bump,       \* GOV_DEADLINE_BUMP_SECONDS
    MaxRuns     \* bound: runs of the command

ASSUME PrepareAssumption == Away \subseteq Chains /\ Bump \in Nat /\ MaxRuns \in Nat

VARIABLES
    l1,         \* L1, see UpgradeWorld
    code,       \* revision of the checked-out code
    run,        \* number of the last run
    at,         \* position of the run in Pipeline, 0 if there is none
    mem,        \* memory of the command and its fork
    files,      \* script-out: what each script left there
    ecosystem,  \* the merged ecosystem.toml
    manifest,   \* [run, steps]: the last run in manifest.json, and all its transactions
    sent        \* transactions of the manifest that were broadcast

vars == <<l1, code, run, at, mem, files, ecosystem, manifest, sent>>

\* The steps of a run.  The redeployment of the upgrade handler asks for a CTM of
\* ZKsync OS.
Pipeline ==
    <<"pre", "core">> \o CtmOrder \o <<"aux">>
    \o (IF NewGateway THEN <<"replay", "vote", "revert">> ELSE <<>>)
    \o (IF PuhGoverned THEN <<"puh">> ELSE <<>>)
    \o <<"merge", "manifest">>

FileNames == {"pre", "aux", "core", "gateway"} \cup Flavors

\* rev: the code it is from; admin: whether governance owns the new timer;
\* core: the revision of the core contracts it refers to; accepts: acceptOwnership targets.
Missing == [run |-> 0, rev |-> 0, admin |-> FALSE, core |-> 0, accepts |-> <<>>]

NoFork == [WorldBefore({}, {}, {}) EXCEPT !.ok = FALSE]

NoRun == [base |-> NoFork, fork |-> NoFork, snapshot |-> NoFork, bundle |-> <<>>, vote |-> FALSE]

NoEcosystem == [runs |-> {}, revs |-> [p \in Parts |-> 0], admin |-> {}, accepts |-> <<>>]

Init ==
    /\ l1 \in Worlds
    /\ code = 1 /\ run = 0 /\ at = 0
    /\ mem = NoRun
    /\ files = [n \in FileNames |-> Missing]
    /\ ecosystem = NoEcosystem
    /\ manifest = [run |-> 0, steps |-> <<>>]
    /\ sent = 0

-----------------------------------------------------------------------------
(* A run. *)

FreshOutput == manifest' = [run |-> 0, steps |-> <<>>] /\ sent' = 0

\* A fork of L1 as it is.  The output directory of an earlier run may be reused.
Start ==
    /\ at = 0 /\ run < MaxRuns
    /\ at' = 1 /\ run' = run + 1
    /\ mem' = [NoRun EXCEPT !.base = l1, !.fork = l1]
    /\ FreshOutput \/ UNCHANGED <<manifest, sent>>
    /\ UNCHANGED <<l1, code, files, ecosystem>>

Step(name) == at > 0 /\ Pipeline[at] = name /\ at' = at + 1

\* Transactions of a script on the fork.
Simulated(steps) ==
    [mem EXCEPT !.fork = FoldLeft(LAMBDA w, s : Replay(w, s, CtmsOwned(w)), @, steps),
                !.bundle = @ \o steps]

\* Mutant: takes the deployment of other code for this one.
MutantNewDeploys(part) ==
    IF \E r \in Revs : <<part, r>> \in mem.fork.deployed THEN <<>> ELSE Deploys(<<part>>, code)

\* A script deploys what has no code on the fork.
NewDeploys(part) == IF <<part, code>> \in mem.fork.deployed THEN <<>> ELSE Deploys(<<part>>, code)

\* The accept calls a script leaves for stage 0: what is proposed to governance
\* after its transfers.
PendingOf(targets, w) == SelectSeq(targets, LAMBDA x : x \in w.pending)

\* run_pre_steps and ensureCtmsAndProxyAdminsOwnedByGovernanceWithWraps.
RunPreSteps ==
    /\ Step("pre")
    /\ mem' = Simulated(Transfers(mem.fork, PreTargets, CtmsOwned(mem.fork)) \o AdminSteps(mem.fork))
    /\ files' = [files EXCEPT !["pre"] =
                    [Missing EXCEPT !.run = run, !.accepts = PendingOf(PreTargets, mem'.fork)]]
    /\ UNCHANGED <<l1, code, run, ecosystem, manifest, sent>>

PrepareCore ==
    /\ Step("core")
    /\ mem' = Simulated(NewDeploys("core"))
    /\ files' = [files EXCEPT !["core"] = [Missing EXCEPT !.run = run, !.rev = code, !.core = code]]
    /\ UNCHANGED <<l1, code, run, ecosystem, manifest, sent>>

\* The script of a CTM is given the chain registration sender of the core's file.
PrepareCtm(f) ==
    /\ Step(f)
    /\ files["core"] # Missing
    /\ mem' = Simulated(NewDeploys(f))
    /\ files' = [files EXCEPT ![f] = [Missing EXCEPT !.run = run, !.rev = code, !.core = files["core"].rev,
                                                     !.admin = Ctm(f) \in mem.fork.owned]]
    /\ UNCHANGED <<l1, code, run, ecosystem, manifest, sent>>

\* run_aux_ownership_steps and ensureOwnable2StepTargetsOwnedByGovernanceWithWraps,
\* on what the files of the CTMs list.
RunAuxSteps ==
    LET targets == AuxTargets(code) IN
    /\ Step("aux")
    /\ mem' = Simulated(Transfers(mem.fork, targets, CtmsOwned(mem.fork)))
    /\ files' = [files EXCEPT !["aux"] =
                    [Missing EXCEPT !.run = run, !.accepts = PendingOf(targets, mem'.fork)]]
    /\ UNCHANGED <<l1, code, run, ecosystem, manifest, sent>>

\* read_pre_governance_accept_ownership_calls.
AcceptCalls ==
    LET targets == files["pre"].accepts \o files["aux"].accepts IN
    [i \in 1..Len(targets) |-> Call("acceptOwnership", targets[i], <<>>)]

\* replay_gov_stages_0_and_1 and prime_zk_token_registration: the calls are made
\* one by one, and one that reverts ends the run.
GovernanceReplay(w) ==
    LET revs == [p \in Parts |-> IF p = "puh" THEN 0 ELSE files[p].rev]
        stage0 == AcceptCalls \o CoreStage0 \o PerCtm([f \in Flavors |-> CtmStage0(f, revs[f])])
        stage1 == CoreStage1(revs["core"]) \o PerCtm([f \in Flavors |-> CtmStage1(f, revs[f])])
        stage2 == CoreStage2 \o PerCtm([f \in Flavors |-> CtmStage2(f, revs[f])])
                  \o <<Call("registerLegacyToken", <<"assetTracker", "core", revs["core"]>>, <<>>)>>
        After(ws, calls, now) == {Execute(v, calls, now, Away) : v \in ws}
    IN CHOOSE v \in After(After(After({w}, stage0, 0), stage1, Bump), stage2, Bump) : TRUE

\* prepare_new_gateway up to the vote preparation.
ReplayGovernance ==
    /\ Step("replay")
    /\ \E w \in {GovernanceReplay(mem.fork)} : w.ok /\ mem' = [mem EXCEPT !.fork = w, !.snapshot = mem.fork]
    /\ UNCHANGED <<l1, code, run, files, ecosystem, manifest, sent>>

\* stage_vote_prepare: its script asks for an upgraded CTM and a registered base
\* token.  Its failure is kept until the fork is reverted; its file is not
\* removed before.
VotePrepare ==
    /\ Step("vote")
    /\ \/ /\ Upgraded(mem.fork, Representative) /\ mem.fork.tracker \in mem.fork.registered
          /\ mem' = [Simulated(NewDeploys("gateway")) EXCEPT !.vote = TRUE]
          /\ files' = [files EXCEPT !["gateway"] =
                          [Missing EXCEPT !.run = run, !.rev = code, !.core = mem.fork.tracker[3]]]
       \/ UNCHANGED <<mem, files>>
    /\ UNCHANGED <<l1, code, run, ecosystem, manifest, sent>>

\* `stage_result?`, and the file is there.
VoteResult == mem.vote /\ files["gateway"] # Missing

\* Mutant: goes on with the state of the stages.
MutantEvmRevert == [mem EXCEPT !.snapshot = NoFork]

EvmRevert == [mem EXCEPT !.fork = mem.snapshot, !.snapshot = NoFork]

RevertFork ==
    /\ VoteResult
    /\ Step("revert")
    /\ mem' = EvmRevert
    /\ UNCHANGED <<l1, code, run, files, ecosystem, manifest, sent>>

\* deploy_puh_guardians; its stage-0 calls stay in memory.
DeployPuh ==
    /\ Step("puh")
    /\ "zksync_os" \in Flavors
    /\ mem' = Simulated(NewDeploys("puh"))
    /\ UNCHANGED <<l1, code, run, files, ecosystem, manifest, sent>>

\* write_merged_ecosystem_toml.
MergeEcosystem ==
    LET read == ({"pre", "aux"} \cup Parts) \ {"puh"} IN
    /\ Step("merge")
    /\ \A p \in Parts \ {"puh"} : files[p] # Missing
    /\ ecosystem' = [runs |-> {files[n].run : n \in read},
                     revs |-> [p \in Parts |-> IF p = "puh" THEN code ELSE files[p].rev],
                     admin |-> {f \in Flavors : files[f].admin},
                     accepts |-> files["pre"].accepts \o files["aux"].accepts]
    /\ UNCHANGED <<l1, code, run, mem, files, manifest, sent>>

\* write_output_if_requested appends to the manifest of the directory.
WriteManifest ==
    /\ at > 0 /\ Pipeline[at] = "manifest"
    /\ at' = 0
    /\ manifest' = [run |-> run, steps |-> manifest.steps \o mem.bundle]
    /\ mem' = NoRun
    /\ UNCHANGED <<l1, code, run, files, ecosystem, sent>>

\* A step fails or the command is killed; the core's and the CTMs' steps start by
\* removing their file.
Abort ==
    /\ at > 0
    /\ at' = 0
    /\ mem' = NoRun
    /\ \/ UNCHANGED files
       \/ Pipeline[at] \in {"core"} \cup Flavors /\ files' = [files EXCEPT ![Pipeline[at]] = Missing]
    /\ UNCHANGED <<l1, code, run, ecosystem, manifest, sent>>

-----------------------------------------------------------------------------
(* Between and beside the runs. *)

\* upgrade-broadcast, as far as it comes; a deployment that is there is skipped.
Broadcast ==
    /\ sent < Len(manifest.steps)
    /\ l1' = Replay(l1, manifest.steps[sent + 1], CtmsOwned(l1))
    /\ sent' = sent + 1
    /\ UNCHANGED <<code, run, at, mem, files, ecosystem, manifest>>

ChangeCode ==
    /\ at = 0 /\ code < MaxRev
    /\ code' = code + 1
    /\ UNCHANGED <<l1, run, at, mem, files, ecosystem, manifest, sent>>

Next ==
    \/ Start \/ RunPreSteps \/ PrepareCore \/ RunAuxSteps
    \/ \E f \in Flavors : PrepareCtm(f)
    \/ ReplayGovernance \/ VotePrepare \/ RevertFork \/ DeployPuh
    \/ MergeEcosystem \/ WriteManifest \/ Abort \/ Broadcast \/ ChangeCode

Spec == Init /\ [][Next]_vars

-----------------------------------------------------------------------------
(* Properties. *)

\* The accept calls a finished run merges and the transactions it records are the
\* ones that follow from the code and the L1 it was forked from alone, whatever
\* earlier runs left behind and however they were aborted: a file of another run
\* never gets into ecosystem.toml (prepare_core and prepare_ctm remove their old
\* output, stage_result? ends a run whose gateway file may be old), and nothing
\* of the stages simulated for the gateway stays on the fork (evm_revert).
\* UpgradeCeremony's view of prepare as one step is right.
RunIsOneStep ==
    at > 0 /\ Pipeline[at] = "manifest" =>
        LET w == mem.base
            done == {<<p, code>> : p \in Parts} \cap w.deployed
            onFork == SelectSeq(mem.bundle, LAMBDA s : s.do = "deploy" => s.what[2] # "gateway") IN
        /\ ecosystem.runs = {run}
        /\ \A p \in Parts : ecosystem.revs[p] = code
        /\ \A p \in Parts \ {"puh"} : files[p].core = code
        /\ ecosystem.accepts = Accepts0(w, code, CtmsOwned(w))
        /\ ecosystem.admin = CtmsOwned(w)
        /\ mem.fork = FoldLeft(LAMBDA v, s : Replay(v, s, CtmsOwned(v)), w, onFork)
        /\ mem.bundle = SelectSeq(Manifest(w, code, CtmsOwned(w)),
                            LAMBDA s : s.do = "deploy" => <<s.what[2], s.what[3]>> \notin done)

\* The artifact as the verifier reads it.
Artifact == [rev |-> ecosystem.revs["core"], admin |-> ecosystem.admin,
             accepts |-> ecosystem.accepts, edit |-> NoEdit]

\* The verifier's answer is the right one, whatever was aborted and broadcast
\* before.  What it accepts, even with the manifest never written or broadcast in
\* part, can go to governance: stage 0 executes, and the proxy admins, whose owner
\* it does not read, were handed over, since their transfer comes before the
\* deployments it asks for.  And once the manifest of the run that wrote
\* ecosystem.toml is broadcast, it accepts.
VerdictIsRight ==
    LET accepted == Accepts(Artifact, l1, code, Away) IN
    /\ ecosystem.runs # {} /\ accepted =>
           /\ Flavors \subseteq l1.admins
           /\ Execute(l1, CallsOf(Artifact, 0), 0, Away).ok
    /\ /\ ecosystem.runs = {manifest.run} /\ sent = Len(manifest.steps)
       /\ ecosystem.revs["core"] = code
       => accepted

=============================================================================
