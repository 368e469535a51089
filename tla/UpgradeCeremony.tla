--------------------------- MODULE UpgradeCeremony ---------------------------
(***************************************************************************)
(* The v31 upgrade of an ecosystem from the first prepare run to the last  *)
(* governance stage: upgrade-prepare-all, upgrade-broadcast,               *)
(* verify-upgrade, the three governance transactions and stage 3, while    *)
(* chains migrate, time passes and the code is changed and prepared again. *)
(*                                                                         *)
(* A governance transaction that reverts changes nothing, so only the      *)
(* executions that succeed are steps.                                      *)
(***************************************************************************)
EXTENDS UpgradeVerifier, UpgradeBundle

CONSTANTS
    Worlds,     \* the states of L1 the upgrade may start from
    MaxNow      \* bound: time

ASSUME CeremonyAssumption == MaxNow \in Nat

VARIABLES
    world,      \* L1, see UpgradeWorld
    now,        \* L1 time
    away,       \* chains that settle on a gateway
    code,       \* revision of the checked-out code
    artifact,   \* the merged ecosystem.toml, or NoArtifact
    steps,      \* bundles of its manifest that are still to be broadcast
    accepted,   \* artifacts the verifier accepted; governance may execute them
    done        \* executed stages, <<revision, stage>>

vars == <<world, now, away, code, artifact, steps, accepted, done>>

NoArtifact == [rev |-> 0, admin |-> {}, accepts |-> <<>>, edit |-> NoEdit]

Init ==
    /\ world \in Worlds
    /\ now = 1
    /\ away \in SUBSET ExemptChains
    /\ code = 1
    /\ artifact = NoArtifact
    /\ steps = <<>>
    /\ accepted = {}
    /\ done = {}

-----------------------------------------------------------------------------
(* upgrade-prepare-all and upgrade-broadcast. *)

\* A run that simulates the stages for a new gateway needs timers that were not
\* started, and another run of code whose stage 0 is done is left out.
Prepare ==
    /\ \A f \in Flavors : ~Upgraded(world, f)
    /\ artifact.rev # code
    /\ <<code, 0>> \notin done
    /\ LET admin == CtmsOwned(world) IN
       /\ artifact' = [rev |-> code, admin |-> admin, accepts |-> Accepts0(world, code, admin), edit |-> NoEdit]
       /\ steps' = Manifest(world, code, admin)
    /\ UNCHANGED <<world, now, away, code, accepted, done>>

\* A transfer by the old owner of what governance has accepted reverts.
Broadcast ==
    /\ steps # <<>>
    /\ Head(steps).do = "transfer" => Head(steps).what \notin world.owned
    /\ world' = Replay(world, Head(steps), artifact.admin)
    /\ steps' = Tail(steps)
    /\ UNCHANGED <<now, away, code, artifact, accepted, done>>

\* The code moves on and is prepared again.
ChangeCode ==
    /\ code < MaxRev
    /\ code' = code + 1
    /\ UNCHANGED <<world, now, away, artifact, steps, accepted, done>>

\* verify-upgrade on the checked-out code, of the artifact as prepared or after
\* one slip (in the last revision, and looked at once all is broadcast).  One
\* artifact of a revision is put to governance.
Verify ==
    /\ artifact.rev # 0
    /\ \A a \in accepted : a.rev # artifact.rev
    /\ \E e \in {NoEdit} \cup (IF steps = <<>> /\ artifact.rev = MaxRev THEN Edits(artifact) ELSE {}) :
          accepted' = accepted \cup {a \in {[artifact EXCEPT !.edit = e]} : Accepts(a, world, code, away)}
    /\ UNCHANGED <<world, now, away, code, artifact, steps, done>>

-----------------------------------------------------------------------------
(* Governance and the chains. *)

\* A stage as one proposal of governance, or through the emergency path of the
\* upgrade handler.  A proposal is executed once.
ExecuteStage(a, s) ==
    /\ <<a.rev, s>> \notin done
    /\ \/ world' = Execute(world, CallsOf(a, s), now, away)
       \/ PuhGoverned /\ world' = ExecuteEmergency(world, CallsOf(a, s), now, away)
    /\ world'.ok
    /\ done' = done \cup {<<a.rev, s>>}
    /\ UNCHANGED <<now, away, code, artifact, steps, accepted>>

\* Migration to a settlement layer and back; a return is not held up by the pause.
MigrateChain(c) ==
    /\ c \notin away /\ ~world.paused /\ world.layers # {}
    /\ away' = away \cup {c}
    /\ UNCHANGED <<world, now, code, artifact, steps, accepted, done>>

ReturnChain(c) ==
    /\ c \in away
    /\ away' = away \ {c}
    /\ UNCHANGED <<world, now, code, artifact, steps, accepted, done>>

Tick ==
    /\ now < MaxNow
    /\ now' = now + 1
    /\ UNCHANGED <<world, away, code, artifact, steps, accepted, done>>

\* stage3: anyone registers the bridged tokens with the asset tracker.
Stage3 ==
    /\ world.tracker # None /\ world.tracker \notin world.registered
    /\ world' = [world EXCEPT !.registered = @ \cup {world.tracker}]
    /\ UNCHANGED <<now, away, code, artifact, steps, accepted, done>>

Next ==
    \/ Prepare \/ Broadcast \/ ChangeCode \/ Verify
    \/ \E a \in accepted, s \in Stages : ExecuteStage(a, s)
    \/ \E c \in Chains : MigrateChain(c) \/ ReturnChain(c)
    \/ Tick \/ Stage3

Spec == Init /\ [][Next]_vars

-----------------------------------------------------------------------------
(* Properties. *)

\* Nothing of the ceremony that the verifier does not look at stands in the way
\* of stage s of artifact a: proxy admins handed over, no ownership accepted since
\* by another artifact, timers run out, chains on L1, the base token of the new
\* gateway not registered yet by stage 3.
Ready(a, s) ==
    LET rev == a.rev IN
    /\ {"core"} \cup Flavors \subseteq world.admins
    /\ s = 0 => Range(a.accepts) \subseteq world.pending
    /\ s = 1 => /\ <<rev, 0>> \in done /\ \A f \in Flavors : ~Upgraded(world, f)
                /\ \A f \in Flavors : now >= world.deadline[<<"timer", f, rev>>]
                /\ \A f \in DaPairs : DaManager(f) \in world.pending
                /\ away \subseteq ExemptChains
    /\ s = 2 => /\ <<rev, 1>> \in done
                /\ NewGateway => world.tracker \notin world.registered

\* What the verifier accepts can be executed: once its time has come no stage of
\* an accepted artifact reverts, on the normal path and, where the handler
\* governs, on the emergency path (the checks of stage0.rs, stage1.rs, stage2.rs
\* and rpc_state.rs against the calls' own conditions).
VerifiedStageExecutes ==
    \A a \in accepted, s \in Stages :
        <<a.rev, s>> \notin done /\ Ready(a, s)
        => /\ Execute(world, CallsOf(a, s), now, away).ok
           /\ PuhGoverned => ExecuteEmergency(world, CallsOf(a, s), now, away).ok

\* The verifier has no false alarm: an artifact without a slip, broadcast to the
\* end and not executed yet, passes verify-upgrade of the code it was prepared
\* from while every chain settles on L1.
HonestArtifactAccepted ==
    (/\ artifact.rev = code /\ steps = <<>>
     /\ \A r \in Revs : <<r, 0>> \in done => r < artifact.rev
     /\ Range(artifact.accepts) \subseteq world.pending
     /\ away \subseteq ExemptChains
     /\ \A f \in Flavors : ~Upgraded(world, f))
    => Accepts(artifact, world, code, away)

\* The addresses the upgrade leaves in use on L1.
Installed ==
    {world.impl[p] : p \in Proxies \ {Puh}} \cup {world.tracker, world.sender}
    \cup UNION {{world.params[f], world.cut[f], world.verifier[f]} : f \in Flavors}

\* The upgrade is all or nothing and of one revision: every proxy, the tracker,
\* the sender and all CTMs' parameters, cuts and verifiers come from the same,
\* verified and deployed revision of the code, or none of them has changed, though
\* several artifacts may be accepted and their stages interleave.
OneRevision ==
    \/ Installed = {None}
    \/ \E a \in accepted :
          /\ \A x \in Installed : x[3] = a.rev
          /\ \A p \in Parts \ {"puh", "gateway"} : <<p, a.rev>> \in world.deployed

\* Migrations stay paused from stage 0 to stage 2, also when a stage goes through
\* the emergency path, which unpauses them before the calls; so the message root
\* is reinitialised with all of its chains on L1, and none leaves before stage 2.
PausedUntilStage2 ==
    (\A r \in Revs : <<r, 2>> \notin done) =>
        /\ (\E r \in Revs : <<r, 0>> \in done) => world.paused
        /\ world.initialized => away \subseteq ExemptChains

\* Once stages 1 and 2 of an artifact are done, L1 is what the upgrade is for:
\* migrations run (unless stage 0 of another artifact paused them again), the
\* legacy gateway is closed with its intervals recorded, the new one is a
\* settlement layer with its six requests sent, all CTMs and new contracts are
\* governance's and the configured DA pairs allowed.
UpgradeComplete ==
    \A r \in Revs : <<r, 1>> \in done /\ <<r, 2>> \in done =>
        /\ (\A q \in Revs \ {r} : <<q, 0>> \notin done) => ~world.paused
        /\ world.layers = IF NewGateway THEN {"newGateway"} ELSE {}
        /\ LegacyGateway => world.intervals = Range(Intervals)
        /\ {x[1] : x \in Range(world.requests)} = IF NewGateway THEN PriorityOps ELSE {}
        /\ NewGateway => /\ world.tracker \in world.registered /\ world.ctmAsset
                         /\ \A x \in Range(world.requests) : x[2][3] \in {0, r} /\ x[3][3] \in {0, r}
        /\ {Ctm(f) : f \in Flavors} \cup {Vt(f) : f \in Flavors} \subseteq world.owned
        /\ {world.tracker, world.sender} \subseteq world.owned
        /\ \A f \in Flavors \cap {"zksync_os"} : world.verifier[f] \in world.owned
        /\ world.pairs = DaPairs /\ world.initialized /\ world.cached

=============================================================================
