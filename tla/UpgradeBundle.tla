---------------------------- MODULE UpgradeBundle ----------------------------
(***************************************************************************)
(* What a run of upgrade-prepare-all records: the ownership that is handed *)
(* to governance, what is deployed, and what the broadcast of one recorded *)
(* step leaves on L1.                                                      *)
(***************************************************************************)
EXTENDS UpgradeWorld

\* The CTMs of governance when the run starts: their timers are governance's too.
CtmsOwned(w) == {f \in Flavors : Ctm(f) \in w.owned}

\* Candidates of the deferred acceptOwnership calls: the CTM and its validator
\* timelock, then what read_aux_ownership_targets lists.
PreTargets == FlattenSeq([i \in 1..Len(CtmOrder) |-> <<Ctm(CtmOrder[i]), Vt(CtmOrder[i])>>])

AuxTargets(rev) ==
    FlattenSeq([i \in 1..Len(CtmOrder) |->
        LET f == CtmOrder[i] IN
        <<<<"timer", f, rev>>>>
        \o (IF f \in DaPairs THEN <<>> ELSE <<DaManager(f)>>)
        \o (IF f = "zksync_os" THEN <<<<"verifier", f, rev>>>> ELSE <<>>)])

\* The timer of a CTM that governance owned at prepare time is governance's from
\* the start.
OwnedOnFork(w, x, admin) == x \in w.owned \/ (x[1] = "timer" /\ x[2] \in admin)

\* Transfers are simulated for what is neither owned by nor proposed to
\* governance; what is not owned after them is accepted in stage 0.
Accepts0(w, rev, admin) == SelectSeq(PreTargets \o AuxTargets(rev), LAMBDA x : ~OwnedOnFork(w, x, admin))

Transfers(w, targets, admin) ==
    LET open == SelectSeq(targets, LAMBDA x : ~OwnedOnFork(w, x, admin) /\ x \notin w.pending) IN
    [i \in 1..Len(open) |-> [do |-> "transfer", what |-> open[i]]]

AdminSteps(w) ==
    LET open == SelectSeq(CtmOrder, LAMBDA f : f \notin w.admins) IN
    [i \in 1..Len(open) |-> [do |-> "admin", what |-> Live("proxyAdmin", open[i])]]

Deploys(parts, rev) == [i \in 1..Len(parts) |-> [do |-> "deploy", what |-> <<"part", parts[i], rev>>]]

\* run_upgrade_prepare_all: the transactions in the order of its manifest.
Manifest(w, rev, admin) ==
    Transfers(w, PreTargets, admin) \o AdminSteps(w)
    \o Deploys(<<"core">> \o CtmOrder, rev)
    \o Transfers(w, AuxTargets(rev), admin)
    \o Deploys(IF NewGateway THEN <<"gateway">> ELSE <<>>, rev)
    \o Deploys(IF PuhGoverned THEN <<"puh">> ELSE <<>>, rev)

\* What the transactions of one bundle leave on L1.
Replay(w, s, admin) ==
    LET rev == s.what[3]
        part == s.what[2] IN
    CASE s.do = "transfer" -> [w EXCEPT !.pending = @ \cup {s.what}]
      [] s.do = "admin" -> [w EXCEPT !.admins = @ \cup {part}]
      [] s.do = "deploy" ->
            IF <<part, rev>> \in w.deployed THEN w
            ELSE [w EXCEPT !.deployed = @ \cup {<<part, rev>>},
                           !.pending = IF part # "core" THEN @
                                       ELSE @ \cup {<<"assetTracker", "core", rev>>,
                                                    <<"chainRegistrationSender", "core", rev>>},
                           !.owned = IF part \in admin THEN @ \cup {<<"timer", part, rev>>} ELSE @]

=============================================================================
