---------------------------- MODULE UpgradeReadiness ----------------------------
(***************************************************************************)
(* The upgrade readiness checker (tools/upgrade-readiness-checker) beside  *)
(* the chain it watches.  The checker computes the hash of the target      *)
(* version's L2 upgrade transaction once, from a log of the chain type     *)
(* manager, then polls the chain's server until the transaction is in a    *)
(* block N and block N - 1 is finalized; the workflow then upgrades the    *)
(* chain's diamond on the settlement layer, which wants every committed    *)
(* batch executed.  The server is modelled by what the checker relies on:  *)
(* it puts the transaction into a block once the version is published, and *)
(* commits no block of a version before the diamond has that version.      *)
(*                                                                         *)
(* Versions are 0 (the chain's at first), Target = 1 and 2.  The logs lie  *)
(* within the checker's lookback and the chain is registered.              *)
(***************************************************************************)
EXTENDS Integers, Sequences, SequencesExt

CONSTANTS
    LaterKinds,     \* what version 2 is to version 1: "minor", "patch"
    PublishEarly,   \* version 2 may be published while a checker looks for its log
    RebuildFails,   \* the call of getL2UpgradeTxData may fail in transit
    MaxBlocks       \* bound: blocks the server produces

ASSUME ReadinessAssumption ==
    /\ LaterKinds \subseteq {"minor", "patch"} /\ LaterKinds # {}
    /\ PublishEarly \in BOOLEAN /\ RebuildFails \in BOOLEAN
    /\ MaxBlocks \in Nat \ {0}

VARIABLES
    events,    \* NewUpgradeCutData logs: topic and cut
    chain,     \* the diamond: version, last block committed, last executed
    blocks,    \* the server's blocks: version and hash of an upgrade transaction
    checker    \* pc, hash, block of the receipt

vars == <<events, chain, blocks, checker>>

Target == 1

NoHash == <<>>

\* The upgrade contract rebuilds the transaction's data for the chain.
canonical_tx_hash(cut, rebuilt) == <<cut.version, cut.kind, rebuilt>>

\* The hash of the transaction that the server puts into a block for the target.
TargetHash == canonical_tx_hash([version |-> Target, kind |-> "minor"], TRUE)

Published == {events[i].cut : i \in DOMAIN events}

Receipts(hash) == {n \in DOMAIN blocks : blocks[n].hash = hash}

ServerVersion == IF blocks = <<>> THEN 0 ELSE Last(blocks).version

(***************************************************************************)
(* The chain type manager, the diamond and the server.                     *)
(***************************************************************************)

\* The log is written for the version upgraded from and for the one upgraded to.
setNewVersionUpgrade(cut) ==
    /\ events' = events \o <<[topic |-> cut.version - 1, cut |-> cut], [topic |-> cut.version, cut |-> cut]>>
    /\ UNCHANGED <<chain, blocks, checker>>

PublishTarget ==
    /\ events = <<>>
    /\ setNewVersionUpgrade([version |-> Target, kind |-> "minor"])

PublishLater ==
    /\ Len(events) = 2
    /\ PublishEarly \/ checker.hash # NoHash
    /\ \E kind \in LaterKinds : setNewVersionUpgrade([version |-> 2, kind |-> kind])

\* A block without upgrade transaction.
ProduceBlock ==
    /\ Len(blocks) < MaxBlocks
    /\ blocks' = Append(blocks, [version |-> ServerVersion, hash |-> NoHash])
    /\ UNCHANGED <<events, chain, checker>>

\* The server upgrades from version to version, one upgrade transaction each.
ProcessUpgrade ==
    /\ Len(blocks) <= MaxBlocks
    /\ \E cut \in Published :
         /\ cut.version = ServerVersion + 1 /\ cut.version = chain.version + 1
         /\ blocks' = Append(blocks, [version |-> cut.version,
                                      hash |-> IF cut.kind = "minor" THEN canonical_tx_hash(cut, TRUE) ELSE NoHash])
    /\ UNCHANGED <<events, chain, checker>>

CommitBatch ==
    /\ \E n \in chain.committed + 1 .. Len(blocks) :
         /\ \A i \in chain.committed + 1 .. n : blocks[i].version = chain.version
         /\ chain' = [chain EXCEPT !.committed = n]
    /\ UNCHANGED <<events, blocks, checker>>

ExecuteBatches ==
    /\ chain.executed < chain.committed
    /\ chain' = [chain EXCEPT !.executed = chain.committed]
    /\ UNCHANGED <<events, blocks, checker>>

CanUpgradeDiamond == chain.executed = chain.committed

\* The workflow, once the checker has ended with success.
UpgradeDiamond ==
    /\ checker.pc = "ready" /\ chain.version < Target
    /\ CanUpgradeDiamond
    /\ chain' = [chain EXCEPT !.version = Target]
    /\ UNCHANGED <<events, blocks, checker>>

(***************************************************************************)
(* The checker.                                                            *)
(***************************************************************************)

\* The newest log with the target version as its topic.
find_upgrade_log == SelectSeq(events, LAMBDA e : e.topic = Target)

\* A failed call is taken for an upgrade contract before v31.
rebuild_tx_data_if_v31plus == IF RebuildFails THEN BOOLEAN ELSE {TRUE}

find_upgrade_tx_hash ==
    /\ checker.pc = "locate" /\ find_upgrade_log # <<>>
    /\ \E rebuilt \in rebuild_tx_data_if_v31plus :
         checker' = [checker EXCEPT !.pc = "receipt",
                                    !.hash = canonical_tx_hash(Last(find_upgrade_log).cut, rebuilt)]
    /\ UNCHANGED <<events, chain, blocks>>

\* No log, or a request that fails: the tool ends with an error.
Abort ==
    /\ checker.pc = "locate"
    /\ checker' = [checker EXCEPT !.pc = "aborted"]
    /\ UNCHANGED <<events, chain, blocks>>

\* The operator runs the tool again.
Rerun ==
    /\ checker.pc = "aborted"
    /\ checker' = [checker EXCEPT !.pc = "locate"]
    /\ UNCHANGED <<events, chain, blocks>>

\* check_readiness, first request.
fetch_receipt ==
    /\ checker.pc = "receipt"
    /\ \E n \in Receipts(checker.hash) : checker' = [checker EXCEPT !.pc = "finalized", !.block = n]
    /\ UNCHANGED <<events, chain, blocks>>

\* Mutant: the upgrade's own block is to be finalized.
MutantPrecedingFinalized(finalized, upgrade_block) == finalized >= upgrade_block

\* Mutant: off by one.
Mutant2PrecedingFinalized(finalized, upgrade_block) == finalized >= upgrade_block - 2

PrecedingFinalized(finalized, upgrade_block) == finalized >= upgrade_block - 1

\* check_readiness, second request, made later than the first.
fetch_finalized_block_number ==
    /\ checker.pc = "finalized"
    /\ checker' = [checker EXCEPT !.pc = IF PrecedingFinalized(chain.executed, checker.block)
                                         THEN "ready" ELSE "receipt"]
    /\ UNCHANGED <<events, chain, blocks>>

\* A request of a poll fails: the next tick starts over.
PollFails ==
    /\ checker.pc = "finalized"
    /\ checker' = [checker EXCEPT !.pc = "receipt"]
    /\ UNCHANGED <<events, chain, blocks>>

(***************************************************************************)
(* The specification.                                                      *)
(***************************************************************************)

Init ==
    /\ events = <<>>
    /\ chain = [version |-> 0, committed |-> 0, executed |-> 0]
    /\ blocks = <<>>
    /\ checker = [pc |-> "locate", hash |-> NoHash, block |-> 0]

Next ==
    \/ PublishTarget \/ PublishLater \/ ProduceBlock \/ ProcessUpgrade \/ CommitBatch \/ ExecuteBatches
    \/ UpgradeDiamond \/ find_upgrade_tx_hash \/ Abort \/ Rerun
    \/ fetch_receipt \/ fetch_finalized_block_number \/ PollFails

\* The version is published, the server runs, requests do not fail for ever
\* and an operator repeats an aborted run.
Fairness ==
    /\ WF_vars(PublishTarget) /\ WF_vars(ProcessUpgrade) /\ WF_vars(CommitBatch) /\ WF_vars(ExecuteBatches)
    /\ WF_vars(UpgradeDiamond) /\ WF_vars(Rerun) /\ SF_vars(find_upgrade_tx_hash)
    /\ WF_vars(fetch_receipt) /\ SF_vars(fetch_finalized_block_number)

Spec == Init /\ [][Next]_vars /\ Fairness

(***************************************************************************)
(* Properties.                                                             *)
(***************************************************************************)

\* Ready is the truth: the server has processed the target's upgrade, every
\* block before it is executed, and until the diamond is upgraded no batch
\* is committed and not executed, so the call does not revert (readiness.rs,
\* "safe to finalize the upgrade on L1").  The finalized block is read after
\* the receipt.
ReadyIsSafe ==
    checker.pc = "ready" =>
       /\ ServerVersion >= Target
       /\ \A n \in DOMAIN blocks : blocks[n].version < Target => n <= chain.executed
       /\ chain.version < Target => CanUpgradeDiamond

\* The tool comes by a hash, and with the hash of the target's own upgrade
\* transaction it ends and the diamond comes to the target version: neither waits
\* for the other (main.rs, "blocks indefinitely until finalization").  The requests
\* of a poll are repeated, "transient RPC errors are logged and retried"; the two
\* that make the hash are not, and the condition is about them: a failure of
\* getL2UpgradeTxData is taken for an upgrade contract before v31, and the newest
\* log may be that of a later version.  A checker with such a hash waits for ever.
EventuallyUpgraded ==
    /\ <>(checker.hash # NoHash)
    /\ checker.hash = TargetHash ~> (checker.pc = "ready" /\ chain.version >= Target)

================================================================================
