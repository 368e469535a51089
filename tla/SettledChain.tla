----------------------------- MODULE SettledChain -----------------------------
(***************************************************************************)
(* What a chain promises its users, wherever it settles: priority          *)
(* operations are requested one after another, each executed batch takes   *)
(* the next ones in the order of the requests, and what was executed stays *)
(* executed.  Nothing here knows of settlement layers: ChainMigration is   *)
(* shown to implement this specification, so a chain that migrates settles *)
(* like one that never does.                                               *)
(***************************************************************************)
EXTENDS Integers, Sequences

VARIABLES
    requested,  \* the priority operations requested so far
    settled,    \* the operations processed by executed batches
    batches     \* the number of executed batches

settledVars == <<requested, settled, batches>>

Init ==
    /\ requested = <<>>
    /\ settled = <<>>
    /\ batches = 0

Request(op) ==
    /\ requested' = Append(requested, op)
    /\ UNCHANGED <<settled, batches>>

\* One more executed batch, with the next `k` operations.
Settle(k) ==
    /\ Len(settled) + k <= Len(requested)
    /\ settled' = SubSeq(requested, 1, Len(settled) + k)
    /\ batches' = batches + 1
    /\ UNCHANGED requested

\* Operations are numbered in the order of their requests.
Next ==
    \/ Request(Len(requested) + 1)
    \/ \E k \in 0 .. Len(requested) : Settle(k)

Spec == Init /\ [][Next]_settledVars

=============================================================================
