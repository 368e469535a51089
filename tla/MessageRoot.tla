----------------------------- MODULE MessageRoot -----------------------------
(***************************************************************************)
(* What the MessageRoot contract of the settlement layer keeps for one     *)
(* chain (core/message-root/MessageRootBase.sol): the number of the last   *)
(* batch whose root of L2 to L1 logs was added, and the roots.             *)
(***************************************************************************)
EXTENDS Integers

\* The zero root of a batch number nothing was added for.
NoRoot == <<>>

\* _addNewChain, for batch numbers up to `bound`.
addNewChain(startingBatchNumber, bound) ==
    [currentChainBatchNumber |-> startingBatchNumber,
     chainBatchRoots |-> [k \in 0 .. bound |-> NoRoot]]

\* addChainBatchRoot, called in turn for the batches first .. last.
CanAddChainBatchRoots(m, first, last) ==
    /\ first = m.currentChainBatchNumber + 1
    /\ \A k \in first .. last : m.chainBatchRoots[k] = NoRoot

AddChainBatchRoots(m, first, last, roots) ==
    [currentChainBatchNumber |-> last,
     chainBatchRoots |-> [k \in DOMAIN m.chainBatchRoots |->
                            IF k \in first .. last THEN roots[k] ELSE m.chainBatchRoots[k]]]

=============================================================================
