---------------------------- MODULE PriorityTree ----------------------------
(***************************************************************************)
(* The priority tree of a ZK chain (libraries/PriorityTree.sol): an append *)
(* only Merkle tree of priority operation hashes with a cursor.            *)
(*                                                                         *)
(* Hashing is taken to be injective, so a root is represented by the       *)
(* sequence of leaves it commits to, and so are the "sides" that a         *)
(* PriorityTreeCommitment carries: both determine, and are determined by,  *)
(* the leaves.  A tree is a record                                         *)
(*    startIndex        absolute index of the first leaf                   *)
(*    unprocessedIndex  number of leaves already processed                 *)
(*    leaves            the leaves; its length is `_nextLeafIndex`         *)
(*    historicalRoots   the roots the tree went through                    *)
(***************************************************************************)
EXTENDS Integers, Sequences

Tree(Op) ==
    [startIndex : Nat, unprocessedIndex : Nat, leaves : Seq(Op), historicalRoots : SUBSET Seq(Op)]

getFirstUnprocessedPriorityTx(t) == t.startIndex + t.unprocessedIndex

getTotalPriorityTxs(t) == t.startIndex + Len(t.leaves)

getSize(t) == Len(t.leaves) - t.unprocessedIndex

setup(start) ==
    [startIndex |-> start, unprocessedIndex |-> 0, leaves |-> <<>>, historicalRoots |-> {<<>>}]

push(t, op) ==
    [t EXCEPT !.leaves = Append(@, op),
              !.historicalRoots = @ \cup {Append(t.leaves, op)}]

\* Merkle.calculateRootPaths: the paths supplied with `items` lead from leaf
\* `from` to a root exactly when that root has `items` at that place.
IsSegment(root, from, items) ==
    /\ from + Len(items) <= Len(root)
    /\ \A i \in 1 .. Len(items) : root[from + i] = items[i]

\* Mutant: the items may be anywhere in the tree.
CanProcessAnywhere(t, from, items) ==
    items # <<>> => \E root \in t.historicalRoots, i \in 0 .. Len(t.leaves) : IsSegment(root, i, items)

\* The check of processBatch for items claimed to start at leaf `from`.
CanProcess(t, from, items) ==
    items # <<>> => \E root \in t.historicalRoots : IsSegment(root, from, items)

\* The tree of a diamond that was just deployed, before any initialisation.
EmptyTree ==
    [startIndex |-> 0, unprocessedIndex |-> 0, leaves |-> <<>>, historicalRoots |-> {}]

\* What a migrating chain takes to its new settlement layer.
getCommitment(t) ==
    [nextLeafIndex |-> Len(t.leaves), startIndex |-> t.startIndex,
     unprocessedIndex |-> t.unprocessedIndex, sides |-> t.leaves]

\* Mutant: leaves that were processed elsewhere are left out.
initFromCommitmentUnprocessed(t, c) ==
    [startIndex |-> c.startIndex, unprocessedIndex |-> c.unprocessedIndex,
     leaves |-> SubSeq(c.sides, c.unprocessedIndex + 1, c.nextLeafIndex),
     historicalRoots |-> t.historicalRoots \cup {c.sides}]

initFromCommitment(t, c) ==
    [startIndex |-> c.startIndex, unprocessedIndex |-> c.unprocessedIndex,
     leaves |-> c.sides, historicalRoots |-> t.historicalRoots \cup {c.sides}]

\* isHistoricalRoot, for the root that a commitment carries.
isHistoricalRoot(t, c) == c.sides \in t.historicalRoots

\* l1Reinit: the tree of L1 has every leaf already, only the cursor moves.
CanL1Reinit(t, c) ==
    /\ t.startIndex = c.startIndex
    /\ t.unprocessedIndex <= c.unprocessedIndex
    /\ Len(t.leaves) >= c.nextLeafIndex

\* Mutant: the cursor stays where L1 left it.
L1ReinitKeepsCursor(t, c) == t

L1Reinit(t, c) == [t EXCEPT !.unprocessedIndex = c.unprocessedIndex]

checkGWReinit(t, c) ==
    /\ t.startIndex = c.startIndex
    /\ t.unprocessedIndex <= c.unprocessedIndex
    /\ Len(t.leaves) <= c.nextLeafIndex

=============================================================================
