------------------------- MODULE ZKChainHistoryProofs -------------------------
(***************************************************************************)
(* Proofs about what passes through a chain: the executed batches consume  *)
(* the priority queue in order, each operation once (PriorityOpsInOrder);  *)
(* a precommitment is for the next batch; the timestamps of the batches of *)
(* an Era chain increase; Priority Mode settles nothing but priority       *)
(* operations, and is only activated for an overdue one; an upgrade        *)
(* transaction is neither skipped nor repeated (UpgradeExactlyOnce); and a *)
(* chain behind the ValidatorTimelock is a ZKChain of which no batch       *)
(* becomes final before its delay has passed.                              *)
(***************************************************************************)
EXTENDS ValidatorTimelock, ZKChainProofs, WellFoundedInduction

(***************************************************************************)
(* The priority queue.  The argument speaks of the leaves L of the         *)
(* priority tree, the roots H it went through, its cursor x, the number e  *)
(* of executed batches, the cursor P[k] after batch k and the operations   *)
(* f[k] of batch k.                                                        *)
(***************************************************************************)

\* A nonempty set of naturals has a least element, which is what the inductions
\* below are made of.
LEMMA LeastElement ==
    ASSUME NEW T, T \subseteq Nat, T # {}
    PROVE  \E x \in T : \A y \in T : x <= y
<1> DEFINE R == {p \in Nat \X Nat : p[1] < p[2]}
<1>1. IsWellFoundedOn(OpToRel(<, Nat), Nat)
  BY NatLessThanWellFounded, Zenon
<1>2. IsWellFoundedOn(R, Nat)
  BY <1>1, Zenon DEF OpToRel
<1> HIDE DEF R
<1>3. PICK x \in T : \A y \in T : ~(<<y, x>> \in R)
  BY <1>2, WFMin, Zenon
<1>4. \A y \in T : x <= y
  <2> SUFFICES ASSUME NEW y \in T, ~(x <= y) PROVE FALSE
    BY Zenon
  <2>1. x \in Nat /\ y \in Nat /\ y < x
    OBVIOUS
  <2>2. <<y, x>> \in R
    BY <2>1, Zenon DEF R
  <2> QED
    BY <1>3, <2>2, Zenon
<1> QED
  BY <1>4, Zenon

\* PriorityOpsInOrder, and: every root the tree went through is a root of the
\* first of its leaves, so that a proof against an old root is about the same
\* operations.
QueueInOrder(L, H, x, e, P, f) ==
    /\ L \in Seq(Nat) /\ x \in Nat /\ e \in Nat
    /\ \A r \in H : r \in Seq(Nat) /\ Len(r) <= Len(L) /\ \A i \in 1 .. Len(r) : r[i] = L[i]
    /\ P[0] = 0 /\ P[e] = x /\ x <= Len(L)
    /\ \A k \in 0 .. e : P[k] \in Nat
    /\ \A k \in 1 .. e : /\ f[k] \in Seq(Nat)
                         /\ P[k] = P[k - 1] + Len(f[k])
                         /\ IsSegment(L, P[k - 1], f[k])

\* A segment stays a segment of what is appended to.
LEMMA SegmentOfPrefix ==
    ASSUME NEW r \in Seq(Nat), NEW L \in Seq(Nat), Len(r) <= Len(L),
           \A i \in 1 .. Len(r) : r[i] = L[i],
           NEW from \in Nat, NEW items \in Seq(Nat), IsSegment(r, from, items)
    PROVE  IsSegment(L, from, items)
<1>1. Len(r) \in Nat /\ Len(L) \in Nat /\ Len(items) \in Nat
  OBVIOUS
<1>2. from + Len(items) <= Len(r) /\ \A i \in 1 .. Len(items) : r[from + i] = items[i]
  BY Zenon DEF IsSegment
<1>3. \A i \in 1 .. Len(items) : from + i \in 1 .. Len(r)
  BY <1>1, <1>2
<1>4. \A i \in 1 .. Len(items) : L[from + i] = items[i]
  BY <1>2, <1>3, Zenon
<1>5. from + Len(items) <= Len(L)
  BY <1>1, <1>2
<1> QED
  BY <1>4, <1>5, Zenon DEF IsSegment

\* requestL2Transaction appends an operation.
LEMMA PushInOrder ==
    ASSUME NEW L, NEW H, NEW x, NEW e, NEW P, NEW f, QueueInOrder(L, H, x, e, P, f),
           NEW op \in Nat
    PROVE  QueueInOrder(Append(L, op), H \cup {Append(L, op)}, x, e, P, f)
<1> DEFINE M == Append(L, op)
<1>0. /\ L \in Seq(Nat) /\ x \in Nat /\ e \in Nat
      /\ \A r \in H : r \in Seq(Nat) /\ Len(r) <= Len(L) /\ \A i \in 1 .. Len(r) : r[i] = L[i]
      /\ P[0] = 0 /\ P[e] = x /\ x <= Len(L)
      /\ \A k \in 0 .. e : P[k] \in Nat
      /\ \A k \in 1 .. e : /\ f[k] \in Seq(Nat)
                           /\ P[k] = P[k - 1] + Len(f[k])
                           /\ IsSegment(L, P[k - 1], f[k])
  BY Zenon DEF QueueInOrder
<1>1. /\ M \in Seq(Nat) /\ Len(M) = Len(L) + 1 /\ Len(L) \in Nat
      /\ \A i \in 1 .. Len(L) : M[i] = L[i]
  BY <1>0
<1> HIDE DEF M
<1>2. Len(L) <= Len(M) /\ Len(M) <= Len(M) /\ x <= Len(M)
  BY <1>0, <1>1
<1>3. \A r \in H \cup {M} :
         r \in Seq(Nat) /\ Len(r) <= Len(M) /\ \A i \in 1 .. Len(r) : r[i] = M[i]
  <2>1. ASSUME NEW r \in H
        PROVE  r \in Seq(Nat) /\ Len(r) <= Len(M) /\ \A i \in 1 .. Len(r) : r[i] = M[i]
    <3>1. r \in Seq(Nat) /\ Len(r) <= Len(L) /\ \A i \in 1 .. Len(r) : r[i] = L[i]
      BY <1>0, Zenon
    <3>2. Len(r) \in Nat
      BY <3>1
    <3>3. \A i \in 1 .. Len(r) : i \in 1 .. Len(L)
      BY <1>1, <3>1, <3>2
    <3>4. Len(r) <= Len(M)
      BY <1>1, <3>1, <3>2
    <3> QED
      BY <1>1, <3>1, <3>3, <3>4, Zenon
  <2> QED
    BY <1>1, <1>2, <2>1, Zenon
<1>4. ASSUME NEW k \in 1 .. e PROVE IsSegment(M, P[k - 1], f[k])
  <2>1. k - 1 \in 0 .. e
    BY <1>0
  <2>2. P[k - 1] \in Nat /\ f[k] \in Seq(Nat) /\ IsSegment(L, P[k - 1], f[k])
    BY <1>0, <2>1, Zenon
  <2>3. \A i \in 1 .. Len(L) : L[i] = M[i]
    BY <1>1, Zenon
  <2> QED
    BY <1>0, <1>1, <1>2, <2>2, <2>3, SegmentOfPrefix, Zenon
<1>5. QueueInOrder(M, H \cup {M}, x, e, P, f)
  BY <1>0, <1>1, <1>2, <1>3, <1>4, Zenon DEF QueueInOrder
<1> QED
  BY <1>5, Zenon DEF M

\* Batches e + 1 .. e + n pass the checks of their execution: the operations of
\* each lead to a root the tree went through.
Processed(H, e, n, cursor, f) ==
    /\ \A k \in e .. e + n : cursor[k] \in Nat
    /\ \A k \in e + 1 .. e + n :
          /\ f[k] \in Seq(Nat)
          /\ f[k] # <<>> => \E r \in H : IsSegment(r, cursor[k - 1], f[k])
          /\ cursor[k] = cursor[k - 1] + Len(f[k])

WithinLeaves(L, e, n, cursor) == \A k \in e .. e + n : cursor[k] <= Len(L)

\* Processing them never runs past the last leaf.  A batch without operations is
\* not checked against a root, hence the induction.
LEMMA CursorWithinLeaves ==
    ASSUME NEW L \in Seq(Nat), NEW H, NEW e \in Nat, NEW n \in Nat, NEW cursor, NEW f,
           \A r \in H : r \in Seq(Nat) /\ Len(r) <= Len(L),
           cursor[e] <= Len(L), Processed(H, e, n, cursor, f)
    PROVE  WithinLeaves(L, e, n, cursor)
<1> DEFINE T == {k \in e .. e + n : cursor[k] > Len(L)}
<1>0. Len(L) \in Nat
  OBVIOUS
<1>nat. \A k \in e .. e + n : cursor[k] \in Nat
  BY Zenon DEF Processed
<1>out. \A k \in e .. e + n : k \notin T => cursor[k] <= Len(L)
  <2> SUFFICES ASSUME NEW k \in e .. e + n, ~(cursor[k] > Len(L)) PROVE cursor[k] <= Len(L)
    BY Zenon
  <2>1. cursor[k] \in Nat
    BY <1>nat, Zenon
  <2> QED
    BY <1>0, <2>1
<1> SUFFICES ASSUME T # {} PROVE FALSE
  BY <1>out, Zenon DEF WithinLeaves
<1>1. T \subseteq Nat
  OBVIOUS
<1>2. PICK k \in T : \A y \in T : k <= y
  BY <1>1, LeastElement, Zenon
<1>3. k \in e .. e + n /\ cursor[k] > Len(L)
  BY Zenon
<1>4. k # e
  <2>1. e \in e .. e + n
    OBVIOUS
  <2>2. cursor[e] \in Nat
    BY <1>nat, <2>1, Zenon
  <2>3. ~(cursor[e] > Len(L))
    BY <1>0, <2>2
  <2> QED
    BY <1>3, <2>3, Zenon
<1>5. k \in e + 1 .. e + n /\ k - 1 \in e .. e + n
  BY <1>3, <1>4
<1>6. k - 1 \notin T
  BY <1>2, <1>5
<1>7. cursor[k - 1] \in Nat /\ cursor[k] \in Nat
  BY <1>nat, <1>3, <1>5, Zenon
<1>8. cursor[k - 1] <= Len(L)
  BY <1>out, <1>5, <1>6, Zenon
<1>9. /\ f[k] \in Seq(Nat)
      /\ f[k] # <<>> => \E r \in H : IsSegment(r, cursor[k - 1], f[k])
      /\ cursor[k] = cursor[k - 1] + Len(f[k])
  BY <1>5, Zenon DEF Processed
<1> HIDE DEF T
<1>10. CASE f[k] = <<>>
  BY <1>0, <1>3, <1>7, <1>8, <1>9, <1>10
<1>11. CASE f[k] # <<>>
  <2>1. PICK r \in H : IsSegment(r, cursor[k - 1], f[k])
    BY <1>9, <1>11, Zenon
  <2>2. r \in Seq(Nat) /\ Len(r) <= Len(L) /\ cursor[k - 1] + Len(f[k]) <= Len(r)
    BY <2>1, Zenon DEF IsSegment
  <2>3. Len(r) \in Nat /\ Len(f[k]) \in Nat
    BY <1>9, <2>2
  <2> QED
    BY <1>0, <1>3, <1>7, <1>9, <2>2, <2>3
<1> QED
  BY <1>10, <1>11, Zenon

\* executeBatchesSharedBridge takes operations off the front of the queue.
LEMMA ExecuteQueueInOrder ==
    ASSUME NEW L, NEW H, NEW x, NEW e, NEW P, NEW f, QueueInOrder(L, H, x, e, P, f),
           NEW n \in Nat, NEW cursor, cursor[e] = x, Processed(H, e, n, cursor, f),
           NEW Q, \A k \in 0 .. e : Q[k] = P[k], \A k \in e + 1 .. e + n : Q[k] = cursor[k]
    PROVE  QueueInOrder(L, H, cursor[e + n], e + n, Q, f)
<1>0. /\ L \in Seq(Nat) /\ x \in Nat /\ e \in Nat
      /\ \A r \in H : r \in Seq(Nat) /\ Len(r) <= Len(L) /\ \A i \in 1 .. Len(r) : r[i] = L[i]
      /\ P[0] = 0 /\ P[e] = x /\ x <= Len(L)
      /\ \A k \in 0 .. e : P[k] \in Nat
      /\ \A k \in 1 .. e : /\ f[k] \in Seq(Nat)
                           /\ P[k] = P[k - 1] + Len(f[k])
                           /\ IsSegment(L, P[k - 1], f[k])
  BY Zenon DEF QueueInOrder
<1>1. e \in Nat
  BY <1>0, Zenon
<1>2. \A k \in e .. e + n : cursor[k] <= Len(L)
  <2>1. cursor[e] <= Len(L)
    BY <1>0, Zenon
  <2>2. \A r \in H : r \in Seq(Nat) /\ Len(r) <= Len(L)
    BY <1>0, Zenon
  <2>3. L \in Seq(Nat)
    BY <1>0, Zenon
  <2>4. WithinLeaves(L, e, n, cursor)
    BY <1>1, <2>1, <2>2, <2>3, CursorWithinLeaves, Zenon
  <2> QED
    BY <2>4, Zenon DEF WithinLeaves
<1>3. \A k \in 0 .. e + n : k \in 0 .. e \/ k \in e + 1 .. e + n
  BY <1>1
<1>4. e \in 0 .. e /\ e \in e .. e + n /\ e + n \in e .. e + n /\ e + n \in 0 .. e + n
      /\ 0 \in 0 .. e /\ e + n \in Nat
  BY <1>1
<1>5. \A k \in e + 1 .. e + n : k \in e .. e + n /\ k - 1 \in e .. e + n
  BY <1>1
<1>6. \A k \in e .. e + n : Q[k] = cursor[k]
  <2>1. \A k \in e .. e + n : k = e \/ k \in e + 1 .. e + n
    BY <1>1
  <2> QED
    BY <1>0, <1>4, <2>1, Zenon
<1>7. \A k \in 0 .. e + n : Q[k] \in Nat
  BY <1>0, <1>3, <1>5, <1>6, Zenon DEF Processed
<1>8. ASSUME NEW k \in 1 .. e + n
      PROVE  /\ f[k] \in Seq(Nat)
             /\ Q[k] = Q[k - 1] + Len(f[k])
             /\ IsSegment(L, Q[k - 1], f[k])
  <2>1. CASE k \in 1 .. e
    <3>1. k \in 0 .. e /\ k - 1 \in 0 .. e
      BY <1>1, <2>1
    <3>2. Q[k] = P[k] /\ Q[k - 1] = P[k - 1]
      BY <3>1, Zenon
    <3> QED
      BY <1>0, <2>1, <3>2, Zenon
  <2>2. CASE k \in e + 1 .. e + n
    <3>1. k \in e .. e + n /\ k - 1 \in e .. e + n
      BY <1>5, <2>2, Zenon
    <3>2. Q[k] = cursor[k] /\ Q[k - 1] = cursor[k - 1]
      BY <1>6, <3>1, Zenon
    <3>3. /\ f[k] \in Seq(Nat)
          /\ f[k] # <<>> => \E r \in H : IsSegment(r, cursor[k - 1], f[k])
          /\ cursor[k] = cursor[k - 1] + Len(f[k])
      BY <2>2, Zenon DEF Processed
    <3>4. cursor[k - 1] \in Nat /\ cursor[k - 1] <= Len(L)
      BY <1>2, <3>1, Zenon DEF Processed
    <3>5. IsSegment(L, cursor[k - 1], f[k])
      <4>1. CASE f[k] = <<>>
        <5>1. Len(f[k]) = 0
          BY <4>1
        <5>2. cursor[k - 1] + Len(f[k]) <= Len(L)
          BY <3>4, <5>1
        <5>3. \A i \in 1 .. Len(f[k]) : FALSE
          BY <5>1
        <5> QED
          BY <5>2, <5>3, Zenon DEF IsSegment
      <4>2. CASE f[k] # <<>>
        <5>1. PICK r \in H : IsSegment(r, cursor[k - 1], f[k])
          BY <3>3, <4>2, Zenon
        <5>2. r \in Seq(Nat) /\ Len(r) <= Len(L) /\ \A i \in 1 .. Len(r) : r[i] = L[i]
          BY <1>0, <5>1, Zenon
        <5> QED
          BY <1>0, <3>3, <3>4, <5>1, <5>2, SegmentOfPrefix, ZenonT(40)
      <4> QED
        BY <4>1, <4>2, Zenon
    <3> QED
      BY <3>2, <3>3, <3>5, Zenon
  <2> QED
    <3>1. k \in 1 .. e \/ k \in e + 1 .. e + n
      BY <1>1
    <3> QED
      BY <2>1, <2>2, <3>1, Zenon
<1>9. Q[0] = 0 /\ Q[e + n] = cursor[e + n] /\ cursor[e + n] <= Len(L) /\ cursor[e + n] \in Nat
  BY <1>0, <1>2, <1>4, <1>6, Zenon DEF Processed
<1> QED
  BY <1>0, <1>4, <1>7, <1>8, <1>9, Zenon DEF QueueInOrder

(***************************************************************************)
(* The chain.                                                              *)
(***************************************************************************)

\* The operations of the stored batches.
BatchOps(st) == [k \in 1 .. MaxBatches |-> st.storedBatchHashes[k].ops]

ChainQueue(st, P) ==
    QueueInOrder(st.priorityTree.leaves, st.priorityTree.historicalRoots,
                 st.priorityTree.unprocessedIndex, st.totalBatchesExecuted, P, BatchOps(st))

\* QueueInOrder reads the operations of executed batches only.
LEMMA SameExecutedOps ==
    ASSUME NEW L, NEW H, NEW x, NEW e, NEW P, NEW f, NEW g, QueueInOrder(L, H, x, e, P, f),
           \A k \in 1 .. e : g[k] = f[k]
    PROVE  QueueInOrder(L, H, x, e, P, g)
BY Zenon DEF QueueInOrder

\* Most functions leave the queue, the executed batches and their number alone.
LEMMA SameQueue ==
    ASSUME NEW st, NEW new, NEW P, ChainQueue(st, P),
           new.priorityTree = st.priorityTree,
           new.totalBatchesExecuted = st.totalBatchesExecuted,
           st.totalBatchesExecuted \in Nat, st.totalBatchesExecuted <= MaxBatches,
           \A k \in 0 .. st.totalBatchesExecuted :
              new.storedBatchHashes[k] = st.storedBatchHashes[k]
    PROVE  ChainQueue(new, P)
<1>1. \A k \in 1 .. st.totalBatchesExecuted : k \in 1 .. MaxBatches /\ k \in 0 .. st.totalBatchesExecuted
  BY ConstantsAssumption
<1>2. \A k \in 1 .. st.totalBatchesExecuted : BatchOps(new)[k] = BatchOps(st)[k]
  BY <1>1, Zenon DEF BatchOps
<1>3. QueueInOrder(st.priorityTree.leaves, st.priorityTree.historicalRoots,
                   st.priorityTree.unprocessedIndex, st.totalBatchesExecuted, P, BatchOps(new))
  BY <1>2, SameExecutedOps, Zenon DEF ChainQueue
<1> QED
  BY <1>3, Zenon DEF ChainQueue

\* The cursors of batches e + 1 .. e + n are recorded next to those of P.
Recorded(P, Q, e, n, cursor) ==
    /\ \A k \in 0 .. e : Q[k] = P[k]
    /\ \A k \in e + 1 .. e + n : Q[k] = cursor[k]

\* executeBatchesSharedBridge, where Q extends the recorded cursors by the new ones.
LEMMA ExecuteKeepsQueue ==
    ASSUME NEW st \in ZKChainStorage, NEW P, ChainQueue(st, P),
           NEW m, NEW sender, NEW n \in Nat, NEW cursor \in Cursors(st.totalBatchesExecuted, n),
           CanExecute(st, m, sender, n, cursor),
           st.totalBatchesExecuted + n <= MaxBatches,
           \A k \in st.totalBatchesExecuted + 1 .. st.totalBatchesExecuted + n :
              st.storedBatchHashes[k] \in Batch,
           NEW Q, Recorded(P, Q, st.totalBatchesExecuted, n, cursor)
    PROVE  ChainQueue(Execute(st, n, cursor), Q)
<1> DEFINE e == st.totalBatchesExecuted
           L == st.priorityTree.leaves
           H == st.priorityTree.historicalRoots
           x == st.priorityTree.unprocessedIndex
           f == BatchOps(st)
           new == Execute(st, n, cursor)
<1>1. e \in Nat /\ st.priorityTree \in Tree(Nat)
  BY Zenon DEF ZKChainStorage
<1>2. /\ cursor[e] = x
      /\ \A k \in e + 1 .. e + n :
            /\ CanProcess(st.priorityTree, cursor[k - 1], st.storedBatchHashes[k].ops)
            /\ cursor[k] = cursor[k - 1] + Len(st.storedBatchHashes[k].ops)
  BY Zenon DEF CanExecute
<1>3. \A k \in e + 1 .. e + n : k \in 1 .. MaxBatches
  BY <1>1, ConstantsAssumption
<1>4. \A k \in e + 1 .. e + n : f[k] = st.storedBatchHashes[k].ops /\ f[k] \in Seq(Nat)
  <2>1. \A b \in Batch : b.ops \in Seq(Nat)
    BY Zenon DEF Batch
  <2> QED
    BY <1>3, <2>1, Zenon DEF BatchOps
<1>5. \A k \in e .. e + n : cursor[k] \in Nat
  <2>1. MaxOps \in Nat
    BY ConstantsAssumption, Zenon
  <2>2. 0 .. MaxOps + 1 \subseteq Nat
    BY <2>1
  <2>3. cursor \in [e .. e + n -> 0 .. MaxOps + 1]
    BY Zenon DEF Cursors
  <2> HIDE DEF e
  <2> QED
    BY <2>2, <2>3, Zenon
<1>6. Processed(H, e, n, cursor, f)
  BY <1>2, <1>4, <1>5, Zenon DEF Processed, CanProcess
<1>7. QueueInOrder(L, H, x, e, P, f)
  BY Zenon DEF ChainQueue
<1>8. (\A k \in 0 .. e : Q[k] = P[k]) /\ \A k \in e + 1 .. e + n : Q[k] = cursor[k]
  BY Zenon DEF Recorded
<1>9. /\ new.totalBatchesExecuted = e + n /\ new.storedBatchHashes = st.storedBatchHashes
      /\ new.priorityTree = [st.priorityTree EXCEPT !.unprocessedIndex = cursor[e + n]]
  BY Zenon DEF Execute, ZKChainStorage
<1>10. /\ new.priorityTree.leaves = L /\ new.priorityTree.historicalRoots = H
       /\ new.priorityTree.unprocessedIndex = cursor[e + n]
  BY <1>1, <1>9, Zenon DEF Tree
<1>11. BatchOps(new) = f
  BY <1>9, Zenon DEF BatchOps
<1> HIDE DEF e, L, H, x, f, new
<1>12. QueueInOrder(L, H, cursor[e + n], e + n, Q, f)
  BY <1>2, <1>6, <1>7, <1>8, ExecuteQueueInOrder, Zenon
<1>13. ChainQueue(new, Q)
  BY <1>9, <1>10, <1>11, <1>12, Zenon DEF ChainQueue
<1> QED
  BY <1>13, Zenon DEF new

\* requestL2Transaction.
LEMMA RequestKeepsQueue ==
    ASSUME NEW st \in ZKChainStorage, NEW P, ChainQueue(st, P), NEW new, NEW op \in Nat,
           new.priorityTree = push(st.priorityTree, op),
           KeepsCounters(st, new), KeepsBatches(st, new)
    PROVE  ChainQueue(new, P)
<1> DEFINE L == st.priorityTree.leaves
           H == st.priorityTree.historicalRoots
<1>1. st.priorityTree \in Tree(Nat)
  BY Zenon DEF ZKChainStorage
<1>2. /\ new.priorityTree.leaves = Append(L, op)
      /\ new.priorityTree.historicalRoots = H \cup {Append(L, op)}
      /\ new.priorityTree.unprocessedIndex = st.priorityTree.unprocessedIndex
  BY <1>1, Zenon DEF push, Tree
<1>3. new.totalBatchesExecuted = st.totalBatchesExecuted /\ BatchOps(new) = BatchOps(st)
  BY Zenon DEF KeepsCounters, KeepsBatches, BatchOps
<1>4. QueueInOrder(L, H, st.priorityTree.unprocessedIndex, st.totalBatchesExecuted, P, BatchOps(st))
  BY Zenon DEF ChainQueue
<1> HIDE DEF L, H
<1>5. QueueInOrder(Append(L, op), H \cup {Append(L, op)}, st.priorityTree.unprocessedIndex,
                   st.totalBatchesExecuted, P, BatchOps(st))
  BY <1>4, PushInOrder, Zenon
<1> QED
  BY <1>2, <1>3, <1>5, Zenon DEF ChainQueue

(***************************************************************************)
(* What a step of the chain is: each action by what it does to the parts   *)
(* of the state that the properties below are about.                       *)
(***************************************************************************)

\* The facts of SafetyInv that the actions' lemmas ask for.
LEMMA StateFacts ==
    ASSUME SafetyInv
    PROVE  /\ s \in ZKChainStorage /\ now \in Nat /\ InitTime <= now /\ MaxBatches \in Nat
           /\ s.totalBatchesExecuted \in Nat /\ s.totalBatchesVerified \in Nat
           /\ s.totalBatchesCommitted \in Nat
           /\ s.totalBatchesExecuted <= s.totalBatchesVerified
           /\ s.totalBatchesVerified <= s.totalBatchesCommitted
           /\ s.totalBatchesCommitted <= MaxBatches
           /\ processedUpTo \in [0 .. MaxBatches -> Nat]
           /\ \A k \in 0 .. s.totalBatchesCommitted : s.storedBatchHashes[k] \in Batch
<1>1. TypeOK /\ TimeOK /\ CountersOrdered
  BY Zenon DEF SafetyInv
<1>2. /\ s \in ZKChainStorage /\ now \in Nat /\ InitTime <= now
      /\ processedUpTo \in [0 .. MaxBatches -> Nat]
  BY <1>1, Zenon DEF TypeOK, TimeOK
<1> QED
  BY <1>1, <1>2, Types, Zenon DEF CountersOrdered

KeepsHistory == processedUpTo' = processedUpTo /\ precommitBatch' = precommitBatch

\* precommitSharedBridge
Precommits ==
    /\ ~ZKsyncOS
    /\ KeepsCounters(s, s') /\ KeepsBatches(s, s') /\ KeepsQueue(s, s') /\ KeepsMode(s, s')
    /\ precommitBatch' = s.totalBatchesCommitted + 1
    /\ processedUpTo' = processedUpTo /\ now' = now

\* commitBatchesSharedBridge
Commits ==
    \E sender \in Validators, active \in BOOLEAN, b \in NewBatches :
        /\ s.totalBatchesCommitted < MaxBatches
        /\ CanCommit(s, sender, active, b, now)
        /\ CommitResult(s, b, s')
        /\ precommitBatch' = KeepPrecommitBatch(s')
        /\ processedUpTo' = processedUpTo /\ now' = now

\* executeBatchesSharedBridge
Executes ==
    \E sender \in Validators, n \in Nat :
        \E cursor \in Cursors(s.totalBatchesExecuted, n) :
            /\ CanExecute(s, messageRoot, sender, n, cursor)
            /\ s' = Execute(s, n, cursor)
            /\ ExecuteResult(s, n, cursor, s')
            /\ processedUpTo' = RecordCursor(s, s', cursor)
            /\ precommitBatch' = precommitBatch /\ now' = now

\* settleBatchesSharedBridge; st is the storage the batch is executed on.
Settles ==
    \E active \in BOOLEAN, b \in NewBatches, cursor \in Cursors(s.totalBatchesExecuted, 1) :
        \E st \in ZKChainStorage :
            /\ s.totalBatchesCommitted < MaxBatches
            /\ s.totalBatchesExecuted = s.totalBatchesCommitted
            /\ CanCommit(s, PermissionlessValidator, active, b, now)
            /\ st.totalBatchesExecuted = s.totalBatchesExecuted
            /\ st.totalBatchesCommitted = s.totalBatchesCommitted + 1
            /\ st.storedBatchHashes = [s.storedBatchHashes EXCEPT ![b.batchNumber] = b]
            /\ ~ZKsyncOS => st.precommitmentForTheLatestBatch = DEFAULT_PRECOMMITMENT
            /\ ZKsyncOS => KeepsPrecommitment(s, st)
            /\ KeepsQueue(s, st) /\ KeepsMode(s, st)
            /\ CanExecute(st, messageRoot, PermissionlessValidator, 1, cursor)
            /\ s' = Execute(st, 1, cursor)
            /\ ExecuteResult(st, 1, cursor, s')
            /\ processedUpTo' = RecordCursor(s, s', cursor)
            /\ precommitBatch' = KeepPrecommitBatch(s')
            /\ now' = now

\* revertBatchesSharedBridge and activatePriorityMode
Reverts ==
    /\ s'.totalBatchesExecuted = s.totalBatchesExecuted
    /\ s.totalBatchesExecuted <= s'.totalBatchesCommitted
    /\ s'.totalBatchesCommitted <= s.totalBatchesCommitted
    /\ s'.totalBatchesCommitted \in Nat
    /\ s'.precommitmentForTheLatestBatch = DEFAULT_PRECOMMITMENT
    /\ KeepsBatches(s, s') /\ KeepsQueue(s, s')
    /\ KeepsMode(s, s') \/ CanActivatePriorityMode(s, now)
    /\ precommitBatch' = KeepPrecommitBatch(s')
    /\ processedUpTo' = processedUpTo /\ now' = now

\* requestL2Transaction
Requests ==
    /\ Len(s.priorityTree.leaves) < MaxOps
    /\ KeepsCounters(s, s') /\ KeepsBatches(s, s') /\ KeepsMode(s, s') /\ KeepsPrecommitment(s, s')
    /\ nextPriorityTxId(s) \in Nat
    /\ s'.priorityTree = push(s.priorityTree, nextPriorityTxId(s))
    /\ s'.priorityOpsRequestTimestamp =
          [s.priorityOpsRequestTimestamp EXCEPT
              ![getTotalPriorityTxs(push(s.priorityTree, nextPriorityTxId(s))) - 1] = now]
    /\ KeepsHistory /\ now' = now

\* proveBatchesSharedBridge, the admin's switches, upgrades, and time
Switches ==
    /\ s'.totalBatchesExecuted = s.totalBatchesExecuted
    /\ s'.totalBatchesCommitted = s.totalBatchesCommitted
    /\ KeepsBatches(s, s') /\ KeepsQueue(s, s') /\ KeepsPrecommitment(s, s')
    /\ s'.priorityModeInfo.activated => s.priorityModeInfo.activated
    /\ KeepsHistory /\ now' \in Nat /\ now <= now'

\* An execution has the effect ExecuteEffect describes.
LEMMA ExecutionResult ==
    ASSUME NEW st \in ZKChainStorage, NEW n \in Nat,
           NEW cursor \in Cursors(st.totalBatchesExecuted, n),
           st.totalBatchesExecuted + n <= st.totalBatchesCommitted,
           \A k \in 0 .. st.totalBatchesCommitted : st.storedBatchHashes[k] \in Batch
    PROVE  ExecuteResult(st, n, cursor, Execute(st, n, cursor))
<1>1. /\ st.totalBatchesExecuted \in Nat /\ st.totalBatchesCommitted \in Nat
      /\ 0 .. MaxOps + 1 \subseteq Nat
  BY ConstantsAssumption DEF ZKChainStorage
<1>2. st.totalBatchesExecuted + n \in st.totalBatchesExecuted .. st.totalBatchesExecuted + n
  BY <1>1
<1>3. cursor[st.totalBatchesExecuted + n] \in Nat
  BY <1>1, <1>2, Zenon DEF Cursors
<1>4. \A k \in st.totalBatchesExecuted + 1 .. st.totalBatchesExecuted + n :
        k \in 0 .. st.totalBatchesCommitted
  BY <1>1
<1>5. ExecutedLogRoots(st, n) \in [0 .. MaxBatches -> LogRoots]
  BY <1>4, ExecutedLogRootsType, Zenon
<1> QED
  BY <1>3, <1>5, ExecuteEffect, Zenon

\* Every step of the chain is one of the kinds above: each function, followed
\* through the guards and effects that the proofs below look at.
LEMMA StepCases ==
    ASSUME SafetyInv, Next
    PROVE  Precommits \/ Commits \/ Executes \/ Settles \/ Reverts \/ Requests \/ Switches
<1>1. /\ s \in ZKChainStorage /\ now \in Nat /\ InitTime <= now /\ MaxBatches \in Nat
      /\ s.totalBatchesExecuted \in Nat /\ s.totalBatchesVerified \in Nat
      /\ s.totalBatchesCommitted \in Nat
      /\ s.totalBatchesExecuted <= s.totalBatchesVerified
      /\ s.totalBatchesVerified <= s.totalBatchesCommitted
      /\ s.totalBatchesCommitted <= MaxBatches
      /\ \A k \in 0 .. s.totalBatchesCommitted : s.storedBatchHashes[k] \in Batch
  BY StateFacts, Zenon
<1>2. /\ 1 .. MaxBatches \subseteq Nat /\ 0 .. MaxBatches \subseteq Nat
      /\ 0 .. MaxVersion \subseteq Nat /\ VerifiedCounts \subseteq Nat /\ 1 \in Nat
  BY ConstantsAssumption DEF VerifiedCounts
<1>3. CASE \E v \in Validators, chunk \in Chunks : precommitSharedBridge(v, chunk)
  <2>1. PICK chunk \in Chunks :
          /\ ~ZKsyncOS /\ s' = Precommit(s, chunk) /\ precommitBatch' = s.totalBatchesCommitted + 1
          /\ processedUpTo' = processedUpTo /\ now' = now
    BY <1>3, Zenon DEF precommitSharedBridge, CanPrecommit
  <2>2. KeepsCounters(s, s') /\ KeepsBatches(s, s') /\ KeepsQueue(s, s') /\ KeepsMode(s, s')
    BY <1>1, <2>1, PrecommitEffect, Zenon
  <2> QED
    BY <2>1, <2>2, Zenon DEF Precommits
<1>4. CASE \E v \in Validators, active \in BOOLEAN, b \in NewBatches :
              commitBatchesSharedBridge(v, active, b)
  <2>1. PICK v \in Validators, active \in BOOLEAN, b \in NewBatches :
          /\ s.totalBatchesCommitted < MaxBatches /\ CanCommit(s, v, active, b, now)
          /\ s' = Commit(s, b) /\ precommitBatch' = KeepPrecommitBatch(s')
          /\ processedUpTo' = processedUpTo /\ now' = now
    BY <1>4, Zenon DEF commitBatchesSharedBridge
  <2>2. CommitResult(s, b, s')
    BY <1>1, <2>1, NewBatchType, CommitEffect, Zenon
  <2> QED
    BY <2>1, <2>2, Zenon DEF Commits
<1>5. CASE \E v \in Validators, n \in 1 .. MaxBatches : proveBatchesSharedBridge(v, n)
  <2>1. PICK n \in Nat : s' = Prove(s, n) /\ KeepsHistory /\ now' = now
    BY <1>2, <1>5, Zenon DEF proveBatchesSharedBridge, KeepsHistory
  <2>2. /\ s'.totalBatchesExecuted = s.totalBatchesExecuted
        /\ s'.totalBatchesCommitted = s.totalBatchesCommitted
        /\ KeepsBatches(s, s') /\ KeepsQueue(s, s') /\ KeepsMode(s, s') /\ KeepsPrecommitment(s, s')
    BY <1>1, <2>1, ProveEffect, Zenon
  <2>3. now' \in Nat /\ now <= now'
    BY <1>1, <2>1
  <2> QED
    BY <2>1, <2>2, <2>3, Zenon DEF Switches, KeepsMode
<1>6. CASE \E v \in Validators, n \in VerifiedCounts :
              \E cursor \in Cursors(s.totalBatchesExecuted, n) :
                 executeBatchesSharedBridge(v, n, cursor)
  <2>1. PICK v \in Validators, n \in Nat : \E cursor \in Cursors(s.totalBatchesExecuted, n) :
          executeBatchesSharedBridge(v, n, cursor)
    BY <1>2, <1>6, Zenon
  <2>2. PICK cursor \in Cursors(s.totalBatchesExecuted, n) :
          /\ CanExecute(s, messageRoot, v, n, cursor) /\ s' = Execute(s, n, cursor)
          /\ processedUpTo' = RecordCursor(s, s', cursor) /\ precommitBatch' = precommitBatch
          /\ now' = now
    BY <2>1, Zenon DEF executeBatchesSharedBridge
  <2>3. s.totalBatchesExecuted + n <= s.totalBatchesVerified
    BY <2>2, Zenon DEF CanExecute
  <2>4. s.totalBatchesExecuted + n <= s.totalBatchesCommitted
    BY <1>1, <2>3
  <2>5. ExecuteResult(s, n, cursor, s')
    BY <1>1, <2>2, <2>4, ExecutionResult, Zenon
  <2> QED
    BY <2>2, <2>5, Zenon DEF Executes
<1>7. CASE SettleStep
  <2>1. PICK active \in BOOLEAN, b \in NewBatches, cursor \in Cursors(s.totalBatchesExecuted, 1) :
          settleBatchesSharedBridge(active, b, cursor)
    BY <1>7, Zenon DEF SettleStep
  <2> DEFINE committed == Commit(s, b)
             verified == Prove(committed, 1)
  <2>2. /\ s.totalBatchesCommitted < MaxBatches
        /\ CanCommit(s, PermissionlessValidator, active, b, now)
        /\ committed.totalBatchesExecuted + 1 = b.batchNumber
        /\ CanExecute(verified, messageRoot, PermissionlessValidator, 1, cursor)
        /\ s' = Execute(verified, 1, cursor)
        /\ processedUpTo' = RecordCursor(s, s', cursor)
        /\ precommitBatch' = KeepPrecommitBatch(s') /\ now' = now
    BY <2>1, Zenon DEF settleBatchesSharedBridge
  <2>3. b \in Batch /\ b.batchNumber = s.totalBatchesCommitted + 1
    BY <1>1, NewBatchType, Zenon
  <2>4. CommitResult(s, b, committed)
    BY <1>1, <2>3, CommitEffect, Zenon
  <2> HIDE DEF committed
  <2>5. /\ verified \in ZKChainStorage
        /\ verified.totalBatchesExecuted = committed.totalBatchesExecuted
        /\ verified.totalBatchesCommitted = committed.totalBatchesCommitted
        /\ KeepsBatches(committed, verified) /\ KeepsQueue(committed, verified)
        /\ KeepsMode(committed, verified) /\ KeepsPrecommitment(committed, verified)
    BY <1>2, <2>4, ProveEffect, Zenon DEF CommitResult
  <2> HIDE DEF verified
  <2>6. /\ verified.totalBatchesExecuted = s.totalBatchesExecuted
        /\ verified.totalBatchesCommitted = s.totalBatchesCommitted + 1
        /\ verified.storedBatchHashes = [s.storedBatchHashes EXCEPT ![b.batchNumber] = b]
        /\ ~ZKsyncOS => verified.precommitmentForTheLatestBatch = DEFAULT_PRECOMMITMENT
        /\ ZKsyncOS => KeepsPrecommitment(s, verified)
        /\ KeepsQueue(s, verified) /\ KeepsMode(s, verified)
    BY <2>4, <2>5, Zenon DEF CommitResult, KeepsBatches, KeepsQueue, KeepsMode, KeepsPrecommitment
  <2>7. s.totalBatchesExecuted = s.totalBatchesCommitted
    <3>1. s.totalBatchesExecuted + 1 = s.totalBatchesCommitted + 1
      BY <2>2, <2>3, <2>5, <2>6, Zenon
    <3> QED
      BY <1>1, <3>1
  <2>8. verified.totalBatchesExecuted + 1 <= verified.totalBatchesCommitted
    <3>1. /\ verified.totalBatchesExecuted = s.totalBatchesCommitted
          /\ verified.totalBatchesCommitted = s.totalBatchesCommitted + 1
      BY <2>6, <2>7, Zenon
    <3> QED
      BY <1>1, <3>1
  <2>9. \A k \in 0 .. verified.totalBatchesCommitted : verified.storedBatchHashes[k] \in Batch
    <3>1. s.storedBatchHashes \in [0 .. MaxBatches -> Batch \cup {NoBatch}]
      BY <1>1, Zenon DEF ZKChainStorage
    <3>2. \A k \in 0 .. s.totalBatchesCommitted + 1 :
            /\ k \in 0 .. MaxBatches
            /\ k # s.totalBatchesCommitted + 1 => k \in 0 .. s.totalBatchesCommitted
      BY <1>1, <2>2
    <3> QED
      BY <1>1, <2>3, <2>6, <3>1, <3>2, Zenon
  <2>10. cursor \in Cursors(verified.totalBatchesExecuted, 1)
    BY <2>6, Zenon
  <2>11. ExecuteResult(verified, 1, cursor, s')
    BY <1>2, <2>2, <2>5, <2>8, <2>9, <2>10, ExecutionResult, Zenon
  <2> QED
    BY <2>2, <2>5, <2>6, <2>7, <2>11, Zenon DEF Settles
<1>8. ASSUME NEW sender, NEW l \in Nat, revertBatchesSharedBridge(sender, l)
      PROVE  Reverts
  <2>1. /\ s' = RevertBatches(s, l) /\ s.totalBatchesExecuted <= l /\ l <= s.totalBatchesCommitted
        /\ precommitBatch' = KeepPrecommitBatch(s') /\ processedUpTo' = processedUpTo /\ now' = now
    BY <1>8, Zenon DEF revertBatchesSharedBridge, CanRevert, CanRevertBatches
  <2>2. /\ s'.totalBatchesExecuted = s.totalBatchesExecuted /\ s'.totalBatchesCommitted = l
        /\ s'.precommitmentForTheLatestBatch = DEFAULT_PRECOMMITMENT
        /\ KeepsBatches(s, s') /\ KeepsQueue(s, s') /\ KeepsMode(s, s')
    BY <1>1, <2>1, RevertEffect, ZenonT(40)
  <2> QED
    BY <2>1, <2>2, Zenon DEF Reverts
<1>9. CASE requestL2Transaction
  <2>1. nextPriorityTxId(s) \in Nat
    BY <1>1, SMTT(30) DEF ZKChainStorage, Tree, nextPriorityTxId, getTotalPriorityTxs
  <2>2. /\ Len(s.priorityTree.leaves) < MaxOps
        /\ s' = WritePriorityOpHash(s, nextPriorityTxId(s), now) /\ KeepsHistory /\ now' = now
    BY <1>9, Zenon DEF requestL2Transaction, historyVars, KeepsHistory
  <2> QED
    BY <1>1, <2>1, <2>2, WritePriorityOpHashEffect, ZenonT(40) DEF Requests
<1>10. CASE activatePriorityMode
  <2>1. /\ s' = ActivatePriorityMode(s) /\ CanActivatePriorityMode(s, now)
        /\ precommitBatch' = KeepPrecommitBatch(s') /\ processedUpTo' = processedUpTo /\ now' = now
    BY <1>10, Zenon DEF activatePriorityMode
  <2>2. /\ s'.totalBatchesExecuted = s.totalBatchesExecuted
        /\ s'.totalBatchesCommitted = s.totalBatchesExecuted
        /\ s'.precommitmentForTheLatestBatch = DEFAULT_PRECOMMITMENT
        /\ KeepsBatches(s, s') /\ KeepsQueue(s, s')
    BY <1>1, <2>1, ActivateEffect, ZenonT(40)
  <2>3. /\ s.totalBatchesExecuted <= s.totalBatchesExecuted
        /\ s.totalBatchesExecuted <= s.totalBatchesCommitted
    BY <1>1
  <2> QED
    BY <1>1, <2>1, <2>2, <2>3, Zenon DEF Reverts
<1>11. CASE \/ AdminStep \/ deactivatePriorityMode
            \/ \E v \in Validators, isActive \in BOOLEAN : setValidator(v, isActive)
  <2>1. \/ s' = PauseDeposits(s, now)
        \/ s' = MakePermanentRollup(s) \/ s' = PermanentlyAllowPriorityMode(s)
        \/ s' = DeactivatePriorityMode(s) \/ s' = UnpauseDeposits(s)
        \/ \E v \in Validators, isActive \in BOOLEAN : s' = SetValidator(s, v, isActive)
    BY <1>11, Zenon DEF AdminStep, makePermanentRollup, permanentlyAllowPriorityMode, unpauseDeposits,
                 deactivatePriorityMode, setValidator, pauseDepositsBeforeInitiatingMigration
  <2>2. UNCHANGED historyVars /\ now' = now
    BY <1>11, Zenon DEF AdminStep, makePermanentRollup, permanentlyAllowPriorityMode, unpauseDeposits,
                 deactivatePriorityMode, setValidator, pauseDepositsBeforeInitiatingMigration
  <2>3. KeepsHistory /\ now' \in Nat /\ now <= now'
    BY <1>1, <2>2 DEF historyVars, KeepsHistory
  <2>4. /\ KeepsCounters(s, s') /\ KeepsBatches(s, s') /\ KeepsQueue(s, s')
        /\ KeepsPrecommitment(s, s')
        /\ s'.priorityModeInfo.activated => s.priorityModeInfo.activated
    BY <1>1, <2>1, SwitchEffect, PauseEffect DEF KeepsMode
  <2> QED
    BY <2>3, <2>4, Zenon DEF Switches, KeepsCounters
<1>12. CASE \E newVersion \in 0 .. MaxVersion, tx \in BOOLEAN : upgradeChainFromVersion(newVersion, tx)
  <2>1. PICK v \in Nat, tx \in BOOLEAN : s' = Upgrade(s, v, tx) /\ KeepsHistory /\ now' = now
    BY <1>2, <1>12, Zenon DEF upgradeChainFromVersion, KeepsHistory
  <2>2. /\ KeepsCounters(s, s') /\ KeepsBatches(s, s') /\ KeepsQueue(s, s') /\ KeepsMode(s, s')
        /\ KeepsPrecommitment(s, s')
    BY <1>1, <2>1, UpgradeEffect, ZenonT(40)
  <2>3. now' \in Nat /\ now <= now'
    BY <1>1, <2>1
  <2> QED
    BY <2>1, <2>2, <2>3, Zenon DEF Switches, KeepsCounters, KeepsMode
<1>13. CASE Tick
  <2>1. s' = s /\ KeepsHistory /\ now' = now + 1
    BY <1>13, Zenon DEF Tick, historyVars, KeepsHistory
  <2>2. now' \in Nat /\ now <= now'
    BY <1>1, <2>1
  <2> QED
    BY <2>1, <2>2, Zenon DEF Switches, KeepsBatches, KeepsQueue, KeepsPrecommitment
<1>14. CASE ValidatorStep
  BY <1>2, <1>3, <1>4, <1>5, <1>6, <1>8, <1>14, Zenon DEF ValidatorStep
<1>15. CASE GovernanceStep
  BY <1>2, <1>8, <1>11, <1>12, <1>15, Zenon DEF GovernanceStep
<1> QED
  BY <1>7, <1>9, <1>10, <1>11, <1>13, <1>14, <1>15, Zenon DEF Next, UserStep

(***************************************************************************)
(* The queue.                                                              *)
(***************************************************************************)

\* The queue of a new chain is in order.
LEMMA InitQueue == Init => ChainQueue(s, processedUpTo)
<1> SUFFICES ASSUME Init PROVE ChainQueue(s, processedUpTo)
  BY Zenon
<1>1. /\ s.priorityTree = setup(StartIndex) /\ s.totalBatchesExecuted = 0
      /\ processedUpTo = [n \in 0 .. MaxBatches |-> 0]
  BY Zenon DEF Init
<1>2. /\ s.priorityTree.leaves = <<>> /\ s.priorityTree.historicalRoots = {<<>>}
      /\ s.priorityTree.unprocessedIndex = 0
  BY <1>1 DEF setup
<1>3. processedUpTo[0] = 0
  BY <1>1, ConstantsAssumption
<1>4. QueueInOrder(<<>>, {<<>>}, 0, 0, processedUpTo, BatchOps(s))
  BY <1>3 DEF QueueInOrder
<1> QED
  BY <1>1, <1>2, <1>4, Zenon DEF ChainQueue

\* Every step keeps the queue in order.
LEMMA NextQueue ==
    ASSUME SafetyInv, ChainQueue(s, processedUpTo), Next
    PROVE  ChainQueue(s', processedUpTo')
<1>1. /\ s \in ZKChainStorage /\ MaxBatches \in Nat
      /\ s.totalBatchesExecuted \in Nat /\ s.totalBatchesVerified \in Nat
      /\ s.totalBatchesCommitted \in Nat
      /\ s.totalBatchesExecuted <= s.totalBatchesVerified
      /\ s.totalBatchesVerified <= s.totalBatchesCommitted
      /\ s.totalBatchesCommitted <= MaxBatches
      /\ processedUpTo \in [0 .. MaxBatches -> Nat]
      /\ \A k \in 0 .. s.totalBatchesCommitted : s.storedBatchHashes[k] \in Batch
  BY StateFacts, Zenon
<1>2. s.totalBatchesExecuted <= MaxBatches
  BY <1>1
<1>3. \A k \in 0 .. s.totalBatchesExecuted : s'.storedBatchHashes[k] = s.storedBatchHashes[k]
  BY StepKeepsExecuted, Zenon DEF KeepsExecuted
<1>4. ASSUME s'.priorityTree = s.priorityTree, s'.totalBatchesExecuted = s.totalBatchesExecuted,
             processedUpTo' = processedUpTo
      PROVE  ChainQueue(s', processedUpTo')
  BY <1>1, <1>2, <1>3, <1>4, SameQueue, Zenon
<1>5. CASE Precommits \/ Reverts \/ Switches
  BY <1>4, <1>5, Zenon DEF Precommits, Reverts, Switches, KeepsCounters, KeepsQueue, KeepsHistory
<1>6. CASE Commits
  BY <1>4, <1>6, Zenon DEF Commits, CommitResult, KeepsQueue
<1>7. CASE Requests
  BY <1>1, <1>7, RequestKeepsQueue, Zenon DEF Requests, KeepsHistory
<1>8. ASSUME NEW n \in Nat, NEW cursor,
             s'.totalBatchesExecuted = s.totalBatchesExecuted + n,
             s.totalBatchesExecuted + n <= MaxBatches,
             processedUpTo' = RecordCursor(s, s', cursor)
      PROVE  Recorded(processedUpTo, processedUpTo', s.totalBatchesExecuted, n, cursor)
  <2>1. /\ \A k \in 0 .. s.totalBatchesExecuted :
              /\ k \in 0 .. MaxBatches
              /\ k \notin s.totalBatchesExecuted + 1 .. s.totalBatchesExecuted + n
        /\ \A k \in s.totalBatchesExecuted + 1 .. s.totalBatchesExecuted + n : k \in 0 .. MaxBatches
    BY <1>1, <1>2, <1>8, SMTT(30)
  <2> QED
    BY <1>8, <2>1, Zenon DEF RecordCursor, Recorded
<1>9. CASE Executes
  <2>1. PICK sender \in Validators, n \in Nat : \E cursor \in Cursors(s.totalBatchesExecuted, n) :
            /\ CanExecute(s, messageRoot, sender, n, cursor)
            /\ s' = Execute(s, n, cursor)
            /\ ExecuteResult(s, n, cursor, s')
            /\ processedUpTo' = RecordCursor(s, s', cursor)
    BY <1>9, Zenon DEF Executes
  <2>2. PICK cursor \in Cursors(s.totalBatchesExecuted, n) :
            /\ CanExecute(s, messageRoot, sender, n, cursor)
            /\ s' = Execute(s, n, cursor)
            /\ ExecuteResult(s, n, cursor, s')
            /\ processedUpTo' = RecordCursor(s, s', cursor)
    BY <2>1, Zenon
  <2>3. s'.totalBatchesExecuted = s.totalBatchesExecuted + n
    BY <2>2, Zenon DEF ExecuteResult
  <2>4. s.totalBatchesExecuted + n <= s.totalBatchesVerified
    BY <2>2, Zenon DEF CanExecute
  <2>5. /\ s.totalBatchesExecuted + n <= MaxBatches
        /\ \A k \in s.totalBatchesExecuted + 1 .. s.totalBatchesExecuted + n :
              k \in 0 .. s.totalBatchesCommitted
    BY <1>1, <2>4, SMTT(30)
  <2>6. \A k \in s.totalBatchesExecuted + 1 .. s.totalBatchesExecuted + n :
          s.storedBatchHashes[k] \in Batch
    BY <1>1, <2>5, Zenon
  <2>7. Recorded(processedUpTo, processedUpTo', s.totalBatchesExecuted, n, cursor)
    BY <1>8, <2>2, <2>3, <2>5, Zenon
  <2>8. ChainQueue(Execute(s, n, cursor), processedUpTo')
    BY <1>1, <2>2, <2>5, <2>6, <2>7, ExecuteKeepsQueue, Zenon
  <2> QED
    BY <2>2, <2>8, Zenon
<1>10. CASE Settles
  <2>1. PICK b \in NewBatches, cursor \in Cursors(s.totalBatchesExecuted, 1), st \in ZKChainStorage :
            /\ s.totalBatchesCommitted < MaxBatches
            /\ s.totalBatchesExecuted = s.totalBatchesCommitted
            /\ st.totalBatchesExecuted = s.totalBatchesExecuted
            /\ st.storedBatchHashes = [s.storedBatchHashes EXCEPT ![b.batchNumber] = b]
            /\ KeepsQueue(s, st)
            /\ CanExecute(st, messageRoot, PermissionlessValidator, 1, cursor)
            /\ s' = Execute(st, 1, cursor)
            /\ ExecuteResult(st, 1, cursor, s')
            /\ processedUpTo' = RecordCursor(s, s', cursor)
    BY <1>10, Zenon DEF Settles
  <2>2. b \in Batch /\ b.batchNumber = s.totalBatchesExecuted + 1
    BY <1>1, <2>1, NewBatchType, Zenon
  <2>3. s.totalBatchesExecuted + 1 <= MaxBatches /\ 1 \in Nat
    BY <1>1, <2>1
  <2>4. s.storedBatchHashes \in [0 .. MaxBatches -> Batch \cup {NoBatch}]
    BY <1>1, Zenon DEF ZKChainStorage
  <2>5. /\ \A k \in 0 .. s.totalBatchesExecuted : k # s.totalBatchesExecuted + 1 /\ k \in 0 .. MaxBatches
        /\ \A k \in s.totalBatchesExecuted + 1 .. s.totalBatchesExecuted + 1 :
              k = s.totalBatchesExecuted + 1 /\ k \in 0 .. MaxBatches
    BY <1>1, <1>2, <2>3
  <2>6. /\ \A k \in 0 .. s.totalBatchesExecuted : st.storedBatchHashes[k] = s.storedBatchHashes[k]
        /\ \A k \in s.totalBatchesExecuted + 1 .. s.totalBatchesExecuted + 1 :
              st.storedBatchHashes[k] \in Batch
    BY <2>1, <2>2, <2>4, <2>5, Zenon
  <2>7. ChainQueue(st, processedUpTo)
    BY <1>1, <1>2, <2>1, <2>6, SameQueue, Zenon DEF KeepsQueue
  <2>8. s'.totalBatchesExecuted = s.totalBatchesExecuted + 1
    BY <2>1, Zenon DEF ExecuteResult
  <2>9. Recorded(processedUpTo, processedUpTo', st.totalBatchesExecuted, 1, cursor)
    BY <1>8, <2>1, <2>3, <2>8, Zenon
  <2>10. /\ st.totalBatchesExecuted + 1 <= MaxBatches
         /\ cursor \in Cursors(st.totalBatchesExecuted, 1)
         /\ \A k \in st.totalBatchesExecuted + 1 .. st.totalBatchesExecuted + 1 :
              st.storedBatchHashes[k] \in Batch
    BY <2>1, <2>3, <2>6, Zenon
  <2>11. ChainQueue(Execute(st, 1, cursor), processedUpTo')
    BY <2>1, <2>3, <2>7, <2>9, <2>10, ExecuteKeepsQueue, Zenon
  <2> QED
    BY <2>1, <2>11, Zenon
<1> QED
  BY <1>5, <1>6, <1>7, <1>9, <1>10, StepCases, Zenon

\* The queue stays in order in every behaviour of the chain.
LEMMA QueueStaysInOrder == Spec => []ChainQueue(s, processedUpTo)
<1>1. SafetyInv /\ ChainQueue(s, processedUpTo) /\ [Next]_vars => ChainQueue(s, processedUpTo)'
  <2>1. CASE Next
    BY <2>1, NextQueue, Zenon
  <2>2. CASE UNCHANGED vars
    BY <2>2, Zenon DEF vars
  <2> QED
    BY <2>1, <2>2, Zenon
<1> QED
  BY <1>1, InitQueue, SafetyInvariance, PTL DEF Spec

\* The executed batches consume the priority queue in order and each operation
\* once, whatever is requested between a commitment and its execution: a batch
\* is checked against any root the tree ever had, and that root is enough
\* (PriorityTree.processBatch).
THEOREM PriorityOpsProcessedInOrder == Spec => []PriorityOpsInOrder
<1>1. SafetyInv /\ ChainQueue(s, processedUpTo) => PriorityOpsInOrder
  <2> SUFFICES ASSUME SafetyInv, ChainQueue(s, processedUpTo) PROVE PriorityOpsInOrder
    BY Zenon
  <2>1. /\ s.totalBatchesExecuted \in Nat /\ s.totalBatchesVerified \in Nat
        /\ s.totalBatchesCommitted \in Nat /\ MaxBatches \in Nat
        /\ s.totalBatchesExecuted <= s.totalBatchesVerified
        /\ s.totalBatchesVerified <= s.totalBatchesCommitted
        /\ s.totalBatchesCommitted <= MaxBatches
    BY StateFacts, Zenon
  <2>2. \A k \in 1 .. s.totalBatchesExecuted : k \in 1 .. MaxBatches
    BY <2>1
  <2>3. \A k \in 1 .. s.totalBatchesExecuted : BatchOps(s)[k] = s.storedBatchHashes[k].ops
    BY <2>2, Zenon DEF BatchOps
  <2> QED
    BY <2>3, Zenon DEF ChainQueue, QueueInOrder, PriorityOpsInOrder
<1> QED
  BY <1>1, QueueStaysInOrder, SafetyInvariance, PTL

(***************************************************************************)
(* Precommitments and timestamps.                                          *)
(***************************************************************************)

\* PrecommitmentForNextBatch is inductive once we know that a ZKsync OS chain,
\* whose commits do not reset the precommitment, never has one.
PrecommitmentInv ==
    /\ PrecommitmentForNextBatch
    /\ ZKsyncOS => s.precommitmentForTheLatestBatch = DEFAULT_PRECOMMITMENT

\* A precommitment is never checked against a batch of another number.
THEOREM PrecommitmentIsForNextBatch == Spec => []PrecommitmentForNextBatch
<1>1. Init => PrecommitmentInv
  BY DEF Init, PrecommitmentInv, PrecommitmentForNextBatch
<1>2. SafetyInv /\ PrecommitmentInv /\ [Next]_vars => PrecommitmentInv'
  <2> SUFFICES ASSUME SafetyInv, PrecommitmentInv, [Next]_vars PROVE PrecommitmentInv'
    BY Zenon
  <2> USE DEF PrecommitmentInv, PrecommitmentForNextBatch
  <2>1. CASE Precommits
    BY <2>1, Zenon DEF Precommits, KeepsCounters
  <2>2. CASE Commits
    BY <2>2, Zenon DEF Commits, CommitResult, KeepsPrecommitment
  <2>3. CASE Executes
    BY <2>3, Zenon DEF Executes, ExecuteResult, KeepsPrecommitment
  <2>4. CASE Settles
    BY <2>4, ZenonT(40) DEF Settles, ExecuteResult, KeepsPrecommitment
  <2>5. CASE Reverts
    BY <2>5, Zenon DEF Reverts
  <2>6. CASE Requests
    BY <2>6, Zenon DEF Requests, KeepsCounters, KeepsPrecommitment, KeepsHistory
  <2>7. CASE Switches
    BY <2>7, Zenon DEF Switches, KeepsPrecommitment, KeepsHistory
  <2>8. CASE UNCHANGED vars
    BY <2>8, Zenon DEF vars
  <2> QED
    BY <2>1, <2>2, <2>3, <2>4, <2>5, <2>6, <2>7, <2>8, StepCases, Zenon
<1> QED
  BY <1>1, <1>2, SafetyInvariance, PTL DEF Spec, PrecommitmentInv

\* BatchTimestampsIncrease of one storage and one time.
TimestampsIncrease(st, time) ==
    ~ZKsyncOS => \A k \in 1 .. st.totalBatchesCommitted :
        /\ st.storedBatchHashes[k - 1].timestamp < st.storedBatchHashes[k].timestamp
        /\ st.storedBatchHashes[k].timestamp <= time + COMMIT_TIMESTAMP_APPROXIMATION_DELTA

\* A step that commits nothing leaves the timestamps of the committed batches.
LEMMA SameTimestamps ==
    ASSUME SafetyInv, TimestampsIncrease(s, now), now' \in Nat, now <= now',
           s'.storedBatchHashes = s.storedBatchHashes,
           s'.totalBatchesCommitted \in Nat, s'.totalBatchesCommitted <= s.totalBatchesCommitted
    PROVE  TimestampsIncrease(s', now')
<1> SUFFICES ASSUME ~ZKsyncOS, NEW k \in 1 .. s'.totalBatchesCommitted
             PROVE  /\ s.storedBatchHashes[k - 1].timestamp < s.storedBatchHashes[k].timestamp
                    /\ s.storedBatchHashes[k].timestamp <= now' + COMMIT_TIMESTAMP_APPROXIMATION_DELTA
  BY Zenon DEF TimestampsIncrease
<1>1. /\ now \in Nat /\ s.totalBatchesCommitted \in Nat
      /\ \A i \in 0 .. s.totalBatchesCommitted : s.storedBatchHashes[i] \in Batch
  BY StateFacts, Zenon
<1>2. k \in 1 .. s.totalBatchesCommitted /\ k \in 0 .. s.totalBatchesCommitted
  BY <1>1
<1>3. s.storedBatchHashes[k].timestamp \in Nat
  BY <1>1, <1>2, Zenon DEF Batch
<1>4. /\ s.storedBatchHashes[k - 1].timestamp < s.storedBatchHashes[k].timestamp
      /\ s.storedBatchHashes[k].timestamp <= now + COMMIT_TIMESTAMP_APPROXIMATION_DELTA
  BY <1>2, Zenon DEF TimestampsIncrease
<1>5. COMMIT_TIMESTAMP_APPROXIMATION_DELTA \in Nat
  BY ConstantsAssumption, Zenon
<1> QED
  BY <1>1, <1>3, <1>4, <1>5

\* A commit checks the new batch against the last committed one.
LEMMA CommitTimestamps ==
    ASSUME SafetyInv, TimestampsIncrease(s, now), now' = now,
           NEW b \in NewBatches, NEW sender, NEW active, CanCommit(s, sender, active, b, now),
           s.totalBatchesCommitted < MaxBatches,
           s'.storedBatchHashes = [s.storedBatchHashes EXCEPT ![b.batchNumber] = b],
           s'.totalBatchesCommitted = s.totalBatchesCommitted + 1
    PROVE  TimestampsIncrease(s', now')
<1> DEFINE c == s.totalBatchesCommitted
           f == s.storedBatchHashes
           g == s'.storedBatchHashes
           D == COMMIT_TIMESTAMP_APPROXIMATION_DELTA
<1> SUFFICES ASSUME ~ZKsyncOS, NEW k \in 1 .. c + 1
             PROVE  g[k - 1].timestamp < g[k].timestamp /\ g[k].timestamp <= now + D
  BY Zenon DEF TimestampsIncrease
<1>1. /\ s \in ZKChainStorage /\ now \in Nat /\ c \in Nat /\ MaxBatches \in Nat /\ D \in Nat
      /\ \A i \in 0 .. c : f[i] \in Batch
  BY StateFacts, ConstantsAssumption, Zenon
<1>2. b \in Batch /\ b.batchNumber = c + 1
  BY <1>1, NewBatchType, Zenon
<1>3. f \in [0 .. MaxBatches -> Batch \cup {NoBatch}]
  BY <1>1, Zenon DEF ZKChainStorage
<1>4. f[c].timestamp < b.timestamp /\ \E lastBlock \in Times : ValidBlockTimes(b.timestamp, lastBlock, now)
  BY Zenon DEF CanCommit, commitOneBatchEra
<1>5. b.timestamp <= now + D
  <2>1. PICK last \in Times : b.timestamp <= last /\ last <= now + D
    BY <1>4, Zenon DEF ValidBlockTimes
  <2>2. last \in Nat /\ b.timestamp \in Nat
    BY <1>2, ConstantsAssumption DEF Times, Batch
  <2> QED
    BY <1>1, <2>1, <2>2
<1>6. \A i \in 1 .. c : f[i - 1].timestamp < f[i].timestamp /\ f[i].timestamp <= now + D
  BY Zenon DEF TimestampsIncrease
<1>7. \A i \in 0 .. c : g[i] = f[i]
  BY <1>1, <1>2, <1>3
<1>8. g[c + 1] = b
  BY <1>1, <1>2, <1>3
<1>9. CASE k = c + 1
  <2>1. k - 1 = c /\ c \in 0 .. c
    BY <1>1, <1>9
  <2> QED
    BY <1>4, <1>5, <1>7, <1>8, <1>9, <2>1, Zenon
<1>10. CASE k # c + 1
  <2>1. k \in 1 .. c /\ k \in 0 .. c /\ k - 1 \in 0 .. c
    BY <1>1, <1>10
  <2> QED
    BY <1>6, <1>7, <2>1, Zenon
<1> QED
  BY <1>9, <1>10, Zenon

\* The timestamps of an Era chain's batches increase through commits and reverts
\* in any order.
THEOREM TimestampsOfBatchesIncrease == Spec => []BatchTimestampsIncrease
<1>1. Init => TimestampsIncrease(s, now)
  BY DEF Init, TimestampsIncrease
<1>2. SafetyInv /\ TimestampsIncrease(s, now) /\ [Next]_vars => TimestampsIncrease(s, now)'
  <2> SUFFICES ASSUME SafetyInv, TimestampsIncrease(s, now), [Next]_vars
               PROVE  TimestampsIncrease(s', now')
    BY Zenon
  <2>1. now \in Nat /\ s.totalBatchesCommitted \in Nat /\ now <= now
        /\ s.totalBatchesCommitted <= s.totalBatchesCommitted
    BY StateFacts
  <2>2. CASE Precommits \/ Requests \/ Switches
    BY <2>1, <2>2, SameTimestamps, Zenon
    DEF Precommits, Requests, Switches, KeepsCounters, KeepsBatches
  <2>3. CASE Reverts
    BY <2>1, <2>3, SameTimestamps, Zenon DEF Reverts, KeepsBatches
  <2>4. CASE Executes
    BY <2>1, <2>4, SameTimestamps, Zenon DEF Executes, ExecuteResult
  <2>5. CASE Commits
    BY <2>5, CommitTimestamps, Zenon DEF Commits, CommitResult
  <2>6. CASE Settles
    BY <2>6, CommitTimestamps, ZenonT(40) DEF Settles, ExecuteResult
  <2>7. CASE UNCHANGED vars
    BY <2>7, Zenon DEF vars
  <2> QED
    BY <2>2, <2>3, <2>4, <2>5, <2>6, <2>7, StepCases, Zenon
<1>3. TimestampsIncrease(s, now) => BatchTimestampsIncrease
  BY Zenon DEF TimestampsIncrease, BatchTimestampsIncrease
<1> QED
  BY <1>1, <1>2, <1>3, SafetyInvariance, PTL DEF Spec

(***************************************************************************)
(* Priority Mode.                                                          *)
(***************************************************************************)

\* What makes a batch fit for Priority Mode.
OnlyPriorityOps(b) == b.chunks = <<>> /\ b.ops # <<>>

\* In Priority Mode nobody but the PermissionlessValidator settles, and it only
\* settles batches of priority operations (the modifiers of the Executor facet
\* and _commitOneBatch).
THEOREM PriorityModeSettlesPriorityOps == Spec => PriorityModeBatches
<1>1. SafetyInv /\ [Next]_vars =>
        [ \A k \in s.totalBatchesExecuted + 1 .. s'.totalBatchesExecuted :
             s.priorityModeInfo.activated =>
                s'.storedBatchHashes[k].chunks = <<>> /\ s'.storedBatchHashes[k].ops # <<>> ]_vars
  <2> SUFFICES ASSUME SafetyInv, Next, s.priorityModeInfo.activated,
                      NEW k \in s.totalBatchesExecuted + 1 .. s'.totalBatchesExecuted
               PROVE  OnlyPriorityOps(s'.storedBatchHashes[k])
    BY Zenon DEF OnlyPriorityOps
  <2>1. /\ s \in ZKChainStorage /\ s.totalBatchesExecuted \in Nat /\ MaxBatches \in Nat
    BY StateFacts, Zenon
  <2>2. s'.totalBatchesExecuted # s.totalBatchesExecuted
    BY <2>1
  <2>3. ~Precommits /\ ~Commits /\ ~Reverts /\ ~Requests /\ ~Switches
    BY <2>2, Zenon DEF Precommits, Commits, CommitResult, Reverts, Requests, Switches, KeepsCounters
  <2>4. ~Executes
    <3>1. PermissionlessValidator \notin Validators
      BY ConstantsAssumption, Zenon
    <3>2. ASSUME NEW sender \in Validators, NEW n, NEW cursor,
                 CanExecute(s, messageRoot, sender, n, cursor)
          PROVE  FALSE
      BY <3>1, <3>2, Zenon DEF CanExecute, onlyValidatorOrPriorityMode
    <3> QED
      BY <3>2, Zenon DEF Executes
  <2>5. Settles
    BY <2>3, <2>4, StepCases, Zenon
  <2>6. PICK active \in BOOLEAN, b \in NewBatches, cursor \in Cursors(s.totalBatchesExecuted, 1),
             st \in ZKChainStorage :
          /\ s.totalBatchesCommitted < MaxBatches
          /\ s.totalBatchesExecuted = s.totalBatchesCommitted
          /\ CanCommit(s, PermissionlessValidator, active, b, now)
          /\ st.totalBatchesExecuted = s.totalBatchesExecuted
          /\ st.storedBatchHashes = [s.storedBatchHashes EXCEPT ![b.batchNumber] = b]
          /\ ExecuteResult(st, 1, cursor, s')
    BY <2>5, Zenon DEF Settles
  <2>7. b.batchNumber = s.totalBatchesExecuted + 1
    BY <2>1, <2>6, NewBatchType, Zenon
  <2>8. /\ s'.totalBatchesExecuted = s.totalBatchesExecuted + 1
        /\ s'.storedBatchHashes = [s.storedBatchHashes EXCEPT ![b.batchNumber] = b]
    BY <2>6, Zenon DEF ExecuteResult
  <2>9. k = b.batchNumber /\ k \in 0 .. MaxBatches
    BY <2>1, <2>6, <2>7, <2>8
  <2>10. s'.storedBatchHashes[k] = b
    <3>1. s.storedBatchHashes \in [0 .. MaxBatches -> Batch \cup {NoBatch}]
      BY <2>1, Zenon DEF ZKChainStorage
    <3> QED
      BY <2>8, <2>9, <3>1, Zenon
  <2>11. OnlyPriorityOps(b)
    BY <2>6, Zenon
    DEF CanCommit, commitOneBatchEra, commitOneBatchZKsyncOS, PriorityModeTxCount, OnlyPriorityOps
  <2> QED
    BY <2>10, <2>11, Zenon
<1> QED
  BY <1>1, SafetyInvariance, PTL DEF Spec, PriorityModeBatches

\* The leaves L are numbered from StartIndex on, and only they have a time.
Numbered(start, L, time) ==
    /\ start = StartIndex /\ L \in Seq(Nat) /\ Len(L) <= MaxOps
    /\ \A i \in 1 .. Len(L) : L[i] = StartIndex + i - 1
    /\ time \in [0 .. StartIndex + MaxOps -> Nat]
    /\ \A j \in 0 .. StartIndex + MaxOps : time[j] # 0 => j < StartIndex + Len(L)

ChainNumbered(st) ==
    Numbered(st.priorityTree.startIndex, st.priorityTree.leaves, st.priorityOpsRequestTimestamp)

\* The new leaf gets the next number, and its time is recorded under it.
LEMMA PushNumbered ==
    ASSUME NEW start, NEW L, NEW time, Numbered(start, L, time), Len(L) < MaxOps, NEW t \in Nat,
           NEW M, M = Append(L, start + Len(L)),
           NEW id, id = (start + Len(M)) - 1,
           NEW new, new = [time EXCEPT ![id] = t]
    PROVE  Numbered(start, M, new)
<1> DEFINE op == start + Len(L)
<1>1. /\ start = StartIndex /\ StartIndex \in Nat /\ MaxOps \in Nat /\ L \in Seq(Nat)
      /\ Len(L) \in Nat /\ op \in Nat
  BY ConstantsAssumption DEF Numbered
<1>2. /\ M \in Seq(Nat) /\ Len(M) = Len(L) + 1 /\ M[Len(L) + 1] = op
      /\ \A i \in 1 .. Len(L) : M[i] = L[i]
  BY <1>1
<1>3. \A i \in 1 .. Len(M) : M[i] = StartIndex + i - 1
  <2> SUFFICES ASSUME NEW i \in 1 .. Len(M) PROVE M[i] = StartIndex + i - 1
    BY Zenon
  <2>1. CASE i = Len(L) + 1
    BY <1>1, <1>2, <2>1
  <2>2. CASE i # Len(L) + 1
    <3>1. i \in 1 .. Len(L)
      BY <1>1, <1>2, <2>2
    <3>2. L[i] = StartIndex + i - 1
      BY <3>1, Zenon DEF Numbered
    <3> QED
      BY <1>2, <3>1, <3>2, Zenon
  <2> QED
    BY <2>1, <2>2, Zenon
<1>4. new = [time EXCEPT ![op] = t]
  <2>1. id = op
    BY <1>1, <1>2
  <2> QED
    BY <2>1, Zenon
<1>5. /\ time \in [0 .. StartIndex + MaxOps -> Nat]
      /\ \A j \in 0 .. StartIndex + MaxOps : time[j] # 0 => j < op
  BY <1>1, Zenon DEF Numbered
<1>6. new \in [0 .. StartIndex + MaxOps -> Nat]
  BY <1>4, <1>5, Zenon
<1>7. \A j \in 0 .. StartIndex + MaxOps : new[j] # 0 => j < StartIndex + Len(M)
  <2> SUFFICES ASSUME NEW j \in 0 .. StartIndex + MaxOps, new[j] # 0 PROVE j < op + 1
    BY <1>1, <1>2
  <2>1. CASE j = op
    BY <1>1, <2>1
  <2>2. CASE j # op
    <3>1. j < op
      BY <1>4, <1>5, <2>2, Zenon
    <3> QED
      BY <1>1, <3>1
  <2> QED
    BY <2>1, <2>2, Zenon
<1>8. Len(M) <= MaxOps
  BY <1>1, <1>2
<1> QED
  BY <1>1, <1>2, <1>3, <1>6, <1>7, <1>8, Zenon DEF Numbered

\* The leaves stay numbered, and only they have a time, in every behaviour.
LEMMA NumberedStays == Spec => []ChainNumbered(s)
<1>1. Init => ChainNumbered(s)
  <2> SUFFICES ASSUME Init PROVE ChainNumbered(s)
    BY Zenon
  <2>1. /\ s.priorityTree = setup(StartIndex)
        /\ s.priorityOpsRequestTimestamp = [i \in 0 .. StartIndex + MaxOps |-> 0]
    BY Zenon DEF Init
  <2>2. s.priorityTree.leaves = <<>> /\ s.priorityTree.startIndex = StartIndex
    BY <2>1 DEF setup
  <2>3. Numbered(StartIndex, <<>>, [i \in 0 .. StartIndex + MaxOps |-> 0])
    BY ConstantsAssumption DEF Numbered
  <2> QED
    BY <2>1, <2>2, <2>3, Zenon DEF ChainNumbered
<1>2. SafetyInv /\ ChainNumbered(s) /\ [Next]_vars => ChainNumbered(s)'
  <2> SUFFICES ASSUME SafetyInv, ChainNumbered(s), [Next]_vars PROVE ChainNumbered(s')
    BY Zenon
  <2>1. s \in ZKChainStorage /\ now \in Nat
    BY StateFacts, Zenon
  <2>2. CASE Precommits \/ Reverts \/ Switches
    BY <2>2, Zenon DEF Precommits, Reverts, Switches, KeepsQueue, ChainNumbered
  <2>3. CASE Commits
    BY <2>3, Zenon DEF Commits, CommitResult, KeepsQueue, ChainNumbered
  <2>4. ASSUME NEW st \in ZKChainStorage, ChainNumbered(st), NEW n, NEW cursor,
               ExecuteResult(st, n, cursor, s')
        PROVE  ChainNumbered(s')
    <3>1. st.priorityTree \in Tree(Nat)
      BY Zenon DEF ZKChainStorage
    <3>2. /\ s'.priorityTree =
                [st.priorityTree EXCEPT !.unprocessedIndex = cursor[st.totalBatchesExecuted + n]]
          /\ s'.priorityOpsRequestTimestamp = st.priorityOpsRequestTimestamp
      BY <2>4, Zenon DEF ExecuteResult
    <3>3. /\ s'.priorityTree.leaves = st.priorityTree.leaves
          /\ s'.priorityTree.startIndex = st.priorityTree.startIndex
      BY <3>1, <3>2, Zenon DEF Tree
    <3> QED
      BY <2>4, <3>2, <3>3, Zenon DEF ChainNumbered
  <2>5. CASE Executes
    BY <2>1, <2>4, <2>5, Zenon DEF Executes
  <2>6. CASE Settles
    <3>1. PICK st \in ZKChainStorage :
            KeepsQueue(s, st) /\ \E cursor : ExecuteResult(st, 1, cursor, s')
      BY <2>6, Zenon DEF Settles
    <3>2. ChainNumbered(st)
      BY <3>1, Zenon DEF KeepsQueue, ChainNumbered
    <3> QED
      BY <2>4, <3>1, <3>2, Zenon
  <2>7. CASE Requests
    <3> DEFINE start == s.priorityTree.startIndex
               L == s.priorityTree.leaves
               time == s.priorityOpsRequestTimestamp
    <3>0. nextPriorityTxId(s) = start + Len(L)
      BY Zenon DEF nextPriorityTxId, getTotalPriorityTxs
    <3>1. /\ Len(L) < MaxOps
          /\ s'.priorityTree = push(s.priorityTree, start + Len(L))
          /\ s'.priorityOpsRequestTimestamp =
                [time EXCEPT ![getTotalPriorityTxs(s'.priorityTree) - 1] = now]
      BY <2>7, <3>0, Zenon DEF Requests
    <3>2. s.priorityTree \in Tree(Nat)
      BY <2>1, Zenon DEF ZKChainStorage
    <3>3. /\ s'.priorityTree.leaves = Append(L, start + Len(L))
          /\ s'.priorityTree.startIndex = start
      BY <3>1, <3>2, Zenon DEF push, Tree
    <3>4. getTotalPriorityTxs(s'.priorityTree) - 1 = (start + Len(s'.priorityTree.leaves)) - 1
      BY <3>3, Zenon DEF getTotalPriorityTxs
    <3>5. Numbered(start, L, time)
      BY Zenon DEF ChainNumbered
    <3> DEFINE M == s'.priorityTree.leaves
               id == getTotalPriorityTxs(s'.priorityTree) - 1
               new == s'.priorityOpsRequestTimestamp
    <3>6. M = Append(L, start + Len(L)) /\ id = (start + Len(M)) - 1 /\ new = [time EXCEPT ![id] = now]
      BY <3>1, <3>3, <3>4, Zenon
    <3> HIDE DEF start, L, time, M, id, new
    <3>7. Numbered(start, M, new)
      BY <2>1, <3>1, <3>5, <3>6, PushNumbered, Zenon
    <3> QED
      BY <3>3, <3>7, Zenon DEF ChainNumbered, M, new
  <2>8. CASE UNCHANGED vars
    BY <2>8, Zenon DEF vars
  <2> QED
    BY <2>2, <2>3, <2>5, <2>6, <2>7, <2>8, StepCases, Zenon
<1> QED
  BY <1>1, <1>2, SafetyInvariance, PTL DEF Spec

\* activatePriorityMode reads the time of the first unprocessed operation: that
\* there is one, and that the time read is the time of the oldest leaf of the
\* queue, follows from how requests number the leaves and batches consume them.
THEOREM ActivationIsJustified == Spec => ActivationNeedsOverdueOp
<1>1. SafetyInv /\ ChainQueue(s, processedUpTo) /\ ChainNumbered(s) /\ [Next]_vars =>
        [ ~s.priorityModeInfo.activated /\ s'.priorityModeInfo.activated =>
            /\ getSize(s.priorityTree) > 0
            /\ LET oldest == s.priorityTree.leaves[s.priorityTree.unprocessedIndex + 1]
               IN now >= s.priorityOpsRequestTimestamp[oldest] + PRIORITY_EXPIRATION ]_vars
  <2> DEFINE L == s.priorityTree.leaves
             x == s.priorityTree.unprocessedIndex
             time == s.priorityOpsRequestTimestamp
  <2> SUFFICES ASSUME SafetyInv, ChainQueue(s, processedUpTo), ChainNumbered(s), Next,
                      ~s.priorityModeInfo.activated, s'.priorityModeInfo.activated
               PROVE  Len(L) - x > 0 /\ now >= time[L[x + 1]] + PRIORITY_EXPIRATION
    BY Zenon DEF getSize
  <2>1. CanActivatePriorityMode(s, now)
    <3>1. ~KeepsMode(s, s')
      BY Zenon DEF KeepsMode
    <3>2. ~Precommits /\ ~Commits /\ ~Executes /\ ~Requests /\ ~Switches
      BY <3>1, Zenon DEF Precommits, Commits, CommitResult, Executes, ExecuteResult, Requests, Switches
    <3>3. ~Settles
      BY ZenonT(40) DEF Settles, ExecuteResult, KeepsMode
    <3> QED
      BY <3>1, <3>2, <3>3, StepCases, Zenon DEF Reverts
  <2>2. /\ time[s.priorityTree.startIndex + x] # 0
        /\ now >= time[s.priorityTree.startIndex + x] + PRIORITY_EXPIRATION
    BY <2>1, Zenon DEF CanActivatePriorityMode, firstRequestTimestamp, getFirstUnprocessedPriorityTx
  <2>3. L \in Seq(Nat) /\ x \in Nat /\ x <= Len(L)
    BY Zenon DEF ChainQueue, QueueInOrder
  <2>4. /\ s.priorityTree.startIndex = StartIndex /\ Len(L) <= MaxOps
        /\ \A i \in 1 .. Len(L) : L[i] = StartIndex + i - 1
        /\ \A j \in 0 .. StartIndex + MaxOps : time[j] # 0 => j < StartIndex + Len(L)
    BY Zenon DEF ChainNumbered, Numbered
  <2>5. StartIndex \in Nat /\ MaxOps \in Nat /\ Len(L) \in Nat
    BY <2>3, ConstantsAssumption
  <2>6. StartIndex + x \in 0 .. StartIndex + MaxOps
    BY <2>3, <2>4, <2>5
  <2>7. StartIndex + x < StartIndex + Len(L)
    BY <2>2, <2>4, <2>6, Zenon
  <2>8. Len(L) - x > 0 /\ x + 1 \in 1 .. Len(L)
    BY <2>3, <2>5, <2>7, SMTT(30)
  <2>9. L[x + 1] = StartIndex + x
    <3>1. L[x + 1] = StartIndex + (x + 1) - 1
      BY <2>4, <2>8, Zenon
    <3> QED
      BY <2>3, <2>5, <3>1
  <2> QED
    BY <2>2, <2>4, <2>8, <2>9, Zenon
<1> QED
  BY <1>1, SafetyInvariance, QueueStaysInOrder, NumberedStays, PTL DEF Spec, ActivationNeedsOverdueOp

(***************************************************************************)
(* Upgrade transactions, however batches are committed, executed,          *)
(* reverted and dropped by Priority Mode around them.  The argument is     *)
(* about a few numbers of the storage only: e executed and c committed     *)
(* batches, the number u of the batch with the pending upgrade             *)
(* transaction, the transaction h itself, the minor version m, and the     *)
(* upgrade transaction f[k] of each committed batch.                       *)
(***************************************************************************)

\* An upgrade transaction is named by its minor version, so that no committed
\* batch can contain one that is scheduled later; a pending one that is in no
\* batch (u = 0) really is in none.
UpgradesInOrder(e, c, u, h, m, f, sched) ==
    /\ e \in Nat /\ c \in Nat /\ u \in Nat /\ h \in Nat /\ m \in Nat /\ e <= c
    /\ h <= m
    /\ \A k \in 1 .. c : f[k] \in Nat /\ f[k] <= m
    /\ u # 0 => h # 0 /\ e < u /\ u <= c /\ f[u] = h
    /\ u = 0 /\ h # 0 => \A k \in 1 .. c : f[k] # h
    /\ \A i, j \in 1 .. c : f[i] # 0 /\ f[i] = f[j] => i = j
    /\ \A t \in sched : t # 0 /\ (t = h \/ \E k \in 1 .. e : f[k] = t)

\* The next batch contains the pending upgrade transaction if no batch does.
LEMMA CommitInOrder ==
    ASSUME NEW e, NEW c, NEW u, NEW h, NEW m, NEW f, NEW sched,
           UpgradesInOrder(e, c, u, h, m, f, sched),
           NEW g, \A k \in 1 .. c : g[k] = f[k], g[c + 1] = IF u = 0 THEN h ELSE 0
    PROVE  UpgradesInOrder(e, c + 1, IF u = 0 /\ h # 0 THEN c + 1 ELSE u, h, m, g, sched)
<1> DEFINE v == IF u = 0 /\ h # 0 THEN c + 1 ELSE u
<1> USE DEF UpgradesInOrder
<1>1. /\ e \in Nat /\ c + 1 \in Nat /\ v \in Nat /\ h \in Nat /\ m \in Nat /\ e <= c + 1
      /\ h <= m
  OBVIOUS
<1>2. \A k \in 1 .. c + 1 : k \in 1 .. c \/ k = c + 1
  OBVIOUS
<1>3. \A k \in 1 .. c + 1 : g[k] \in Nat /\ g[k] <= m
  BY <1>2
<1>4. v # 0 => h # 0 /\ e < v /\ v <= c + 1 /\ g[v] = h
  OBVIOUS
<1>5. v = 0 /\ h # 0 => \A k \in 1 .. c + 1 : g[k] # h
  OBVIOUS
<1>6. \A i, j \in 1 .. c + 1 : g[i] # 0 /\ g[i] = g[j] => i = j
  BY <1>2, Zenon
<1>7. \A t \in sched : t # 0 /\ (t = h \/ \E k \in 1 .. e : g[k] = t)
  OBVIOUS
<1> QED
  BY <1>1, <1>3, <1>4, <1>5, <1>6, <1>7, Zenon

\* Executing the batch with the upgrade transaction ends the upgrade.
LEMMA ExecuteInOrder ==
    ASSUME NEW e, NEW c, NEW u, NEW h, NEW m, NEW f, NEW sched,
           UpgradesInOrder(e, c, u, h, m, f, sched),
           NEW n \in Nat, e + n <= c
    PROVE  LET done == u # 0 /\ u <= e + n IN
           UpgradesInOrder(e + n, c, IF done THEN 0 ELSE u, IF done THEN 0 ELSE h, m, f, sched)
<1> USE DEF UpgradesInOrder
<1>1. \A k \in 1 .. e : k \in 1 .. e + n
  OBVIOUS
<1>2. CASE u # 0 /\ u <= e + n
  <2>1. u \in 1 .. e + n /\ f[u] = h
    BY <1>2
  <2> QED
    BY <1>1, <1>2, <2>1
<1>3. CASE ~(u # 0 /\ u <= e + n)
  BY <1>1, <1>3
<1> QED
  BY <1>2, <1>3, Zenon

\* A revert that drops the batch with the upgrade transaction makes it pending
\* again, and no earlier batch contains it.
LEMMA RevertInOrder ==
    ASSUME NEW e, NEW c, NEW u, NEW h, NEW m, NEW f, NEW sched,
           UpgradesInOrder(e, c, u, h, m, f, sched),
           NEW l \in Nat, e <= l, l <= c, NEW g, \A k \in 1 .. l : g[k] = f[k]
    PROVE  UpgradesInOrder(e, l, IF u > l THEN 0 ELSE u, h, m, g, sched)
<1> USE DEF UpgradesInOrder
<1>1. \A k \in 1 .. l : k \in 1 .. c
  OBVIOUS
<1>2. \A k \in 1 .. e : k \in 1 .. l
  OBVIOUS
<1>3. CASE u > l
  <2>1. \A k \in 1 .. l : h # 0 => g[k] # h
    BY <1>1, <1>3
  <2> QED
    BY <1>1, <1>2, <1>3, <2>1, Zenon
<1>4. CASE ~(u > l)
  BY <1>1, <1>2, <1>4
<1> QED
  BY <1>3, <1>4, Zenon

\* A new upgrade transaction is scheduled only when none is pending, and with a
\* higher minor version than every one before it.
LEMMA ScheduleInOrder ==
    ASSUME NEW e, NEW c, NEW u, NEW h, NEW m, NEW f, NEW sched,
           UpgradesInOrder(e, c, u, h, m, f, sched),
           NEW tx \in BOOLEAN, NEW v \in Nat, m <= v, v # m => h = 0 /\ u = 0, tx => v # m
    PROVE  UpgradesInOrder(e, c, u, IF tx THEN v ELSE h, v, f, IF tx THEN sched \cup {v} ELSE sched)
<1> USE DEF UpgradesInOrder
<1>1. CASE tx
  <2>1. h = 0 /\ u = 0 /\ m < v
    BY <1>1
  <2> QED
    BY <1>1, <2>1
<1>2. CASE ~tx
  BY <1>2
<1> QED
  BY <1>1, <1>2, Zenon

\* The minor version grows with the version.
LEMMA MinorMonotone ==
    ASSUME NEW a \in Nat, NEW b \in Nat, a <= b
    PROVE  Minor(a) \in Nat /\ Minor(b) \in Nat /\ Minor(a) <= Minor(b)
<1> DEFINE d == PatchesPerMinor
           p == a \div d
           q == b \div d
<1>1. d \in Nat /\ d > 0
  BY ConstantsAssumption
<1>2. p \in Nat /\ q \in Nat
  BY <1>1
<1>3. d * p <= a /\ b < d * (q + 1)
  BY <1>1
<1> HIDE DEF p, q, d
<1>4. p <= q
  <2> SUFFICES ASSUME p >= q + 1 PROVE FALSE
    BY <1>2
  <2>1. d * p >= d * (q + 1)
    BY <1>1, <1>2
  <2> QED
    BY <1>1, <1>2, <1>3, <2>1
<1> QED
  BY <1>2, <1>4, Zenon DEF Minor, p, q, d

(***************************************************************************)
(* The chain.                                                              *)
(***************************************************************************)

\* The upgrade transactions of the committed batches.
UpgradeTxs(st) == [k \in 1 .. st.totalBatchesCommitted |-> st.storedBatchHashes[k].upgradeTx]

ChainUpgrades(st, sched) ==
    UpgradesInOrder(st.totalBatchesExecuted, st.totalBatchesCommitted,
                    st.l2SystemContractsUpgradeBatchNumber, st.l2SystemContractsUpgradeTxHash,
                    Minor(st.protocolVersion), UpgradeTxs(st), sched)

\* Most functions change nothing that matters.
LEMMA SameUpgrades ==
    ASSUME NEW st, NEW new, NEW sched, ChainUpgrades(st, sched),
           new.totalBatchesExecuted = st.totalBatchesExecuted,
           new.totalBatchesCommitted = st.totalBatchesCommitted,
           KeepsBatches(st, new), KeepsUpgrade(st, new)
    PROVE  ChainUpgrades(new, sched)
<1>1. UpgradeTxs(new) = UpgradeTxs(st)
  BY Zenon DEF UpgradeTxs, KeepsBatches
<1> QED
  BY <1>1, Zenon DEF ChainUpgrades, KeepsUpgrade

\* commitBatchesSharedBridge.
LEMMA CommitKeepsUpgrades ==
    ASSUME NEW st \in ZKChainStorage, NEW sched, ChainUpgrades(st, sched), NEW b \in Batch,
           b.batchNumber = st.totalBatchesCommitted + 1, st.totalBatchesCommitted < MaxBatches,
           b.upgradeTx = ExpectedUpgradeTx(st)
    PROVE  ChainUpgrades(Commit(st, b), sched)
<1> DEFINE new == Commit(st, b)
           e == st.totalBatchesExecuted
           c == st.totalBatchesCommitted
           u == st.l2SystemContractsUpgradeBatchNumber
           h == st.l2SystemContractsUpgradeTxHash
           m == Minor(st.protocolVersion)
<1>1. CommitResult(st, b, new)
  BY CommitEffect, Zenon
<1> HIDE DEF new
<1>2. /\ new.totalBatchesExecuted = e /\ new.totalBatchesCommitted = c + 1
      /\ new.storedBatchHashes = [st.storedBatchHashes EXCEPT ![b.batchNumber] = b]
      /\ new.protocolVersion = st.protocolVersion
      /\ new.l2SystemContractsUpgradeTxHash = h
      /\ new.l2SystemContractsUpgradeBatchNumber =
            IF ExpectedUpgradeTx(st) # NoTx THEN b.batchNumber ELSE u
  BY <1>1, Zenon DEF CommitResult
<1>3. st.storedBatchHashes \in [0 .. MaxBatches -> Batch \cup {NoBatch}] /\ c \in Nat /\ MaxBatches \in Nat
  BY ConstantsAssumption, Zenon DEF ZKChainStorage
<1>4. \A k \in 1 .. c : UpgradeTxs(new)[k] = UpgradeTxs(st)[k]
  <2>1. \A k \in 1 .. c : k \in 1 .. c + 1 /\ k \in 0 .. MaxBatches /\ k # b.batchNumber
    BY <1>3
  <2>2. \A k \in 1 .. c : new.storedBatchHashes[k] = st.storedBatchHashes[k]
    BY <1>2, <1>3, <2>1, Zenon
  <2> QED
    BY <1>2, <2>1, <2>2, Zenon DEF UpgradeTxs
<1>5. UpgradeTxs(new)[c + 1] = IF u = 0 THEN h ELSE 0
  <2>1. c + 1 \in 1 .. c + 1 /\ c + 1 \in 0 .. MaxBatches
    BY <1>3
  <2>2. new.storedBatchHashes[c + 1] = b
    BY <1>2, <1>3, <2>1, Zenon
  <2>3. UpgradeTxs(new)[c + 1] = b.upgradeTx
    BY <1>2, <2>1, <2>2, Zenon DEF UpgradeTxs
  <2> QED
    BY <2>3, Zenon DEF ExpectedUpgradeTx, NoTx
<1>6. new.l2SystemContractsUpgradeBatchNumber = IF u = 0 /\ h # 0 THEN c + 1 ELSE u
  BY <1>2, Zenon DEF ExpectedUpgradeTx, NoTx
<1>7. UpgradesInOrder(e, c, u, h, m, UpgradeTxs(st), sched)
  BY Zenon DEF ChainUpgrades
<1> HIDE DEF e, c, u, h, m
<1>8. UpgradesInOrder(e, c + 1, IF u = 0 /\ h # 0 THEN c + 1 ELSE u, h, m, UpgradeTxs(new), sched)
  BY <1>4, <1>5, <1>7, CommitInOrder, Zenon
<1>9. ChainUpgrades(new, sched)
  BY <1>2, <1>6, <1>8, Zenon DEF ChainUpgrades, m
<1> QED
  BY <1>9, Zenon DEF new

\* executeBatchesSharedBridge.
LEMMA ExecuteKeepsUpgrades ==
    ASSUME NEW st \in ZKChainStorage, NEW sched, ChainUpgrades(st, sched), NEW n \in Nat,
           NEW cursor, st.totalBatchesExecuted + n <= st.totalBatchesCommitted
    PROVE  ChainUpgrades(Execute(st, n, cursor), sched)
<1> DEFINE new == Execute(st, n, cursor)
           e == st.totalBatchesExecuted
           c == st.totalBatchesCommitted
           u == st.l2SystemContractsUpgradeBatchNumber
           h == st.l2SystemContractsUpgradeTxHash
           m == Minor(st.protocolVersion)
           done == u # 0 /\ u <= e + n
<1>1. /\ new.totalBatchesExecuted = e + n /\ new.totalBatchesCommitted = c
      /\ new.storedBatchHashes = st.storedBatchHashes
      /\ new.protocolVersion = st.protocolVersion
      /\ new.l2SystemContractsUpgradeTxHash = IF UpgradeExecuted(st, e + n) THEN NoTx ELSE h
      /\ new.l2SystemContractsUpgradeBatchNumber = IF UpgradeExecuted(st, e + n) THEN 0 ELSE u
  BY Zenon DEF Execute, ZKChainStorage
<1>2. UpgradeExecuted(st, e + n) <=> done
  BY Zenon DEF UpgradeExecuted
<1>3. UpgradeTxs(new) = UpgradeTxs(st)
  BY <1>1, Zenon DEF UpgradeTxs
<1>4. UpgradesInOrder(e, c, u, h, m, UpgradeTxs(st), sched)
  BY Zenon DEF ChainUpgrades
<1>5. /\ new.l2SystemContractsUpgradeTxHash = IF done THEN 0 ELSE h
      /\ new.l2SystemContractsUpgradeBatchNumber = IF done THEN 0 ELSE u
      /\ Minor(new.protocolVersion) = m
  BY <1>1, <1>2, Zenon DEF NoTx
<1>6. e + n <= c
  BY Zenon
<1> HIDE DEF new, e, c, u, h, m
<1>7. UpgradesInOrder(e + n, c, IF done THEN 0 ELSE u, IF done THEN 0 ELSE h, m, UpgradeTxs(st), sched)
  BY <1>4, <1>6, ExecuteInOrder, Zenon
<1>8. ChainUpgrades(new, sched)
  BY <1>1, <1>3, <1>5, <1>7, Zenon DEF ChainUpgrades
<1> QED
  BY <1>8, Zenon DEF new

\* What a revert leaves behind.
LEMMA RevertKeepsUpgrades ==
    ASSUME NEW st \in ZKChainStorage, NEW new, NEW sched, ChainUpgrades(st, sched),
           NEW l \in Nat, st.totalBatchesExecuted <= l, l <= st.totalBatchesCommitted,
           new.totalBatchesExecuted = st.totalBatchesExecuted, new.totalBatchesCommitted = l,
           new.l2SystemContractsUpgradeBatchNumber =
               IF st.l2SystemContractsUpgradeBatchNumber > l
               THEN 0 ELSE st.l2SystemContractsUpgradeBatchNumber,
           new.protocolVersion = st.protocolVersion,
           new.l2SystemContractsUpgradeTxHash = st.l2SystemContractsUpgradeTxHash,
           KeepsBatches(st, new)
    PROVE  ChainUpgrades(new, sched)
<1>1. \A k \in 1 .. l : k \in 1 .. st.totalBatchesCommitted
  BY DEF ZKChainStorage
<1>2. \A k \in 1 .. l : UpgradeTxs(new)[k] = UpgradeTxs(st)[k]
  BY <1>1, Zenon DEF UpgradeTxs, KeepsBatches
<1> DEFINE e == st.totalBatchesExecuted
           c == st.totalBatchesCommitted
           u == st.l2SystemContractsUpgradeBatchNumber
           h == st.l2SystemContractsUpgradeTxHash
           m == Minor(st.protocolVersion)
<1>3. UpgradesInOrder(e, c, u, h, m, UpgradeTxs(st), sched) /\ e <= l /\ l <= c
  BY Zenon DEF ChainUpgrades
<1>4. UpgradesInOrder(new.totalBatchesExecuted, new.totalBatchesCommitted,
                      new.l2SystemContractsUpgradeBatchNumber, new.l2SystemContractsUpgradeTxHash,
                      Minor(new.protocolVersion), UpgradeTxs(new), sched)
      <=> UpgradesInOrder(e, l, IF u > l THEN 0 ELSE u, h, m, UpgradeTxs(new), sched)
  BY Zenon
<1> HIDE DEF e, c, u, h, m
<1>5. UpgradesInOrder(e, l, IF u > l THEN 0 ELSE u, h, m, UpgradeTxs(new), sched)
  BY <1>2, <1>3, RevertInOrder, SMTT(30)
<1> QED
  BY <1>4, <1>5, Zenon DEF ChainUpgrades

\* Initially the upgrade transaction of the first version is pending.
LEMMA InitUpgrades == Init => ChainUpgrades(s, scheduled)
<1> SUFFICES ASSUME Init PROVE ChainUpgrades(s, scheduled)
  BY Zenon
<1>1. /\ s.totalBatchesExecuted = 0 /\ s.totalBatchesCommitted = 0
      /\ s.l2SystemContractsUpgradeBatchNumber = 0
      /\ s.l2SystemContractsUpgradeTxHash = Minor(InitVersion)
      /\ s.protocolVersion = InitVersion /\ scheduled = {Minor(InitVersion)}
  BY Zenon DEF Init
<1>2. Minor(InitVersion) \in Nat /\ Minor(InitVersion) # 0
  <2>1. /\ PatchesPerMinor \in Nat \ {0} /\ InitVersion \in Nat
        /\ PatchesPerMinor <= InitVersion
    BY ConstantsAssumption, Zenon
  <2>2. Minor(PatchesPerMinor) <= Minor(InitVersion) /\ Minor(InitVersion) \in Nat
    BY <2>1, MinorMonotone, Zenon
  <2>3. Minor(PatchesPerMinor) = 1
    BY <2>1 DEF Minor
  <2> QED
    BY <2>2, <2>3
<1> QED
  BY <1>1, <1>2 DEF ChainUpgrades, UpgradesInOrder

\* Every transaction keeps the upgrades in order.
LEMMA NextUpgrades ==
    ASSUME SafetyInv, ChainUpgrades(s, scheduled), Next
    PROVE  ChainUpgrades(s', scheduled')
<1>1. /\ s \in ZKChainStorage /\ now \in Nat /\ InitTime <= now
      /\ s.totalBatchesExecuted \in Nat /\ s.totalBatchesVerified \in Nat
      /\ s.totalBatchesCommitted \in Nat
      /\ s.totalBatchesExecuted <= s.totalBatchesVerified
      /\ s.totalBatchesVerified <= s.totalBatchesCommitted
  <2>1. TypeOK /\ TimeOK /\ CountersOrdered
    BY Zenon DEF SafetyInv
  <2>2. s \in ZKChainStorage /\ now \in Nat /\ InitTime <= now
    BY <2>1, Zenon DEF TypeOK, TimeOK
  <2> QED
    BY <2>1, <2>2, Types, Zenon DEF CountersOrdered
<1>2. /\ 1 .. MaxBatches \subseteq Nat /\ 0 .. MaxBatches \subseteq Nat
      /\ 0 .. MaxVersion \subseteq Nat /\ VerifiedCounts \subseteq Nat /\ 1 \in Nat
  BY ConstantsAssumption DEF VerifiedCounts
<1>same. ASSUME NEW new, KeepsCounters(s, new), KeepsBatches(s, new), KeepsUpgrade(s, new),
                s' = new, scheduled' = scheduled
         PROVE  ChainUpgrades(s', scheduled')
  BY <1>same, SameUpgrades, Zenon DEF KeepsCounters
<1>commit. ASSUME NEW sender, NEW active, NEW b \in NewBatches,
                  s.totalBatchesCommitted < MaxBatches, CanCommit(s, sender, active, b, now)
           PROVE  ChainUpgrades(Commit(s, b), scheduled) /\ CommitResult(s, b, Commit(s, b))
  <2>1. b \in Batch /\ b.batchNumber = s.totalBatchesCommitted + 1
    BY <1>1, NewBatchType, Zenon
  <2>2. b.upgradeTx = ExpectedUpgradeTx(s)
    BY <1>commit, Zenon DEF CanCommit, commitOneBatchEra, commitOneBatchZKsyncOS
  <2> QED
    BY <1>1, <1>commit, <2>1, <2>2, CommitKeepsUpgrades, CommitEffect, Zenon
<1>revert. ASSUME NEW sender, NEW l \in Nat, revertBatchesSharedBridge(sender, l)
           PROVE  ChainUpgrades(s', scheduled')
  <2>1. /\ s' = RevertBatches(s, l) /\ scheduled' = scheduled
        /\ s.totalBatchesExecuted <= l /\ l <= s.totalBatchesCommitted
    BY <1>revert, Zenon DEF revertBatchesSharedBridge, CanRevert, CanRevertBatches
  <2>2. /\ s'.totalBatchesExecuted = s.totalBatchesExecuted /\ s'.totalBatchesCommitted = l
        /\ s'.l2SystemContractsUpgradeBatchNumber =
              IF s.l2SystemContractsUpgradeBatchNumber > l
              THEN 0 ELSE s.l2SystemContractsUpgradeBatchNumber
        /\ s'.protocolVersion = s.protocolVersion
        /\ s'.l2SystemContractsUpgradeTxHash = s.l2SystemContractsUpgradeTxHash
        /\ KeepsBatches(s, s')
    BY <1>1, <2>1, RevertEffect, ZenonT(40)
  <2> QED
    BY <1>1, <2>1, <2>2, RevertKeepsUpgrades, ZenonT(40)
<1>3. CASE \E v \in Validators, chunk \in Chunks : precommitSharedBridge(v, chunk)
  <2>1. PICK chunk \in Chunks : s' = Precommit(s, chunk) /\ scheduled' = scheduled
    BY <1>3, Zenon DEF precommitSharedBridge
  <2>2. KeepsCounters(s, s') /\ KeepsBatches(s, s') /\ KeepsUpgrade(s, s')
    BY <1>1, <2>1, PrecommitEffect, Zenon
  <2> QED
    BY <1>same, <2>1, <2>2, Zenon
<1>4. CASE \E v \in Validators, active \in BOOLEAN, b \in NewBatches :
              commitBatchesSharedBridge(v, active, b)
  BY <1>4, <1>commit, Zenon DEF commitBatchesSharedBridge
<1>5. CASE \E v \in Validators, n \in 1 .. MaxBatches : proveBatchesSharedBridge(v, n)
  <2>1. PICK n \in Nat : s' = Prove(s, n) /\ scheduled' = scheduled
    BY <1>2, <1>5, Zenon DEF proveBatchesSharedBridge
  <2>2. /\ s'.totalBatchesExecuted = s.totalBatchesExecuted
        /\ s'.totalBatchesCommitted = s.totalBatchesCommitted
        /\ KeepsBatches(s, s') /\ KeepsUpgrade(s, s')
    BY <1>1, <2>1, ProveEffect, Zenon
  <2> QED
    BY <2>1, <2>2, SameUpgrades, Zenon
<1>6. CASE \E v \in Validators, n \in VerifiedCounts :
              \E cursor \in Cursors(s.totalBatchesExecuted, n) :
                 executeBatchesSharedBridge(v, n, cursor)
  <2>1. PICK n \in Nat : \E cursor \in Cursors(s.totalBatchesExecuted, n) :
          /\ s.totalBatchesExecuted + n <= s.totalBatchesVerified
          /\ s' = Execute(s, n, cursor) /\ scheduled' = scheduled
    BY <1>2, <1>6, Zenon DEF executeBatchesSharedBridge, CanExecute
  <2>2. s.totalBatchesExecuted + n <= s.totalBatchesCommitted
    BY <1>1, <2>1
  <2> QED
    BY <1>1, <2>1, <2>2, ExecuteKeepsUpgrades, Zenon
<1>7. CASE SettleStep
  <2>1. PICK active \in BOOLEAN, b \in NewBatches, cursor \in Cursors(s.totalBatchesExecuted, 1) :
          settleBatchesSharedBridge(active, b, cursor)
    BY <1>7, Zenon DEF SettleStep
  <2> DEFINE committed == Commit(s, b)
             verified == Prove(committed, 1)
  <2>2. /\ s.totalBatchesCommitted < MaxBatches
        /\ CanCommit(s, PermissionlessValidator, active, b, now)
        /\ committed.totalBatchesExecuted + 1 = b.batchNumber
        /\ s' = Execute(verified, 1, cursor) /\ scheduled' = scheduled
    BY <2>1, Zenon DEF settleBatchesSharedBridge
  <2>3. ChainUpgrades(committed, scheduled) /\ CommitResult(s, b, committed)
    BY <1>commit, <2>2, Zenon
  <2> HIDE DEF committed
  <2>4. committed \in ZKChainStorage /\ committed.totalBatchesCommitted = s.totalBatchesCommitted + 1
    BY <2>3, Zenon DEF CommitResult
  <2>5. /\ verified \in ZKChainStorage
        /\ verified.totalBatchesExecuted = committed.totalBatchesExecuted
        /\ verified.totalBatchesCommitted = committed.totalBatchesCommitted
        /\ KeepsBatches(committed, verified) /\ KeepsUpgrade(committed, verified)
    BY <1>2, <2>4, ProveEffect, Zenon
  <2> HIDE DEF verified
  <2>6. ChainUpgrades(verified, scheduled)
    BY <2>3, <2>5, SameUpgrades, Zenon
  <2>7. b.batchNumber = s.totalBatchesCommitted + 1
    BY <1>1, NewBatchType, Zenon
  <2>8. verified.totalBatchesExecuted + 1 <= verified.totalBatchesCommitted
    <3>1. /\ verified.totalBatchesExecuted + 1 = s.totalBatchesCommitted + 1
          /\ verified.totalBatchesCommitted = s.totalBatchesCommitted + 1
      BY <2>2, <2>4, <2>5, <2>7, Zenon
    <3> QED
      BY <1>1, <3>1
  <2> QED
    BY <1>2, <2>2, <2>5, <2>6, <2>8, ExecuteKeepsUpgrades, Zenon
<1>8. CASE \/ \E v \in Validators, l \in 0 .. MaxBatches : revertBatchesSharedBridge(v, l)
           \/ \E l \in 0 .. MaxBatches : revertBatchesSharedBridge(ChainTypeManager, l)
  BY <1>2, <1>8, <1>revert, Zenon
<1>9. CASE requestL2Transaction
  <2>1. nextPriorityTxId(s) \in Nat
    BY <1>1, SMTT(30) DEF ZKChainStorage, Tree, nextPriorityTxId, getTotalPriorityTxs
  <2>2. s' = WritePriorityOpHash(s, nextPriorityTxId(s), now) /\ scheduled' = scheduled
    BY <1>9, Zenon DEF requestL2Transaction, historyVars
  <2>3. KeepsCounters(s, s') /\ KeepsBatches(s, s') /\ KeepsUpgrade(s, s')
    BY <1>1, <2>1, <2>2, WritePriorityOpHashEffect, ZenonT(40)
  <2> QED
    BY <1>same, <2>2, <2>3, Zenon
<1>10. CASE activatePriorityMode
  <2>1. s' = ActivatePriorityMode(s) /\ scheduled' = scheduled
    BY <1>10, Zenon DEF activatePriorityMode
  <2>2. /\ s'.totalBatchesExecuted = s.totalBatchesExecuted
        /\ s'.totalBatchesCommitted = s.totalBatchesExecuted
        /\ s'.l2SystemContractsUpgradeBatchNumber =
              IF s.l2SystemContractsUpgradeBatchNumber > s.totalBatchesExecuted
              THEN 0 ELSE s.l2SystemContractsUpgradeBatchNumber
        /\ s'.protocolVersion = s.protocolVersion
        /\ s'.l2SystemContractsUpgradeTxHash = s.l2SystemContractsUpgradeTxHash
        /\ KeepsBatches(s, s')
    BY <1>1, <2>1, ActivateEffect, ZenonT(40)
  <2>3. /\ s.totalBatchesExecuted <= s.totalBatchesExecuted
        /\ s.totalBatchesExecuted <= s.totalBatchesCommitted
    BY <1>1
  <2> QED
    BY <1>1, <2>1, <2>2, <2>3, RevertKeepsUpgrades, ZenonT(40)
<1>11. CASE \/ AdminStep \/ deactivatePriorityMode
            \/ \E v \in Validators, isActive \in BOOLEAN : setValidator(v, isActive)
  <2>1. \/ s' = PauseDeposits(s, now)
        \/ s' = MakePermanentRollup(s) \/ s' = PermanentlyAllowPriorityMode(s)
        \/ s' = DeactivatePriorityMode(s) \/ s' = UnpauseDeposits(s)
        \/ \E v \in Validators, isActive \in BOOLEAN : s' = SetValidator(s, v, isActive)
    BY <1>11, Zenon DEF AdminStep, makePermanentRollup, permanentlyAllowPriorityMode, unpauseDeposits,
                 deactivatePriorityMode, setValidator, pauseDepositsBeforeInitiatingMigration
  <2>2. UNCHANGED historyVars
    BY <1>11, Zenon DEF AdminStep, makePermanentRollup, permanentlyAllowPriorityMode, unpauseDeposits,
                 deactivatePriorityMode, setValidator, pauseDepositsBeforeInitiatingMigration
  <2>3. scheduled' = scheduled
    BY <2>2, Zenon DEF historyVars
  <2>4. KeepsCounters(s, s') /\ KeepsBatches(s, s') /\ KeepsUpgrade(s, s')
    BY <1>1, <2>1, SwitchEffect, PauseEffect, Zenon
  <2> QED
    BY <1>same, <2>3, <2>4, Zenon
<1>12. CASE \E newVersion \in 0 .. MaxVersion, tx \in BOOLEAN : upgradeChainFromVersion(newVersion, tx)
  <2>1. PICK v \in Nat, tx \in BOOLEAN :
          /\ CanUpgrade(s, v, tx) /\ s' = Upgrade(s, v, tx)
          /\ scheduled' = IF tx THEN scheduled \cup {Minor(v)} ELSE scheduled
    BY <1>2, <1>12, Zenon DEF upgradeChainFromVersion
  <2>2. /\ KeepsCounters(s, s') /\ KeepsBatches(s, s')
        /\ s'.protocolVersion = v
        /\ s'.l2SystemContractsUpgradeTxHash =
              IF tx THEN Minor(v) ELSE s.l2SystemContractsUpgradeTxHash
        /\ s'.l2SystemContractsUpgradeBatchNumber = s.l2SystemContractsUpgradeBatchNumber
    BY <1>1, <2>1, UpgradeEffect, ZenonT(40)
  <2> DEFINE e == s.totalBatchesExecuted
             c == s.totalBatchesCommitted
             u == s.l2SystemContractsUpgradeBatchNumber
             h == s.l2SystemContractsUpgradeTxHash
             m == Minor(s.protocolVersion)
             w == Minor(v)
             f == UpgradeTxs(s)
  <2>3. m <= w /\ w \in Nat
    <3>1. s.protocolVersion \in Nat /\ s.protocolVersion <= v
      BY <1>1, <2>1 DEF CanUpgrade, ZKChainStorage
    <3> QED
      BY <3>1, MinorMonotone, Zenon
  <2>4. (w # m => h = 0 /\ u = 0) /\ (tx => w # m)
    BY <2>1, Zenon DEF CanUpgrade, NoTx
  <2>5. UpgradesInOrder(e, c, u, h, m, f, scheduled)
    BY Zenon DEF ChainUpgrades
  <2>6. UpgradeTxs(s') = f
    BY <2>2, Zenon DEF UpgradeTxs, KeepsCounters, KeepsBatches
  <2>7. ChainUpgrades(s', scheduled')
        <=> UpgradesInOrder(e, c, u, IF tx THEN w ELSE h, w, f,
                            IF tx THEN scheduled \cup {w} ELSE scheduled)
    BY <2>1, <2>2, <2>6, Zenon DEF ChainUpgrades, KeepsCounters
  <2> HIDE DEF e, c, u, h, m, w, f
  <2> QED
    BY <2>3, <2>4, <2>5, <2>7, ScheduleInOrder, Zenon
<1>13. CASE Tick
  BY <1>13, Zenon DEF Tick, historyVars
<1>14. CASE ValidatorStep
  BY <1>3, <1>4, <1>5, <1>6, <1>8, <1>14, Zenon DEF ValidatorStep
<1>15. CASE GovernanceStep
  BY <1>8, <1>11, <1>12, <1>15, Zenon DEF GovernanceStep
<1> QED
  BY <1>7, <1>9, <1>10, <1>11, <1>13, <1>14, <1>15, Zenon DEF Next, UserStep

\* Upgrade transactions stay in order in every reachable state.
LEMMA UpgradesStayInOrder == Spec => []ChainUpgrades(s, scheduled)
<1>1. SafetyInv /\ ChainUpgrades(s, scheduled) /\ [Next]_vars => ChainUpgrades(s, scheduled)'
  <2>1. CASE Next
    BY <2>1, NextUpgrades, Zenon
  <2>2. CASE UNCHANGED vars
    BY <2>2, Zenon DEF vars
  <2> QED
    BY <2>1, <2>2, Zenon
<1> QED
  BY <1>1, InitUpgrades, SafetyInvariance, PTL DEF Spec

\* Every upgrade transaction the CTM schedules is executed once: it stays pending
\* until a batch with it is executed, and no second batch can contain it,
\* whatever is reverted in between (l2SystemContractsUpgradeTxHash and
\* l2SystemContractsUpgradeBatchNumber).
THEOREM UpgradesExactlyOnce == Spec => []UpgradeExactlyOnce
<1>1. SafetyInv /\ ChainUpgrades(s, scheduled) => UpgradeExactlyOnce
  <2> SUFFICES ASSUME SafetyInv, ChainUpgrades(s, scheduled) PROVE UpgradeExactlyOnce
    BY Zenon
  <2>1. /\ s.totalBatchesExecuted \in Nat /\ s.totalBatchesCommitted \in Nat
        /\ s.totalBatchesExecuted <= s.totalBatchesCommitted
    BY Zenon DEF ChainUpgrades, UpgradesInOrder
  <2>2. \A k \in 1 .. s.totalBatchesExecuted : k \in 1 .. s.totalBatchesCommitted
    BY <2>1
  <2>3. \A k \in 1 .. s.totalBatchesCommitted : UpgradeTxs(s)[k] = s.storedBatchHashes[k].upgradeTx
    BY Zenon DEF UpgradeTxs
  <2>4. \A t \in scheduled : \/ t = s.l2SystemContractsUpgradeTxHash
                             \/ \E k \in 1 .. s.totalBatchesExecuted : UpgradeTxs(s)[k] = t
    BY Zenon DEF ChainUpgrades, UpgradesInOrder
  <2>5. \A i, j \in 1 .. s.totalBatchesCommitted :
           UpgradeTxs(s)[i] # 0 /\ UpgradeTxs(s)[i] = UpgradeTxs(s)[j] => i = j
    BY Zenon DEF ChainUpgrades, UpgradesInOrder
  <2>6. \A t \in scheduled :
           \/ t = s.l2SystemContractsUpgradeTxHash
           \/ \E k \in 1 .. s.totalBatchesExecuted : s.storedBatchHashes[k].upgradeTx = t
    BY <2>2, <2>3, <2>4, Zenon
  <2>7. \A i, j \in 1 .. s.totalBatchesCommitted :
           /\ s.storedBatchHashes[i].upgradeTx # NoTx
           /\ s.storedBatchHashes[i].upgradeTx = s.storedBatchHashes[j].upgradeTx
           => i = j
    BY <2>3, <2>5, Zenon DEF NoTx
  <2> QED
    BY <2>6, <2>7, Zenon DEF UpgradeExactlyOnce
<1> QED
  BY <1>1, SafetyInvariance, UpgradesStayInOrder, PTL

(***************************************************************************)
(* The timelock restricts who calls the chain and when, and nothing else.  *)
(***************************************************************************)

\* Each transaction is one of the chain's, or leaves the chain alone.
LEMMA TimelockStepIsChainStep == [TimelockNext]_allVars => [Next]_vars
<1> SUFFICES ASSUME [TimelockNext]_allVars PROVE [Next]_vars
  BY Zenon
<1>v. Timelock \in Validators
  BY TimelockAssumption, Zenon
<1>1. CASE \E chunk \in Chunks : precommit(chunk)
  BY <1>v, <1>1, Zenon DEF precommit, Next, ValidatorStep
<1>2. CASE \E from, to \in 0 .. MaxBatches, active \in BOOLEAN, b \in NewBatches :
              commit(from, to, active, b)
  BY <1>v, <1>2, Zenon DEF commit, Next, ValidatorStep
<1>3. CASE \E n \in 1 .. MaxBatches : prove(n)
  BY <1>v, <1>3, Zenon DEF prove, Next, ValidatorStep
<1>4. CASE \E from, to \in 0 .. MaxBatches, n \in VerifiedCounts :
              \E cursor \in Cursors(s.totalBatchesExecuted, n) : execute(from, to, n, cursor)
  BY <1>v, <1>4, Zenon DEF execute, Next, ValidatorStep
<1>5. CASE \E newLastBatch \in 0 .. MaxBatches : revert(newLastBatch)
  BY <1>v, <1>5, Zenon DEF revert, Next, ValidatorStep
<1>6. CASE \E delay \in Delays : setExecutionDelay(delay)
  BY <1>6, Zenon DEF setExecutionDelay
<1>7. CASE settle
  BY <1>7, Zenon DEF settle, Next, UserStep
<1>8. CASE Direct
  BY <1>8, Zenon DEF Direct, Next, UserStep
<1>9. CASE UNCHANGED allVars
  BY <1>9, Zenon DEF allVars
<1> QED
  BY <1>1, <1>2, <1>3, <1>4, <1>5, <1>6, <1>7, <1>8, <1>9, Zenon DEF TimelockNext

\* A chain whose only validator address is the timelock behaves as ZKChain says:
\* the forwarded calls are calls of a validator.
THEOREM TimelockImplementsChain == TimelockSpec => Spec
<1>1. TimelockInit => Init
  BY Zenon DEF TimelockInit
<1> QED
  BY <1>1, TimelockStepIsChainStep, PTL DEF TimelockSpec, Spec

\* The invariant of the chain, for the specification the runs check.
THEOREM TimelockSafety == TimelockSpec => []SafetyInv
BY TimelockImplementsChain, SafetyInvariance, PTL

(***************************************************************************)
(* The delay.                                                              *)
(***************************************************************************)

\* For every batch that waits for its execution, the timestamp the timelock
\* keeps under its number is the time at which that batch was committed: a batch
\* committed again after a revert gets a new timestamp, and a batch that was
\* committed past the timelock never waits.
TimelockInv ==
    /\ now <= MaxTime
    /\ executionDelay \in Nat
    /\ committedBatchTimestamp \in [0 .. MaxBatches -> Nat]
    /\ committedAt \in [0 .. MaxBatches -> Nat]
    /\ \A k \in s.totalBatchesExecuted + 1 .. s.totalBatchesCommitted :
          committedBatchTimestamp[k] = committedAt[k]

\* A step that executes no batch and commits none.
Quiet(old, new) ==
    /\ new.totalBatchesExecuted = old.totalBatchesExecuted
    /\ new.totalBatchesCommitted \in Nat
    /\ new.totalBatchesCommitted <= old.totalBatchesCommitted

\* What the proofs below use of the chain's invariant.
LEMMA ChainFacts ==
    ASSUME SafetyInv
    PROVE  /\ s \in ZKChainStorage /\ now \in Nat /\ InitTime <= now
           /\ s.totalBatchesExecuted \in Nat /\ s.totalBatchesVerified \in Nat
           /\ s.totalBatchesCommitted \in Nat /\ MaxBatches \in Nat
           /\ s.totalBatchesExecuted <= s.totalBatchesVerified
           /\ s.totalBatchesVerified <= s.totalBatchesCommitted
           /\ s.totalBatchesCommitted <= MaxBatches
<1>1. TypeOK /\ TimeOK /\ CountersOrdered
  BY Zenon DEF SafetyInv
<1>2. s \in ZKChainStorage /\ now \in Nat /\ InitTime <= now
  BY <1>1, Zenon DEF TypeOK, TimeOK
<1> QED
  BY <1>1, <1>2, Types, Zenon DEF CountersOrdered

\* Reverts and activations of Priority Mode lower totalBatchesCommitted, and
\* only commits raise it.
LEMMA QuietSteps ==
    ASSUME SafetyInv,
           \/ \E chunk \in Chunks : precommit(chunk)
           \/ \E n \in 1 .. MaxBatches : prove(n)
           \/ \E newLastBatch \in 0 .. MaxBatches : revert(newLastBatch)
           \/ Direct
    PROVE  Quiet(s, s')
<1>1. /\ s \in ZKChainStorage /\ now \in Nat /\ InitTime <= now
      /\ s.totalBatchesExecuted \in Nat /\ s.totalBatchesCommitted \in Nat
      /\ s.totalBatchesExecuted <= s.totalBatchesCommitted
      /\ 0 .. MaxBatches \subseteq Nat /\ 1 .. MaxBatches \subseteq Nat
      /\ 0 .. MaxVersion \subseteq Nat
  <2>1. /\ s.totalBatchesExecuted \in Nat /\ s.totalBatchesVerified \in Nat
        /\ s.totalBatchesCommitted \in Nat
        /\ s.totalBatchesExecuted <= s.totalBatchesVerified
        /\ s.totalBatchesVerified <= s.totalBatchesCommitted
    BY ChainFacts, Zenon
  <2>2. s.totalBatchesExecuted <= s.totalBatchesCommitted
    BY <2>1
  <2>3. 0 .. MaxBatches \subseteq Nat /\ 1 .. MaxBatches \subseteq Nat /\ 0 .. MaxVersion \subseteq Nat
    BY ConstantsAssumption
  <2> QED
    BY <2>1, <2>2, <2>3, ChainFacts, Zenon
<1>2. ASSUME NEW new, KeepsCounters(s, new) PROVE Quiet(s, new)
  <2>1. s.totalBatchesCommitted <= s.totalBatchesCommitted
    BY <1>1
  <2> QED
    BY <1>1, <1>2, <2>1, Zenon DEF KeepsCounters, Quiet
<1>3. ASSUME NEW newLastBatch \in Nat, NEW sender,
             revertBatchesSharedBridge(sender, newLastBatch)
      PROVE  Quiet(s, s')
  <2>1. s' = RevertBatches(s, newLastBatch) /\ newLastBatch <= s.totalBatchesCommitted
    BY <1>3, Zenon DEF revertBatchesSharedBridge, CanRevert, CanRevertBatches
  <2>2. s'.totalBatchesExecuted = s.totalBatchesExecuted /\ s'.totalBatchesCommitted = newLastBatch
    BY <1>1, <2>1, RevertEffect, ZenonT(40)
  <2> QED
    BY <2>1, <2>2, Zenon DEF Quiet
<1>4. CASE \E chunk \in Chunks : precommit(chunk)
  <2>1. PICK chunk \in Chunks : s' = Precommit(s, chunk)
    BY <1>4, Zenon DEF precommit, precommitSharedBridge
  <2>2. KeepsCounters(s, s')
    BY <1>1, <2>1, PrecommitEffect, Zenon
  <2> QED
    BY <1>2, <2>2, Zenon
<1>5. CASE \E n \in 1 .. MaxBatches : prove(n)
  <2>1. PICK n \in Nat : s' = Prove(s, n)
    BY <1>1, <1>5, Zenon DEF prove, proveBatchesSharedBridge
  <2>2. /\ s'.totalBatchesExecuted = s.totalBatchesExecuted
        /\ s'.totalBatchesCommitted = s.totalBatchesCommitted
    BY <1>1, <2>1, ProveEffect, Zenon
  <2>3. s.totalBatchesCommitted <= s.totalBatchesCommitted
    BY <1>1
  <2> QED
    BY <1>1, <2>2, <2>3, Zenon DEF Quiet
<1>6. CASE \E newLastBatch \in 0 .. MaxBatches : revert(newLastBatch)
  BY <1>1, <1>3, <1>6, Zenon DEF revert
<1>7. CASE requestL2Transaction
  <2>1. nextPriorityTxId(s) \in Nat
    BY <1>1, SMTT(30) DEF ZKChainStorage, Tree, nextPriorityTxId, getTotalPriorityTxs
  <2>2. KeepsCounters(s, s')
    BY <1>1, <1>7, <2>1, WritePriorityOpHashEffect, ZenonT(40) DEF requestL2Transaction
  <2> QED
    BY <1>2, <2>2, Zenon
<1>8. CASE activatePriorityMode
  <2>1. s' = ActivatePriorityMode(s)
    BY <1>8, Zenon DEF activatePriorityMode
  <2>2. /\ s'.totalBatchesExecuted = s.totalBatchesExecuted
        /\ s'.totalBatchesCommitted = s.totalBatchesExecuted
    BY <1>1, <2>1, ActivateEffect, Zenon
  <2> QED
    BY <1>1, <2>2, Zenon DEF Quiet
<1>9. CASE \/ AdminStep \/ deactivatePriorityMode
           \/ \E v \in Validators, isActive \in BOOLEAN : setValidator(v, isActive)
  <2>1. \/ s' = PauseDeposits(s, now)
        \/ s' = MakePermanentRollup(s) \/ s' = PermanentlyAllowPriorityMode(s)
        \/ s' = DeactivatePriorityMode(s) \/ s' = UnpauseDeposits(s)
        \/ \E v \in Validators, isActive \in BOOLEAN : s' = SetValidator(s, v, isActive)
    BY <1>9, Zenon DEF AdminStep, makePermanentRollup, permanentlyAllowPriorityMode, unpauseDeposits,
                 deactivatePriorityMode, setValidator, pauseDepositsBeforeInitiatingMigration
  <2>2. KeepsCounters(s, s')
    BY <1>1, <2>1, SwitchEffect, PauseEffect, Zenon
  <2> QED
    BY <1>2, <2>2, Zenon
<1>10. CASE \E newVersion \in 0 .. MaxVersion, tx \in BOOLEAN : upgradeChainFromVersion(newVersion, tx)
  <2>1. PICK newVersion \in Nat, tx \in BOOLEAN : s' = Upgrade(s, newVersion, tx)
    BY <1>1, <1>10, Zenon DEF upgradeChainFromVersion
  <2>2. KeepsCounters(s, s')
    BY <1>1, <2>1, UpgradeEffect, Zenon
  <2> QED
    BY <1>2, <2>2, Zenon
<1>11. CASE Tick
  <2>1. s' = s
    BY <1>11, Zenon DEF Tick
  <2> QED
    BY <1>1, <2>1 DEF Quiet
<1>12. CASE GovernanceStep
  BY <1>1, <1>3, <1>9, <1>10, <1>12, Zenon DEF GovernanceStep
<1> QED
  BY <1>4, <1>5, <1>6, <1>7, <1>8, <1>9, <1>11, <1>12, Zenon DEF Direct

\* A commit through the timelock notes the time under the number of the batch it
\* adds and leaves the other batches' timestamps alone.
LEMMA CommitKeepsTimestamps ==
    ASSUME SafetyInv, TimelockInv, NEW from, NEW to, NEW active, NEW b \in NewBatches,
           commit(from, to, active, b)
    PROVE  /\ TimelockInv'
           /\ s'.totalBatchesExecuted = s.totalBatchesExecuted
<1> DEFINE k0 == s.totalBatchesCommitted + 1
<1>1. /\ s \in ZKChainStorage /\ now \in Nat /\ now <= MaxTime /\ MaxBatches \in Nat
      /\ s.totalBatchesExecuted \in Nat /\ s.totalBatchesCommitted \in Nat
      /\ executionDelay \in Nat
      /\ committedBatchTimestamp \in [0 .. MaxBatches -> Nat]
      /\ committedAt \in [0 .. MaxBatches -> Nat]
      /\ \A k \in s.totalBatchesExecuted + 1 .. s.totalBatchesCommitted :
            committedBatchTimestamp[k] = committedAt[k]
  BY ChainFacts, Zenon DEF TimelockInv
<1>2. b \in Batch /\ b.batchNumber = k0
  BY <1>1, NewBatchType, Zenon
<1>3. /\ from = b.batchNumber /\ to = b.batchNumber
      /\ committedBatchTimestamp' = recordBatchCommitment(from, to)
      /\ committedAt' = [committedAt EXCEPT ![b.batchNumber] = now]
      /\ executionDelay' = executionDelay
      /\ s.totalBatchesCommitted < MaxBatches /\ s' = Commit(s, b) /\ now' = now
  BY Zenon DEF commit, CheckBatchBounds, commitBatchesSharedBridge
<1>4. /\ s'.totalBatchesExecuted = s.totalBatchesExecuted
      /\ s'.totalBatchesCommitted = k0
  BY <1>1, <1>2, <1>3, CommitEffect, Zenon DEF CommitResult
<1>5. now % Uint32 = now
  <2>1. Uint32 \in Nat /\ MaxTime \in Nat /\ MaxTime < Uint32
    BY TimelockAssumption, ConstantsAssumption, Zenon
  <2>2. now \in Nat /\ now <= MaxTime
    BY <1>1, Zenon
  <2> QED
    BY <2>1, <2>2, SMTT(30)
<1>6. committedBatchTimestamp' = [k \in 0 .. MaxBatches |->
                                     IF k = k0 THEN now ELSE committedBatchTimestamp[k]]
  <2>1. DOMAIN committedBatchTimestamp = 0 .. MaxBatches
    BY <1>1, Zenon
  <2>2. \A k \in 0 .. MaxBatches : k \in k0 .. k0 <=> k = k0
    BY <1>1
  <2> QED
    BY <1>2, <1>3, <1>5, <2>1, <2>2, Zenon DEF recordBatchCommitment
<1>7. committedAt' = [committedAt EXCEPT ![k0] = now]
  BY <1>2, <1>3, Zenon
<1>8. /\ committedBatchTimestamp' \in [0 .. MaxBatches -> Nat]
      /\ committedAt' \in [0 .. MaxBatches -> Nat]
  BY <1>1, <1>6, <1>7, Zenon
<1>9. ASSUME NEW k \in s.totalBatchesExecuted + 1 .. k0
      PROVE  committedBatchTimestamp'[k] = committedAt'[k]
  <2>n. /\ s.totalBatchesExecuted \in Nat /\ s.totalBatchesCommitted \in Nat /\ MaxBatches \in Nat
        /\ s.totalBatchesCommitted < MaxBatches
    BY <1>1, <1>3, Zenon
  <2>1. k \in 0 .. MaxBatches /\ k0 \in 0 .. MaxBatches
    BY <1>9, <2>n, SMTT(30)
  <2>2. CASE k = k0
    BY <1>1, <1>6, <1>7, <2>1, <2>2, Zenon
  <2>3. CASE k # k0
    <3>1. k \in s.totalBatchesExecuted + 1 .. s.totalBatchesCommitted
      BY <1>1, <1>9, <2>3
    <3> QED
      BY <1>1, <1>6, <1>7, <2>1, <2>3, <3>1, Zenon
  <2> QED
    BY <2>2, <2>3, Zenon
<1> QED
  BY <1>1, <1>3, <1>4, <1>8, <1>9, Zenon DEF TimelockInv

\* An execution through the timelock takes batches off the waiting ones, each of
\* which has waited.
LEMMA ExecuteWaits ==
    ASSUME SafetyInv, TimelockInv, NEW from, NEW to, NEW n \in Nat, NEW cursor,
           execute(from, to, n, cursor)
    PROVE  /\ TimelockInv'
           /\ \A k \in s.totalBatchesExecuted + 1 .. s'.totalBatchesExecuted :
                 now >= committedAt[k] + executionDelay
<1> DEFINE executed == s.totalBatchesExecuted
           committed == s.totalBatchesCommitted
<1>1. /\ s \in ZKChainStorage /\ MaxBatches \in Nat
      /\ executed \in Nat /\ committed \in Nat /\ s.totalBatchesVerified \in Nat
      /\ s.totalBatchesVerified <= committed /\ committed <= MaxBatches
      /\ committedBatchTimestamp \in [0 .. MaxBatches -> Nat]
      /\ \A k \in executed + 1 .. committed : committedBatchTimestamp[k] = committedAt[k]
  BY ChainFacts, Zenon DEF TimelockInv
<1>2. /\ from = executed + 1 /\ to = executed + n
      /\ DelayPassed(from, to)
      /\ executed + n <= s.totalBatchesVerified
      /\ s' = Execute(s, n, cursor) /\ now' = now /\ UNCHANGED timelockVars
  BY Zenon DEF execute, CheckBatchBounds, executeBatchesSharedBridge, CanExecute
<1>3. s'.totalBatchesExecuted = executed + n /\ s'.totalBatchesCommitted = committed
  BY <1>1, <1>2, Zenon DEF Execute, ZKChainStorage
<1>4. \A k \in executed + 1 .. executed + n :
         k \in (from .. to) \cap DOMAIN committedBatchTimestamp /\ k \in executed + 1 .. committed
  <2>1. DOMAIN committedBatchTimestamp = 0 .. MaxBatches
    BY <1>1, Zenon
  <2>2. /\ MaxBatches \in Nat /\ executed \in Nat /\ committed \in Nat
        /\ s.totalBatchesVerified \in Nat
        /\ executed + n <= s.totalBatchesVerified
        /\ s.totalBatchesVerified <= committed /\ committed <= MaxBatches
    BY <1>1, <1>2, Zenon
  <2> HIDE DEF executed, committed
  <2>3. \A k \in executed + 1 .. executed + n :
           k \in 0 .. MaxBatches /\ k \in executed + 1 .. committed
    BY <2>2, SMTT(30)
  <2> QED
    BY <1>2, <2>1, <2>3, Zenon
<1>5. \A k \in executed + 1 .. executed + n : now >= committedAt[k] + executionDelay
  BY <1>1, <1>2, <1>4, Zenon DEF DelayPassed
<1>6. executed + n + 1 .. committed \subseteq executed + 1 .. committed
  BY <1>1
<1>7. /\ executionDelay' = executionDelay /\ committedBatchTimestamp' = committedBatchTimestamp
      /\ committedAt' = committedAt
  BY <1>2, Zenon DEF timelockVars
<1>8. \A k \in s'.totalBatchesExecuted + 1 .. s'.totalBatchesCommitted :
         committedBatchTimestamp'[k] = committedAt'[k]
  BY <1>1, <1>3, <1>6, <1>7, Zenon
<1>9. TimelockInv'
  BY <1>2, <1>7, <1>8, Zenon DEF TimelockInv
<1> QED
  BY <1>3, <1>5, <1>9, Zenon

\* The PermissionlessValidator settles in Priority Mode only, and afterwards no
\* batch waits.
LEMMA SettleLeavesNoneWaiting ==
    ASSUME SafetyInv, TimelockInv, settle
    PROVE  TimelockInv' /\ s.priorityModeInfo.activated
<1>1. /\ s \in ZKChainStorage /\ now \in Nat /\ MaxBatches \in Nat
      /\ s.totalBatchesExecuted \in Nat /\ s.totalBatchesCommitted \in Nat
      /\ committedAt \in [0 .. MaxBatches -> Nat]
  BY ChainFacts, Zenon DEF TimelockInv
<1>2. s.priorityModeInfo.activated
  <2>1. s.validators \subseteq Validators
    BY <1>1, Zenon DEF ZKChainStorage
  <2>2. onlyValidatorOrPriorityMode(s, PermissionlessValidator)
    BY Zenon DEF settle, SettleStep
  <2>3. PermissionlessValidator \notin Validators
    BY ConstantsAssumption, Zenon
  <2> QED
    BY <2>1, <2>2, <2>3, Zenon DEF onlyValidatorOrPriorityMode
<1>3. PICK b \in NewBatches, cursor \in Cursors(s.totalBatchesExecuted, 1) :
        /\ Commit(s, b).totalBatchesExecuted + 1 = b.batchNumber
        /\ s' = Execute(Prove(Commit(s, b), 1), 1, cursor) /\ now' = now
  BY Zenon DEF settle, SettleStep, settleBatchesSharedBridge
<1>4. b \in Batch /\ b.batchNumber = s.totalBatchesCommitted + 1
  BY <1>1, NewBatchType, Zenon
<1>5. /\ Commit(s, b) \in ZKChainStorage
      /\ Commit(s, b).totalBatchesCommitted = s.totalBatchesCommitted + 1
  BY <1>1, <1>4, CommitEffect, ZenonT(40) DEF CommitResult
<1>6. /\ Prove(Commit(s, b), 1) \in ZKChainStorage
      /\ Prove(Commit(s, b), 1).totalBatchesExecuted = Commit(s, b).totalBatchesExecuted
      /\ Prove(Commit(s, b), 1).totalBatchesCommitted = Commit(s, b).totalBatchesCommitted
  BY <1>5, ProveEffect, Zenon
<1>7. ASSUME NEW mid \in ZKChainStorage
      PROVE  /\ Execute(mid, 1, cursor).totalBatchesExecuted = mid.totalBatchesExecuted + 1
             /\ Execute(mid, 1, cursor).totalBatchesCommitted = mid.totalBatchesCommitted
  BY Zenon DEF Execute, ZKChainStorage
<1>8. s'.totalBatchesExecuted = b.batchNumber /\ s'.totalBatchesCommitted = b.batchNumber
  BY <1>3, <1>4, <1>5, <1>6, <1>7, Zenon
<1>9. \A k \in s'.totalBatchesExecuted + 1 .. s'.totalBatchesCommitted : FALSE
  BY <1>1, <1>4, <1>8
<1>10. /\ committedAt' = [committedAt EXCEPT ![s'.totalBatchesCommitted] = now]
       /\ executionDelay' = executionDelay /\ committedBatchTimestamp' = committedBatchTimestamp
  BY Zenon DEF settle
<1>11. committedAt' \in [0 .. MaxBatches -> Nat]
  BY <1>1, <1>10, Zenon
<1> QED
  BY <1>2, <1>3, <1>9, <1>10, <1>11, Zenon DEF TimelockInv

\* The other steps keep the waiting batches or drop some of them.
LEMMA QuietKeepsTimestamps ==
    ASSUME SafetyInv, TimelockInv, Quiet(s, s'), now' <= MaxTime,
           executionDelay' \in Nat, UNCHANGED <<committedBatchTimestamp, committedAt>>
    PROVE  TimelockInv'
<1>1. /\ s.totalBatchesExecuted \in Nat /\ s.totalBatchesCommitted \in Nat
  BY ChainFacts, Zenon
<1>2. s'.totalBatchesExecuted + 1 .. s'.totalBatchesCommitted
         \subseteq s.totalBatchesExecuted + 1 .. s.totalBatchesCommitted
  BY <1>1 DEF Quiet
<1> QED
  BY <1>2, Zenon DEF TimelockInv

\* The delay has passed for what a step executes, unless Priority Mode is active.
WaitsForDelay ==
    ~s.priorityModeInfo.activated =>
        \A k \in s.totalBatchesExecuted + 1 .. s'.totalBatchesExecuted :
            now >= committedAt[k] + executionDelay

\* A step that executes nothing waits for nothing.
LEMMA NothingExecuted ==
    ASSUME SafetyInv, s'.totalBatchesExecuted = s.totalBatchesExecuted
    PROVE  WaitsForDelay
<1>1. s.totalBatchesExecuted \in Nat
  BY ChainFacts, Zenon
<1>2. \A k \in s.totalBatchesExecuted + 1 .. s.totalBatchesExecuted : FALSE
  BY <1>1
<1> QED
  BY <1>2, Zenon DEF WaitsForDelay

\* Initially no batch waits.
LEMMA TimelockInitInv == TimelockInit => TimelockInv
<1> SUFFICES ASSUME TimelockInit PROVE TimelockInv
  BY Zenon
<1>1. /\ now = InitTime /\ s.totalBatchesExecuted = 0 /\ s.totalBatchesCommitted = 0
  BY Zenon DEF TimelockInit, Init
<1>2. now <= MaxTime
  BY <1>1, TimelockAssumption, Zenon
<1>3. executionDelay \in Nat
  BY TimelockAssumption DEF TimelockInit
<1>4. /\ committedBatchTimestamp \in [0 .. MaxBatches -> Nat]
      /\ committedAt \in [0 .. MaxBatches -> Nat]
  BY Zenon DEF TimelockInit
<1>5. \A k \in s.totalBatchesExecuted + 1 .. s.totalBatchesCommitted : FALSE
  BY <1>1
<1> QED
  BY <1>2, <1>3, <1>4, <1>5, Zenon DEF TimelockInv

\* Every transaction keeps the timestamps right and waits for the delay.
LEMMA TimelockStep ==
    ASSUME SafetyInv, TimelockInv, [TimelockNext]_allVars
    PROVE  TimelockInv' /\ WaitsForDelay
<1>1. now \in Nat /\ now <= MaxTime /\ executionDelay \in Nat /\ VerifiedCounts \subseteq Nat
  <2>1. VerifiedCounts \subseteq Nat
    BY DEF VerifiedCounts
  <2> QED
    BY <2>1, ChainFacts, Zenon DEF TimelockInv
<1>2. CASE \/ \E chunk \in Chunks : precommit(chunk)
           \/ \E n \in 1 .. MaxBatches : prove(n)
           \/ \E newLastBatch \in 0 .. MaxBatches : revert(newLastBatch)
           \/ Direct
  <2>1. Quiet(s, s')
    BY <1>2, QuietSteps, Zenon
  <2>2. UNCHANGED timelockVars
    BY <1>2, Zenon DEF precommit, prove, revert, Direct
  <2>3. now' = now \/ (now < MaxTime /\ now' = now + 1)
    BY <1>2, ZenonT(40) DEF precommit, prove, revert, Direct, precommitSharedBridge,
         proveBatchesSharedBridge, revertBatchesSharedBridge, requestL2Transaction,
         activatePriorityMode, AdminStep, makePermanentRollup, permanentlyAllowPriorityMode,
         pauseDepositsBeforeInitiatingMigration, unpauseDeposits, GovernanceStep, setValidator,
         deactivatePriorityMode, upgradeChainFromVersion, Tick
  <2>4. now' <= MaxTime
    <3>1. MaxTime \in Nat
      BY ConstantsAssumption, Zenon
    <3>2. now \in Nat /\ now <= MaxTime
      BY <1>1, Zenon
    <3> QED
      BY <2>3, <3>1, <3>2
  <2>5. executionDelay' \in Nat /\ UNCHANGED <<committedBatchTimestamp, committedAt>>
    BY <1>1, <2>2, Zenon DEF timelockVars
  <2>6. s'.totalBatchesExecuted = s.totalBatchesExecuted
    BY <2>1, Zenon DEF Quiet
  <2> QED
    BY <2>1, <2>4, <2>5, <2>6, QuietKeepsTimestamps, NothingExecuted, Zenon
<1>3. CASE \E from, to \in 0 .. MaxBatches, active \in BOOLEAN, b \in NewBatches :
              commit(from, to, active, b)
  BY <1>3, CommitKeepsTimestamps, NothingExecuted, Zenon
<1>4. CASE \E from, to \in 0 .. MaxBatches, n \in VerifiedCounts :
              \E cursor \in Cursors(s.totalBatchesExecuted, n) : execute(from, to, n, cursor)
  BY <1>1, <1>4, ExecuteWaits, Zenon DEF WaitsForDelay
<1>5. CASE settle
  BY <1>5, SettleLeavesNoneWaiting, Zenon DEF WaitsForDelay
<1>6. CASE (\E delay \in Delays : setExecutionDelay(delay)) \/ UNCHANGED allVars
  <2>1. UNCHANGED vars /\ UNCHANGED <<committedBatchTimestamp, committedAt>>
    BY <1>6, Zenon DEF setExecutionDelay, allVars, timelockVars
  <2>2. executionDelay' \in Nat
    <3>1. Delays \subseteq Nat
      BY TimelockAssumption
    <3>2. executionDelay' \in Delays \/ executionDelay' = executionDelay
      BY <1>6, Zenon DEF setExecutionDelay, allVars, timelockVars
    <3> QED
      BY <1>1, <3>1, <3>2, Zenon
  <2>3. s' = s /\ now' = now
    BY <2>1, Zenon DEF vars
  <2>4. Quiet(s, s')
    <3>1. s.totalBatchesCommitted \in Nat
      BY ChainFacts, Zenon
    <3>2. s.totalBatchesCommitted <= s.totalBatchesCommitted
      BY <3>1
    <3> QED
      BY <2>3, <3>1, <3>2, Zenon DEF Quiet
  <2> QED
    BY <1>1, <2>1, <2>2, <2>3, <2>4, QuietKeepsTimestamps, NothingExecuted, Zenon
<1> QED
  BY <1>2, <1>3, <1>4, <1>5, <1>6, Zenon DEF TimelockNext

\* The timestamps of the waiting batches are right in every reachable state.
THEOREM TimestampsAreRight == TimelockSpec => []TimelockInv
<1>1. TimelockInit => TimelockInv
  BY TimelockInitInv, Zenon
<1>2. SafetyInv /\ TimelockInv /\ [TimelockNext]_allVars => TimelockInv'
  BY TimelockStep, Zenon
<1> QED
  BY <1>1, <1>2, TimelockSafety, PTL DEF TimelockSpec

\* executeBatchesSharedBridge of the timelock keeps its promise: outside Priority
\* Mode no batch becomes final before executionDelay has passed since that very
\* batch was committed, whatever was reverted and committed again before.
THEOREM DelayIsKept == TimelockSpec => ExecutionWaitsForDelay
<1>1. SafetyInv /\ TimelockInv /\ [TimelockNext]_allVars =>
        [ ~s.priorityModeInfo.activated =>
            \A k \in s.totalBatchesExecuted + 1 .. s'.totalBatchesExecuted :
                now >= committedAt[k] + executionDelay ]_allVars
  BY TimelockStep, Zenon DEF WaitsForDelay
<1> QED
  BY <1>1, TimelockSafety, TimestampsAreRight, PTL DEF TimelockSpec, ExecutionWaitsForDelay

===============================================================================
