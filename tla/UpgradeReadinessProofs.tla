------------------------- MODULE UpgradeReadinessProofs -------------------------
(***************************************************************************)
(* The readiness checker never says "ready" too early, for every number of *)
(* blocks, whatever is published later and whichever requests fail.        *)
(*                                                                         *)
(* ReadinessInv: the versions of the server's blocks never go down, a      *)
(* block with an upgrade transaction is of the target version at least, a  *)
(* committed block is of no later version than the diamond, and from the   *)
(* receipt on the checker holds the number of a block that has such a      *)
(* transaction.  The first three are why that block divides the blocks     *)
(* into those to be executed before the diamond's upgrade and those that   *)
(* cannot be committed before it.                                          *)
(***************************************************************************)
EXTENDS UpgradeReadiness, TLAPS

Cuts == [version : 1 .. 2, kind : {"minor", "patch"}]

Hashes == {NoHash} \cup (1 .. 2) \X {"minor", "patch"} \X BOOLEAN

Events == [topic : Int, cut : Cuts]

Blocks == [version : 0 .. 2, hash : Hashes]

Diamonds == [version : 0 .. 1, committed : Nat, executed : Nat]

TypeOK ==
    /\ events \in Seq(Events)
    /\ blocks \in Seq(Blocks)
    /\ chain \in Diamonds
    /\ checker = [pc |-> checker.pc, hash |-> checker.hash, block |-> checker.block]
    /\ checker.pc \in {"locate", "aborted", "receipt", "finalized", "ready"}
    /\ checker.block \in Nat

\* The server's blocks and what the diamond has of them.
BlocksOK ==
    /\ chain.executed <= chain.committed /\ chain.committed <= Len(blocks)
    /\ \A m, n \in DOMAIN blocks : m <= n => blocks[m].version <= blocks[n].version
    /\ \A n \in DOMAIN blocks : blocks[n].hash # NoHash => blocks[n].version >= Target
    /\ \A n \in 1 .. chain.committed : blocks[n].version <= chain.version

\* What the checker knows at each of its steps.
CheckerOK ==
    /\ checker.pc \in {"receipt", "finalized", "ready"} => checker.hash # NoHash
    /\ checker.pc \in {"finalized", "ready"} =>
          checker.block \in DOMAIN blocks /\ blocks[checker.block].version >= Target
    /\ checker.pc = "ready" => chain.executed >= checker.block - 1

ReadinessInv == TypeOK /\ BlocksOK /\ CheckerOK

\* A transaction has a hash, whichever it is.
LEMMA HashIsNotEmpty == \A cut, rebuilt : canonical_tx_hash(cut, rebuilt) # NoHash
  BY DEF canonical_tx_hash, NoHash

\* The server's version is the one of its last block.
LEMMA ServerVersionIs ==
    ASSUME blocks \in Seq(Blocks), BlocksOK
    PROVE  /\ ServerVersion \in 0 .. 2
           /\ \A n \in DOMAIN blocks : blocks[n].version <= ServerVersion
<1>1. CASE blocks = <<>>
  BY <1>1 DEF ServerVersion
<1>2. CASE blocks # <<>>
  <2>1. Len(blocks) \in DOMAIN blocks /\ \A n \in DOMAIN blocks : n <= Len(blocks)
    BY <1>2
  <2>2. ServerVersion = blocks[Len(blocks)].version
    BY <1>2 DEF ServerVersion, Last
  <2>3. blocks[Len(blocks)] \in Blocks
    BY <2>1
  <2>4. QED
    BY <2>1, <2>2, <2>3 DEF BlocksOK, Blocks
<1>3. QED
  BY <1>1, <1>2

\* A further block of the server's version or a later one.
LEMMA BlockAdded ==
    ASSUME ReadinessInv, NEW b \in Blocks, b.version >= ServerVersion,
           b.hash # NoHash => b.version >= Target,
           blocks' = Append(blocks, b), UNCHANGED <<events, chain, checker>>
    PROVE  ReadinessInv'
<1>1. /\ blocks \in Seq(Blocks) /\ Len(blocks) \in Nat /\ blocks' \in Seq(Blocks)
      /\ Len(blocks') = Len(blocks) + 1 /\ DOMAIN blocks = 1 .. Len(blocks)
      /\ DOMAIN blocks' = 1 .. Len(blocks) + 1
      /\ \A n \in 1 .. Len(blocks) : blocks'[n] = blocks[n]
      /\ blocks'[Len(blocks) + 1] = b
  BY DEF ReadinessInv, TypeOK
<1>2. \A n \in DOMAIN blocks : blocks[n].version \in 0 .. 2 /\ blocks[n].version <= b.version
  <2>1. \A n \in DOMAIN blocks : blocks[n] \in Blocks
    BY <1>1
  <2>2. ServerVersion \in 0 .. 2 /\ \A n \in DOMAIN blocks : blocks[n].version <= ServerVersion
    BY ServerVersionIs DEF ReadinessInv, TypeOK
  <2>3. QED
    BY <2>1, <2>2 DEF Blocks
<1>3. TypeOK'
  BY <1>1 DEF ReadinessInv, TypeOK
<1>4. BlocksOK'
  <2>1. chain.committed \in Nat /\ chain.committed <= Len(blocks)
    BY DEF ReadinessInv, TypeOK, Diamonds, BlocksOK
  <2>2. \A m, n \in DOMAIN blocks' : m <= n => blocks'[m].version <= blocks'[n].version
    BY <1>1, <1>2 DEF ReadinessInv, BlocksOK, Blocks
  <2>3. \A n \in DOMAIN blocks' : blocks'[n].hash # NoHash => blocks'[n].version >= Target
    BY <1>1 DEF ReadinessInv, BlocksOK
  <2>4. \A n \in 1 .. chain.committed : blocks'[n].version <= chain.version
    BY <1>1, <2>1 DEF ReadinessInv, BlocksOK
  <2>5. QED
    BY <1>1, <2>1, <2>2, <2>3, <2>4 DEF ReadinessInv, BlocksOK
<1>5. CheckerOK'
  BY <1>1 DEF ReadinessInv, CheckerOK
<1>6. QED
  BY <1>3, <1>4, <1>5 DEF ReadinessInv

\* The diamond moves forward, within the server's blocks and to versions it has.
LEMMA DiamondMoves ==
    ASSUME ReadinessInv, chain' \in Diamonds, UNCHANGED <<events, blocks, checker>>,
           chain'.executed >= chain.executed, chain'.executed <= chain'.committed,
           chain'.committed <= Len(blocks),
           \A n \in 1 .. chain'.committed : blocks[n].version <= chain'.version
    PROVE  ReadinessInv'
<1>1. TypeOK' /\ BlocksOK'
  BY DEF ReadinessInv, TypeOK, BlocksOK
<1>2. CheckerOK'
  BY DEF ReadinessInv, TypeOK, CheckerOK, Diamonds
<1>3. QED
  BY <1>1, <1>2 DEF ReadinessInv

\* A step of the checker.
LEMMA CheckerMoves ==
    ASSUME ReadinessInv, UNCHANGED <<events, chain, blocks>>,
           NEW pc \in {"locate", "aborted", "receipt", "finalized", "ready"}, NEW hash, NEW block \in Nat,
           checker' = [pc |-> pc, hash |-> hash, block |-> block],
           pc \in {"receipt", "finalized", "ready"} => hash # NoHash,
           pc \in {"finalized", "ready"} => block \in DOMAIN blocks /\ blocks[block].version >= Target,
           pc = "ready" => chain.executed >= block - 1
    PROVE  ReadinessInv'
<1>1. checker'.pc = pc /\ checker'.hash = hash /\ checker'.block = block
  OBVIOUS
<1>2. TypeOK'
  BY <1>1 DEF ReadinessInv, TypeOK
<1>3. BlocksOK'
  BY DEF ReadinessInv, BlocksOK
<1>4. CheckerOK'
  BY <1>1 DEF CheckerOK
<1>5. QED
  BY <1>2, <1>3, <1>4 DEF ReadinessInv

\* A further log of the chain type manager.
LEMMA Publishes ==
    ASSUME ReadinessInv, NEW cut \in Cuts, setNewVersionUpgrade(cut)
    PROVE  ReadinessInv'
<1>1. events' \in Seq(Events)
  <2>1. [topic |-> cut.version - 1, cut |-> cut] \in Events /\ [topic |-> cut.version, cut |-> cut] \in Events
    BY DEF Cuts, Events
  <2>2. QED
    BY <2>1 DEF setNewVersionUpgrade, ReadinessInv, TypeOK
<1>2. UNCHANGED <<chain, blocks, checker>>
  BY DEF setNewVersionUpgrade
<1>3. QED
  BY <1>1, <1>2 DEF ReadinessInv, TypeOK, BlocksOK, CheckerOK

\* Every step keeps the invariant.
LEMMA ReadinessInvStep ==
    ASSUME ReadinessInv, [Next]_vars
    PROVE  ReadinessInv'
<1> USE ReadinessAssumption
<1>t. /\ checker = [pc |-> checker.pc, hash |-> checker.hash, block |-> checker.block]
      /\ checker.block \in Nat
  BY DEF ReadinessInv, TypeOK
<1>1. CASE PublishTarget
  BY <1>1, Publishes DEF PublishTarget, Cuts, Target
<1>2. CASE PublishLater
  <2>1. PICK kind \in LaterKinds : setNewVersionUpgrade([version |-> 2, kind |-> kind])
    BY <1>2 DEF PublishLater
  <2>2. [version |-> 2, kind |-> kind] \in Cuts
    BY DEF Cuts
  <2>3. QED
    BY <2>1, <2>2, Publishes
<1>3. CASE ProduceBlock
  <2> DEFINE b == [version |-> ServerVersion, hash |-> NoHash]
  <2>1. ServerVersion \in 0 .. 2
    BY ServerVersionIs DEF ReadinessInv, TypeOK
  <2>2. b \in Blocks /\ b.version >= ServerVersion /\ b.hash = NoHash
    BY <2>1 DEF Blocks, Hashes
  <2>3. blocks' = Append(blocks, b) /\ UNCHANGED <<events, chain, checker>>
    BY <1>3 DEF ProduceBlock
  <2> HIDE DEF b
  <2>4. QED
    BY <2>2, <2>3, BlockAdded
<1>4. CASE ProcessUpgrade
  <2>1. PICK cut \in Published :
          /\ cut.version = ServerVersion + 1
          /\ blocks' = Append(blocks, [version |-> cut.version,
                                       hash |-> IF cut.kind = "minor" THEN canonical_tx_hash(cut, TRUE)
                                                ELSE NoHash])
    BY <1>4 DEF ProcessUpgrade
  <2> DEFINE h == IF cut.kind = "minor" THEN canonical_tx_hash(cut, TRUE) ELSE NoHash
             b == [version |-> cut.version, hash |-> h]
  <2>2. cut \in Cuts
    <3>1. \A e \in Events : e.cut \in Cuts
      BY DEF Events
    <3>2. \A i \in DOMAIN events : events[i] \in Events
      BY DEF ReadinessInv, TypeOK
    <3>3. QED
      BY <3>1, <3>2 DEF Published
  <2>3. ServerVersion \in 0 .. 2
    BY ServerVersionIs DEF ReadinessInv, TypeOK
  <2>4. h \in Hashes
    <3>1. \A c \in Cuts : canonical_tx_hash(c, TRUE) \in Hashes
      BY DEF Hashes, Cuts, canonical_tx_hash
    <3>2. NoHash \in Hashes
      BY DEF Hashes
    <3>3. QED
      BY <2>2, <3>1, <3>2
  <2>5. b \in Blocks /\ b.version >= ServerVersion /\ b.version >= Target
    <3> HIDE DEF h
    <3>1. cut.version \in 1 .. 2
      BY <2>2 DEF Cuts
    <3>2. b \in Blocks
      BY <2>4, <3>1 DEF Blocks
    <3>3. QED
      BY <2>1, <2>3, <3>1, <3>2 DEF Target
  <2>6. blocks' = Append(blocks, b) /\ UNCHANGED <<events, chain, checker>>
    BY <1>4, <2>1 DEF ProcessUpgrade
  <2> HIDE DEF b, h
  <2>7. QED
    BY <2>5, <2>6, BlockAdded
<1>5. CASE CommitBatch
  <2>1. PICK n \in chain.committed + 1 .. Len(blocks) :
          /\ \A i \in chain.committed + 1 .. n : blocks[i].version = chain.version
          /\ chain' = [chain EXCEPT !.committed = n]
    BY <1>5 DEF CommitBatch
  <2>2. /\ chain \in Diamonds /\ Len(blocks) \in Nat
        /\ chain.executed <= chain.committed
        /\ \A i \in 1 .. chain.committed : blocks[i].version <= chain.version
    BY DEF ReadinessInv, TypeOK, BlocksOK
  <2>3. /\ chain' \in Diamonds /\ chain'.committed = n /\ n \in Nat /\ chain.committed <= n
        /\ chain'.version = chain.version /\ chain'.executed = chain.executed
    BY <2>1, <2>2 DEF Diamonds
  <2>4. \A i \in 1 .. n : blocks[i].version <= chain.version
    BY <2>1, <2>2 DEF Diamonds
  <2>5. UNCHANGED <<events, blocks, checker>>
    BY <1>5 DEF CommitBatch
  <2>6. QED
    BY <2>1, <2>2, <2>3, <2>4, <2>5, DiamondMoves DEF Diamonds
<1>6. CASE ExecuteBatches
  <2>1. /\ chain \in Diamonds
        /\ chain.committed <= Len(blocks)
        /\ \A i \in 1 .. chain.committed : blocks[i].version <= chain.version
    BY DEF ReadinessInv, TypeOK, BlocksOK
  <2>2. /\ chain' \in Diamonds /\ chain'.committed = chain.committed /\ chain'.executed = chain.committed
        /\ chain'.version = chain.version /\ chain.executed < chain.committed
    BY <1>6, <2>1 DEF ExecuteBatches, Diamonds
  <2>3. UNCHANGED <<events, blocks, checker>>
    BY <1>6 DEF ExecuteBatches
  <2>4. QED
    BY <2>1, <2>2, <2>3, DiamondMoves DEF Diamonds
<1>7. CASE UpgradeDiamond
  <2>1. /\ chain \in Diamonds /\ blocks \in Seq(Blocks)
        /\ chain.executed <= chain.committed /\ chain.committed <= Len(blocks)
        /\ \A i \in 1 .. chain.committed : blocks[i].version <= chain.version
    BY DEF ReadinessInv, TypeOK, BlocksOK
  <2>2. /\ chain' \in Diamonds /\ chain'.committed = chain.committed /\ chain'.executed = chain.executed
        /\ chain'.version = 1 /\ chain.version = 0
    BY <1>7, <2>1 DEF UpgradeDiamond, Diamonds, Target
  <2>3. \A i \in 1 .. chain.committed : blocks[i].version <= 1
    <3>1. \A i \in 1 .. chain.committed : blocks[i] \in Blocks
      BY <2>1 DEF Diamonds
    <3>2. QED
      BY <2>1, <2>2, <3>1 DEF Blocks
  <2>4. UNCHANGED <<events, blocks, checker>>
    BY <1>7 DEF UpgradeDiamond
  <2>5. QED
    BY <2>1, <2>2, <2>3, <2>4, DiamondMoves DEF Diamonds
<1>8. CASE find_upgrade_tx_hash
  <2>1. PICK rebuilt \in rebuild_tx_data_if_v31plus :
          checker' = [checker EXCEPT !.pc = "receipt",
                                     !.hash = canonical_tx_hash(Last(find_upgrade_log).cut, rebuilt)]
    BY <1>8 DEF find_upgrade_tx_hash
  <2> DEFINE h == canonical_tx_hash(Last(find_upgrade_log).cut, rebuilt)
  <2>2. h # NoHash
    BY HashIsNotEmpty
  <2>3. checker' = [checker EXCEPT !.pc = "receipt", !.hash = h]
    BY <2>1
  <2> HIDE DEF h
  <2>4. checker' = [pc |-> "receipt", hash |-> h, block |-> checker.block]
    BY <1>t, <2>3
  <2>5. UNCHANGED <<events, chain, blocks>>
    BY <1>8 DEF find_upgrade_tx_hash
  <2>6. QED
    BY <1>t, <2>2, <2>4, <2>5, CheckerMoves
<1>9. CASE Abort
  <2>1. checker' = [pc |-> "aborted", hash |-> checker.hash, block |-> checker.block]
    BY <1>9, <1>t DEF Abort
  <2>2. UNCHANGED <<events, chain, blocks>>
    BY <1>9 DEF Abort
  <2>3. QED
    BY <1>t, <2>1, <2>2, CheckerMoves
<1>10. CASE Rerun
  <2>1. checker' = [pc |-> "locate", hash |-> checker.hash, block |-> checker.block]
    BY <1>10, <1>t DEF Rerun
  <2>2. UNCHANGED <<events, chain, blocks>>
    BY <1>10 DEF Rerun
  <2>3. QED
    BY <1>t, <2>1, <2>2, CheckerMoves
<1>11. CASE fetch_receipt
  <2>1. PICK n \in Receipts(checker.hash) : checker' = [checker EXCEPT !.pc = "finalized", !.block = n]
    BY <1>11 DEF fetch_receipt
  <2>2. checker.hash # NoHash
    BY <1>11 DEF fetch_receipt, ReadinessInv, CheckerOK
  <2>3. n \in DOMAIN blocks /\ blocks[n].version >= Target
    BY <2>2 DEF Receipts, ReadinessInv, BlocksOK
  <2>4. n \in Nat
    BY <2>3 DEF ReadinessInv, TypeOK
  <2>5. checker' = [pc |-> "finalized", hash |-> checker.hash, block |-> n]
    BY <1>t, <2>1
  <2>6. UNCHANGED <<events, chain, blocks>>
    BY <1>11 DEF fetch_receipt
  <2>7. QED
    BY <2>2, <2>3, <2>4, <2>5, <2>6, CheckerMoves
<1>12. CASE fetch_finalized_block_number
  <2> DEFINE pc == IF PrecedingFinalized(chain.executed, checker.block) THEN "ready" ELSE "receipt"
  <2>1. checker' = [pc |-> pc, hash |-> checker.hash, block |-> checker.block]
    BY <1>12, <1>t DEF fetch_finalized_block_number
  <2>2. /\ checker.hash # NoHash
        /\ checker.block \in DOMAIN blocks /\ blocks[checker.block].version >= Target
    BY <1>12 DEF fetch_finalized_block_number, ReadinessInv, CheckerOK
  <2>3. /\ pc \in {"ready", "receipt"}
        /\ pc = "ready" => chain.executed >= checker.block - 1
    BY DEF PrecedingFinalized
  <2>4. UNCHANGED <<events, chain, blocks>>
    BY <1>12 DEF fetch_finalized_block_number
  <2> HIDE DEF pc
  <2>5. QED
    BY <1>t, <2>1, <2>2, <2>3, <2>4, CheckerMoves
<1>13. CASE PollFails
  <2>1. checker' = [pc |-> "receipt", hash |-> checker.hash, block |-> checker.block]
    BY <1>13, <1>t DEF PollFails
  <2>2. checker.hash # NoHash
    BY <1>13 DEF PollFails, ReadinessInv, CheckerOK
  <2>3. UNCHANGED <<events, chain, blocks>>
    BY <1>13 DEF PollFails
  <2>4. QED
    BY <1>t, <2>1, <2>2, <2>3, CheckerMoves
<1>14. CASE UNCHANGED vars
  BY <1>14 DEF vars, ReadinessInv, TypeOK, BlocksOK, CheckerOK
<1>15. QED
  BY <1>1, <1>2, <1>3, <1>4, <1>5, <1>6, <1>7, <1>8, <1>9, <1>10, <1>11, <1>12, <1>13, <1>14 DEF Next

\* The block of the receipt divides the blocks: those before it are executed, and
\* it cannot be committed before the diamond is upgraded.
LEMMA ReadyMeansSafe ==
    ASSUME ReadinessInv
    PROVE  ReadyIsSafe
<1> SUFFICES ASSUME checker.pc = "ready"
             PROVE  /\ ServerVersion >= Target
                    /\ \A n \in DOMAIN blocks : blocks[n].version < Target => n <= chain.executed
                    /\ chain.version < Target => CanUpgradeDiamond
  BY DEF ReadyIsSafe
<1> DEFINE u == checker.block
<1>1. /\ u \in DOMAIN blocks /\ blocks[u].version >= Target /\ chain.executed >= u - 1
      /\ u \in Nat /\ blocks \in Seq(Blocks) /\ chain \in Diamonds
  BY DEF ReadinessInv, CheckerOK, TypeOK
<1>2. \A n \in DOMAIN blocks : n \in Nat /\ blocks[n].version \in 0 .. 2
  <2>1. \A b \in Blocks : b.version \in 0 .. 2
    BY DEF Blocks
  <2>2. \A n \in DOMAIN blocks : n \in Nat /\ blocks[n] \in Blocks
    BY <1>1
  <2>3. QED
    BY <2>1, <2>2
<1>3. ServerVersion >= Target
  BY <1>1, <1>2, ServerVersionIs DEF ReadinessInv, Target
<1>4. \A n \in DOMAIN blocks : u <= n => blocks[n].version >= Target
  BY <1>1, <1>2 DEF ReadinessInv, BlocksOK, Target
<1>5. \A n \in DOMAIN blocks : blocks[n].version < Target => n <= chain.executed
  BY <1>1, <1>2, <1>4 DEF Target, Diamonds
<1>6. ASSUME chain.version < Target PROVE CanUpgradeDiamond
  <2>1. u \notin 1 .. chain.committed
    BY <1>1, <1>2, <1>6 DEF ReadinessInv, BlocksOK, Target, Diamonds
  <2>2. chain.committed <= u - 1
    BY <1>1, <2>1 DEF Diamonds
  <2>3. QED
    BY <1>1, <2>2 DEF CanUpgradeDiamond, ReadinessInv, BlocksOK, Diamonds
<1>7. QED
  BY <1>3, <1>5, <1>6

\* "Ready" is the truth (readiness.rs, "safe to finalize the upgrade on L1"): all
\* blocks before the upgrade are executed and the diamond's upgrade cannot revert
\* for batches that are not, whatever the server and L1 do between the checker's
\* two requests, and after them.
THEOREM ReadyIsAlwaysSafe == Spec => []ReadyIsSafe
<1>1. Init => ReadinessInv
  BY DEF Init, ReadinessInv, TypeOK, BlocksOK, CheckerOK, Diamonds
<1>2. ReadinessInv /\ [Next]_vars => ReadinessInv'
  BY ReadinessInvStep
<1>3. ReadinessInv => ReadyIsSafe
  BY ReadyMeansSafe
<1>4. QED
  BY <1>1, <1>2, <1>3, PTL DEF Spec

=================================================================================
