------------------------ MODULE ChainMigrationProofs ------------------------
(***************************************************************************)
(* Proofs about the migration of a chain, for every value of the constants *)
(* and for whatever the operator's tool does: the invariants of            *)
(* ChainMigration and of GatewayMigrationOps, and that a chain that        *)
(* migrates implements SettledChain.                                       *)
(*                                                                         *)
(* A chain goes through five stages, told apart by the settlement layer    *)
(* that its diamond on L1 records, by whether it has a diamond on the      *)
(* gateway, and by the withdrawal:                                         *)
(*    on L1, before a successful migration   ~Away, ~Registered            *)
(*    leaving for the gateway                 Away, ~Registered            *)
(*    on the gateway                          Away,  Registered, not sent  *)
(*    returning                               Away,  Registered, sent      *)
(*    back on L1                             ~Away,  Registered            *)
(*                                                                         *)
(* Control says what the two layers know in each stage and MintsOK what    *)
(* the queue to the gateway and the results of mints say of it.  TreeOfL1  *)
(* is about the tree that every operation enters; Leaving, TreeOfGateway   *)
(* and Returning say what is left of it to arrive, in the commitment under *)
(* way, in the gateway's tree and in the queue of relayed operations.      *)
(* Intervals ties the intervals of the chain asset handler to where        *)
(* batches were executed.                                                  *)
(*                                                                         *)
(* The steps of the contracts fall into eleven classes (StepClasses), by   *)
(* what they do to this state, and each part of the invariant is preserved *)
(* class by class.  OpsInv adds what the tool's bundle, its replay and a   *)
(* running command rely on, none of which the contracts ever undo          *)
(* (Monotone).                                                             *)
(***************************************************************************)
EXTENDS GatewayMigrationOps, TLAPS

(***************************************************************************)
(* Types.                                                                  *)
(***************************************************************************)
Diamonds ==
    [deployed : BOOLEAN, settlementLayer : {"none", "L1", "GW"}, paused : BOOLEAN,
     canBeActivated : BOOLEAN, committed : Nat, executed : Nat, tree : Tree(Nat),
     daPair : BOOLEAN, validators : BOOLEAN]

TreeCommitments ==
    [nextLeafIndex : Nat, startIndex : Nat, unprocessedIndex : Nat, sides : Seq(Nat)]

MintData ==
    [batchNumber : Nat, migrationNumber : Nat,
     chainData : [committed : Nat, executed : Nat, priorityTree : TreeCommitments]]

Kinds == {"op", "pause", "burn", "validators", "daPair"}

Transactions == [kind : {"mint"}, arg : MintData] \cup [kind : Kinds, arg : Nat]

Mints == [status : {"pending", "success", "failure"}, batch : Nat, depositHappened : BOOLEAN]

\* The type of every variable of the contracts.
TypeOK ==
    /\ chain \in [Layers -> Diamonds]
    /\ hub \in [Layers -> {"none", "L1", "GW"}]
    /\ handler \in [Layers -> [migrationNumber : Nat, migrationPaused : BOOLEAN]]
    /\ root \in [Layers -> Nat]
    /\ inProgress \in BOOLEAN
    /\ interval \in [from : Nat, to : Nat, lower : Nat, upper : Nat, sl : {"none", "GW"},
                     isActive : BOOLEAN]
    /\ toGateway \in Seq(Transactions)
    /\ mints \in Seq(Mints)
    /\ gatewayBatch \in Nat
    /\ withdrawal \in [sent : BOOLEAN, finalized : BOOLEAN, batch : Nat,
                       data : {withdrawal.data}]
    /\ settledOn \in Seq([sl : Layers, slBatch : Nat])

(***************************************************************************)
(* The inductive invariant.                                                *)
(***************************************************************************)
Away == chain["L1"].settlementLayer # "none"

Registered == chain["GW"].deployed

MintsInFlight == {i \in DOMAIN toGateway : toGateway[i].kind = "mint"}

\* What the two layers know of the stage.
Control ==
    /\ chain["L1"].deployed /\ ~chain["GW"].canBeActivated
    /\ chain["L1"].settlementLayer = IF Away THEN "GW" ELSE "none"
    /\ hub["L1"] = IF Away THEN "GW" ELSE "L1"
    /\ handler["L1"].migrationNumber = IF Away THEN 1 ELSE IF Registered THEN 2 ELSE 0
    /\ chain["GW"].settlementLayer = IF withdrawal.sent THEN "L1" ELSE "none"
    /\ hub["GW"] = IF ~Registered THEN "none" ELSE IF withdrawal.sent THEN "L1" ELSE "GW"
    /\ handler["GW"].migrationNumber =
          IF ~Registered THEN 0 ELSE IF withdrawal.sent THEN 2 ELSE 1
    /\ withdrawal.sent => Registered
    /\ withdrawal.finalized <=> Registered /\ ~Away
    /\ withdrawal.finalized => withdrawal.sent
    /\ interval.isActive <=> Away
    /\ interval.sl = IF Away \/ Registered THEN "GW" ELSE "none"
    /\ chain["L1"].canBeActivated => ~Away
    /\ ~Registered => (inProgress <=> Away)
    /\ inProgress /\ Away => chain["L1"].paused

\* The mints: all but the last failed and were recovered; what the last one is
\* depends on the stage.
MintsOK ==
    /\ \A i \in DOMAIN mints : i # Len(mints) =>
          mints[i].status = "failure" /\ ~mints[i].depositHappened
    /\ Away \/ Registered => mints # <<>>
    /\ mints # <<>> =>
          LET last == mints[Len(mints)]
          IN /\ last.status = "success" <=> Registered
             /\ last.status = "pending" <=> MintsInFlight # {}
             /\ ~Registered => (last.depositHappened <=> Away)
             /\ Registered => (last.depositHappened <=> inProgress)
    /\ \A i, j \in MintsInFlight : i = j
    /\ MintsInFlight # {} => Away /\ ~Registered

\* A tree with the operations in the order of their numbers, and every root it
\* went through.
GoodTree(t) ==
    /\ t.startIndex = StartIndex
    /\ t.unprocessedIndex <= Len(t.leaves)
    /\ \A n \in 1 .. Len(t.leaves) : t.leaves[n] = n
    /\ \A m \in 0 .. Len(t.leaves) : [n \in 1 .. m |-> n] \in t.historicalRoots

TreeOfL1 == GoodTree(chain["L1"].tree)

\* Before the chain leaves there is nothing on L1 that is not settled; the mint
\* carries that state.
Leaving ==
    Away /\ ~Registered =>
        /\ chain["L1"].tree.unprocessedIndex = Len(chain["L1"].tree.leaves)
        /\ chain["L1"].committed = chain["L1"].executed
        /\ \A i \in MintsInFlight :
              toGateway[i].arg = [batchNumber |-> root["L1"], migrationNumber |-> 1,
                                  chainData |-> prepareChainCommitment(chain["L1"])]

\* The places of the operations in a queue.
Ops(q) == {i \in DOMAIN q : q[i].kind = "op"}

\* The operations of a queue are those after G and up to A, in this order.
OpsMatch(A, G, q) ==
    /\ \A i \in Ops(q) : q[i].arg \in G + 1 .. A
    /\ \A n \in G + 1 .. A : \E i \in Ops(q) : q[i].arg = n
    /\ \A i, j \in Ops(q) : i < j => q[i].arg < q[j].arg

\* While the chain is away, its tree on the gateway and the operations in flight
\* are those of L1.
InSync(a, g) ==
    /\ g.startIndex = StartIndex
    /\ a.unprocessedIndex <= g.unprocessedIndex
    /\ g.unprocessedIndex <= Len(g.leaves)
    /\ IsSegment(a.leaves, 0, g.leaves)

TreeOfGateway ==
    /\ OpsInFlight # {} => Registered
    /\ Away /\ Registered =>
          /\ root["L1"] <= root["GW"]
          /\ InSync(chain["L1"].tree, chain["GW"].tree)
          /\ OpsMatch(Len(chain["L1"].tree.leaves), Len(chain["GW"].tree.leaves), toGateway)

\* The data d of a mint carries the diamond g of the gateway, which processed
\* every operation it had; more may have come since.
Carries(d, g, batchNumber) ==
    LET c == d.chainData.priorityTree
    IN /\ d \in MintData
       /\ d.batchNumber = batchNumber
       /\ d.migrationNumber = 2
       /\ d.chainData.committed = g.committed
       /\ d.chainData.executed = g.executed
       /\ c.startIndex = StartIndex
       /\ c.unprocessedIndex = g.tree.unprocessedIndex
       /\ c.nextLeafIndex = Len(c.sides)
       /\ c.unprocessedIndex = Len(c.sides)
       /\ IsSegment(g.tree.leaves, 0, c.sides)

\* What the gateway sent when the chain left it.
Returning ==
    withdrawal.sent /\ Away => Carries(withdrawal.data, chain["GW"], root["GW"])

\* The k-th batch is one of those that the interval of L1 gives to the gateway.
OnGateway(k) == Registered /\ interval.from < k /\ (~Away => k <= interval.to)

\* The last gateway batch in which a batch of the chain can be settled.
LastSlBatch ==
    IF ~Away THEN interval.upper
    ELSE IF withdrawal.sent THEN withdrawal.batch ELSE gatewayBatch + 1

\* The k-th batch was settled where the interval says.
Recorded(k) ==
    IF OnGateway(k)
    THEN /\ settledOn[k].sl = "GW"
         /\ interval.lower < settledOn[k].slBatch /\ settledOn[k].slBatch <= LastSlBatch
    ELSE settledOn[k].sl = "L1" /\ settledOn[k].slBatch = 0

\* Where every executed batch was settled.
Intervals ==
    /\ root["L1"] = chain["L1"].executed /\ root["GW"] = chain["GW"].executed
    /\ Len(settledOn) = Home.executed
    /\ interval.lower <= gatewayBatch
    /\ ~Away /\ ~Registered => interval = NoInterval
    /\ Away => interval.from <= Len(settledOn) /\ (~Registered => interval.from = Len(settledOn))
    /\ Registered /\ ~Away => interval.from <= interval.to /\ interval.to <= Len(settledOn)
    /\ \A k \in 1 .. Len(settledOn) : Recorded(k)

\* Every burn on L1 has a version, which the diamond of L1 has or had.
VersionsOK ==
    /\ protocol \in [ctm : [Layers -> Nat], chain : [Layers -> Nat], burned : Seq(Nat)]
    /\ DOMAIN protocol.burned = DOMAIN mints
    /\ \A i \in DOMAIN protocol.burned : protocol.burned[i] <= protocol.chain["L1"]

MigrationInv ==
    /\ TypeOK /\ Control /\ MintsOK /\ TreeOfL1 /\ Leaving /\ TreeOfGateway /\ Returning
    /\ Intervals /\ VersionsOK

(***************************************************************************)
(* The steps of the contracts.                                             *)
(***************************************************************************)
ContractNext ==
    \/ Environment \/ UnpauseDeposits \/ PermanentlyAllowPriorityMode
    \/ PauseDeposits \/ MigrateToGateway \/ FinalizeMigration \/ SetDAValidatorPair
    \/ \E i \in DOMAIN mints : ConfirmSuccess(i) \/ ConfirmFailure(i)
    \/ \E kind \in {"burn", "validators", "daPair"} : RequestOnGateway(kind)

(***************************************************************************)
(* Lemmas about the trees and the queue.                                   *)
(***************************************************************************)

\* The operations on a tree keep its type.
LEMMA TreeTypes ==
    /\ \A t \in Tree(Nat), op \in Nat : push(t, op) \in Tree(Nat)
    /\ \A t \in Tree(Nat), n \in Nat : [t EXCEPT !.unprocessedIndex = n] \in Tree(Nat)
    /\ \A t \in Tree(Nat) : getCommitment(t) \in TreeCommitments
    /\ \A t \in Tree(Nat), c \in TreeCommitments :
          L1Reinit(t, c) \in Tree(Nat) /\ initFromCommitment(t, c) \in Tree(Nat)
    /\ EmptyTree \in Tree(Nat)
    /\ \A s \in Nat : setup(s) \in Tree(Nat)
<1>1. \A t \in Tree(Nat), op \in Nat : push(t, op) \in Tree(Nat)
  <2> SUFFICES ASSUME NEW t \in Tree(Nat), NEW op \in Nat PROVE push(t, op) \in Tree(Nat)
    BY Zenon
  <2> DEFINE new == Append(t.leaves, op)
  <2>1. /\ t \in [startIndex : Nat, unprocessedIndex : Nat, leaves : Seq(Nat),
                  historicalRoots : SUBSET Seq(Nat)]
        /\ new \in Seq(Nat)
    BY DEF Tree
  <2>2. t.historicalRoots \cup {new} \in SUBSET Seq(Nat)
    BY <2>1, Zenon
  <2>3. push(t, op) = [t EXCEPT !.leaves = new, !.historicalRoots = t.historicalRoots \cup {new}]
    BY Zenon DEF push
  <2> HIDE DEF new
  <2>4. QED
    BY <2>1, <2>2, <2>3, Zenon DEF Tree
<1>2. \A t \in Tree(Nat), n \in Nat : [t EXCEPT !.unprocessedIndex = n] \in Tree(Nat)
  BY Zenon DEF Tree
<1>3. \A t \in Tree(Nat) : getCommitment(t) \in TreeCommitments
  BY DEF Tree, getCommitment, TreeCommitments
<1>4. \A t \in Tree(Nat), c \in TreeCommitments :
          L1Reinit(t, c) \in Tree(Nat) /\ initFromCommitment(t, c) \in Tree(Nat)
  BY Zenon DEF Tree, L1Reinit, initFromCommitment, TreeCommitments
<1>5. EmptyTree \in Tree(Nat)
  BY DEF Tree, EmptyTree
<1>6. \A s \in Nat : setup(s) \in Tree(Nat)
  BY DEF Tree, setup
<1>7. QED
  BY <1>1, <1>2, <1>3, <1>4, <1>5, <1>6, Zenon

\* What the gateway and L1 send each other has its type.
LEMMA MintDataType ==
    ASSUME TypeOK, NEW l \in Layers
    PROVE  bridgehubMintData(l) \in MintData
<1>1. chain[l] \in Diamonds /\ root[l] \in Nat /\ handler[l].migrationNumber \in Nat
  BY Zenon DEF TypeOK
<1>2. getCommitment(chain[l].tree) \in TreeCommitments
  BY <1>1, TreeTypes, Zenon DEF Diamonds
<1>3. QED
  BY <1>1, <1>2 DEF bridgehubMintData, prepareChainCommitment, MintData, Diamonds

\* The diamond after a mint has its type.
LEMMA MintedType ==
    ASSUME NEW l \in Layers, NEW c \in Diamonds, NEW d \in MintData
    PROVE  ForwardedBridgeMint(l, c, d.chainData) \in Diamonds
<1>1. d.chainData.priorityTree \in TreeCommitments /\ c.tree \in Tree(Nat)
      /\ d.chainData.committed \in Nat /\ d.chainData.executed \in Nat
  BY Zenon DEF MintData, Diamonds
<1>2. L1Reinit(c.tree, d.chainData.priorityTree) \in Tree(Nat)
      /\ initFromCommitment(c.tree, d.chainData.priorityTree) \in Tree(Nat)
  BY <1>1, TreeTypes, Zenon
<1>3. QED
  BY <1>1, <1>2, Zenon DEF ForwardedBridgeMint, Diamonds

\* The tree of a chain that arrives on the gateway.
LEMMA MintedTree ==
    ASSUME NEW c \in Diamonds, NEW d
    PROVE  ForwardedBridgeMint("GW", c, d).tree = initFromCommitment(c.tree, d.priorityTree)
  BY Zenon DEF ForwardedBridgeMint, Diamonds

\* A tree made from a commitment has the indices and the leaves of the tree
\* that was committed to.
LEMMA TakenTree ==
    ASSUME NEW t, NEW u
    PROVE  /\ initFromCommitment(t, getCommitment(u)).startIndex = u.startIndex
           /\ initFromCommitment(t, getCommitment(u)).unprocessedIndex = u.unprocessedIndex
           /\ initFromCommitment(t, getCommitment(u)).leaves = u.leaves
  BY Zenon DEF initFromCommitment, getCommitment

\* The types hold initially.
LEMMA TypeInit == Init => TypeOK
<1> SUFFICES ASSUME Init PROVE TypeOK
  BY Zenon
<1>1. EmptyTree \in Tree(Nat) /\ setup(StartIndex) \in Tree(Nat)
  BY TreeTypes, MigrationAssumption, Zenon
<1>2. NoDiamond \in Diamonds
  BY <1>1, Zenon DEF NoDiamond, Diamonds
<1>3. [NoDiamond EXCEPT !.deployed = TRUE, !.tree = setup(StartIndex), !.daPair = TRUE,
                        !.validators = TRUE] \in Diamonds
  BY <1>1, <1>2, Zenon DEF Diamonds
<1>4. chain \in [Layers -> Diamonds]
  BY <1>2, <1>3 DEF Init, Layers
<1>5. hub \in [Layers -> {"none", "L1", "GW"}]
  BY DEF Init, Layers
<1>6. handler \in [Layers -> [migrationNumber : Nat, migrationPaused : BOOLEAN]]
      /\ root \in [Layers -> Nat]
  BY Zenon DEF Init
<1>7. interval \in [from : Nat, to : Nat, lower : Nat, upper : Nat, sl : {"none", "GW"},
                    isActive : BOOLEAN]
  BY Zenon DEF Init, NoInterval
<1>8. withdrawal \in [sent : BOOLEAN, finalized : BOOLEAN, batch : Nat, data : {withdrawal.data}]
  BY Zenon DEF Init, NoWithdrawal
<1>9. inProgress \in BOOLEAN /\ gatewayBatch \in Nat
  BY Zenon DEF Init
<1>10. toGateway \in Seq(Transactions) /\ mints \in Seq(Mints)
  BY DEF Init
<1>11. settledOn \in Seq([sl : Layers, slBatch : Nat])
  BY DEF Init
<1>12. QED
  BY <1>4, <1>5, <1>6, <1>7, <1>8, <1>9, <1>10, <1>11, Zenon DEF TypeOK

\* A transaction that is sent or executed leaves a queue of transactions.
LEMMA QueueTypes ==
    ASSUME toGateway \in Seq(Transactions)
    PROVE  /\ \A kind \in Kinds, arg \in Nat : SendToGateway(kind, arg) => toGateway' \in Seq(Transactions)
           /\ \A arg \in MintData : SendToGateway("mint", arg) => toGateway' \in Seq(Transactions)
           /\ toGateway # <<>> => /\ Head(toGateway) \in Transactions
                                  /\ Tail(toGateway) \in Seq(Transactions)
<1>1. \A kind \in Kinds, arg \in Nat : [kind |-> kind, arg |-> arg] \in Transactions
  BY Zenon DEF Transactions, Kinds
<1>2. \A arg \in MintData : [kind |-> "mint", arg |-> arg] \in Transactions
  BY Zenon DEF Transactions
<1>3. \A kind \in Kinds, arg \in Nat : SendToGateway(kind, arg) => toGateway' \in Seq(Transactions)
  BY <1>1 DEF SendToGateway
<1>4. \A arg \in MintData : SendToGateway("mint", arg) => toGateway' \in Seq(Transactions)
  BY <1>2 DEF SendToGateway
<1>5. toGateway # <<>> => Head(toGateway) \in Transactions /\ Tail(toGateway) \in Seq(Transactions)
  OBVIOUS
<1>6. QED
  BY <1>3, <1>4, <1>5, Zenon

\* The record of a mint is updated in place.
LEMMA MintUpdate ==
    ASSUME NEW m \in Seq(Mints), NEW i \in DOMAIN m, NEW new \in Mints
    PROVE  /\ [m EXCEPT ![i] = new] \in Seq(Mints)
           /\ Len([m EXCEPT ![i] = new]) = Len(m)
           /\ [m EXCEPT ![i] = new][i] = new
           /\ \A j \in DOMAIN m : j # i => [m EXCEPT ![i] = new][j] = m[j]
  OBVIOUS

\* What MintStatus does to a mint that was sent.
LEMMA MintStatusUpdate ==
    ASSUME TypeOK, mints # <<>>, NEW status \in {"success", "failure"}, MintStatus(status)
    PROVE  /\ mints' \in Seq(Mints)
           /\ Len(mints') = Len(mints)
           /\ mints'[Len(mints)] = [mints[Len(mints)] EXCEPT !.status = status,
                                                              !.batch = gatewayBatch + 1]
           /\ \A j \in DOMAIN mints : j # Len(mints) => mints'[j] = mints[j]
<1> DEFINE old == mints[Len(mints)]
           new == [old EXCEPT !.status = status, !.batch = gatewayBatch + 1]
<1>1. mints \in Seq(Mints) /\ Len(mints) \in DOMAIN mints /\ old \in Mints
  BY DEF TypeOK
<1>2. new \in Mints
  <2>1. gatewayBatch + 1 \in Nat
    BY DEF TypeOK
  <2> HIDE DEF old
  <2>2. QED
    BY <1>1, <2>1, Zenon DEF Mints
<1>3. mints' = [mints EXCEPT ![Len(mints)] = new]
  BY <1>1, Zenon DEF MintStatus, Mints
<1> HIDE DEF old, new
<1>4. QED
  BY <1>1, <1>2, <1>3, MintUpdate DEF old, new

\* A mint at the head of the queue is the last one that L1 sent.
LEMMA HeadMint ==
    ASSUME TypeOK, MintsOK, toGateway # <<>>, Head(toGateway).kind = "mint"
    PROVE  /\ mints # <<>> /\ Len(mints) \in DOMAIN mints
           /\ mints[Len(mints)].status = "pending"
           /\ Away /\ ~Registered
           /\ 1 \in MintsInFlight
           /\ MintsInFlight = {1}
<1>1. 1 \in MintsInFlight
  BY DEF MintsInFlight, TypeOK
<1>2. QED
  BY <1>1 DEF MintsOK, TypeOK

(***************************************************************************)
(* What the steps do, as far as the invariant can tell.                    *)
(***************************************************************************)
SameStage(l) ==
    /\ chain'[l].deployed = chain[l].deployed
    /\ chain'[l].settlementLayer = chain[l].settlementLayer

SameHandlers == \A l \in Layers : handler'[l].migrationNumber = handler[l].migrationNumber

\* What changes nothing of a stage in the diamonds: pauses, commits and reverts
\* of batches, configuration.
QuietDiamonds ==
    /\ \A l \in Layers :
          /\ SameStage(l)
          /\ chain'[l].tree = chain[l].tree
          /\ chain'[l].executed = chain[l].executed
          /\ chain'[l].committed = chain[l].committed \/ Settles(chain[l])
    /\ chain'["GW"].canBeActivated = chain["GW"].canBeActivated
    /\ chain'["L1"].canBeActivated => chain["L1"].canBeActivated \/ ~Away
    /\ chain["L1"].paused /\ inProgress => chain'["L1"].paused

\* Neither operations nor mints are sent or executed.
QuietQueue ==
    \/ toGateway' = toGateway
    \/ \E kind \in Kinds \ {"op"} : toGateway' = Append(toGateway, [kind |-> kind, arg |-> 0])
    \/ /\ toGateway # <<>>
       /\ Head(toGateway).kind \notin {"op", "mint"}
       /\ toGateway' = Tail(toGateway)

Quiet ==
    /\ QuietDiamonds /\ QuietQueue /\ SameHandlers
    /\ gatewayBatch <= gatewayBatch'
    /\ UNCHANGED <<hub, root, inProgress, interval, mints, withdrawal, settledOn>>

\* An operation is requested on L1.
Requests ==
    LET op == Len(chain["L1"].tree.leaves) + 1
    IN /\ ~inProgress
       /\ SameStage("L1")
       /\ chain'["L1"].canBeActivated = chain["L1"].canBeActivated
       /\ chain'["L1"].executed = chain["L1"].executed
       /\ chain'["L1"].committed = chain["L1"].committed
       /\ chain'["L1"].tree = push(chain["L1"].tree, op)
       /\ chain'["GW"] = chain["GW"]
       /\ toGateway' = IF Away THEN Append(toGateway, [kind |-> "op", arg |-> op]) ELSE toGateway
       /\ UNCHANGED <<hub, handler, root, inProgress, interval, mints, gatewayBatch, withdrawal,
                      settledOn>>

\* A batch is executed on layer l with k operations.
Executes(l, k) ==
    /\ Settles(chain[l])
    /\ k <= getSize(chain[l].tree)
    /\ SameStage(l)
    /\ chain'[l].canBeActivated = chain[l].canBeActivated
    /\ chain'[l].paused = chain[l].paused
    /\ chain'[l].executed = chain[l].executed + 1
    /\ chain'[l].tree = [chain[l].tree EXCEPT !.unprocessedIndex = @ + k]
    /\ \A m \in Layers : m # l => chain'[m] = chain[m]
    /\ root' = [root EXCEPT ![l] = @ + 1]
    /\ settledOn' = Append(settledOn, [sl |-> l, slBatch |-> IF l = "GW" THEN gatewayBatch + 1 ELSE 0])
    /\ UNCHANGED <<hub, handler, inProgress, interval, toGateway, mints, gatewayBatch, withdrawal>>

\* The chain leaves L1.
Leaves ==
    /\ CanBridgeBurn("L1")
    /\ chain'["L1"] = [chain["L1"] EXCEPT !.settlementLayer = "GW"]
    /\ chain'["GW"] = chain["GW"]
    /\ hub' = [hub EXCEPT !["L1"] = "GW"]
    /\ handler'["L1"].migrationNumber = 1
    /\ handler'["GW"] = handler["GW"]
    /\ inProgress'
    /\ interval' = recordMigrationToSL(root["L1"], gatewayBatch)
    /\ toGateway' = Append(toGateway, [kind |-> "mint", arg |-> bridgehubMintData("L1")])
    /\ mints' = Append(mints, [status |-> "pending", batch |-> 0, depositHappened |-> TRUE])
    /\ UNCHANGED <<root, gatewayBatch, withdrawal, settledOn>>

\* The mint is executed on the gateway.
Arrives ==
    LET d == Head(toGateway).arg
    IN /\ toGateway # <<>> /\ Head(toGateway).kind = "mint" /\ toGateway' = Tail(toGateway)
       /\ CanBridgeMint("GW", d)
       /\ chain'["GW"] = ForwardedBridgeMint("GW", chain["GW"], d.chainData)
       /\ chain'["L1"] = chain["L1"]
       /\ hub' = [hub EXCEPT !["GW"] = "GW"]
       /\ root' = [root EXCEPT !["GW"] = d.batchNumber]
       /\ handler'["GW"].migrationNumber = d.migrationNumber
       /\ handler'["L1"] = handler["L1"]
       /\ MintStatus("success")
       /\ UNCHANGED <<inProgress, interval, gatewayBatch, withdrawal, settledOn>>

\* The mint fails on the gateway.
Fails ==
    /\ toGateway # <<>> /\ Head(toGateway).kind = "mint" /\ toGateway' = Tail(toGateway)
    /\ MintStatus("failure")
    /\ UNCHANGED <<chain, hub, handler, root, inProgress, interval, gatewayBatch, withdrawal,
                   settledOn>>

\* The gateway receives an operation.
Receives ==
    /\ toGateway # <<>> /\ Head(toGateway).kind = "op" /\ toGateway' = Tail(toGateway)
    /\ SameStage("GW")
    /\ chain'["GW"].canBeActivated = chain["GW"].canBeActivated
    /\ chain'["GW"].executed = chain["GW"].executed
    /\ chain'["GW"].committed = chain["GW"].committed
    /\ chain'["GW"].tree = push(chain["GW"].tree, Head(toGateway).arg)
    /\ chain'["L1"] = chain["L1"]
    /\ UNCHANGED <<hub, handler, root, inProgress, interval, mints, gatewayBatch, withdrawal,
                   settledOn>>

\* The chain leaves the gateway.
Departs ==
    /\ toGateway # <<>> /\ Head(toGateway).kind = "burn" /\ toGateway' = Tail(toGateway)
    /\ CanBridgeBurn("GW")
    /\ chain'["GW"] = [chain["GW"] EXCEPT !.settlementLayer = "L1"]
    /\ chain'["L1"] = chain["L1"]
    /\ hub' = [hub EXCEPT !["GW"] = "L1"]
    /\ handler'["GW"].migrationNumber = handler["GW"].migrationNumber + 1
    /\ handler'["L1"] = handler["L1"]
    /\ withdrawal' = [sent |-> TRUE, finalized |-> FALSE, batch |-> gatewayBatch + 1,
                      data |-> bridgehubMintData("GW")]
    /\ UNCHANGED <<root, inProgress, interval, mints, gatewayBatch, settledOn>>

\* The result of the i-th mint is confirmed on L1.
Confirmed(i) ==
    /\ mints[i].status = "success" /\ mints[i].depositHappened
    /\ mints' = [mints EXCEPT ![i].depositHappened = FALSE]
    /\ ~inProgress'
    /\ chain'["L1"] = [chain["L1"] EXCEPT !.paused = FALSE]
    /\ chain'["GW"] = chain["GW"]
    /\ UNCHANGED <<hub, handler, root, interval, toGateway, gatewayBatch, withdrawal, settledOn>>

\* The i-th mint failed, and the chain is back on L1.
Recovered(i) ==
    /\ mints[i].status = "failure" /\ mints[i].depositHappened
    /\ mints' = [mints EXCEPT ![i].depositHappened = FALSE]
    /\ ~inProgress'
    /\ chain'["L1"] = [chain["L1"] EXCEPT !.paused = FALSE, !.settlementLayer = "none"]
    /\ chain'["GW"] = chain["GW"]
    /\ hub' = [hub EXCEPT !["L1"] = "L1"]
    /\ handler'["L1"].migrationNumber = handler["L1"].migrationNumber - 1
    /\ handler'["GW"] = handler["GW"]
    /\ interval' = NoInterval
    /\ UNCHANGED <<root, toGateway, gatewayBatch, withdrawal, settledOn>>

\* The chain returns to L1.
Returns ==
    LET d == withdrawal.data
    IN /\ CanVerifyWithdrawal
       /\ CanBridgeMint("L1", d)
       /\ chain'["L1"] = ForwardedBridgeMint("L1", chain["L1"], d.chainData)
       /\ chain'["GW"] = chain["GW"]
       /\ hub' = [hub EXCEPT !["L1"] = "L1"]
       /\ root' = [root EXCEPT !["L1"] = d.batchNumber]
       /\ handler'["L1"].migrationNumber = d.migrationNumber
       /\ handler'["GW"] = handler["GW"]
       /\ withdrawal' = [withdrawal EXCEPT !.finalized = TRUE]
       /\ interval' = recordMigrationFromSL(interval, d.batchNumber, gatewayBatch)
       /\ UNCHANGED <<inProgress, toGateway, mints, gatewayBatch, settledOn>>

StepClasses ==
    \/ Quiet \/ Requests \/ Leaves \/ Arrives \/ Fails \/ Receives \/ Departs \/ Returns
    \/ \E l \in Layers, k \in 0 .. MaxOps : Executes(l, k)
    \/ \E i \in DOMAIN mints : Confirmed(i) \/ Recovered(i)

\* One diamond is updated.
LEMMA DiamondUpdate ==
    ASSUME chain \in [Layers -> Diamonds], NEW l \in Layers, NEW new \in Diamonds,
           chain' = [chain EXCEPT ![l] = new]
    PROVE  /\ chain' \in [Layers -> Diamonds]
           /\ chain'[l] = new
           /\ \A m \in Layers : m # l => chain'[m] = chain[m]
  BY Zenon

\* The migration number or the pause of one handler is updated.
LEMMA HandlerUpdate ==
    ASSUME handler \in [Layers -> [migrationNumber : Nat, migrationPaused : BOOLEAN]],
           NEW l \in Layers
    PROVE  /\ \A n \in Nat : handler' = [handler EXCEPT ![l].migrationNumber = n] =>
                /\ handler' \in [Layers -> [migrationNumber : Nat, migrationPaused : BOOLEAN]]
                /\ handler'[l].migrationNumber = n
                /\ \A m \in Layers : m # l => handler'[m] = handler[m]
           /\ handler' = [handler EXCEPT ![l].migrationPaused = ~@] =>
                /\ handler' \in [Layers -> [migrationNumber : Nat, migrationPaused : BOOLEAN]]
                /\ SameHandlers
<1> DEFINE R == [migrationNumber : Nat, migrationPaused : BOOLEAN]
<1>1. handler[l] \in R
  BY Zenon
<1>2. ASSUME NEW n \in Nat, handler' = [handler EXCEPT ![l].migrationNumber = n]
      PROVE  /\ handler' \in [Layers -> R]
             /\ handler'[l].migrationNumber = n
             /\ \A m \in Layers : m # l => handler'[m] = handler[m]
  <2> DEFINE new == [handler[l] EXCEPT !.migrationNumber = n]
  <2>1. new \in R /\ new.migrationNumber = n
    BY <1>1, Zenon
  <2>2. handler' = [handler EXCEPT ![l] = new]
    BY <1>2, Zenon
  <2> HIDE DEF new, R
  <2>3. QED
    BY <2>1, <2>2, Zenon DEF R
<1>3. ASSUME handler' = [handler EXCEPT ![l].migrationPaused = ~@]
      PROVE  handler' \in [Layers -> R] /\ SameHandlers
  <2> DEFINE new == [handler[l] EXCEPT !.migrationPaused = ~handler[l].migrationPaused]
  <2>1. new \in R /\ new.migrationNumber = handler[l].migrationNumber
    BY <1>1, Zenon
  <2>2. handler' = [handler EXCEPT ![l] = new]
    BY <1>3, Zenon
  <2> HIDE DEF new
  <2>3. \A m \in Layers : handler'[m] = IF m = l THEN new ELSE handler[m]
    BY <2>2, Zenon
  <2>4. SameHandlers
    BY <2>1, <2>3, Zenon DEF SameHandlers
  <2> HIDE DEF R
  <2>5. QED
    BY <2>1, <2>2, <2>4, Zenon DEF R
<1>4. QED
  BY <1>2, <1>3, Zenon

\* A transaction is sent, or the head of the queue executed.
LEMMA QueueStep ==
    ASSUME TypeOK
    PROVE  /\ \A kind \in Kinds, arg \in Nat : SendToGateway(kind, arg) =>
                /\ toGateway' \in Seq(Transactions)
                /\ toGateway' = Append(toGateway, [kind |-> kind, arg |-> arg])
           /\ \A kind \in Kinds : Dequeue(kind) =>
                /\ toGateway # <<>> /\ Head(toGateway).kind = kind
                /\ Head(toGateway).arg \in Nat
                /\ toGateway' = Tail(toGateway)
                /\ toGateway' \in Seq(Transactions)
<1>1. \A kind \in Kinds, arg \in Nat : SendToGateway(kind, arg) =>
                /\ toGateway' \in Seq(Transactions)
                /\ toGateway' = Append(toGateway, [kind |-> kind, arg |-> arg])
  BY QueueTypes, Zenon DEF TypeOK, SendToGateway
<1>2. ASSUME NEW kind \in Kinds, Dequeue(kind)
      PROVE  /\ toGateway # <<>> /\ Head(toGateway).kind = kind
             /\ Head(toGateway).arg \in Nat
             /\ toGateway' = Tail(toGateway)
             /\ toGateway' \in Seq(Transactions)
  <2>1. /\ toGateway # <<>> /\ Head(toGateway).kind = kind /\ toGateway' = Tail(toGateway)
        /\ Head(toGateway) \in Transactions /\ toGateway' \in Seq(Transactions)
    BY <1>2, QueueTypes, Zenon DEF Dequeue, TypeOK
  <2>2. Head(toGateway).arg \in Nat
    BY <2>1, Zenon DEF Transactions, Kinds
  <2>3. QED
    BY <2>1, <2>2, Zenon
<1>3. QED
  BY <1>1, <1>2, Zenon

\* A diamond that keeps what tells the stages apart.
SameDiamond(l, new) ==
    /\ new.deployed = chain[l].deployed
    /\ new.settlementLayer = chain[l].settlementLayer
    /\ new.tree = chain[l].tree
    /\ new.executed = chain[l].executed
    /\ new.committed = chain[l].committed \/ Settles(chain[l])

\* The update of such a diamond changes nothing of a stage.
LEMMA QuietUpdate ==
    ASSUME chain \in [Layers -> Diamonds], NEW l \in Layers, NEW new \in Diamonds,
           chain' = [chain EXCEPT ![l] = new],
           SameDiamond(l, new),
           new.canBeActivated = chain[l].canBeActivated \/ (l = "L1" /\ ~Away),
           l = "L1" => new.paused \/ ~inProgress \/ new.paused = chain["L1"].paused
    PROVE  chain' \in [Layers -> Diamonds] /\ QuietDiamonds
<1>1. /\ chain' \in [Layers -> Diamonds] /\ chain'[l] = new
      /\ \A m \in Layers : m # l => chain'[m] = chain[m]
  BY DiamondUpdate, Zenon
<1>2. QED
  BY <1>1, Zenon DEF SameDiamond, QuietDiamonds, SameStage, Layers

\* What remains to be shown of a step that changes nothing of a stage.
LEMMA QuietStep ==
    ASSUME TypeOK, chain' \in [Layers -> Diamonds], QuietDiamonds,
           toGateway' \in Seq(Transactions), QuietQueue,
           handler' \in [Layers -> [migrationNumber : Nat, migrationPaused : BOOLEAN]], SameHandlers,
           UNCHANGED <<hub, root, inProgress, interval, mints, gatewayBatch, withdrawal, settledOn>>
    PROVE  TypeOK' /\ Quiet
<1>1. TypeOK'
  BY Zenon DEF TypeOK
<1>2. gatewayBatch \in Nat /\ gatewayBatch' = gatewayBatch
  BY Zenon DEF TypeOK
<1>3. gatewayBatch <= gatewayBatch'
  BY <1>2
<1>4. QED
  BY <1>1, <1>3, Zenon DEF Quiet

\* Every step of the contracts is of one of the classes, and keeps the types.
LEMMA StepCases ==
    ASSUME TypeOK, Control, MintsOK, TreeOfGateway, Returning, ContractNext
    PROVE  TypeOK' /\ StepClasses
<1> USE MigrationAssumption
<1>a. /\ chain \in [Layers -> Diamonds] /\ "L1" \in Layers /\ "GW" \in Layers /\ "L1" # "GW"
      /\ chain["L1"] \in Diamonds /\ chain["GW"] \in Diamonds
      /\ Layers = {"L1", "GW"}
  BY Zenon DEF TypeOK, Layers
<1>1. CASE RequestL2Transaction
  <2> DEFINE op == Len(chain["L1"].tree.leaves) + 1
             t == push(chain["L1"].tree, op)
             new == [chain["L1"] EXCEPT !.tree = t]
  <2>1. chain["L1"].tree \in Tree(Nat) /\ op \in Nat
    BY <1>a DEF Diamonds, Tree
  <2>2. t \in Tree(Nat)
    BY <2>1, TreeTypes, Zenon
  <2>3. chain' = [chain EXCEPT !["L1"] = new]
    BY <1>1, <1>a, Zenon DEF RequestL2Transaction
  <2>4. /\ ~inProgress
        /\ (Away /\ SendToGateway("op", op)) \/ (~Away /\ toGateway' = toGateway)
        /\ UNCHANGED <<hub, handler, root, inProgress, interval, mints, gatewayBatch, withdrawal,
                       settledOn>>
    BY <1>1, Zenon DEF RequestL2Transaction, depositsPaused, Away
  <2>5. /\ toGateway' \in Seq(Transactions)
        /\ toGateway' = IF Away THEN Append(toGateway, [kind |-> "op", arg |-> op]) ELSE toGateway
    <3>1. "op" \in Kinds
      BY Zenon DEF Kinds
    <3>2. QED
      BY <2>1, <2>4, <3>1, QueueStep, Zenon DEF TypeOK
  <2> HIDE DEF op, t
  <2>6. /\ new \in Diamonds /\ new.deployed = chain["L1"].deployed
        /\ new.settlementLayer = chain["L1"].settlementLayer
        /\ new.canBeActivated = chain["L1"].canBeActivated
        /\ new.executed = chain["L1"].executed /\ new.committed = chain["L1"].committed
        /\ new.tree = t
    BY <1>a, <2>2, Zenon DEF Diamonds
  <2> HIDE DEF new
  <2>7. chain' \in [Layers -> Diamonds] /\ chain'["L1"] = new /\ chain'["GW"] = chain["GW"]
    BY <1>a, <2>3, <2>6, DiamondUpdate, Zenon
  <2>8. TypeOK'
    BY <2>4, <2>5, <2>7, Zenon DEF TypeOK
  <2>9. Requests
    BY <2>4, <2>5, <2>6, <2>7, Zenon DEF Requests, SameStage, op, t
  <2>10. QED
    BY <2>8, <2>9, Zenon DEF StepClasses
<1>2. CASE PauseDeposits
  <2> DEFINE new == [chain["L1"] EXCEPT !.paused = TRUE]
  <2>1. /\ chain' = [chain EXCEPT !["L1"] = new]
        /\ SendToGateway("pause", 0) \/ toGateway' = toGateway
        /\ UNCHANGED <<hub, handler, root, inProgress, interval, mints, gatewayBatch, withdrawal,
                       settledOn>>
    BY <1>2, Zenon DEF PauseDeposits
  <2>2. toGateway' \in Seq(Transactions) /\ QuietQueue
    <3>1. "pause" \in Kinds /\ "pause" \in Kinds \ {"op"} /\ 0 \in Nat
      BY Zenon DEF Kinds
    <3>2. QED
      BY <2>1, <3>1, QueueStep, Zenon DEF TypeOK, QuietQueue
  <2>3. new \in Diamonds /\ SameDiamond("L1", new) /\ new.paused
        /\ new.canBeActivated = chain["L1"].canBeActivated
    BY <1>a, Zenon DEF Diamonds, SameDiamond
  <2> HIDE DEF new
  <2>4. chain' \in [Layers -> Diamonds] /\ QuietDiamonds
    BY <1>a, <2>1, <2>3, QuietUpdate, Zenon
  <2>5. QED
    BY <2>1, <2>2, <2>4, QuietStep, Zenon DEF SameHandlers, TypeOK, StepClasses
<1>3. CASE UnpauseDeposits
  <2> DEFINE new == [chain["L1"] EXCEPT !.paused = FALSE]
  <2>1. /\ ~inProgress
        /\ chain' = [chain EXCEPT !["L1"] = new]
        /\ UNCHANGED <<hub, handler, root, inProgress, interval, toGateway, mints, gatewayBatch,
                       withdrawal, settledOn>>
    BY <1>3, Zenon DEF UnpauseDeposits
  <2>2. new \in Diamonds /\ SameDiamond("L1", new) /\ new.canBeActivated = chain["L1"].canBeActivated
    BY <1>a, Zenon DEF Diamonds, SameDiamond
  <2> HIDE DEF new
  <2>3. chain' \in [Layers -> Diamonds] /\ QuietDiamonds
    BY <1>a, <2>1, <2>2, QuietUpdate, Zenon
  <2>4. QED
    BY <2>1, <2>3, QuietStep, Zenon DEF SameHandlers, QuietQueue, TypeOK, StepClasses
<1>4. CASE PermanentlyAllowPriorityMode
  <2> DEFINE new == [chain["L1"] EXCEPT !.canBeActivated = TRUE]
  <2>1. /\ ~Away
        /\ chain' = [chain EXCEPT !["L1"] = new]
        /\ UNCHANGED <<hub, handler, root, inProgress, interval, toGateway, mints, gatewayBatch,
                       withdrawal, settledOn>>
    BY <1>4, Zenon DEF PermanentlyAllowPriorityMode, Away
  <2>2. new \in Diamonds /\ SameDiamond("L1", new) /\ new.paused = chain["L1"].paused
    BY <1>a, Zenon DEF Diamonds, SameDiamond
  <2> HIDE DEF new
  <2>3. chain' \in [Layers -> Diamonds] /\ QuietDiamonds
    BY <1>a, <2>1, <2>2, QuietUpdate, Zenon
  <2>4. QED
    BY <2>1, <2>3, QuietStep, Zenon DEF SameHandlers, QuietQueue, TypeOK, StepClasses
<1>5. CASE SetDAValidatorPair
  <2> DEFINE new == [chain["L1"] EXCEPT !.daPair = TRUE]
  <2>1. /\ chain' = [chain EXCEPT !["L1"] = new]
        /\ UNCHANGED <<hub, handler, root, inProgress, interval, toGateway, mints, gatewayBatch,
                       withdrawal, settledOn>>
    BY <1>5, Zenon DEF SetDAValidatorPair
  <2>2. /\ new \in Diamonds /\ SameDiamond("L1", new) /\ new.paused = chain["L1"].paused
        /\ new.canBeActivated = chain["L1"].canBeActivated
    BY <1>a, Zenon DEF Diamonds, SameDiamond
  <2> HIDE DEF new
  <2>3. chain' \in [Layers -> Diamonds] /\ QuietDiamonds
    BY <1>a, <2>1, <2>2, QuietUpdate, Zenon
  <2>4. QED
    BY <2>1, <2>3, QuietStep, Zenon DEF SameHandlers, QuietQueue, TypeOK, StepClasses
<1>6. CASE \E l \in Layers : CommitBatch(l) \/ RevertBatch(l)
  <2> PICK l \in Layers : CommitBatch(l) \/ RevertBatch(l)
    BY <1>6, Zenon
  <2>1. chain[l] \in Diamonds /\ chain[l].committed \in Nat /\ chain[l].executed \in Nat
    BY <1>a, Zenon DEF Diamonds
  <2>2. PICK n \in Nat : /\ Settles(chain[l])
                         /\ chain' = [chain EXCEPT ![l] = [chain[l] EXCEPT !.committed = n]]
                         /\ UNCHANGED <<hub, handler, root, inProgress, interval, toGateway, mints,
                                        gatewayBatch, withdrawal, settledOn>>
    <3>1. CASE CommitBatch(l)
      <4>1. chain[l].committed + 1 \in Nat
        BY <2>1
      <4>2. QED
        BY <3>1, <4>1, Zenon DEF CommitBatch
    <3>2. CASE RevertBatch(l)
      <4>1. chain[l].committed - 1 \in Nat
        BY <2>1, <3>2 DEF RevertBatch
      <4>2. QED
        BY <3>2, <4>1, Zenon DEF RevertBatch
    <3>3. QED
      BY <3>1, <3>2, Zenon
  <2> DEFINE new == [chain[l] EXCEPT !.committed = n]
  <2>3. /\ new \in Diamonds /\ SameDiamond(l, new) /\ new.paused = chain[l].paused
        /\ new.canBeActivated = chain[l].canBeActivated
    BY <2>1, <2>2, Zenon DEF Diamonds, SameDiamond
  <2>4. chain' = [chain EXCEPT ![l] = new]
    BY <2>2, Zenon
  <2> HIDE DEF new
  <2>5. chain' \in [Layers -> Diamonds] /\ QuietDiamonds
    BY <1>a, <2>3, <2>4, QuietUpdate, Zenon
  <2>6. QED
    BY <2>2, <2>5, QuietStep, Zenon DEF SameHandlers, QuietQueue, TypeOK, StepClasses
<1>7. CASE \E l \in Layers : SetMigrationPaused(l)
  <2> PICK l \in Layers : SetMigrationPaused(l)
    BY <1>7, Zenon
  <2>1. /\ handler' = [handler EXCEPT ![l].migrationPaused = ~@]
        /\ UNCHANGED <<chain, hub, root, inProgress, interval, toGateway, mints, gatewayBatch,
                       withdrawal, settledOn>>
    BY Zenon DEF SetMigrationPaused
  <2>2. /\ handler' \in [Layers -> [migrationNumber : Nat, migrationPaused : BOOLEAN]]
        /\ SameHandlers
    BY <2>1, HandlerUpdate, Zenon DEF TypeOK
  <2>3. QuietDiamonds
    BY <2>1, Zenon DEF QuietDiamonds, SameStage
  <2>4. QED
    BY <2>1, <2>2, <2>3, QuietStep, Zenon DEF QuietQueue, TypeOK, StepClasses
<1>v. CASE \E l \in Layers : SetNewVersionUpgrade(l) \/ UpgradeChainFromVersion(l)
  <2>1. UNCHANGED <<chain, hub, handler, root, inProgress, interval, toGateway, mints, gatewayBatch,
                    withdrawal, settledOn>>
    BY <1>v, Zenon DEF SetNewVersionUpgrade, UpgradeChainFromVersion
  <2>2. QuietDiamonds
    BY <2>1, Zenon DEF QuietDiamonds, SameStage
  <2>3. QED
    BY <2>1, <2>2, QuietStep, Zenon DEF SameHandlers, QuietQueue, TypeOK, StepClasses
<1>8. CASE \E kind \in {"burn", "validators", "daPair"} : RequestOnGateway(kind)
  <2> PICK kind \in {"burn", "validators", "daPair"} : RequestOnGateway(kind)
    BY <1>8, Zenon
  <2>1. /\ SendToGateway(kind, 0)
        /\ UNCHANGED <<chain, hub, handler, root, inProgress, interval, mints, gatewayBatch,
                       withdrawal, settledOn>>
    BY Zenon DEF RequestOnGateway
  <2>2. toGateway' \in Seq(Transactions) /\ QuietQueue
    <3>1. kind \in Kinds /\ kind \in Kinds \ {"op"} /\ 0 \in Nat
      BY Zenon DEF Kinds
    <3>2. QED
      BY <2>1, <3>1, QueueStep, Zenon DEF QuietQueue
  <2>3. QuietDiamonds
    BY <2>1, Zenon DEF QuietDiamonds, SameStage
  <2>4. QED
    BY <2>1, <2>2, <2>3, QuietStep, Zenon DEF SameHandlers, TypeOK, StepClasses
<1>9. CASE GatewayPause
  <2> DEFINE new == [chain["GW"] EXCEPT !.paused = TRUE]
  <2>1. /\ Dequeue("pause")
        /\ chain' = [chain EXCEPT !["GW"] = new]
        /\ UNCHANGED <<hub, handler, root, inProgress, interval, mints, gatewayBatch, withdrawal,
                       settledOn>>
    BY <1>9, Zenon DEF GatewayPause
  <2>2. toGateway' \in Seq(Transactions) /\ QuietQueue
    <3>1. "pause" \in Kinds
      BY Zenon DEF Kinds
    <3>2. QED
      BY <2>1, <3>1, QueueStep, Zenon DEF QuietQueue
  <2>3. new \in Diamonds /\ SameDiamond("GW", new) /\ new.canBeActivated = chain["GW"].canBeActivated
    BY <1>a, Zenon DEF Diamonds, SameDiamond
  <2> HIDE DEF new
  <2>4. chain' \in [Layers -> Diamonds] /\ QuietDiamonds
    BY <1>a, <2>1, <2>3, QuietUpdate, Zenon
  <2>5. QED
    BY <2>1, <2>2, <2>4, QuietStep, Zenon DEF SameHandlers, TypeOK, StepClasses
<1>10. CASE \E kind \in {"validators", "daPair"} : GatewayConfigure(kind)
  <2> PICK kind \in {"validators", "daPair"} : GatewayConfigure(kind)
    BY <1>10, Zenon
  <2> DEFINE new == [chain["GW"] EXCEPT !.validators = @ \/ kind = "validators",
                                        !.daPair = @ \/ kind = "daPair"]
  <2>1. /\ Dequeue(kind)
        /\ chain' = [chain EXCEPT !["GW"] = new]
        /\ UNCHANGED <<hub, handler, root, inProgress, interval, mints, gatewayBatch, withdrawal,
                       settledOn>>
    BY <1>a, Zenon DEF GatewayConfigure, Diamonds
  <2>2. toGateway' \in Seq(Transactions) /\ QuietQueue
    <3>1. kind \in Kinds /\ kind \notin {"op", "mint"}
      BY Zenon DEF Kinds
    <3>2. QED
      BY <2>1, <3>1, QueueStep, Zenon DEF QuietQueue
  <2>3. new \in Diamonds /\ SameDiamond("GW", new) /\ new.canBeActivated = chain["GW"].canBeActivated
    BY <1>a, Zenon DEF Diamonds, SameDiamond
  <2> HIDE DEF new
  <2>4. chain' \in [Layers -> Diamonds] /\ QuietDiamonds
    BY <1>a, <2>1, <2>3, QuietUpdate, Zenon
  <2>5. QED
    BY <2>1, <2>2, <2>4, QuietStep, Zenon DEF SameHandlers, TypeOK, StepClasses
<1>11. CASE GatewaySettles
  <2>1. /\ gatewayBatch \in Nat /\ gatewayBatch' = gatewayBatch + 1
        /\ UNCHANGED <<chain, hub, handler, root, inProgress, interval, toGateway, mints,
                       withdrawal, settledOn>>
    BY <1>11, Zenon DEF GatewaySettles, TypeOK
  <2>n. gatewayBatch' \in Nat
    BY <2>1
  <2>2. TypeOK'
    BY <2>1, <2>n, Zenon DEF TypeOK
  <2>3. QuietDiamonds
    BY <2>1, Zenon DEF QuietDiamonds, SameStage
  <2>4. QED
    BY <2>1, <2>2, <2>3 DEF SameHandlers, QuietQueue, Quiet, StepClasses
<1>12. CASE \E l \in Layers, k \in 0 .. MaxOps : ExecuteBatch(l, k)
  <2> PICK l \in Layers, k \in 0 .. MaxOps : ExecuteBatch(l, k)
    BY <1>12, Zenon
  <2> DEFINE n == chain[l].tree.unprocessedIndex + k
             t == [chain[l].tree EXCEPT !.unprocessedIndex = n]
             new == [chain[l] EXCEPT !.executed = chain[l].executed + 1, !.tree = t]
             at == [sl |-> l, slBatch |-> IF l = "GW" THEN gatewayBatch + 1 ELSE 0]
  <2>1. /\ chain[l] \in Diamonds /\ chain[l].tree \in Tree(Nat) /\ n \in Nat
        /\ chain[l].executed + 1 \in Nat
    <3>1. chain[l] \in Diamonds
      BY <1>a, Zenon
    <3>2. chain[l].tree \in Tree(Nat) /\ chain[l].executed \in Nat
      BY <3>1, Zenon DEF Diamonds
    <3>3. chain[l].tree.unprocessedIndex \in Nat
      BY <3>2, Zenon DEF Tree
    <3>4. QED
      BY <3>1, <3>2, <3>3
  <2>2. t \in Tree(Nat)
    BY <2>1, TreeTypes, Zenon
  <2>3. /\ Settles(chain[l]) /\ k <= getSize(chain[l].tree)
        /\ chain' = [chain EXCEPT ![l] = new]
        /\ root' = [root EXCEPT ![l] = @ + 1]
        /\ settledOn' = Append(settledOn, at)
        /\ UNCHANGED <<hub, handler, inProgress, interval, toGateway, mints, gatewayBatch, withdrawal>>
    BY <2>1, Zenon DEF ExecuteBatch, Diamonds
  <2> HIDE DEF n, t
  <2>4. /\ new \in Diamonds /\ new.deployed = chain[l].deployed
        /\ new.settlementLayer = chain[l].settlementLayer
        /\ new.canBeActivated = chain[l].canBeActivated /\ new.paused = chain[l].paused
        /\ new.executed = chain[l].executed + 1 /\ new.tree = t
    BY <2>1, <2>2, Zenon DEF Diamonds
  <2> HIDE DEF new
  <2>5. /\ chain' \in [Layers -> Diamonds] /\ chain'[l] = new
        /\ \A m \in Layers : m # l => chain'[m] = chain[m]
    BY <1>a, <2>3, <2>4, DiamondUpdate, Zenon
  <2>6. root' \in [Layers -> Nat]
    <3>1. root \in [Layers -> Nat]
      BY Zenon DEF TypeOK
    <3>2. root[l] + 1 \in Nat
      BY <3>1
    <3>3. QED
      BY <2>3, <3>1, <3>2, Zenon
  <2>7. settledOn' \in Seq([sl : Layers, slBatch : Nat])
    <3> DEFINE E == [sl : Layers, slBatch : Nat]
    <3>1. gatewayBatch \in Nat /\ settledOn \in Seq(E)
      BY Zenon DEF TypeOK
    <3>2. at \in E
      BY <3>1
    <3> HIDE DEF at, E
    <3>3. settledOn' \in Seq(E)
      BY <2>3, <3>1, <3>2
    <3>4. QED
      BY <3>3, Zenon DEF E
  <2>8. TypeOK'
    BY <2>3, <2>5, <2>6, <2>7, Zenon DEF TypeOK
  <2>9. Executes(l, k)
    BY <2>3, <2>4, <2>5, Zenon DEF Executes, SameStage, t, n
  <2>10. QED
    BY <2>8, <2>9, Zenon DEF StepClasses
<1>13. CASE MigrateToGateway
  <2> DEFINE new == [chain["L1"] EXCEPT !.settlementLayer = "GW"]
             m == handler["L1"].migrationNumber + 1
             tx == [kind |-> "mint", arg |-> bridgehubMintData("L1")]
             mint == [status |-> "pending", batch |-> 0, depositHappened |-> TRUE]
  <2>1. /\ CanBridgeBurn("L1")
        /\ chain' = [chain EXCEPT !["L1"] = new]
        /\ hub' = [hub EXCEPT !["L1"] = "GW"]
        /\ handler' = [handler EXCEPT !["L1"].migrationNumber = m]
        /\ inProgress' = TRUE
        /\ interval' = recordMigrationToSL(root["L1"], gatewayBatch)
        /\ toGateway' = Append(toGateway, tx)
        /\ mints' = Append(mints, mint)
        /\ UNCHANGED <<root, gatewayBatch, withdrawal, settledOn>>
    BY <1>13, Zenon DEF MigrateToGateway, BridgeBurn, SendToGateway
  <2>2. m \in Nat /\ m = 1
    BY <2>1 DEF CanBridgeBurn, ToGateway
  <2>3. /\ handler' \in [Layers -> [migrationNumber : Nat, migrationPaused : BOOLEAN]]
        /\ handler'["L1"].migrationNumber = 1 /\ handler'["GW"] = handler["GW"]
    <3> HIDE DEF m
    <3>1. QED
      BY <1>a, <2>1, <2>2, HandlerUpdate, Zenon DEF TypeOK
  <2>4. toGateway' \in Seq(Transactions)
    <3>1. bridgehubMintData("L1") \in MintData
      BY <1>a, MintDataType, Zenon
    <3>2. tx \in Transactions
      BY <3>1, Zenon DEF Transactions
    <3> HIDE DEF tx
    <3>3. QED
      BY <2>1, <3>2 DEF TypeOK
  <2>5. mints' \in Seq(Mints)
    <3>1. mint \in Mints
      BY Zenon DEF Mints
    <3> HIDE DEF mint
    <3>2. QED
      BY <2>1, <3>1 DEF TypeOK
  <2>6. new \in Diamonds
    BY <1>a, Zenon DEF Diamonds
  <2> HIDE DEF new
  <2>7. chain' \in [Layers -> Diamonds] /\ chain'["L1"] = new /\ chain'["GW"] = chain["GW"]
    BY <1>a, <2>1, <2>6, DiamondUpdate, Zenon
  <2>8. hub' \in [Layers -> {"none", "L1", "GW"}]
    BY <2>1, Zenon DEF TypeOK
  <2>9. interval' \in [from : Nat, to : Nat, lower : Nat, upper : Nat, sl : {"none", "GW"},
                       isActive : BOOLEAN]
    BY <1>a, <2>1, Zenon DEF TypeOK, recordMigrationToSL
  <2>10. TypeOK'
    BY <2>1, <2>3, <2>4, <2>5, <2>7, <2>8, <2>9, Zenon DEF TypeOK
  <2>11. Leaves
    BY <2>1, <2>3, <2>7, Zenon DEF Leaves, new
  <2>12. QED
    BY <2>10, <2>11, Zenon DEF StepClasses
<1>14. CASE FinalizeMigration
  <2> DEFINE d == withdrawal.data
             new == ForwardedBridgeMint("L1", chain["L1"], d.chainData)
  <2>1. withdrawal.sent /\ Away
    BY <1>14, Zenon DEF FinalizeMigration, CanVerifyWithdrawal, CanBridgeMint, CanForwardedBridgeMint, Away
  <2>2. d \in MintData
    BY <2>1, Zenon DEF Returning, Carries
  <2>3. d.batchNumber \in Nat /\ d.migrationNumber \in Nat
    BY <2>2, Zenon DEF MintData
  <2>4. new \in Diamonds
    BY <1>a, <2>2, MintedType, Zenon
  <2> HIDE DEF d
  <2>5. /\ CanVerifyWithdrawal /\ CanBridgeMint("L1", d)
        /\ chain' = [chain EXCEPT !["L1"] = new]
        /\ hub' = [hub EXCEPT !["L1"] = "L1"]
        /\ root' = [root EXCEPT !["L1"] = d.batchNumber]
        /\ handler' = [handler EXCEPT !["L1"].migrationNumber = d.migrationNumber]
        /\ interval' = recordMigrationFromSL(interval, d.batchNumber, gatewayBatch)
        /\ withdrawal' = [withdrawal EXCEPT !.finalized = TRUE]
        /\ UNCHANGED <<inProgress, toGateway, mints, gatewayBatch, settledOn>>
    BY <1>14, Zenon DEF FinalizeMigration, BridgeMint, d
  <2> HIDE DEF new
  <2>6. chain' \in [Layers -> Diamonds] /\ chain'["L1"] = new /\ chain'["GW"] = chain["GW"]
    BY <1>a, <2>4, <2>5, DiamondUpdate, Zenon
  <2>7. /\ handler' \in [Layers -> [migrationNumber : Nat, migrationPaused : BOOLEAN]]
        /\ handler'["L1"].migrationNumber = d.migrationNumber /\ handler'["GW"] = handler["GW"]
    BY <1>a, <2>3, <2>5, HandlerUpdate, Zenon DEF TypeOK
  <2>8. hub' \in [Layers -> {"none", "L1", "GW"}] /\ root' \in [Layers -> Nat]
    BY <2>3, <2>5, Zenon DEF TypeOK
  <2>9. interval' \in [from : Nat, to : Nat, lower : Nat, upper : Nat, sl : {"none", "GW"},
                       isActive : BOOLEAN]
    BY <2>3, <2>5, Zenon DEF TypeOK, recordMigrationFromSL
  <2>10. withdrawal' \in [sent : BOOLEAN, finalized : BOOLEAN, batch : Nat, data : {withdrawal'.data}]
    BY <2>5, Zenon DEF TypeOK
  <2>11. TypeOK'
    BY <2>5, <2>6, <2>7, <2>8, <2>9, <2>10, Zenon DEF TypeOK
  <2>12. Returns
    BY <2>5, <2>6, <2>7, Zenon DEF Returns, new, d
  <2>13. QED
    BY <2>11, <2>12, Zenon DEF StepClasses
<1>15. CASE \E i \in DOMAIN mints : ConfirmSuccess(i) \/ ConfirmFailure(i)
  <2> PICK i \in DOMAIN mints : ConfirmSuccess(i) \/ ConfirmFailure(i)
    BY <1>15, Zenon
  <2> DEFINE mint == [mints[i] EXCEPT !.depositHappened = FALSE]
  <2>1. mints' = [mints EXCEPT ![i] = mint]
    BY Zenon DEF ConfirmSuccess, ConfirmFailure, ClearTransfer
  <2>2. mints \in Seq(Mints) /\ mints[i] \in Mints
    BY DEF TypeOK
  <2>3. mints' \in Seq(Mints)
    <3>1. mint \in Mints
      BY <2>2, Zenon DEF Mints
    <3> HIDE DEF mint
    <3>2. QED
      BY <2>1, <2>2, <3>1, MintUpdate, Zenon
  <2>4. CASE ConfirmSuccess(i)
    <3> DEFINE new == [chain["L1"] EXCEPT !.paused = FALSE]
    <3>1. /\ mints[i].status = "success" /\ mints[i].depositHappened
          /\ chain' = [chain EXCEPT !["L1"] = new]
          /\ inProgress' = FALSE
          /\ UNCHANGED <<hub, handler, root, interval, toGateway, gatewayBatch, withdrawal, settledOn>>
      BY <2>4, Zenon DEF ConfirmSuccess, CanClearTransfer
    <3>2. new \in Diamonds
      BY <1>a, Zenon DEF Diamonds
    <3> HIDE DEF new
    <3>3. chain' \in [Layers -> Diamonds] /\ chain'["L1"] = new /\ chain'["GW"] = chain["GW"]
      BY <1>a, <3>1, <3>2, DiamondUpdate, Zenon
    <3>4. TypeOK'
      BY <2>3, <3>1, <3>3, Zenon DEF TypeOK
    <3>5. Confirmed(i)
      BY <2>1, <3>1, <3>3, Zenon DEF Confirmed, new
    <3>6. QED
      BY <3>4, <3>5, Zenon DEF StepClasses
  <2>5. CASE ConfirmFailure(i)
    <3> DEFINE new == [chain["L1"] EXCEPT !.paused = FALSE, !.settlementLayer = "none"]
               m == handler["L1"].migrationNumber - 1
    <3>1. /\ mints[i].status = "failure" /\ mints[i].depositHappened
          /\ chain' = [chain EXCEPT !["L1"] = new]
          /\ hub' = [hub EXCEPT !["L1"] = "L1"]
          /\ handler' = [handler EXCEPT !["L1"].migrationNumber = m]
          /\ interval' = NoInterval
          /\ inProgress' = FALSE
          /\ UNCHANGED <<root, toGateway, gatewayBatch, withdrawal, settledOn>>
      BY <1>a, <2>5, Zenon DEF ConfirmFailure, CanClearTransfer, Diamonds
    <3>2. new \in Diamonds
      BY <1>a, Zenon DEF Diamonds
    <3>3. m \in Nat
      BY <2>5 DEF ConfirmFailure, CanRecover, ToGateway
    <3> HIDE DEF new, m
    <3>4. chain' \in [Layers -> Diamonds] /\ chain'["L1"] = new /\ chain'["GW"] = chain["GW"]
      BY <1>a, <3>1, <3>2, DiamondUpdate, Zenon
    <3>5. /\ handler' \in [Layers -> [migrationNumber : Nat, migrationPaused : BOOLEAN]]
          /\ handler'["L1"].migrationNumber = m /\ handler'["GW"] = handler["GW"]
      BY <1>a, <3>1, <3>3, HandlerUpdate, Zenon DEF TypeOK
    <3>6. hub' \in [Layers -> {"none", "L1", "GW"}]
      BY <3>1, Zenon DEF TypeOK
    <3>7. interval' \in [from : Nat, to : Nat, lower : Nat, upper : Nat, sl : {"none", "GW"},
                         isActive : BOOLEAN]
      BY <3>1, Zenon DEF NoInterval
    <3>8. TypeOK'
      BY <2>3, <3>1, <3>4, <3>5, <3>6, <3>7, Zenon DEF TypeOK
    <3>9. Recovered(i)
      BY <2>1, <3>1, <3>4, <3>5, Zenon DEF Recovered, new, m
    <3>10. QED
      BY <3>8, <3>9, Zenon DEF StepClasses
  <2>6. QED
    BY <2>4, <2>5, Zenon
<1>16. CASE GatewayMint
  <2> DEFINE d == Head(toGateway).arg
             new == ForwardedBridgeMint("GW", chain["GW"], d.chainData)
  <2>1. /\ toGateway # <<>> /\ Head(toGateway).kind = "mint"
        /\ toGateway' = Tail(toGateway)
        /\ Head(toGateway) \in Transactions /\ toGateway' \in Seq(Transactions)
    BY <1>16, QueueTypes, Zenon DEF GatewayMint, Dequeue, TypeOK
  <2>2. d \in MintData
    BY <2>1, Zenon DEF Transactions, Kinds
  <2>3. d.batchNumber \in Nat /\ d.migrationNumber \in Nat
    BY <2>2, Zenon DEF MintData
  <2>4. new \in Diamonds
    BY <1>a, <2>2, MintedType, Zenon
  <2> HIDE DEF d
  <2>5. /\ CanBridgeMint("GW", d)
        /\ chain' = [chain EXCEPT !["GW"] = new]
        /\ hub' = [hub EXCEPT !["GW"] = "GW"]
        /\ root' = [root EXCEPT !["GW"] = d.batchNumber]
        /\ handler' = [handler EXCEPT !["GW"].migrationNumber = d.migrationNumber]
        /\ MintStatus("success")
        /\ UNCHANGED <<inProgress, interval, gatewayBatch, withdrawal, settledOn>>
    BY <1>16, Zenon DEF GatewayMint, BridgeMint, d
  <2> HIDE DEF new
  <2>6. chain' \in [Layers -> Diamonds] /\ chain'["GW"] = new /\ chain'["L1"] = chain["L1"]
    BY <1>a, <2>4, <2>5, DiamondUpdate, Zenon
  <2>7. /\ handler' \in [Layers -> [migrationNumber : Nat, migrationPaused : BOOLEAN]]
        /\ handler'["GW"].migrationNumber = d.migrationNumber /\ handler'["L1"] = handler["L1"]
    BY <1>a, <2>3, <2>5, HandlerUpdate, Zenon DEF TypeOK
  <2>8. hub' \in [Layers -> {"none", "L1", "GW"}] /\ root' \in [Layers -> Nat]
    BY <2>3, <2>5, Zenon DEF TypeOK
  <2>9. mints' \in Seq(Mints)
    BY <2>1, <2>5, HeadMint, MintStatusUpdate, Zenon
  <2>10. TypeOK'
    BY <2>1, <2>5, <2>6, <2>7, <2>8, <2>9, Zenon DEF TypeOK
  <2>11. Arrives
    BY <2>1, <2>5, <2>6, <2>7, Zenon DEF Arrives, new, d
  <2>12. QED
    BY <2>10, <2>11, Zenon DEF StepClasses
<1>17. CASE GatewayOp
  <2> DEFINE op == Head(toGateway).arg
             t == push(chain["GW"].tree, op)
             new == [chain["GW"] EXCEPT !.tree = t]
  <2>1. /\ toGateway # <<>> /\ Head(toGateway).kind = "op" /\ op \in Nat
        /\ toGateway' = Tail(toGateway) /\ toGateway' \in Seq(Transactions)
    <3>1. "op" \in Kinds
      BY Zenon DEF Kinds
    <3>2. QED
      BY <1>17, <3>1, QueueStep, Zenon DEF GatewayOp
  <2>2. chain["GW"].tree \in Tree(Nat)
    BY <1>a, Zenon DEF Diamonds
  <2>3. t \in Tree(Nat)
    BY <2>1, <2>2, TreeTypes, Zenon
  <2>4. /\ chain' = [chain EXCEPT !["GW"] = new]
        /\ UNCHANGED <<hub, handler, root, inProgress, interval, mints, gatewayBatch, withdrawal,
                       settledOn>>
    BY <1>17, Zenon DEF GatewayOp
  <2> HIDE DEF op, t
  <2>5. /\ new \in Diamonds /\ new.deployed = chain["GW"].deployed
        /\ new.settlementLayer = chain["GW"].settlementLayer
        /\ new.canBeActivated = chain["GW"].canBeActivated
        /\ new.executed = chain["GW"].executed /\ new.committed = chain["GW"].committed
        /\ new.tree = t
    BY <1>a, <2>3, Zenon DEF Diamonds
  <2> HIDE DEF new
  <2>6. chain' \in [Layers -> Diamonds] /\ chain'["GW"] = new /\ chain'["L1"] = chain["L1"]
    BY <1>a, <2>4, <2>5, DiamondUpdate, Zenon
  <2>7. TypeOK'
    BY <2>1, <2>4, <2>6, Zenon DEF TypeOK
  <2>8. Receives
    BY <2>1, <2>4, <2>5, <2>6, Zenon DEF Receives, SameStage, op, t
  <2>9. QED
    BY <2>7, <2>8, Zenon DEF StepClasses
<1>18. CASE GatewayBurn
  <2> DEFINE new == [chain["GW"] EXCEPT !.settlementLayer = "L1"]
             m == handler["GW"].migrationNumber + 1
  <2>1. /\ toGateway # <<>> /\ Head(toGateway).kind = "burn"
        /\ toGateway' = Tail(toGateway) /\ toGateway' \in Seq(Transactions)
    <3>1. "burn" \in Kinds
      BY Zenon DEF Kinds
    <3>2. QED
      BY <1>18, <3>1, QueueStep, Zenon DEF GatewayBurn
  <2>2. /\ CanBridgeBurn("GW")
        /\ chain' = [chain EXCEPT !["GW"] = new]
        /\ hub' = [hub EXCEPT !["GW"] = "L1"]
        /\ handler' = [handler EXCEPT !["GW"].migrationNumber = m]
        /\ withdrawal' = [sent |-> TRUE, finalized |-> FALSE, batch |-> gatewayBatch + 1,
                          data |-> bridgehubMintData("GW")]
        /\ UNCHANGED <<root, inProgress, interval, mints, gatewayBatch, settledOn>>
    BY <1>18, Zenon DEF GatewayBurn, BridgeBurn
  <2>3. new \in Diamonds
    BY <1>a, Zenon DEF Diamonds
  <2>4. m \in Nat
    <3>1. handler["GW"] \in [migrationNumber : Nat, migrationPaused : BOOLEAN]
      BY <1>a, Zenon DEF TypeOK
    <3>2. QED
      BY <3>1
  <2> HIDE DEF new, m
  <2>5. chain' \in [Layers -> Diamonds] /\ chain'["GW"] = new /\ chain'["L1"] = chain["L1"]
    BY <1>a, <2>2, <2>3, DiamondUpdate, Zenon
  <2>6. /\ handler' \in [Layers -> [migrationNumber : Nat, migrationPaused : BOOLEAN]]
        /\ handler'["GW"].migrationNumber = m /\ handler'["L1"] = handler["L1"]
    BY <1>a, <2>2, <2>4, HandlerUpdate, Zenon DEF TypeOK
  <2>7. hub' \in [Layers -> {"none", "L1", "GW"}]
    BY <2>2, Zenon DEF TypeOK
  <2>8. withdrawal' \in [sent : BOOLEAN, finalized : BOOLEAN, batch : Nat, data : {withdrawal'.data}]
    BY <2>2, SMTT(30) DEF TypeOK
  <2>9. TypeOK'
    BY <2>1, <2>2, <2>5, <2>6, <2>7, <2>8, Zenon DEF TypeOK
  <2>10. Departs
    BY <2>1, <2>2, <2>5, <2>6, Zenon DEF Departs, new, m
  <2>11. QED
    BY <2>9, <2>10, Zenon DEF StepClasses
<1>19. CASE GatewayRevert
  <2>1. /\ toGateway # <<>> /\ ~SucceedsOnGateway(Head(toGateway))
        /\ toGateway' = Tail(toGateway) /\ toGateway' \in Seq(Transactions)
        /\ IF Head(toGateway).kind = "mint" THEN MintStatus("failure") ELSE UNCHANGED mints
        /\ UNCHANGED <<chain, hub, handler, root, inProgress, interval, gatewayBatch, withdrawal,
                       settledOn>>
    <3>1. toGateway \in Seq(Transactions)
      BY Zenon DEF TypeOK
    <3>2. toGateway' = Tail(toGateway) /\ toGateway # <<>>
      BY <1>19, Zenon DEF GatewayRevert
    <3>3. toGateway' \in Seq(Transactions)
      BY <3>1, <3>2
    <3>4. QED
      BY <1>19, <3>3, Zenon DEF GatewayRevert
  <2>2. Head(toGateway).kind # "op"
    <3> SUFFICES ASSUME Head(toGateway).kind = "op" PROVE FALSE
      BY Zenon
    <3>1. 1 \in OpsInFlight
      <4>1. toGateway \in Seq(Transactions)
        BY Zenon DEF TypeOK
      <4>2. 1 \in DOMAIN toGateway /\ Head(toGateway) = toGateway[1]
        BY <2>1, <4>1
      <4>3. QED
        BY <4>2, Zenon DEF OpsInFlight
    <3>2. Registered
      BY <3>1, Zenon DEF TreeOfGateway
    <3>3. QED
      BY <2>1, <3>2, Zenon DEF SucceedsOnGateway, Registered
  <2>3. CASE Head(toGateway).kind = "mint"
    <3>1. mints' \in Seq(Mints)
      BY <2>1, <2>3, HeadMint, MintStatusUpdate, Zenon
    <3>2. TypeOK'
      BY <2>1, <3>1, Zenon DEF TypeOK
    <3>3. Fails
      BY <2>1, <2>3, Zenon DEF Fails
    <3>4. QED
      BY <3>2, <3>3, Zenon DEF StepClasses
  <2>4. CASE Head(toGateway).kind # "mint"
    <3>1. QuietDiamonds
      BY <2>1, Zenon DEF QuietDiamonds, SameStage
    <3>2. QED
      BY <2>1, <2>2, <2>4, <3>1, QuietStep, Zenon DEF SameHandlers, QuietQueue, TypeOK, StepClasses
  <2>5. QED
    BY <2>3, <2>4, Zenon
<1>20. QED
  BY <1>1, <1>2, <1>3, <1>4, <1>5, <1>6, <1>7, <1>v, <1>8, <1>9, <1>10, <1>11, <1>12, <1>13, <1>14,
     <1>15, <1>16, <1>17, <1>18, <1>19, Zenon DEF ContractNext, Environment

\* The mint that the gateway executes is the one that L1 sent, and L1 has not
\* changed since.
LEMMA HeadMintData ==
    ASSUME TypeOK, MintsOK, Leaving, toGateway # <<>>, Head(toGateway).kind = "mint"
    PROVE  Head(toGateway).arg = [batchNumber |-> root["L1"], migrationNumber |-> 1,
                                  chainData |-> prepareChainCommitment(chain["L1"])]
<1>1. 1 \in MintsInFlight /\ Away /\ ~Registered
  BY HeadMint, Zenon
<1>2. toGateway[1] = Head(toGateway)
  BY DEF TypeOK
<1>3. QED
  BY <1>1, <1>2, Zenon DEF Leaving

\* The invariant about the stages is kept.
LEMMA ControlStep ==
    ASSUME TypeOK, TypeOK', Control, MintsOK, Leaving, Returning, StepClasses
    PROVE  Control'
<1>a. /\ chain["L1"] \in Diamonds /\ chain["GW"] \in Diamonds
      /\ "L1" \in Layers /\ "GW" \in Layers /\ "L1" # "GW"
  BY Zenon DEF TypeOK, Layers
<1>b. hub \in [Layers -> {"none", "L1", "GW"}]
  BY Zenon DEF TypeOK
<1>c. interval \in [from : Nat, to : Nat, lower : Nat, upper : Nat, sl : {"none", "GW"},
                    isActive : BOOLEAN]
  BY Zenon DEF TypeOK
<1>1. CASE Quiet
  BY <1>1, <1>a DEF Quiet, QuietDiamonds, SameStage, SameHandlers, Control, Away, Registered
<1>2. CASE Requests
  BY <1>2, Zenon DEF Requests, SameStage, Control, Away, Registered
<1>3. CASE \E l \in Layers, k \in 0 .. MaxOps : Executes(l, k)
  <2> PICK l \in Layers, k \in 0 .. MaxOps : Executes(l, k)
    BY <1>3, Zenon
  <2>1. /\ SameStage("L1") /\ SameStage("GW")
        /\ chain'["L1"].canBeActivated = chain["L1"].canBeActivated
        /\ chain'["GW"].canBeActivated = chain["GW"].canBeActivated
        /\ chain'["L1"].paused = chain["L1"].paused
    BY <1>a, Zenon DEF Executes, SameStage, Layers
  <2>2. UNCHANGED <<hub, handler, inProgress, interval, withdrawal>>
    BY Zenon DEF Executes
  <2>3. QED
    BY <2>1, <2>2, Zenon DEF SameStage, Control, Away, Registered
<1>4. CASE Leaves
  <2>1. /\ chain'["L1"].deployed = chain["L1"].deployed /\ chain'["L1"].settlementLayer = "GW"
        /\ chain'["L1"].canBeActivated = chain["L1"].canBeActivated
        /\ chain'["L1"].paused = chain["L1"].paused
        /\ chain'["GW"] = chain["GW"]
    BY <1>4, <1>a, Zenon DEF Leaves, Diamonds
  <2>2. /\ ~chain["L1"].canBeActivated /\ ~Away /\ chain["L1"].paused
        /\ handler["L1"].migrationNumber + 1 = 1
    BY <1>4, Zenon DEF Leaves, CanBridgeBurn, CanForwardedBridgeBurn, Away, ToGateway
  <2>3. /\ hub'["L1"] = "GW" /\ hub'["GW"] = hub["GW"]
        /\ handler'["L1"].migrationNumber = 1 /\ handler'["GW"] = handler["GW"]
        /\ inProgress' /\ withdrawal' = withdrawal
        /\ interval'.isActive /\ interval'.sl = "GW"
    BY <1>4, <1>a, <1>b, Zenon DEF Leaves, recordMigrationToSL
  <2>4. ~Registered
    BY <2>2 DEF Control, Away
  <2>5. QED
    BY <2>1, <2>2, <2>3, <2>4, Zenon DEF Control, Away, Registered
<1>5. CASE Arrives
  <2>1. Away /\ ~Registered
    BY <1>5, HeadMint, Zenon DEF Arrives
  <2>2. Head(toGateway).arg.migrationNumber = 1
    BY <1>5, HeadMintData DEF Arrives
  <2>3. /\ chain'["GW"].deployed /\ chain'["GW"].settlementLayer = "none"
        /\ chain'["GW"].canBeActivated = chain["GW"].canBeActivated
        /\ chain'["L1"] = chain["L1"]
    <3>1. /\ chain'["GW"] = ForwardedBridgeMint("GW", chain["GW"], Head(toGateway).arg.chainData)
          /\ chain'["L1"] = chain["L1"]
      BY <1>5, Zenon DEF Arrives
    <3>2. QED
      BY <1>a, <3>1, Zenon DEF ForwardedBridgeMint, Diamonds
  <2>4. /\ hub'["GW"] = "GW" /\ hub'["L1"] = hub["L1"]
        /\ handler'["GW"].migrationNumber = 1 /\ handler'["L1"] = handler["L1"]
        /\ UNCHANGED <<inProgress, interval, withdrawal>>
    BY <1>5, <1>a, <1>b, <2>2, Zenon DEF Arrives
  <2>5. QED
    BY <2>1, <2>3, <2>4, Zenon DEF Control, Away, Registered
<1>6. CASE Fails
  BY <1>6, Zenon DEF Fails, Control, Away, Registered
<1>7. CASE Receives
  BY <1>7, Zenon DEF Receives, SameStage, Control, Away, Registered
<1>8. CASE Departs
  <2>1. /\ chain'["GW"].deployed = chain["GW"].deployed /\ chain'["GW"].settlementLayer = "L1"
        /\ chain'["GW"].canBeActivated = chain["GW"].canBeActivated
        /\ chain'["L1"] = chain["L1"]
    BY <1>8, <1>a, Zenon DEF Departs, Diamonds
  <2>2. Registered /\ chain["GW"].settlementLayer = "none"
    BY <1>8, Zenon DEF Departs, CanBridgeBurn, CanForwardedBridgeBurn, Registered
  <2>3. ~withdrawal.sent /\ Away /\ handler["GW"].migrationNumber = 1
    BY <2>2, Zenon DEF Control
  <2>4. /\ hub'["GW"] = "L1" /\ hub'["L1"] = hub["L1"]
        /\ handler'["GW"].migrationNumber = 2 /\ handler'["L1"] = handler["L1"]
        /\ withdrawal'.sent /\ ~withdrawal'.finalized
        /\ UNCHANGED <<inProgress, interval>>
    BY <1>8, <1>a, <1>b, <2>3 DEF Departs
  <2>5. QED
    BY <2>1, <2>2, <2>3, <2>4, Zenon DEF Control, Away, Registered
<1>9. CASE Returns
  <2>1. withdrawal.sent /\ Away /\ Registered
    BY <1>9, Zenon DEF Returns, CanVerifyWithdrawal, CanBridgeMint, CanForwardedBridgeMint, Away, Control
  <2>2. withdrawal.data.migrationNumber = 2
    BY <2>1, Zenon DEF Returning, Carries
  <2>3. /\ chain'["L1"].deployed /\ chain'["L1"].settlementLayer = "none"
        /\ ~chain'["L1"].paused
        /\ chain'["L1"].canBeActivated = chain["L1"].canBeActivated
        /\ chain'["GW"] = chain["GW"]
    <3>1. /\ chain'["L1"] = ForwardedBridgeMint("L1", chain["L1"], withdrawal.data.chainData)
          /\ chain'["GW"] = chain["GW"]
      BY <1>9, Zenon DEF Returns
    <3>2. QED
      BY <1>a, <3>1, Zenon DEF ForwardedBridgeMint, Diamonds
  <2>4. /\ hub'["L1"] = "L1" /\ hub'["GW"] = hub["GW"]
        /\ handler'["L1"].migrationNumber = 2 /\ handler'["GW"] = handler["GW"]
        /\ inProgress' = inProgress
    BY <1>9, <1>a, <1>b, <2>2, Zenon DEF Returns
  <2>5. withdrawal'.sent = withdrawal.sent /\ withdrawal'.finalized
    BY <1>9, Zenon DEF Returns, TypeOK
  <2>6. ~interval'.isActive /\ interval'.sl = interval.sl
    BY <1>9, <1>c, Zenon DEF Returns, recordMigrationFromSL
  <2>7. QED
    BY <2>1, <2>3, <2>4, <2>5, <2>6 DEF Control, Away, Registered
<1>10. ASSUME NEW i \in DOMAIN mints, Confirmed(i)
       PROVE  Control'
  <2>1. /\ chain'["L1"].deployed = chain["L1"].deployed
        /\ chain'["L1"].settlementLayer = chain["L1"].settlementLayer
        /\ chain'["L1"].canBeActivated = chain["L1"].canBeActivated
        /\ chain'["GW"] = chain["GW"]
    BY <1>10, <1>a, Zenon DEF Confirmed, Diamonds
  <2>2. Registered
    BY <1>10 DEF Confirmed, MintsOK
  <2>3. ~inProgress' /\ UNCHANGED <<hub, handler, interval, withdrawal>>
    BY <1>10, Zenon DEF Confirmed
  <2>4. QED
    BY <2>1, <2>2, <2>3, Zenon DEF Control, Away, Registered
<1>11. ASSUME NEW i \in DOMAIN mints, Recovered(i)
       PROVE  Control'
  <2>1. /\ chain'["L1"].deployed = chain["L1"].deployed
        /\ chain'["L1"].settlementLayer = "none"
        /\ chain'["L1"].canBeActivated = chain["L1"].canBeActivated
        /\ chain'["GW"] = chain["GW"]
    BY <1>11, <1>a, Zenon DEF Recovered, Diamonds
  <2>2. Away /\ ~Registered
    BY <1>11 DEF Recovered, MintsOK
  <2>3. handler["L1"].migrationNumber = 1
    BY <2>2, Zenon DEF Control
  <2>4. /\ ~inProgress' /\ withdrawal' = withdrawal
        /\ hub'["L1"] = "L1" /\ hub'["GW"] = hub["GW"]
        /\ handler'["L1"].migrationNumber = 0 /\ handler'["GW"] = handler["GW"]
        /\ ~interval'.isActive /\ interval'.sl = "none"
    BY <1>11, <1>a, <1>b, <2>3 DEF Recovered, NoInterval
  <2>5. QED
    BY <2>1, <2>2, <2>4, Zenon DEF Control, Away, Registered
<1>12. QED
  BY <1>1, <1>2, <1>3, <1>4, <1>5, <1>6, <1>7, <1>8, <1>9, <1>10, <1>11, Zenon DEF StepClasses

\* A transaction enters the queue at its end.
LEMMA Enqueued ==
    ASSUME TypeOK, NEW tx, toGateway' = Append(toGateway, tx)
    PROVE  /\ DOMAIN toGateway = 1 .. Len(toGateway) /\ Len(toGateway) \in Nat
           /\ DOMAIN toGateway' = 1 .. Len(toGateway) + 1
           /\ \A i \in 1 .. Len(toGateway) : toGateway'[i] = toGateway[i]
           /\ toGateway'[Len(toGateway) + 1] = tx
  BY DEF TypeOK

\* A transaction leaves the queue at its head.
LEMMA Dequeued ==
    ASSUME TypeOK, toGateway # <<>>, toGateway' = Tail(toGateway)
    PROVE  /\ DOMAIN toGateway = 1 .. Len(toGateway) /\ Len(toGateway) \in Nat \ {0}
           /\ DOMAIN toGateway' = 1 .. Len(toGateway) - 1
           /\ \A i \in 1 .. Len(toGateway) - 1 : toGateway'[i] = toGateway[i + 1]
           /\ toGateway[1] = Head(toGateway)
  BY DEF TypeOK

\* Only other transactions enter or leave the queue.
NoMintMoves ==
    \/ toGateway' = toGateway
    \/ \E kind \in Kinds, arg \in Nat : toGateway' = Append(toGateway, [kind |-> kind, arg |-> arg])
    \/ toGateway # <<>> /\ Head(toGateway).kind # "mint" /\ toGateway' = Tail(toGateway)

\* The places of the mints and of the operations, before and after a step.
LEMMA InFlight ==
    /\ \A i : i \in MintsInFlight <=> i \in DOMAIN toGateway /\ toGateway[i].kind = "mint"
    /\ \A i : i \in MintsInFlight' <=> i \in DOMAIN toGateway' /\ toGateway'[i].kind = "mint"
    /\ \A i : i \in OpsInFlight <=> i \in DOMAIN toGateway /\ toGateway[i].kind = "op"
    /\ \A i : i \in OpsInFlight' <=> i \in DOMAIN toGateway' /\ toGateway'[i].kind = "op"
  BY Zenon DEF MintsInFlight, OpsInFlight

\* The mints in the queue are then neither more nor fewer.
LEMMA SameMints ==
    ASSUME TypeOK, MintsOK, NoMintMoves
    PROVE  /\ MintsInFlight' # {} <=> MintsInFlight # {}
           /\ \A i \in MintsInFlight' : \E j \in MintsInFlight : toGateway'[i] = toGateway[j]
           /\ \A i, j \in MintsInFlight' : i = j
<1>1. CASE toGateway' = toGateway
  BY <1>1, Zenon DEF MintsInFlight, MintsOK
<1>2. ASSUME NEW kind \in Kinds, NEW arg \in Nat,
             toGateway' = Append(toGateway, [kind |-> kind, arg |-> arg])
      PROVE  /\ MintsInFlight' = MintsInFlight
             /\ \A i \in MintsInFlight : toGateway'[i] = toGateway[i]
  <2> DEFINE tx == [kind |-> kind, arg |-> arg]
  <2>1. tx.kind # "mint"
    BY Zenon DEF Kinds
  <2> HIDE DEF tx
  <2>2. /\ DOMAIN toGateway = 1 .. Len(toGateway) /\ Len(toGateway) \in Nat
        /\ DOMAIN toGateway' = 1 .. Len(toGateway) + 1
        /\ \A i \in 1 .. Len(toGateway) : toGateway'[i] = toGateway[i]
        /\ toGateway'[Len(toGateway) + 1] = tx
    BY <1>2, Enqueued, Zenon DEF tx
  <2>3. QED
    <3>1. \A i : i \in MintsInFlight' <=> i \in MintsInFlight
      BY <2>1, <2>2, InFlight
    <3>2. \A i \in MintsInFlight : toGateway'[i] = toGateway[i]
      BY <2>2, InFlight, Zenon
    <3>3. QED
      BY <3>1, <3>2, Zenon
<1>3. CASE toGateway # <<>> /\ Head(toGateway).kind # "mint" /\ toGateway' = Tail(toGateway)
  <2>1. /\ DOMAIN toGateway = 1 .. Len(toGateway) /\ Len(toGateway) \in Nat \ {0}
        /\ DOMAIN toGateway' = 1 .. Len(toGateway) - 1
        /\ \A i \in 1 .. Len(toGateway) - 1 : toGateway'[i] = toGateway[i + 1]
        /\ toGateway[1].kind # "mint"
    BY <1>3, Dequeued, Zenon
  <2>2. \A i \in MintsInFlight' : i + 1 \in MintsInFlight /\ toGateway'[i] = toGateway[i + 1] /\ i \in Nat
    BY <2>1, InFlight
  <2>3. \A i \in MintsInFlight : i - 1 \in MintsInFlight'
    <3> SUFFICES ASSUME NEW i \in MintsInFlight PROVE i - 1 \in MintsInFlight'
      BY Zenon
    <3>1. i \in 2 .. Len(toGateway) /\ toGateway[i].kind = "mint"
      BY <2>1, InFlight
    <3>2. i - 1 \in 1 .. Len(toGateway) - 1 /\ toGateway'[i - 1] = toGateway[i]
      BY <2>1, <3>1
    <3>3. QED
      BY <2>1, <3>1, <3>2, InFlight, Zenon
  <2>4. \A i, j \in MintsInFlight' : i = j
    <3> SUFFICES ASSUME NEW i \in MintsInFlight', NEW j \in MintsInFlight' PROVE i = j
      BY Zenon
    <3>1. i + 1 \in MintsInFlight /\ j + 1 \in MintsInFlight /\ i \in Nat /\ j \in Nat
      BY <2>2, Zenon
    <3>2. i + 1 = j + 1
      BY <3>1, Zenon DEF MintsOK
    <3>3. QED
      BY <3>1, <3>2
  <2>5. QED
    BY <2>2, <2>3, <2>4, Zenon
<1>4. QED
  BY <1>1, <1>2, <1>3, Zenon DEF MintsOK, NoMintMoves

\* What the steps that are not about a mint leave of the mints.
LEMMA MintsStay ==
    ASSUME TypeOK, MintsOK, NoMintMoves,
           mints' = mints, inProgress' = inProgress, Away' <=> Away, Registered' <=> Registered
    PROVE  MintsOK'
<1>1. /\ MintsInFlight' # {} <=> MintsInFlight # {}
      /\ \A i, j \in MintsInFlight' : i = j
  BY SameMints, Zenon
<1>2. QED
  BY <1>1, Zenon DEF MintsOK

\* The invariant about the mints is kept.
LEMMA MintsStep ==
    ASSUME TypeOK, TypeOK', Control, Control', MintsOK, StepClasses
    PROVE  MintsOK'
<1>a. /\ chain["L1"] \in Diamonds /\ chain["GW"] \in Diamonds
      /\ "L1" \in Layers /\ "GW" \in Layers /\ "L1" # "GW"
  BY Zenon DEF TypeOK, Layers
<1>1. CASE Quiet
  <2>1. NoMintMoves
    BY <1>1, Zenon DEF Quiet, QuietQueue, NoMintMoves
  <2>2. mints' = mints /\ inProgress' = inProgress /\ (Away' <=> Away) /\ (Registered' <=> Registered)
    BY <1>1, <1>a, Zenon DEF Quiet, QuietDiamonds, SameStage, Away, Registered
  <2>3. QED
    BY <2>1, <2>2, MintsStay, Zenon
<1>2. CASE Requests
  <2>1. NoMintMoves
    <3> DEFINE op == Len(chain["L1"].tree.leaves) + 1
    <3>1. op \in Nat /\ "op" \in Kinds
      BY <1>a DEF Diamonds, Tree, Kinds
    <3>2. toGateway' = toGateway \/ toGateway' = Append(toGateway, [kind |-> "op", arg |-> op])
      BY <1>2, Zenon DEF Requests
    <3> HIDE DEF op
    <3>3. QED
      BY <3>1, <3>2, Zenon DEF NoMintMoves
  <2>2. mints' = mints /\ inProgress' = inProgress /\ (Away' <=> Away) /\ (Registered' <=> Registered)
    BY <1>2, Zenon DEF Requests, SameStage, Away, Registered
  <2>3. QED
    BY <2>1, <2>2, MintsStay, Zenon
<1>3. CASE \E l \in Layers, k \in 0 .. MaxOps : Executes(l, k)
  <2> PICK l \in Layers, k \in 0 .. MaxOps : Executes(l, k)
    BY <1>3, Zenon
  <2>1. SameStage("L1") /\ SameStage("GW")
    BY <1>a, Zenon DEF Executes, SameStage, Layers
  <2>2. mints' = mints /\ inProgress' = inProgress /\ toGateway' = toGateway
    BY Zenon DEF Executes
  <2>3. QED
    BY <2>1, <2>2, MintsStay, Zenon DEF SameStage, Away, Registered, NoMintMoves
<1>4. CASE Leaves
  <2> DEFINE mint == [status |-> "pending", batch |-> 0, depositHappened |-> TRUE]
             tx == [kind |-> "mint", arg |-> bridgehubMintData("L1")]
  <2>1. /\ ~Away /\ handler["L1"].migrationNumber + 1 = 1
    BY <1>4, Zenon DEF Leaves, CanBridgeBurn, CanForwardedBridgeBurn, Away, ToGateway
  <2>2. ~Registered
    BY <2>1 DEF Control
  <2>3. Away' /\ ~Registered'
    BY <1>4, <1>a, <2>2, Zenon DEF Leaves, Diamonds, Away, Registered
  <2>4. \A i \in DOMAIN mints : mints[i].status = "failure" /\ ~mints[i].depositHappened
    <3>1. mints \in Seq(Mints)
      BY Zenon DEF TypeOK
    <3>2. MintsInFlight = {}
      BY <2>1, Zenon DEF MintsOK
    <3>3. mints # <<>> => /\ mints[Len(mints)].status # "success"
                          /\ mints[Len(mints)].status # "pending"
                          /\ ~mints[Len(mints)].depositHappened
      BY <2>1, <2>2, <3>2, Zenon DEF MintsOK
    <3>4. \A i \in DOMAIN mints : mints[i] \in Mints
      BY <3>1
    <3>5. QED
      BY <3>1, <3>3, <3>4 DEF MintsOK, Mints
  <2>5. /\ mints' = Append(mints, mint) /\ mints \in Seq(Mints)
        /\ mint.status = "pending" /\ mint.depositHappened
    BY <1>4, Zenon DEF Leaves, TypeOK
  <2>6. tx.kind = "mint" /\ toGateway' = Append(toGateway, tx)
    BY <1>4, Zenon DEF Leaves
  <2> HIDE DEF mint, tx
  <2>7. /\ Len(mints') = Len(mints) + 1 /\ mints' # <<>> /\ mints'[Len(mints')] = mint
        /\ \A i \in DOMAIN mints' : i # Len(mints') => i \in DOMAIN mints /\ mints'[i] = mints[i]
    BY <2>5
  <2>8. MintsInFlight' = {Len(toGateway) + 1}
    <3>1. MintsInFlight = {}
      BY <2>1, Zenon DEF MintsOK
    <3>2. /\ DOMAIN toGateway = 1 .. Len(toGateway) /\ Len(toGateway) \in Nat
          /\ DOMAIN toGateway' = 1 .. Len(toGateway) + 1
          /\ \A i \in 1 .. Len(toGateway) : toGateway'[i] = toGateway[i]
          /\ toGateway'[Len(toGateway) + 1] = tx
      BY <2>6, Enqueued, Zenon
    <3>3. QED
      BY <2>6, <3>1, <3>2 DEF MintsInFlight
  <2>9. QED
    BY <2>3, <2>4, <2>5, <2>7, <2>8 DEF MintsOK
<1>5. CASE Arrives \/ Fails
  <2>1. /\ Away /\ ~Registered /\ mints # <<>> /\ MintsInFlight = {1}
        /\ toGateway # <<>> /\ toGateway' = Tail(toGateway)
    BY <1>5, HeadMint, Zenon DEF Arrives, Fails
  <2>2. MintsInFlight' = {}
    <3>1. /\ DOMAIN toGateway = 1 .. Len(toGateway) /\ Len(toGateway) \in Nat \ {0}
          /\ DOMAIN toGateway' = 1 .. Len(toGateway) - 1
          /\ \A i \in 1 .. Len(toGateway) - 1 : toGateway'[i] = toGateway[i + 1]
      BY <2>1, Dequeued, Zenon
    <3>2. \A i \in MintsInFlight' : i + 1 \in MintsInFlight /\ i \in 1 .. Len(toGateway) - 1
      BY <3>1 DEF MintsInFlight
    <3>3. QED
      BY <2>1, <3>1, <3>2
  <2> DEFINE status == IF Arrives THEN "success" ELSE "failure"
  <2>3. MintStatus(status) /\ status \in {"success", "failure"}
    BY <1>5, Zenon DEF Arrives, Fails
  <2> HIDE DEF status
  <2>4. /\ Len(mints') = Len(mints) /\ Len(mints) \in DOMAIN mints
        /\ DOMAIN mints' = DOMAIN mints
        /\ mints'[Len(mints)] = [mints[Len(mints)] EXCEPT !.status = status,
                                                           !.batch = gatewayBatch + 1]
        /\ \A j \in DOMAIN mints : j # Len(mints) => mints'[j] = mints[j]
    <3>1. mints \in Seq(Mints) /\ mints' \in Seq(Mints)
      BY Zenon DEF TypeOK
    <3>2. Len(mints) \in DOMAIN mints
      BY <2>1, <3>1
    <3>3. /\ Len(mints') = Len(mints)
          /\ mints'[Len(mints)] = [mints[Len(mints)] EXCEPT !.status = status,
                                                             !.batch = gatewayBatch + 1]
          /\ \A j \in DOMAIN mints : j # Len(mints) => mints'[j] = mints[j]
      BY <2>1, <2>3, MintStatusUpdate, Zenon
    <3>4. DOMAIN mints' = DOMAIN mints
      BY <3>1, <3>3
    <3>5. QED
      BY <3>2, <3>3, <3>4, Zenon
  <2>5. /\ mints'[Len(mints)].status = status
        /\ mints'[Len(mints)].depositHappened = mints[Len(mints)].depositHappened
    BY <2>4 DEF TypeOK, Mints
  <2>6. /\ (Away' <=> Away) /\ inProgress' = inProgress
        /\ Registered' <=> status = "success"
    <3>1. CASE Arrives
      BY <3>1, <1>a, Zenon DEF Arrives, Away, Registered, status, ForwardedBridgeMint, Diamonds
    <3>2. CASE Fails /\ ~Arrives
      BY <3>2, <2>1, Zenon DEF Fails, Away, Registered, status
    <3>3. QED
      BY <1>5, <3>1, <3>2, Zenon
  <2>7. inProgress <=> Away
    BY <2>1, Zenon DEF Control
  <2>8. mints' # <<>>
    BY <2>4 DEF TypeOK
  <2>9. mints[Len(mints)].depositHappened <=> Away
    BY <2>1, Zenon DEF MintsOK
  <2>10. \A i \in DOMAIN mints' : i # Len(mints') =>
            mints'[i].status = "failure" /\ ~mints'[i].depositHappened
    BY <2>4, Zenon DEF MintsOK
  <2>11. QED
    BY <2>1, <2>2, <2>3, <2>4, <2>5, <2>6, <2>7, <2>8, <2>9, <2>10, Zenon DEF MintsOK
<1>6. CASE Receives
  <2>1. (Away' <=> Away) /\ (Registered' <=> Registered)
    BY <1>6, Zenon DEF Receives, SameStage, Away, Registered
  <2>2. QED
    BY <1>6, <2>1, MintsStay, Zenon DEF Receives, NoMintMoves
<1>7. CASE Departs
  <2>1. (Away' <=> Away) /\ (Registered' <=> Registered)
    BY <1>7, <1>a, Zenon DEF Departs, Diamonds, Away, Registered
  <2>2. QED
    BY <1>7, <2>1, MintsStay, Zenon DEF Departs, NoMintMoves
<1>8. CASE Returns
  <2>1. Away /\ withdrawal.sent
    BY <1>8, Zenon DEF Returns, CanVerifyWithdrawal, CanBridgeMint, CanForwardedBridgeMint, Away, Control
  <2>2. Registered /\ ~Away' /\ Registered'
    BY <1>8, <1>a, <2>1, Zenon DEF Returns, Control, Away, Registered, ForwardedBridgeMint, Diamonds
  <2>3. mints' = mints /\ inProgress' = inProgress /\ toGateway' = toGateway
    BY <1>8, Zenon DEF Returns
  <2>4. MintsInFlight' = {} /\ MintsInFlight = {}
    BY <2>2, <2>3, Zenon DEF MintsOK, MintsInFlight
  <2>5. QED
    BY <2>2, <2>3, <2>4, Zenon DEF MintsOK
<1>9. ASSUME NEW i \in DOMAIN mints, Confirmed(i) \/ Recovered(i)
      PROVE  MintsOK'
  <2> DEFINE mint == [mints[i] EXCEPT !.depositHappened = FALSE]
  <2>1. mints \in Seq(Mints) /\ mints[i] \in Mints
    BY SMTT(30) DEF TypeOK
  <2>2. mints[i].depositHappened /\ mints' = [mints EXCEPT ![i] = mint]
    BY <1>9, Zenon DEF Confirmed, Recovered
  <2>3. mint \in Mints /\ mint.status = mints[i].status /\ ~mint.depositHappened
    BY <2>1, Zenon DEF Mints
  <2> HIDE DEF mint
  <2>4. i = Len(mints)
    BY <2>2, Zenon DEF MintsOK
  <2>5. /\ Len(mints') = Len(mints) /\ mints'[i] = mint
        /\ \A j \in DOMAIN mints : j # i => mints'[j] = mints[j]
    BY <2>1, <2>2, <2>3, MintUpdate
  <2>6. DOMAIN mints' = DOMAIN mints /\ mints # <<>> /\ mints' # <<>>
    <3>1. DOMAIN mints' = DOMAIN mints
      BY <2>2, Zenon
    <3>2. \A q : q = <<>> => DOMAIN q = {}
      OBVIOUS
    <3>3. QED
      BY <3>1, <3>2, Zenon
  <2>7. toGateway' = toGateway /\ MintsInFlight' = MintsInFlight
    BY <1>9, Zenon DEF Confirmed, Recovered, MintsInFlight
  <2>8. CASE Confirmed(i)
    <3>1. Registered /\ Registered' /\ ~inProgress' /\ mint.status = "success"
      BY <2>3, <2>4, <2>6, <2>8, Zenon DEF Confirmed, MintsOK, Registered
    <3>2. MintsInFlight = {}
      BY <3>1, Zenon DEF MintsOK
    <3>3. QED
      BY <2>3, <2>4, <2>5, <2>6, <2>7, <3>1, <3>2 DEF MintsOK
  <2>9. CASE Recovered(i)
    <3>1. ~Registered /\ ~Registered' /\ ~Away' /\ mint.status = "failure"
      BY <1>a, <2>3, <2>4, <2>6, <2>9, Zenon DEF Recovered, MintsOK, Registered, Away, Diamonds
    <3>2. MintsInFlight = {}
      BY <2>3, <2>4, <2>6, <3>1, Zenon DEF MintsOK
    <3>3. QED
      BY <2>3, <2>4, <2>5, <2>6, <2>7, <3>1, <3>2 DEF MintsOK
  <2>10. QED
    BY <1>9, <2>8, <2>9, Zenon
<1>10. QED
  BY <1>1, <1>2, <1>3, <1>4, <1>5, <1>6, <1>7, <1>8, <1>9, Zenon DEF StepClasses

(***************************************************************************)
(* The stages before and after a step of each class.                       *)
(***************************************************************************)
\* A step within a stage.
SameStages == (Away' <=> Away) /\ (Registered' <=> Registered) /\ withdrawal' = withdrawal

\* From which stage to which each step leads.
LEMMA Stages ==
    ASSUME TypeOK, Control, MintsOK, TreeOfGateway
    PROVE  /\ Quiet => SameStages
           /\ Requests => SameStages /\ ~(Away /\ ~Registered)
           /\ \A l \in Layers, k \in 0 .. MaxOps : Executes(l, k) =>
                SameStages /\ (IF l = "L1" THEN ~Away ELSE Away /\ Registered /\ ~withdrawal.sent)
           /\ Leaves => ~Away /\ ~Registered /\ Away' /\ ~Registered' /\ withdrawal' = withdrawal
           /\ Arrives => /\ Away /\ ~Registered /\ ~withdrawal.sent
                         /\ Away' /\ Registered' /\ withdrawal' = withdrawal
           /\ Fails => SameStages /\ Away /\ ~Registered
           /\ Receives => SameStages /\ Registered
           /\ Departs => Away /\ Registered /\ ~withdrawal.sent /\ Away' /\ Registered' /\ withdrawal'.sent
           /\ Returns => /\ Away /\ Registered /\ withdrawal.sent
                         /\ ~Away' /\ Registered' /\ withdrawal'.sent
           /\ \A i \in DOMAIN mints : Confirmed(i) => SameStages /\ Registered
           /\ \A i \in DOMAIN mints : Recovered(i) =>
                Away /\ ~Registered /\ ~Away' /\ ~Registered' /\ withdrawal' = withdrawal
<1>a. /\ chain["L1"] \in Diamonds /\ chain["GW"] \in Diamonds
      /\ "L1" \in Layers /\ "GW" \in Layers /\ "L1" # "GW"
  BY Zenon DEF TypeOK, Layers
<1>1. Quiet => SameStages
  BY <1>a, Zenon DEF Quiet, QuietDiamonds, SameStage, SameStages, Away, Registered
<1>2. Requests => SameStages /\ ~(Away /\ ~Registered)
  <2>1. Requests => SameStages
    BY <1>a, Zenon DEF Requests, SameStage, SameStages, Away, Registered
  <2>2. Requests => ~inProgress
    BY Zenon DEF Requests
  <2>3. Away /\ ~Registered => inProgress
    BY Zenon DEF Control
  <2>4. QED
    BY <2>1, <2>2, <2>3, Zenon
<1>3. ASSUME NEW l \in Layers, NEW k \in 0 .. MaxOps, Executes(l, k)
      PROVE  SameStages /\ (IF l = "L1" THEN ~Away ELSE Away /\ Registered /\ ~withdrawal.sent)
  <2>1. SameStage("L1") /\ SameStage("GW") /\ withdrawal' = withdrawal /\ Settles(chain[l])
    BY <1>3, <1>a, Zenon DEF Executes, SameStage, Layers
  <2>2. CASE l = "L1"
    BY <2>1, <2>2, Zenon DEF SameStage, SameStages, Away, Registered, Settles
  <2>3. CASE l = "GW"
    <3>1. Registered /\ chain["GW"].settlementLayer = "none"
      BY <2>1, <2>3, Zenon DEF Settles, Registered
    <3>2. Away /\ ~withdrawal.sent
      BY <3>1, Zenon DEF Control
    <3>3. QED
      BY <2>1, <2>3, <3>1, <3>2, Zenon DEF SameStage, SameStages, Away, Registered
  <2>4. QED
    BY <2>2, <2>3, Zenon DEF Layers
<1>4. ASSUME Leaves
      PROVE  ~Away /\ ~Registered /\ Away' /\ ~Registered' /\ withdrawal' = withdrawal
  <2>1. ~Away /\ handler["L1"].migrationNumber + 1 = 1
    BY <1>4, Zenon DEF Leaves, CanBridgeBurn, CanForwardedBridgeBurn, Away, ToGateway
  <2>2. ~Registered
    BY <2>1 DEF Control
  <2>3. QED
    BY <1>4, <1>a, <2>1, <2>2, Zenon DEF Leaves, Away, Registered, Diamonds
<1>5. ASSUME Arrives
      PROVE  /\ Away /\ ~Registered /\ ~withdrawal.sent
             /\ Away' /\ Registered' /\ withdrawal' = withdrawal
  <2>1. Away /\ ~Registered
    BY <1>5, HeadMint, Zenon DEF Arrives
  <2>2. ~withdrawal.sent
    BY <2>1, Zenon DEF Control
  <2>3. QED
    BY <1>5, <1>a, <2>1, <2>2, Zenon DEF Arrives, Away, Registered, ForwardedBridgeMint, Diamonds
<1>6. ASSUME Fails PROVE SameStages /\ Away /\ ~Registered
  <2>1. Away /\ ~Registered
    BY <1>6, HeadMint, Zenon DEF Fails
  <2>2. QED
    BY <1>6, <2>1, Zenon DEF Fails, SameStages, Away, Registered
<1>7. ASSUME Receives PROVE SameStages /\ Registered
  <2>1. 1 \in OpsInFlight
    BY <1>7 DEF Receives, OpsInFlight, TypeOK
  <2>2. Registered
    BY <2>1, Zenon DEF TreeOfGateway
  <2>3. QED
    BY <1>7, <2>2, Zenon DEF Receives, SameStage, SameStages, Away, Registered
<1>8. ASSUME Departs
      PROVE  Away /\ Registered /\ ~withdrawal.sent /\ Away' /\ Registered' /\ withdrawal'.sent
  <2>1. Registered /\ chain["GW"].settlementLayer = "none"
    BY <1>8, Zenon DEF Departs, CanBridgeBurn, CanForwardedBridgeBurn, Registered
  <2>2. Away /\ ~withdrawal.sent
    BY <2>1, Zenon DEF Control
  <2>3. QED
    BY <1>8, <1>a, <2>1, <2>2, Zenon DEF Departs, Away, Registered, Diamonds
<1>9. ASSUME Returns
      PROVE  Away /\ Registered /\ withdrawal.sent /\ ~Away' /\ Registered' /\ withdrawal'.sent
  <2>1. Away /\ withdrawal.sent
    BY <1>9, Zenon DEF Returns, CanVerifyWithdrawal, CanBridgeMint, CanForwardedBridgeMint, Away, Control
  <2>2. withdrawal' = [withdrawal EXCEPT !.finalized = TRUE]
    BY <1>9, Zenon DEF Returns
  <2>3. withdrawal'.sent = withdrawal.sent
    BY <2>2, Zenon DEF TypeOK
  <2>4. QED
    BY <1>9, <1>a, <2>1, <2>3 DEF Returns, Control, Away, Registered, ForwardedBridgeMint, Diamonds
<1>10. ASSUME NEW i \in DOMAIN mints, Confirmed(i) PROVE SameStages /\ Registered
  <2>1. Registered
    BY <1>10 DEF Confirmed, MintsOK
  <2>2. QED
    BY <1>10, <1>a, <2>1, Zenon DEF Confirmed, SameStages, Away, Registered, Diamonds
<1>11. ASSUME NEW i \in DOMAIN mints, Recovered(i)
       PROVE  Away /\ ~Registered /\ ~Away' /\ ~Registered' /\ withdrawal' = withdrawal
  <2>1. Away /\ ~Registered
    BY <1>11 DEF Recovered, MintsOK
  <2>2. QED
    BY <1>11, <1>a, <2>1, Zenon DEF Recovered, Away, Registered, Diamonds
<1>12. QED
  BY <1>1, <1>2, <1>3, <1>4, <1>5, <1>6, <1>7, <1>8, <1>9, <1>10, <1>11, Zenon

\* A new operation, or a cursor further on, leave a good tree.
LEMMA GoodTrees ==
    ASSUME NEW t \in Tree(Nat), GoodTree(t)
    PROVE  /\ GoodTree(push(t, Len(t.leaves) + 1))
           /\ \A u \in Nat : u <= Len(t.leaves) => GoodTree([t EXCEPT !.unprocessedIndex = u])
<1>1. GoodTree(push(t, Len(t.leaves) + 1))
  <2> DEFINE op == Len(t.leaves) + 1
             s == Append(t.leaves, op)
             p == push(t, op)
  <2>1. t.leaves \in Seq(Nat) /\ op \in Nat /\ Len(t.leaves) \in Nat /\ t.unprocessedIndex \in Nat
    BY DEF Tree
  <2>2. s \in Seq(Nat) /\ Len(s) = op /\ \A n \in 1 .. op : s[n] = n
    BY <2>1 DEF GoodTree
  <2>3. /\ p.startIndex = t.startIndex /\ p.unprocessedIndex = t.unprocessedIndex
        /\ p.leaves = s /\ p.historicalRoots = t.historicalRoots \cup {s}
    BY Zenon DEF push, Tree
  <2>4. s = [n \in 1 .. op |-> n]
    <3> HIDE DEF s
    <3>1. s = [n \in 1 .. op |-> s[n]]
      BY <2>1, <2>2
    <3>2. QED
      BY <2>2, <3>1, Zenon
  <2> HIDE DEF s, p
  <2>5. ASSUME NEW m \in 0 .. op
        PROVE  [n \in 1 .. m |-> n] \in p.historicalRoots
    <3>1. CASE m = op
      BY <2>3, <2>4, <3>1, Zenon
    <3>2. CASE m # op
      <4>1. m \in 0 .. Len(t.leaves)
        BY <2>1, <3>2
      <4>2. QED
        BY <2>3, <4>1, Zenon DEF GoodTree
    <3>3. QED
      BY <3>1, <3>2, Zenon
  <2>6. t.unprocessedIndex <= op
    BY <2>1 DEF GoodTree
  <2>7. GoodTree(p)
    <3> HIDE DEF op
    <3>1. QED
      BY <2>2, <2>3, <2>5, <2>6, Zenon DEF GoodTree
  <2>8. QED
    BY <2>7, Zenon DEF p
<1>2. ASSUME NEW u \in Nat, u <= Len(t.leaves)
      PROVE  GoodTree([t EXCEPT !.unprocessedIndex = u])
  BY <1>2, Zenon DEF GoodTree, Tree
<1>3. QED
  BY <1>1, <1>2, Zenon

\* The parts of a tree.
LEMMA TreeFacts ==
    ASSUME TypeOK, NEW l \in Layers
    PROVE  /\ chain[l].tree \in Tree(Nat) /\ chain[l].tree.leaves \in Seq(Nat)
           /\ Len(chain[l].tree.leaves) \in Nat /\ chain[l].tree.unprocessedIndex \in Nat
           /\ chain[l].executed \in Nat /\ chain[l].committed \in Nat
<1>1. chain[l] \in Diamonds
  BY Zenon DEF TypeOK
<1>2. chain[l].tree \in Tree(Nat) /\ chain[l].executed \in Nat /\ chain[l].committed \in Nat
  BY <1>1, Zenon DEF Diamonds
<1>3. QED
  BY <1>2 DEF Tree

\* What the steps do to the tree of L1.
LEMMA TreeOfL1Changes ==
    ASSUME TypeOK, StepClasses
    PROVE  \/ chain'["L1"].tree = chain["L1"].tree
           \/ Requests
           \/ Returns
           \/ \E k \in 0 .. MaxOps : Executes("L1", k)
<1>a. /\ chain["L1"] \in Diamonds /\ chain["GW"] \in Diamonds
      /\ "L1" \in Layers /\ "GW" \in Layers /\ "L1" # "GW"
  BY Zenon DEF TypeOK, Layers
<1>1. CASE Quiet
  BY <1>1, <1>a, Zenon DEF Quiet, QuietDiamonds
<1>2. CASE Requests \/ Returns
  BY <1>2, Zenon
<1>3. ASSUME NEW l \in Layers, NEW k \in 0 .. MaxOps, Executes(l, k)
      PROVE  chain'["L1"].tree = chain["L1"].tree \/ Executes("L1", k)
  BY <1>3, <1>a, Zenon DEF Executes, Layers
<1>4. CASE Leaves
  BY <1>4, <1>a, Zenon DEF Leaves, Diamonds
<1>5. CASE Arrives \/ Receives \/ Departs \/ Fails
  BY <1>5, Zenon DEF Arrives, Receives, Departs, Fails
<1>6. ASSUME NEW i \in DOMAIN mints, Confirmed(i) \/ Recovered(i)
      PROVE  chain'["L1"].tree = chain["L1"].tree
  BY <1>6, <1>a, Zenon DEF Confirmed, Recovered, Diamonds
<1>7. QED
  BY <1>1, <1>2, <1>3, <1>4, <1>5, <1>6, Zenon DEF StepClasses

\* The invariant about the tree of L1 is kept.
LEMMA TreeOfL1Step ==
    ASSUME TypeOK, TypeOK', Control, MintsOK, TreeOfL1, TreeOfGateway, Returning, StepClasses
    PROVE  TreeOfL1'
<1> DEFINE t == chain["L1"].tree
           new == chain'["L1"].tree
<1>1. t \in Tree(Nat) /\ new \in Tree(Nat) /\ t.unprocessedIndex \in Nat /\ Len(t.leaves) \in Nat
      /\ chain["L1"] \in Diamonds /\ "L1" \in Layers
  <2>1. chain["L1"] \in Diamonds /\ chain'["L1"] \in Diamonds /\ "L1" \in Layers
    BY Zenon DEF TypeOK, Layers
  <2>2. t \in Tree(Nat) /\ new \in Tree(Nat)
    BY <2>1, Zenon DEF Diamonds
  <2>3. QED
    BY <2>1, <2>2 DEF Tree
<1>2. GoodTree(t)
  BY Zenon DEF TreeOfL1
<1> SUFFICES GoodTree(new)
  BY Zenon DEF TreeOfL1
<1>3. CASE new = t
  BY <1>2, <1>3, Zenon
<1>4. CASE Requests
  <2>1. new = push(t, Len(t.leaves) + 1)
    BY <1>4, Zenon DEF Requests
  <2>2. QED
    BY <1>1, <1>2, <2>1, GoodTrees, Zenon
<1>5. ASSUME NEW k \in 0 .. MaxOps, Executes("L1", k)
      PROVE  GoodTree(new)
  <2> DEFINE u == t.unprocessedIndex + k
  <2>1. new = [t EXCEPT !.unprocessedIndex = u] /\ k <= getSize(t)
    BY <1>5, Zenon DEF Executes
  <2>2. u \in Nat /\ u <= Len(t.leaves)
    <3>1. k \in Nat
      BY MigrationAssumption
    <3>2. k <= Len(t.leaves) - t.unprocessedIndex
      BY <2>1, Zenon DEF getSize
    <3>3. t.unprocessedIndex \in Nat /\ Len(t.leaves) \in Nat
      BY <1>1, Zenon
    <3> HIDE DEF t
    <3>4. QED
      BY <3>1, <3>2, <3>3
  <2> HIDE DEF u, t
  <2>3. QED
    BY <1>1, <1>2, <2>1, <2>2, GoodTrees, Zenon
<1>6. CASE Returns
  <2> DEFINE c == withdrawal.data.chainData.priorityTree
             u == c.unprocessedIndex
  <2>1. Away /\ Registered /\ withdrawal.sent
    BY <1>6, Stages, Zenon
  <2>2. new = [t EXCEPT !.unprocessedIndex = u]
    <3>1. chain'["L1"] = ForwardedBridgeMint("L1", chain["L1"], withdrawal.data.chainData)
      BY <1>6, Zenon DEF Returns
    <3>2. chain'["L1"].tree = L1Reinit(chain["L1"].tree, c)
      BY <1>1, <3>1, Zenon DEF ForwardedBridgeMint, Diamonds
    <3>3. QED
      BY <3>2, Zenon DEF L1Reinit
  <2>3. u = Len(c.sides) /\ withdrawal.data \in MintData /\ IsSegment(chain["GW"].tree.leaves, 0, c.sides)
    BY <2>1, Zenon DEF Returning, Carries
  <2>4. u \in Nat
    BY <2>3, Zenon DEF MintData, TreeCommitments
  <2>5. IsSegment(t.leaves, 0, chain["GW"].tree.leaves)
    BY <2>1, Zenon DEF TreeOfGateway, InSync
  <2>6. u <= Len(t.leaves)
    <3>1. 0 + Len(c.sides) <= Len(chain["GW"].tree.leaves) /\ 0 + Len(chain["GW"].tree.leaves) <= Len(t.leaves)
      BY <2>3, <2>5, Zenon DEF IsSegment
    <3>2. Len(chain["GW"].tree.leaves) \in Nat
      BY TreeFacts, Zenon DEF Layers
    <3>3. u = Len(c.sides) /\ u \in Nat /\ Len(t.leaves) \in Nat
      BY <1>1, <2>3, <2>4, Zenon
    <3> HIDE DEF u, c, t
    <3>4. QED
      BY <3>1, <3>2, <3>3
  <2> HIDE DEF u, t
  <2>7. QED
    BY <1>1, <1>2, <2>2, <2>4, <2>6, GoodTrees, Zenon
<1>7. QED
  BY <1>3, <1>4, <1>5, <1>6, TreeOfL1Changes, Zenon

\* The invariant about the chain that leaves is kept.
LEMMA LeavingStep ==
    ASSUME TypeOK, TypeOK', Control, MintsOK, TreeOfGateway, Leaving, StepClasses
    PROVE  Leaving'
<1>a. /\ chain["L1"] \in Diamonds /\ chain["GW"] \in Diamonds
      /\ "L1" \in Layers /\ "GW" \in Layers /\ "L1" # "GW"
  BY Zenon DEF TypeOK, Layers
<1> SUFFICES ASSUME Away', ~Registered' PROVE Leaving'
  BY Zenon DEF Leaving
<1> DEFINE Rest == /\ chain["L1"].tree = chain'["L1"].tree
                   /\ chain["L1"].executed = chain'["L1"].executed
                   /\ chain["L1"].committed = chain'["L1"].committed
                   /\ root["L1"] = root'["L1"]
<1>1. ASSUME Away, ~Registered, Rest,
             \A i \in MintsInFlight' : \E j \in MintsInFlight : toGateway'[i] = toGateway[j]
      PROVE  Leaving'
  <2>1. prepareChainCommitment(chain["L1"]) = prepareChainCommitment(chain'["L1"])
    BY <1>1, Zenon DEF prepareChainCommitment
  <2>2. /\ chain["L1"].tree.unprocessedIndex = Len(chain["L1"].tree.leaves)
        /\ chain["L1"].committed = chain["L1"].executed
        /\ \A i \in MintsInFlight :
              toGateway[i].arg = [batchNumber |-> root["L1"], migrationNumber |-> 1,
                                  chainData |-> prepareChainCommitment(chain["L1"])]
    BY <1>1, Zenon DEF Leaving
  <2>3. \A i \in MintsInFlight' :
            toGateway'[i].arg = [batchNumber |-> root'["L1"], migrationNumber |-> 1,
                                 chainData |-> prepareChainCommitment(chain'["L1"])]
    BY <1>1, <2>1, <2>2, Zenon
  <2>4. QED
    BY <1>1, <2>2, <2>3, Zenon DEF Leaving
<1>2. CASE Quiet
  <2>1. Away /\ ~Registered
    BY <1>2, Stages, Zenon DEF SameStages
  <2>2. ~Settles(chain["L1"])
    BY <2>1, Zenon DEF Settles, Away
  <2>3. Rest
    BY <1>2, <1>a, <2>2, Zenon DEF Quiet, QuietDiamonds
  <2>4. NoMintMoves
    BY <1>2, Zenon DEF Quiet, QuietQueue, NoMintMoves
  <2> HIDE DEF Rest
  <2>5. QED
    BY <1>1, <2>1, <2>3, <2>4, SameMints, Zenon
<1>3. CASE Requests
  BY <1>3, Stages, Zenon DEF SameStages
<1>4. CASE \E l \in Layers, k \in 0 .. MaxOps : Executes(l, k)
  BY <1>4, Stages, Zenon DEF SameStages
<1>5. CASE Leaves
  <2> DEFINE tx == [kind |-> "mint", arg |-> bridgehubMintData("L1")]
  <2>1. /\ Rest /\ CanBridgeBurn("L1") /\ toGateway' = Append(toGateway, tx)
    BY <1>5, <1>a, Zenon DEF Leaves, Diamonds
  <2>2. ~Away /\ ~Registered
    BY <1>5, Stages, Zenon
  <2>3. /\ chain["L1"].tree.unprocessedIndex = Len(chain["L1"].tree.leaves)
        /\ chain["L1"].committed = chain["L1"].executed
    <3>1. /\ Len(chain["L1"].tree.leaves) - chain["L1"].tree.unprocessedIndex = 0
          /\ chain["L1"].committed = chain["L1"].executed
      BY <2>1, Zenon DEF CanBridgeBurn, CanForwardedBridgeBurn, getSize
    <3>2. Len(chain["L1"].tree.leaves) \in Nat /\ chain["L1"].tree.unprocessedIndex \in Nat
      BY <1>a DEF Diamonds, Tree
    <3>3. QED
      BY <3>1, <3>2
  <2>4. tx.arg = [batchNumber |-> root'["L1"], migrationNumber |-> 1,
                  chainData |-> prepareChainCommitment(chain'["L1"])]
    <3>1. handler["L1"].migrationNumber + 1 = 1
      BY <2>1, Zenon DEF CanBridgeBurn, ToGateway
    <3>2. prepareChainCommitment(chain["L1"]) = prepareChainCommitment(chain'["L1"])
      BY <2>1, Zenon DEF prepareChainCommitment
    <3>3. QED
      BY <2>1, <3>1, <3>2, Zenon DEF bridgehubMintData
  <2> HIDE DEF tx
  <2>5. \A i \in MintsInFlight' : toGateway'[i] = tx
    <3>1. MintsInFlight = {}
      BY <2>2, Zenon DEF MintsOK
    <3>2. /\ DOMAIN toGateway = 1 .. Len(toGateway) /\ Len(toGateway) \in Nat
          /\ DOMAIN toGateway' = 1 .. Len(toGateway) + 1
          /\ \A i \in 1 .. Len(toGateway) : toGateway'[i] = toGateway[i]
          /\ toGateway'[Len(toGateway) + 1] = tx
      BY <2>1, Enqueued, Zenon
    <3> HIDE DEF Rest
    <3>3. QED
      BY <3>1, <3>2, InFlight
  <2>6. QED
    BY <2>1, <2>3, <2>4, <2>5, Zenon DEF Leaving
<1>6. CASE Fails
  <2>1. Away /\ ~Registered
    BY <1>6, Stages, Zenon
  <2>2. Rest
    BY <1>6, Zenon DEF Fails
  <2>3. toGateway # <<>> /\ toGateway' = Tail(toGateway)
    BY <1>6, Zenon DEF Fails
  <2>4. \A i \in MintsInFlight' : \E j \in MintsInFlight : toGateway'[i] = toGateway[j]
    <3>1. /\ DOMAIN toGateway = 1 .. Len(toGateway) /\ Len(toGateway) \in Nat \ {0}
          /\ DOMAIN toGateway' = 1 .. Len(toGateway) - 1
          /\ \A i \in 1 .. Len(toGateway) - 1 : toGateway'[i] = toGateway[i + 1]
      BY <2>3, Dequeued, Zenon
    <3> HIDE DEF Rest
    <3>2. \A i \in MintsInFlight' : i + 1 \in MintsInFlight /\ toGateway'[i] = toGateway[i + 1]
      BY <3>1, InFlight
    <3>3. QED
      BY <3>2, Zenon
  <2> HIDE DEF Rest
  <2>5. QED
    BY <1>1, <2>1, <2>2, <2>4, Zenon
<1>7. CASE Arrives \/ Receives \/ Departs \/ Returns
  BY <1>7, Stages, Zenon DEF SameStages
<1>8. CASE \E i \in DOMAIN mints : Confirmed(i) \/ Recovered(i)
  BY <1>8, Stages, Zenon DEF SameStages
<1>9. QED
  BY <1>2, <1>3, <1>4, <1>5, <1>6, <1>7, <1>8, Zenon DEF StepClasses

(***************************************************************************)
(* The operations in the queue.                                            *)
(***************************************************************************)

\* The next operation is sent.
LEMMA OpsSend ==
    ASSUME NEW q \in Seq(Transactions), NEW A \in Nat, NEW G \in Nat, G <= A, OpsMatch(A, G, q),
           NEW new, new = Append(q, [kind |-> "op", arg |-> A + 1])
    PROVE  OpsMatch(A + 1, G, new)
<1> DEFINE n == Len(q)
<1>1. /\ n \in Nat /\ DOMAIN q = 1 .. n /\ DOMAIN new = 1 .. n + 1
      /\ \A i \in 1 .. n : new[i] = q[i]
      /\ new[n + 1].kind = "op" /\ new[n + 1].arg = A + 1
  OBVIOUS
<1> HIDE DEF n
<1>2. \A i : i \in Ops(q) <=> i \in 1 .. n /\ q[i].kind = "op"
  BY <1>1, Zenon DEF Ops
<1>3. \A i : i \in Ops(new) <=> i \in 1 .. n + 1 /\ new[i].kind = "op"
  BY <1>1, Zenon DEF Ops
<1>4. \A i : i \in Ops(new) <=> i \in Ops(q) \/ i = n + 1
  BY <1>1, <1>2, <1>3
<1>5. \A i \in Ops(q) : i \in 1 .. n /\ new[i] = q[i] /\ q[i].arg \in G + 1 .. A
  BY <1>1, <1>2, Zenon DEF OpsMatch
<1>6. \A i \in Ops(new) : new[i].arg \in G + 1 .. A + 1
  BY <1>1, <1>4, <1>5
<1>7. ASSUME NEW m \in G + 1 .. A + 1 PROVE \E i \in Ops(new) : new[i].arg = m
  <2>1. CASE m = A + 1
    BY <1>1, <1>4, <2>1, Zenon
  <2>2. CASE m # A + 1
    <3>1. m \in G + 1 .. A
      BY <2>2
    <3>2. PICK i \in Ops(q) : q[i].arg = m
      BY <3>1, Zenon DEF OpsMatch
    <3>3. QED
      BY <1>4, <1>5, <3>2, Zenon
  <2>3. QED
    BY <2>1, <2>2, Zenon
<1>8. ASSUME NEW i \in Ops(new), NEW j \in Ops(new), i < j PROVE new[i].arg < new[j].arg
  <2>1. CASE j = n + 1
    <3>1. i \in Ops(q)
      BY <1>4, <1>8, <2>1, <1>1
    <3>2. new[i].arg = q[i].arg /\ q[i].arg \in G + 1 .. A
      BY <1>5, <3>1, Zenon
    <3>3. new[j].arg = A + 1
      BY <1>1, <2>1, Zenon
    <3>4. \A x \in G + 1 .. A : x < A + 1
      OBVIOUS
    <3>5. QED
      BY <3>2, <3>3, <3>4, Zenon
  <2>2. CASE j # n + 1
    <3>1. j \in Ops(q) /\ i \in Ops(q)
      BY <1>1, <1>4, <1>5, <1>8, <2>2
    <3>2. QED
      BY <1>5, <1>8, <3>1, Zenon DEF OpsMatch
  <2>3. QED
    BY <2>1, <2>2, Zenon
<1>9. QED
  BY <1>6, <1>7, <1>8, Zenon DEF OpsMatch

\* Another transaction is sent.
LEMMA OpsSendOther ==
    ASSUME NEW q \in Seq(Transactions), NEW tx, tx.kind # "op", NEW new, new = Append(q, tx)
    PROVE  /\ Ops(new) = Ops(q)
           /\ \A A \in Nat, G \in Nat : OpsMatch(A, G, q) => OpsMatch(A, G, new)
<1> DEFINE n == Len(q)
<1>1. /\ n \in Nat /\ DOMAIN q = 1 .. n /\ DOMAIN new = 1 .. n + 1
      /\ \A i \in 1 .. n : new[i] = q[i]
      /\ new[n + 1] = tx
  OBVIOUS
<1> HIDE DEF n
<1>2. \A i : i \in Ops(q) <=> i \in 1 .. n /\ q[i].kind = "op"
  BY <1>1, Zenon DEF Ops
<1>3. \A i : i \in Ops(new) <=> i \in 1 .. n + 1 /\ new[i].kind = "op"
  BY <1>1, Zenon DEF Ops
<1>4. \A i : i \in Ops(new) <=> i \in Ops(q)
  BY <1>1, <1>2, <1>3
<1>5. Ops(new) = Ops(q)
  BY <1>4, Zenon
<1>6. \A i \in Ops(q) : new[i] = q[i]
  BY <1>1, <1>2, Zenon
<1>7. QED
  BY <1>5, <1>6, Zenon DEF OpsMatch

\* The operations of a queue and those that are left without its head.
Shifted(q, new) ==
    /\ \A i \in Ops(new) : i \in Nat /\ i + 1 \in Ops(q) /\ new[i] = q[i + 1]
    /\ \A i \in Ops(q) : i \in Nat /\ (i # 1 => i - 1 \in Ops(new) /\ new[i - 1] = q[i])

\* The head of the queue is executed.
LEMMA OpsHead ==
    ASSUME NEW q \in Seq(Transactions), q # <<>>, NEW new, new = Tail(q)
    PROVE  /\ Shifted(q, new)
           /\ 1 \in Ops(q) <=> Head(q).kind = "op"
           /\ q[1] = Head(q)
<1> DEFINE n == Len(q)
<1>1. /\ n \in Nat /\ DOMAIN q = 1 .. n /\ DOMAIN new = 1 .. n - 1 /\ n # 0
      /\ \A i \in 1 .. n - 1 : new[i] = q[i + 1]
      /\ q[1] = Head(q)
  OBVIOUS
<1> HIDE DEF n
<1>2. \A i : i \in Ops(q) <=> i \in 1 .. n /\ q[i].kind = "op"
  BY <1>1, Zenon DEF Ops
<1>3. \A i : i \in Ops(new) <=> i \in 1 .. n - 1 /\ new[i].kind = "op"
  BY <1>1, Zenon DEF Ops
<1>4. \A i \in Ops(new) : i \in Nat /\ i + 1 \in Ops(q) /\ new[i] = q[i + 1]
  BY <1>1, <1>2, <1>3
<1>5. ASSUME NEW i \in Ops(q) PROVE i \in Nat /\ (i # 1 => i - 1 \in Ops(new) /\ new[i - 1] = q[i])
  <2>1. i \in 1 .. n /\ q[i].kind = "op"
    BY <1>2, Zenon
  <2>2. ASSUME i # 1 PROVE i - 1 \in 1 .. n - 1 /\ new[i - 1] = q[i]
    BY <1>1, <2>1, <2>2
  <2>3. ASSUME i # 1 PROVE i - 1 \in Ops(new) /\ new[i - 1] = q[i]
    BY <1>3, <2>1, <2>2, <2>3, Zenon
  <2>4. i \in Nat
    BY <2>1, <1>1
  <2>5. QED
    BY <2>3, <2>4, Zenon
<1>6. 1 \in Ops(q) <=> Head(q).kind = "op"
  BY <1>1, <1>2
<1>7. QED
  BY <1>1, <1>4, <1>5, <1>6, Zenon DEF Shifted

\* Another transaction is executed.
LEMMA OpsExecuteOther ==
    ASSUME NEW q \in Seq(Transactions), q # <<>>, NEW new, new = Tail(q), Head(q).kind # "op",
           NEW A \in Nat, NEW G \in Nat, OpsMatch(A, G, q)
    PROVE  OpsMatch(A, G, new)
<1>0. Shifted(q, new)
  BY OpsHead, Zenon
<1>h. 1 \notin Ops(q)
  BY OpsHead, Zenon
<1>1. /\ \A i \in Ops(new) : i \in Nat /\ i + 1 \in Ops(q) /\ new[i] = q[i + 1]
      /\ \A i \in Ops(q) : i \in Nat /\ i - 1 \in Ops(new) /\ new[i - 1] = q[i]
  BY <1>0, <1>h, Zenon DEF Shifted
<1>2. \A i \in Ops(new) : new[i].arg \in G + 1 .. A
  BY <1>1, Zenon DEF OpsMatch
<1>3. ASSUME NEW n \in G + 1 .. A PROVE \E i \in Ops(new) : new[i].arg = n
  <2>1. PICK i \in Ops(q) : q[i].arg = n
    BY Zenon DEF OpsMatch
  <2>2. QED
    BY <1>1, <2>1, Zenon
<1>4. ASSUME NEW i \in Ops(new), NEW j \in Ops(new), i < j PROVE new[i].arg < new[j].arg
  <2>1. i + 1 \in Ops(q) /\ j + 1 \in Ops(q) /\ i + 1 < j + 1
    BY <1>1, <1>4
  <2>2. q[i + 1].arg < q[j + 1].arg
    BY <2>1, Zenon DEF OpsMatch
  <2>3. QED
    BY <1>1, <2>2, Zenon
<1>5. QED
  BY <1>2, <1>3, <1>4, Zenon DEF OpsMatch

\* The next operation is executed.
LEMMA OpsExecute ==
    ASSUME NEW q \in Seq(Transactions), q # <<>>, NEW new, new = Tail(q), Head(q).kind = "op",
           NEW A \in Nat, NEW G \in Nat, OpsMatch(A, G, q)
    PROVE  Head(q).arg = G + 1 /\ G + 1 <= A /\ OpsMatch(A, G + 1, new)
<1>0. Shifted(q, new) /\ 1 \in Ops(q) /\ q[1] = Head(q)
  BY OpsHead, Zenon
<1>1. /\ \A i \in Ops(new) : i \in Nat /\ i + 1 \in Ops(q) /\ new[i] = q[i + 1]
      /\ \A i \in Ops(q) : i \in Nat /\ (i # 1 => i - 1 \in Ops(new) /\ new[i - 1] = q[i])
      /\ 1 \in Ops(q) /\ q[1] = Head(q)
  BY <1>0, Zenon DEF Shifted
<1>2. \A i \in Ops(q) : i \in Nat /\ i >= 1
  BY DEF Ops
<1>3. q[1].arg \in G + 1 .. A
  BY <1>1, Zenon DEF OpsMatch
<1>4. \A i \in Ops(q) : i # 1 => q[1].arg < q[i].arg
  BY <1>1, <1>2 DEF OpsMatch
<1>5. q[1].arg = G + 1
  <2>1. G + 1 \in G + 1 .. A
    BY <1>3
  <2>2. PICK i \in Ops(q) : q[i].arg = G + 1
    BY <2>1, Zenon DEF OpsMatch
  <2>3. QED
    BY <1>3, <1>4, <2>2
<1>6. ASSUME NEW i \in Ops(new) PROVE new[i].arg \in (G + 1) + 1 .. A
  <2>1. i + 1 \in Ops(q) /\ new[i] = q[i + 1] /\ i + 1 # 1
    <3>1. i \in Nat /\ i \in DOMAIN new
      BY <1>1, Zenon DEF Ops
    <3>2. i # 0
      BY <3>1
    <3>3. QED
      BY <1>1, <3>1, <3>2
  <2>2. q[i + 1].arg \in G + 1 .. A /\ G + 1 < q[i + 1].arg
    BY <1>4, <1>5, <2>1, Zenon DEF OpsMatch
  <2>3. q[i + 1].arg \in (G + 1) + 1 .. A
    BY <2>2
  <2>4. QED
    BY <2>1, <2>3, Zenon
<1>7. ASSUME NEW n \in (G + 1) + 1 .. A PROVE \E i \in Ops(new) : new[i].arg = n
  <2>1. n \in G + 1 .. A /\ n # G + 1
    OBVIOUS
  <2>2. PICK i \in Ops(q) : q[i].arg = n
    BY <2>1, Zenon DEF OpsMatch
  <2>3. i # 1
    BY <1>5, <2>1, <2>2, Zenon
  <2>4. QED
    BY <1>1, <2>2, <2>3, Zenon
<1>8. ASSUME NEW i \in Ops(new), NEW j \in Ops(new), i < j PROVE new[i].arg < new[j].arg
  <2>1. i + 1 \in Ops(q) /\ j + 1 \in Ops(q) /\ i + 1 < j + 1
    BY <1>1, <1>8
  <2>2. q[i + 1].arg < q[j + 1].arg
    BY <2>1, Zenon DEF OpsMatch
  <2>3. QED
    BY <1>1, <2>2, Zenon
<1>9. OpsMatch(A, G + 1, new)
  BY <1>6, <1>7, <1>8, Zenon DEF OpsMatch
<1>10. G + 1 <= A
  BY <1>3
<1>11. QED
  BY <1>1, <1>5, <1>9, <1>10, Zenon

\* No operation is sent or executed.
NoOpMoves ==
    \/ toGateway' = toGateway
    \/ \E tx : tx.kind # "op" /\ toGateway' = Append(toGateway, tx)
    \/ toGateway # <<>> /\ Head(toGateway).kind # "op" /\ toGateway' = Tail(toGateway)

\* Then the operations in flight stay what they are.
LEMMA OpsStay ==
    ASSUME TypeOK, NoOpMoves
    PROVE  /\ OpsInFlight' # {} => OpsInFlight # {}
           /\ \A A \in Nat, G \in Nat : OpsMatch(A, G, toGateway) => OpsMatch(A, G, toGateway')
<1>1. toGateway \in Seq(Transactions)
  BY Zenon DEF TypeOK
<1>2. OpsInFlight = Ops(toGateway) /\ OpsInFlight' = Ops(toGateway')
  BY Zenon DEF OpsInFlight, Ops
<1>3. CASE toGateway' = toGateway
  BY <1>2, <1>3, Zenon
<1>4. ASSUME NEW tx, tx.kind # "op", toGateway' = Append(toGateway, tx)
      PROVE  /\ Ops(toGateway') = Ops(toGateway)
             /\ \A A \in Nat, G \in Nat : OpsMatch(A, G, toGateway) => OpsMatch(A, G, toGateway')
  BY <1>1, <1>4, OpsSendOther, Zenon
<1>5. CASE toGateway # <<>> /\ Head(toGateway).kind # "op" /\ toGateway' = Tail(toGateway)
  <2>1. Shifted(toGateway, toGateway')
    BY <1>1, <1>5, OpsHead, Zenon
  <2>2. \A i \in Ops(toGateway') : i + 1 \in Ops(toGateway)
    BY <2>1, Zenon DEF Shifted
  <2>3. Ops(toGateway') # {} => Ops(toGateway) # {}
    BY <2>2, Zenon
  <2>4. \A A \in Nat, G \in Nat : OpsMatch(A, G, toGateway) => OpsMatch(A, G, toGateway')
    BY <1>1, <1>5, OpsExecuteOther, Zenon
  <2>5. QED
    BY <1>2, <2>3, <2>4, Zenon
<1>6. QED
  BY <1>2, <1>3, <1>4, <1>5, Zenon DEF NoOpMoves

\* Neither tree changes.
SameTrees == root' = root /\ \A l \in Layers : chain'[l].tree = chain[l].tree

\* A step that changes neither the trees nor the operations in flight.
LEMMA TreesStay ==
    ASSUME TypeOK, TreeOfGateway, NoOpMoves, SameTrees,
           Registered => Registered', Away' /\ Registered' => Away /\ Registered
    PROVE  TreeOfGateway'
<1> DEFINE A == Len(chain["L1"].tree.leaves)
           G == Len(chain["GW"].tree.leaves)
<1>1. /\ OpsInFlight' # {} => OpsInFlight # {}
      /\ \A a \in Nat, g \in Nat : OpsMatch(a, g, toGateway) => OpsMatch(a, g, toGateway')
  BY OpsStay, Zenon
<1>2. A \in Nat /\ G \in Nat
  BY TreeFacts, Zenon DEF Layers
<1>3. root' = root /\ chain'["L1"].tree = chain["L1"].tree /\ chain'["GW"].tree = chain["GW"].tree
  BY Zenon DEF SameTrees, Layers
<1>4. OpsInFlight' # {} => Registered'
  BY <1>1, Zenon DEF TreeOfGateway
<1>5. ASSUME Away, Registered
      PROVE  /\ root'["L1"] <= root'["GW"]
             /\ InSync(chain'["L1"].tree, chain'["GW"].tree)
             /\ OpsMatch(Len(chain'["L1"].tree.leaves), Len(chain'["GW"].tree.leaves), toGateway')
  <2>1. /\ root["L1"] <= root["GW"]
        /\ InSync(chain["L1"].tree, chain["GW"].tree)
        /\ OpsMatch(A, G, toGateway)
    BY <1>5, Zenon DEF TreeOfGateway
  <2>2. OpsMatch(A, G, toGateway')
    BY <1>1, <1>2, <2>1, Zenon
  <2>3. QED
    BY <1>3, <2>1, <2>2, Zenon
<1>6. QED
  BY <1>4, <1>5, Zenon DEF TreeOfGateway

\* What a push does to the leaves.
LEMMA PushLeaves ==
    ASSUME NEW t \in Tree(Nat), NEW op \in Nat
    PROVE  /\ push(t, op).leaves = Append(t.leaves, op)
           /\ push(t, op).startIndex = t.startIndex
           /\ push(t, op).unprocessedIndex = t.unprocessedIndex
  BY Zenon DEF push, Tree

\* The first part of a sequence is one of a longer one; and one may add to it
\* what comes next.
LEMMA Prefixes ==
    ASSUME NEW s \in Seq(Nat), NEW r \in Seq(Nat), IsSegment(s, 0, r)
    PROVE  /\ Len(r) <= Len(s)
           /\ \A n \in 1 .. Len(r) : r[n] = s[n]
           /\ \A x \in Nat : IsSegment(Append(s, x), 0, r)
           /\ Len(r) < Len(s) => IsSegment(s, 0, Append(r, s[Len(r) + 1]))
<1>1. Len(r) \in Nat /\ Len(s) \in Nat
  OBVIOUS
<1>2. Len(r) <= Len(s) /\ \A n \in 1 .. Len(r) : r[n] = s[n]
  BY <1>1 DEF IsSegment
<1>3. ASSUME NEW x \in Nat PROVE IsSegment(Append(s, x), 0, r)
  BY <1>1, <1>2 DEF IsSegment
<1>4. ASSUME Len(r) < Len(s) PROVE IsSegment(s, 0, Append(r, s[Len(r) + 1]))
  <2> DEFINE m == Len(r) + 1
             new == Append(r, s[m])
  <2>1. s[m] \in Nat
    BY <1>1, <1>4
  <2>2. Len(new) = m /\ new[m] = s[m] /\ \A n \in 1 .. Len(r) : new[n] = r[n]
    BY <2>1
  <2>3. m <= Len(s) /\ \A n \in 1 .. m : n = m \/ n \in 1 .. Len(r)
    BY <1>1, <1>4
  <2> HIDE DEF new, m
  <2>4. 0 + Len(new) <= Len(s)
    BY <2>2, <2>3, <1>1
  <2>5. \A n \in 1 .. m : s[0 + n] = new[n]
    <3>1. m \in Nat
      BY <1>1 DEF m
    <3>2. QED
      BY <1>2, <2>2, <2>3, <3>1
  <2>6. IsSegment(s, 0, new)
    BY <2>2, <2>4, <2>5, Zenon DEF IsSegment
  <2>7. QED
    BY <2>6, Zenon DEF new, m
<1>5. QED
  BY <1>2, <1>3, <1>4, Zenon

\* The invariant about the tree of the gateway is kept.
LEMMA TreeOfGatewayStep ==
    ASSUME TypeOK, TypeOK', Control, MintsOK, TreeOfL1, Leaving, TreeOfGateway, StepClasses
    PROVE  TreeOfGateway'
<1> DEFINE a == chain["L1"].tree
           g == chain["GW"].tree
<1>a. /\ chain["L1"] \in Diamonds /\ chain["GW"] \in Diamonds
      /\ "L1" \in Layers /\ "GW" \in Layers /\ "L1" # "GW"
  BY Zenon DEF TypeOK, Layers
<1>t. /\ a \in Tree(Nat) /\ a.leaves \in Seq(Nat) /\ Len(a.leaves) \in Nat /\ a.unprocessedIndex \in Nat
      /\ g \in Tree(Nat) /\ g.leaves \in Seq(Nat) /\ Len(g.leaves) \in Nat /\ g.unprocessedIndex \in Nat
  BY <1>a, TreeFacts, Zenon
<1>q. toGateway \in Seq(Transactions) /\ OpsInFlight = Ops(toGateway) /\ OpsInFlight' = Ops(toGateway')
  BY Zenon DEF TypeOK, OpsInFlight, Ops
<1>g. Away /\ Registered =>
          /\ root["L1"] <= root["GW"]
          /\ InSync(a, g)
          /\ OpsMatch(Len(a.leaves), Len(g.leaves), toGateway)
  BY Zenon DEF TreeOfGateway
<1>1. CASE Quiet
  <2>1. SameStages
    BY <1>1, Stages, Zenon
  <2>2. SameTrees
    BY <1>1, Zenon DEF Quiet, QuietDiamonds, SameTrees
  <2>3. NoOpMoves
    BY <1>1, Zenon DEF Quiet, QuietQueue, NoOpMoves, Kinds
  <2>4. QED
    BY <2>1, <2>2, <2>3, TreesStay, Zenon DEF SameStages
<1>2. CASE Requests
  <2> DEFINE n == Len(a.leaves)
             tx == [kind |-> "op", arg |-> n + 1]
  <2>1. SameStages
    BY <1>2, Stages, Zenon
  <2>2. /\ chain'["L1"].tree = push(a, n + 1) /\ chain'["GW"].tree = g /\ root' = root
        /\ toGateway' = IF Away THEN Append(toGateway, tx) ELSE toGateway
    BY <1>2, Zenon DEF Requests
  <2>3. CASE ~Away
    <3>1. ~Away' /\ OpsInFlight' = OpsInFlight
      BY <2>1, <2>2, <2>3, Zenon DEF SameStages, OpsInFlight
    <3>2. QED
      BY <2>1, <3>1, Zenon DEF TreeOfGateway, SameStages
  <2>4. CASE Away
    <3>1. Registered /\ Registered'
      BY <1>2, <2>1, <2>4, Stages, Zenon DEF SameStages
    <3>2. /\ chain'["L1"].tree.leaves = Append(a.leaves, n + 1)
          /\ chain'["L1"].tree.unprocessedIndex = a.unprocessedIndex
      <4>1. n + 1 \in Nat /\ a \in Tree(Nat) /\ chain'["L1"].tree = push(a, n + 1)
        BY <1>t, <2>2
      <4> HIDE DEF n, a
      <4>2. QED
        BY <4>1, PushLeaves
    <3>3. InSync(chain'["L1"].tree, chain'["GW"].tree)
      <4>1. InSync(a, g)
        BY <1>g, <2>4, <3>1, Zenon
      <4>2. IsSegment(Append(a.leaves, n + 1), 0, g.leaves)
        BY <1>t, <4>1, Prefixes DEF InSync
      <4>3. QED
        BY <2>2, <3>2, <4>1, <4>2, Zenon DEF InSync
    <3>4. OpsMatch(n + 1, Len(g.leaves), toGateway')
      <4>1. OpsMatch(n, Len(g.leaves), toGateway) /\ IsSegment(a.leaves, 0, g.leaves)
        BY <1>g, <2>4, <3>1, Zenon DEF InSync
      <4>2. Len(g.leaves) <= n
        BY <1>t, <4>1, Prefixes, Zenon
      <4>3. toGateway' = Append(toGateway, [kind |-> "op", arg |-> n + 1])
        BY <2>2, <2>4, Zenon
      <4>4. n \in Nat /\ Len(g.leaves) \in Nat
        BY <1>t, Zenon
      <4> HIDE DEF n, a, g
      <4>5. QED
        BY <1>q, <4>1, <4>2, <4>3, <4>4, OpsSend, Zenon
    <3>5. Len(chain'["L1"].tree.leaves) = n + 1
      BY <1>t, <3>2
    <3>6. root'["L1"] <= root'["GW"]
      BY <1>g, <2>2, <2>4, <3>1, Zenon
    <3>7. OpsMatch(Len(chain'["L1"].tree.leaves), Len(chain'["GW"].tree.leaves), toGateway')
      BY <2>2, <3>4, <3>5, Zenon
    <3>8. QED
      BY <3>1, <3>3, <3>6, <3>7, Zenon DEF TreeOfGateway
  <2>5. QED
    BY <2>3, <2>4, Zenon
<1>3. ASSUME NEW l \in Layers, NEW k \in 0 .. MaxOps, Executes(l, k)
      PROVE  TreeOfGateway'
  <2>1. SameStages /\ (IF l = "L1" THEN ~Away ELSE Away /\ Registered /\ ~withdrawal.sent)
    BY <1>3, Stages, Zenon
  <2>2. OpsInFlight' # {} => Registered'
    BY <1>3, <2>1, Zenon DEF Executes, OpsInFlight, SameStages, TreeOfGateway
  <2>3. CASE l = "L1"
    BY <2>1, <2>2, <2>3, Zenon DEF SameStages, TreeOfGateway
  <2>4. CASE l = "GW"
    <3> DEFINE u == g.unprocessedIndex + k
    <3>1. /\ chain'["GW"].tree = [g EXCEPT !.unprocessedIndex = u] /\ chain'["L1"] = chain["L1"]
          /\ root' = [root EXCEPT !["GW"] = @ + 1] /\ k <= getSize(g) /\ toGateway' = toGateway
      BY <1>3, <1>a, <2>4, Zenon DEF Executes
    <3>2. /\ chain'["GW"].tree.unprocessedIndex = u
          /\ chain'["GW"].tree.leaves = g.leaves
          /\ chain'["GW"].tree.startIndex = g.startIndex
      BY <1>t, <3>1, Zenon DEF Tree
    <3>3. InSync(a, g) /\ root["L1"] <= root["GW"] /\ OpsMatch(Len(a.leaves), Len(g.leaves), toGateway)
      BY <1>g, <2>1, <2>4, Zenon
    <3>4. a.unprocessedIndex <= u /\ u <= Len(g.leaves)
      <4>1. k \in Nat
        BY MigrationAssumption
      <4>2. k <= Len(g.leaves) - g.unprocessedIndex
        BY <3>1, Zenon DEF getSize
      <4>3. a.unprocessedIndex <= g.unprocessedIndex
        BY <3>3, Zenon DEF InSync
      <4>4. a.unprocessedIndex \in Nat /\ g.unprocessedIndex \in Nat /\ Len(g.leaves) \in Nat
        BY <1>t, Zenon
      <4> HIDE DEF a, g
      <4>5. QED
        BY <4>1, <4>2, <4>3, <4>4
    <3>5. root'["L1"] <= root'["GW"]
      <4>1. root \in [Layers -> Nat]
        BY Zenon DEF TypeOK
      <4>2. root'["L1"] = root["L1"] /\ root'["GW"] = root["GW"] + 1
        BY <1>a, <3>1, <4>1, Zenon
      <4>3. root["L1"] \in Nat /\ root["GW"] \in Nat
        BY <1>a, <4>1, Zenon
      <4>4. QED
        BY <3>3, <4>2, <4>3
    <3>6. InSync(chain'["L1"].tree, chain'["GW"].tree)
      BY <3>1, <3>2, <3>3, <3>4, Zenon DEF InSync
    <3>7. OpsMatch(Len(chain'["L1"].tree.leaves), Len(chain'["GW"].tree.leaves), toGateway')
      BY <3>1, <3>2, <3>3, Zenon
    <3>8. QED
      BY <2>2, <3>5, <3>6, <3>7, Zenon DEF TreeOfGateway
  <2>5. QED
    BY <2>3, <2>4, Zenon DEF Layers
<1>4. CASE Leaves
  <2>1. ~Registered /\ ~Registered'
    BY <1>4, Stages, Zenon
  <2>2. NoOpMoves
    BY <1>4, Zenon DEF Leaves, NoOpMoves
  <2>3. OpsInFlight' = {}
    BY <2>1, <2>2, OpsStay, Zenon DEF TreeOfGateway
  <2>4. QED
    BY <2>1, <2>3, Zenon DEF TreeOfGateway
<1>5. CASE Arrives
  <2> DEFINE d == Head(toGateway).arg
             c == d.chainData.priorityTree
             n == Len(a.leaves)
  <2>1. Away /\ ~Registered /\ Away' /\ Registered'
    BY <1>5, Stages, Zenon
  <2>2. /\ d = [batchNumber |-> root["L1"], migrationNumber |-> 1,
                chainData |-> prepareChainCommitment(chain["L1"])]
    BY <1>5, HeadMintData, Zenon DEF Arrives
  <2>3. c = getCommitment(a)
    BY <2>2 DEF prepareChainCommitment
  <2>4. chain'["GW"].tree = initFromCommitment(g, c) /\ chain'["L1"] = chain["L1"]
    <3>1. chain'["GW"] = ForwardedBridgeMint("GW", chain["GW"], d.chainData)
      BY <1>5, Zenon DEF Arrives
    <3>2. chain'["L1"] = chain["L1"]
      BY <1>5, Zenon DEF Arrives
    <3>3. QED
      BY <1>a, <3>1, <3>2, MintedTree, Zenon
  <2>5. /\ chain'["GW"].tree.startIndex = a.startIndex
        /\ chain'["GW"].tree.unprocessedIndex = a.unprocessedIndex
        /\ chain'["GW"].tree.leaves = a.leaves
    <3>1. chain'["GW"].tree = initFromCommitment(g, getCommitment(a))
      BY <2>3, <2>4, Zenon
    <3>2. QED
      BY <3>1, TakenTree
  <2>6. a.unprocessedIndex = n /\ a.startIndex = StartIndex
    BY <2>1, Zenon DEF Leaving, TreeOfL1, GoodTree
  <2>7. InSync(chain'["L1"].tree, chain'["GW"].tree)
    <3>1. IsSegment(a.leaves, 0, a.leaves)
      BY <1>t DEF IsSegment
    <3>2. a.unprocessedIndex <= a.unprocessedIndex /\ a.unprocessedIndex <= Len(a.leaves)
      BY <1>t, <2>6
    <3>3. QED
      BY <2>4, <2>5, <2>6, <3>1, <3>2, Zenon DEF InSync
  <2>8. root'["L1"] <= root'["GW"]
    <3>1. root' = [root EXCEPT !["GW"] = root["L1"]] /\ root \in [Layers -> Nat]
      <4>1. root' = [root EXCEPT !["GW"] = d.batchNumber]
        BY <1>5, Zenon DEF Arrives
      <4>2. d.batchNumber = root["L1"]
        BY <2>2
      <4>3. root \in [Layers -> Nat]
        BY Zenon DEF TypeOK
      <4> HIDE DEF d
      <4>4. QED
        BY <4>1, <4>2, <4>3, Zenon
    <3>2. QED
      BY <1>a, <3>1
  <2>9. Ops(toGateway') = {}
    <3>1. toGateway # <<>> /\ Head(toGateway).kind = "mint" /\ toGateway' = Tail(toGateway)
      BY <1>5, Zenon DEF Arrives
    <3>2. NoOpMoves
      BY <3>1, Zenon DEF NoOpMoves
    <3>3. QED
      BY <1>q, <2>1, <3>2, OpsStay, Zenon DEF TreeOfGateway
  <2>10. OpsMatch(n, n, toGateway')
    BY <1>t, <2>9 DEF OpsMatch
  <2>11. QED
    BY <1>q, <2>1, <2>4, <2>5, <2>7, <2>8, <2>9, <2>10, Zenon DEF TreeOfGateway
<1>6. CASE Fails
  <2>1. SameStages
    BY <1>6, Stages, Zenon
  <2>2. SameTrees /\ NoOpMoves
    BY <1>6, Zenon DEF Fails, SameTrees, NoOpMoves
  <2>3. QED
    BY <2>1, <2>2, TreesStay, Zenon DEF SameStages
<1>7. CASE Receives
  <2> DEFINE x == Head(toGateway).arg
             n == Len(g.leaves)
  <2>1. SameStages /\ Registered /\ Registered'
    BY <1>7, Stages, Zenon DEF SameStages
  <2>2. CASE ~Away
    BY <2>1, <2>2, Zenon DEF SameStages, TreeOfGateway
  <2>3. CASE Away
    <3>1. /\ chain'["GW"].tree = push(g, x) /\ chain'["L1"] = chain["L1"] /\ root' = root
          /\ toGateway # <<>> /\ Head(toGateway).kind = "op" /\ toGateway' = Tail(toGateway)
      BY <1>7, Zenon DEF Receives
    <3>2. InSync(a, g) /\ OpsMatch(Len(a.leaves), n, toGateway) /\ root["L1"] <= root["GW"]
      BY <1>g, <2>1, <2>3, Zenon
    <3>3. x = n + 1 /\ n + 1 <= Len(a.leaves) /\ OpsMatch(Len(a.leaves), n + 1, toGateway')
      <4>1. n \in Nat /\ Len(a.leaves) \in Nat
        BY <1>t, Zenon
      <4> HIDE DEF n, a
      <4>2. QED
        BY <1>q, <3>1, <3>2, <4>1, OpsExecute, Zenon
    <3>4. a.leaves[n + 1] = n + 1
      <4>1. n + 1 \in 1 .. Len(a.leaves)
        BY <1>t, <3>3
      <4>2. QED
        BY <4>1, Zenon DEF TreeOfL1, GoodTree
    <3>5. /\ chain'["GW"].tree.leaves = Append(g.leaves, n + 1)
          /\ chain'["GW"].tree.startIndex = g.startIndex
          /\ chain'["GW"].tree.unprocessedIndex = g.unprocessedIndex
      <4>1. n + 1 \in Nat /\ g \in Tree(Nat) /\ chain'["GW"].tree = push(g, n + 1)
        BY <1>t, <3>1, <3>3
      <4> HIDE DEF n, g
      <4>2. QED
        BY <4>1, PushLeaves
    <3>6. IsSegment(a.leaves, 0, Append(g.leaves, n + 1))
      <4>1. IsSegment(a.leaves, 0, g.leaves) /\ n < Len(a.leaves)
        BY <1>t, <3>2, <3>3 DEF InSync
      <4>2. QED
        BY <1>t, <3>4, <4>1, Prefixes, Zenon
    <3>7. Len(chain'["GW"].tree.leaves) = n + 1
      BY <1>t, <3>5
    <3>8. g.unprocessedIndex <= n + 1
      BY <1>t, <3>2 DEF InSync
    <3>9. InSync(chain'["L1"].tree, chain'["GW"].tree)
      BY <3>1, <3>2, <3>5, <3>6, <3>7, <3>8, Zenon DEF InSync
    <3>10. QED
      BY <2>1, <3>1, <3>2, <3>3, <3>7, <3>9, Zenon DEF TreeOfGateway
  <2>4. QED
    BY <2>2, <2>3, Zenon
<1>8. CASE Departs
  <2>1. Away /\ Registered /\ Registered'
    BY <1>8, Stages, Zenon
  <2>2. SameTrees
    BY <1>8, <1>a, Zenon DEF Departs, SameTrees, Layers, Diamonds
  <2>3. NoOpMoves
    BY <1>8, Zenon DEF Departs, NoOpMoves
  <2>4. QED
    BY <2>1, <2>2, <2>3, TreesStay, Zenon
<1>9. CASE Returns
  BY <1>9, Stages, Zenon DEF TreeOfGateway
<1>10. ASSUME NEW i \in DOMAIN mints, Confirmed(i)
       PROVE  TreeOfGateway'
  <2>1. SameStages
    BY <1>10, Stages, Zenon
  <2>2. SameTrees
    BY <1>10, <1>a, Zenon DEF Confirmed, SameTrees, Layers, Diamonds
  <2>3. NoOpMoves
    BY <1>10, Zenon DEF Confirmed, NoOpMoves
  <2>4. QED
    BY <2>1, <2>2, <2>3, TreesStay, Zenon DEF SameStages
<1>11. ASSUME NEW i \in DOMAIN mints, Recovered(i)
       PROVE  TreeOfGateway'
  <2>1. ~Registered /\ ~Away'
    BY <1>11, Stages, Zenon
  <2>2. OpsInFlight' = OpsInFlight
    BY <1>11, Zenon DEF Recovered, OpsInFlight
  <2>3. QED
    BY <2>1, <2>2, Zenon DEF TreeOfGateway
<1>12. QED
  BY <1>1, <1>2, <1>3, <1>4, <1>5, <1>6, <1>7, <1>8, <1>9, <1>10, <1>11, Zenon DEF StepClasses

\* What was sent is still right while the gateway changes nothing but the leaves.
LEMMA CarriesStay ==
    ASSUME TypeOK, TypeOK', Returning, withdrawal.sent, Away, withdrawal' = withdrawal,
           root'["GW"] = root["GW"],
           chain'["GW"].committed = chain["GW"].committed,
           chain'["GW"].executed = chain["GW"].executed,
           chain'["GW"].tree = chain["GW"].tree \/ Receives
    PROVE  Returning'
<1> DEFINE d == withdrawal.data
           g == chain["GW"].tree
           c == d.chainData.priorityTree
<1>1. Carries(d, chain["GW"], root["GW"])
  BY Zenon DEF Returning
<1>2. g \in Tree(Nat) /\ g.leaves \in Seq(Nat)
  BY TreeFacts, Zenon DEF Layers
<1>3. d \in MintData /\ c.sides \in Seq(Nat) /\ IsSegment(g.leaves, 0, c.sides)
  BY <1>1, Zenon DEF Carries, MintData, TreeCommitments
<1>4. /\ chain'["GW"].tree.unprocessedIndex = g.unprocessedIndex
      /\ IsSegment(chain'["GW"].tree.leaves, 0, c.sides)
  <2>1. CASE chain'["GW"].tree = g
    BY <1>3, <2>1, Zenon
  <2>2. CASE Receives
    <3> DEFINE x == Head(toGateway).arg
    <3>1. chain'["GW"].tree = push(g, x) /\ toGateway # <<>> /\ Head(toGateway).kind = "op"
      BY <2>2, Zenon DEF Receives
    <3>2. x \in Nat
      <4>1. Head(toGateway) \in Transactions
        BY <3>1, QueueTypes, Zenon DEF TypeOK
      <4>2. QED
        BY <3>1, <4>1, Zenon DEF Transactions
    <3> HIDE DEF x, g
    <3>3. /\ chain'["GW"].tree.leaves = Append(g.leaves, x)
          /\ chain'["GW"].tree.unprocessedIndex = g.unprocessedIndex
      BY <1>2, <3>1, <3>2, PushLeaves
    <3>4. IsSegment(Append(g.leaves, x), 0, c.sides)
      <4> HIDE DEF c
      <4>1. QED
        BY <1>2, <1>3, <3>2, Prefixes, Zenon
    <3>5. QED
      BY <3>3, <3>4, Zenon
  <2>3. QED
    BY <2>1, <2>2, Zenon
<1>5. Carries(d, chain'["GW"], root'["GW"])
  BY <1>1, <1>4, Zenon DEF Carries
<1>6. QED
  BY <1>5, Zenon DEF Returning

\* The invariant about what the gateway sent is kept.
LEMMA ReturningStep ==
    ASSUME TypeOK, TypeOK', Control, MintsOK, TreeOfGateway, Returning, StepClasses
    PROVE  Returning'
<1>a. /\ chain["L1"] \in Diamonds /\ chain["GW"] \in Diamonds
      /\ "L1" \in Layers /\ "GW" \in Layers /\ "L1" # "GW"
  BY Zenon DEF TypeOK, Layers
<1> SUFFICES ASSUME withdrawal'.sent, Away' PROVE Returning'
  BY Zenon DEF Returning
<1> DEFINE Same == /\ root'["GW"] = root["GW"]
                   /\ chain'["GW"].committed = chain["GW"].committed
                   /\ chain'["GW"].executed = chain["GW"].executed
                   /\ chain'["GW"].tree = chain["GW"].tree \/ Receives
<1>1. SameStages /\ Same => Returning'
  <2>1. ASSUME SameStages, Same PROVE Returning'
    <3>1. withdrawal.sent /\ Away /\ withdrawal' = withdrawal
      BY <2>1, Zenon DEF SameStages
    <3>2. QED
      BY <2>1, <3>1, CarriesStay, Zenon
  <2>2. QED
    BY <2>1, Zenon
<1> HIDE DEF Same
<1>2. CASE Quiet
  <2>1. SameStages
    BY <1>2, Stages, Zenon
  <2>2. withdrawal.sent
    BY <2>1, Zenon DEF SameStages
  <2>3. ~Settles(chain["GW"])
    BY <2>2, Zenon DEF Settles, Control
  <2>4. Same
    BY <1>2, <1>a, <2>3, Zenon DEF Quiet, QuietDiamonds, Same
  <2>5. QED
    BY <1>1, <2>1, <2>4, Zenon
<1>3. CASE Requests
  <2>1. SameStages
    BY <1>3, Stages, Zenon
  <2>2. Same
    BY <1>3, Zenon DEF Requests, Same
  <2>3. QED
    BY <1>1, <2>1, <2>2, Zenon
<1>4. ASSUME NEW l \in Layers, NEW k \in 0 .. MaxOps, Executes(l, k)
      PROVE  Returning'
  <2>1. SameStages /\ (IF l = "L1" THEN ~Away ELSE ~withdrawal.sent)
    BY <1>4, Stages, Zenon
  <2>2. QED
    BY <2>1, Zenon DEF SameStages
<1>5. CASE Leaves \/ Arrives \/ Fails
  <2>1. ~Registered /\ withdrawal' = withdrawal
    BY <1>5, Stages, Zenon DEF SameStages
  <2>2. QED
    BY <2>1, Zenon DEF Control
<1>6. CASE Receives
  <2>1. SameStages
    BY <1>6, Stages, Zenon
  <2>2. Same
    BY <1>6, Zenon DEF Receives, Same
  <2>3. QED
    BY <1>1, <2>1, <2>2, Zenon
<1>7. CASE Departs
  <2> DEFINE c == chain["GW"]
             d == bridgehubMintData("GW")
             s == d.chainData.priorityTree
  <2>1. Away /\ Registered /\ ~withdrawal.sent
    BY <1>7, Stages, Zenon
  <2>2. withdrawal'.data = d /\ CanForwardedBridgeBurn(c) /\ root' = root
    BY <1>7, Zenon DEF Departs, CanBridgeBurn
  <2>3. /\ chain'["GW"].committed = c.committed /\ chain'["GW"].executed = c.executed
        /\ chain'["GW"].tree = c.tree
    BY <1>7, <1>a, Zenon DEF Departs, Diamonds
  <2>4. d \in MintData
    BY <1>a, MintDataType, Zenon
  <2>5. /\ d.batchNumber = root["GW"] /\ d.migrationNumber = handler["GW"].migrationNumber + 1
        /\ d.chainData.committed = c.committed /\ d.chainData.executed = c.executed
        /\ s.startIndex = c.tree.startIndex /\ s.unprocessedIndex = c.tree.unprocessedIndex
        /\ s.nextLeafIndex = Len(c.tree.leaves) /\ s.sides = c.tree.leaves
    BY Zenon DEF bridgehubMintData, prepareChainCommitment, getCommitment
  <2>6. handler["GW"].migrationNumber = 1
    BY <2>1, Zenon DEF Control
  <2>7. c.tree.startIndex = StartIndex
    BY <2>1, Zenon DEF TreeOfGateway, InSync
  <2>8. /\ c.tree.leaves \in Seq(Nat) /\ Len(c.tree.leaves) \in Nat
        /\ c.tree.unprocessedIndex \in Nat
    BY <1>a, TreeFacts, Zenon
  <2>9. c.tree.unprocessedIndex = Len(c.tree.leaves)
    <3>1. Len(c.tree.leaves) - c.tree.unprocessedIndex = 0
      BY <2>2, Zenon DEF CanForwardedBridgeBurn, getSize
    <3> HIDE DEF c
    <3>2. QED
      BY <2>8, <3>1
  <2>10. IsSegment(c.tree.leaves, 0, c.tree.leaves)
    BY <2>8 DEF IsSegment
  <2>11. Carries(d, chain'["GW"], root'["GW"])
    <3>1. d.migrationNumber = 2
      BY <2>5, <2>6
    <3> HIDE DEF d, c
    <3>2. QED
      BY <2>2, <2>3, <2>4, <2>5, <2>7, <2>9, <2>10, <3>1, Zenon DEF Carries
  <2>12. QED
    BY <2>2, <2>11, Zenon DEF Returning
<1>8. CASE Returns
  BY <1>8, Stages, Zenon
<1>9. ASSUME NEW i \in DOMAIN mints, Confirmed(i)
      PROVE  Returning'
  <2>1. SameStages
    BY <1>9, Stages, Zenon
  <2>2. Same
    BY <1>9, Zenon DEF Confirmed, Same
  <2>3. QED
    BY <1>1, <2>1, <2>2, Zenon
<1>10. ASSUME NEW i \in DOMAIN mints, Recovered(i)
       PROVE  Returning'
  BY <1>10, Stages, Zenon
<1>11. QED
  BY <1>2, <1>3, <1>4, <1>5, <1>6, <1>7, <1>8, <1>9, <1>10, Zenon DEF StepClasses

===============================================================================
