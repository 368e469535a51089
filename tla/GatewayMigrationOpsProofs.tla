--------------------- MODULE GatewayMigrationOpsProofs ---------------------
(***************************************************************************)
(* The rest of the invariant of ChainMigrationProofs, where batches are    *)
(* settled and what the operator's tool relies on, and the theorems: the   *)
(* properties of ChainMigration and of GatewayMigrationOps hold, and a     *)
(* chain that migrates implements SettledChain.                            *)
(***************************************************************************)
EXTENDS ChainMigrationProofs, SequenceTheorems

(***************************************************************************)
(* Where batches are settled.                                              *)
(***************************************************************************)

\* The types that the intervals need.
LEMMA IntervalTypes ==
    ASSUME TypeOK
    PROVE  /\ interval.from \in Nat /\ interval.to \in Nat /\ interval.lower \in Nat
           /\ interval.upper \in Nat /\ gatewayBatch \in Nat /\ withdrawal.batch \in Nat
           /\ Len(settledOn) \in Nat /\ root["L1"] \in Nat /\ root["GW"] \in Nat
           /\ settledOn \in Seq([sl : Layers, slBatch : Nat])
           /\ \A k \in 1 .. Len(settledOn) : settledOn[k].slBatch \in Nat
<1>1. /\ interval.from \in Nat /\ interval.to \in Nat /\ interval.lower \in Nat
      /\ interval.upper \in Nat /\ gatewayBatch \in Nat
  BY Zenon DEF TypeOK
<1>2. withdrawal.batch \in Nat
  BY Zenon DEF TypeOK
<1>3. root["L1"] \in Nat /\ root["GW"] \in Nat
  BY Zenon DEF TypeOK, Layers
<1>4. settledOn \in Seq([sl : Layers, slBatch : Nat])
  BY Zenon DEF TypeOK
<1>5. Len(settledOn) \in Nat /\ \A k \in 1 .. Len(settledOn) : settledOn[k].slBatch \in Nat
  <2>1. Len(settledOn) \in Nat
    BY <1>4
  <2>2. ASSUME NEW k \in 1 .. Len(settledOn) PROVE settledOn[k].slBatch \in Nat
    <3> DEFINE E == [sl : Layers, slBatch : Nat]
    <3>1. settledOn[k] \in E
      <4>1. settledOn \in Seq(E)
        BY <1>4, Zenon
      <4> HIDE DEF E
      <4>2. QED
        BY <4>1
    <3>2. QED
      BY <3>1, Zenon
  <2>3. QED
    BY <2>1, <2>2, Zenon
<1>6. QED
  BY <1>1, <1>2, <1>3, <1>4, <1>5, Zenon

\* The diamond that holds the state, by stage.
LEMMA HomeIs ==
    /\ Home = IF Away /\ Registered THEN chain["GW"] ELSE chain["L1"]
    /\ Home' = IF Away' /\ Registered' THEN chain'["GW"] ELSE chain'["L1"]
  BY Zenon DEF Home, Away, Registered

\* A step within a stage that executes no batch.
SameBatches ==
    /\ chain'["L1"].executed = chain["L1"].executed
    /\ chain'["GW"].executed = chain["GW"].executed
    /\ gatewayBatch <= gatewayBatch'
    /\ UNCHANGED <<root, interval, settledOn>>

\* Intervals depends on nothing that SameBatches does not name.
LEMMA IntervalsStay ==
    ASSUME TypeOK, TypeOK', Intervals, SameStages, SameBatches
    PROVE  Intervals'
<1>1. /\ interval.lower \in Nat /\ gatewayBatch \in Nat /\ gatewayBatch' \in Nat
      /\ interval.upper \in Nat /\ withdrawal.batch \in Nat
      /\ \A k \in 1 .. Len(settledOn) : settledOn[k].slBatch \in Nat
  <2>1. gatewayBatch' \in Nat
    BY Zenon DEF TypeOK
  <2>2. QED
    BY <2>1, IntervalTypes, Zenon
<1>2. gatewayBatch <= gatewayBatch' /\ root' = root /\ interval' = interval /\ settledOn' = settledOn
  BY Zenon DEF SameBatches
<1>3. (Away' <=> Away) /\ (Registered' <=> Registered) /\ withdrawal' = withdrawal
  BY Zenon DEF SameStages
<1>4. Home'.executed = Home.executed
  BY <1>3, HomeIs, Zenon DEF SameBatches
<1>5. interval'.lower <= gatewayBatch'
  BY <1>1, <1>2 DEF Intervals
<1>6. ASSUME NEW k \in 1 .. Len(settledOn) PROVE Recorded(k)'
  <2>1. Recorded(k)
    BY Zenon DEF Intervals
  <2>2. OnGateway(k)' <=> OnGateway(k)
    BY <1>2, <1>3, Zenon DEF OnGateway
  <2>3. LastSlBatch \in Nat /\ LastSlBatch' \in Nat /\ LastSlBatch <= LastSlBatch'
    <3>1. CASE ~Away
      <4>1. LastSlBatch = interval.upper /\ LastSlBatch' = interval.upper
        BY <1>2, <1>3, <3>1, Zenon DEF LastSlBatch
      <4>2. QED
        BY <1>1, <4>1
    <3>2. CASE Away /\ withdrawal.sent
      <4>1. LastSlBatch = withdrawal.batch /\ LastSlBatch' = withdrawal.batch
        BY <1>3, <3>2, Zenon DEF LastSlBatch
      <4>2. QED
        BY <1>1, <4>1
    <3>3. CASE Away /\ ~withdrawal.sent
      <4>1. LastSlBatch = gatewayBatch + 1 /\ LastSlBatch' = gatewayBatch' + 1
        BY <1>3, <3>3, Zenon DEF LastSlBatch
      <4>2. gatewayBatch \in Nat /\ gatewayBatch' \in Nat /\ gatewayBatch <= gatewayBatch'
        BY <1>1, <1>2, Zenon
      <4>3. gatewayBatch + 1 \in Nat /\ gatewayBatch' + 1 \in Nat
            /\ gatewayBatch + 1 <= gatewayBatch' + 1
        <5>1. \A x, y \in Nat : x <= y => x + 1 \in Nat /\ y + 1 \in Nat /\ x + 1 <= y + 1
          OBVIOUS
        <5>2. QED
          BY <4>2, <5>1, Zenon
      <4>4. QED
        BY <4>1, <4>3, Zenon
    <3>4. QED
      BY <3>1, <3>2, <3>3, Zenon
  <2>4. settledOn[k].slBatch \in Nat
    BY <1>1, Zenon
  <2>5. QED
    BY <1>2, <2>1, <2>2, <2>3, <2>4 DEF Recorded
<1>7. QED
  BY <1>2, <1>3, <1>4, <1>5, <1>6, Zenon DEF Intervals, SameBatches

\* The steps that execute no batch and change no stage.
LEMMA QuietIntervals ==
    ASSUME TypeOK, Control, MintsOK, TreeOfGateway
    PROVE  /\ Quiet \/ Requests \/ Fails \/ Receives => SameStages /\ SameBatches
           /\ \A i \in DOMAIN mints : Confirmed(i) => SameStages /\ SameBatches
<1>a. /\ chain["L1"] \in Diamonds /\ chain["GW"] \in Diamonds
      /\ "L1" \in Layers /\ "GW" \in Layers /\ "L1" # "GW" /\ gatewayBatch <= gatewayBatch
  BY DEF TypeOK, Layers
<1>1. ASSUME Quiet PROVE SameStages /\ SameBatches
  BY <1>1, <1>a, Stages, Zenon DEF Quiet, QuietDiamonds, SameBatches
<1>2. ASSUME Requests PROVE SameStages /\ SameBatches
  BY <1>2, <1>a, Stages, Zenon DEF Requests, SameBatches
<1>3. ASSUME Fails PROVE SameStages /\ SameBatches
  BY <1>3, <1>a, Stages, Zenon DEF Fails, SameBatches
<1>4. ASSUME Receives PROVE SameStages /\ SameBatches
  BY <1>4, <1>a, Stages, Zenon DEF Receives, SameBatches
<1>5. ASSUME NEW i \in DOMAIN mints, Confirmed(i) PROVE SameStages /\ SameBatches
  <2>1. SameBatches
    BY <1>5, <1>a, Zenon DEF Confirmed, SameBatches, Diamonds
  <2>2. QED
    BY <1>5, <2>1, Stages, Zenon
<1>6. QED
  BY <1>1, <1>2, <1>3, <1>4, <1>5, Zenon

\* A batch that is executed is recorded in the interval of its layer.
LEMMA ExecutesIntervals ==
    ASSUME TypeOK, Control, MintsOK, TreeOfGateway, Intervals,
           NEW l \in Layers, NEW k \in 0 .. MaxOps, Executes(l, k)
    PROVE  Intervals'
<1> DEFINE b == IF l = "GW" THEN gatewayBatch + 1 ELSE 0
<1>0. PICK n \in Nat : n = Len(settledOn)
  BY IntervalTypes, Zenon
<1>1. /\ interval.from \in Nat /\ interval.to \in Nat /\ interval.lower \in Nat /\ gatewayBatch \in Nat
      /\ n \in Nat /\ root["L1"] \in Nat /\ root["GW"] \in Nat
      /\ settledOn \in Seq([sl : Layers, slBatch : Nat])
  BY IntervalTypes, Zenon
<1>2. /\ SameStages
      /\ IF l = "L1" THEN ~Away ELSE Away /\ Registered /\ ~withdrawal.sent
  BY Stages, Zenon
<1>3. /\ (Away' <=> Away) /\ (Registered' <=> Registered) /\ withdrawal' = withdrawal
      /\ interval' = interval /\ gatewayBatch' = gatewayBatch
  BY <1>2, Zenon DEF SameStages, Executes
<1>4. settledOn' = Append(settledOn, [sl |-> l, slBatch |-> b])
  BY Zenon DEF Executes
<1>5. /\ Len(settledOn') = n + 1
      /\ settledOn'[n + 1] = [sl |-> l, slBatch |-> b]
      /\ \A j \in 1 .. n : settledOn'[j] = settledOn[j]
  <2>1. [sl |-> l, slBatch |-> b] \in [sl : Layers, slBatch : Nat]
    BY <1>1
  <2> DEFINE E == [sl : Layers, slBatch : Nat]
             e == [sl |-> l, slBatch |-> b]
  <2>2. e \in E /\ settledOn \in Seq(E) /\ settledOn' = Append(settledOn, e)
    BY <1>1, <1>4, <2>1, Zenon
  <2> HIDE DEF b, E, e
  <2>3. Len(settledOn') = n + 1 /\ settledOn'[n + 1] = e /\ \A j \in 1 .. n : settledOn'[j] = settledOn[j]
    BY <1>0, <2>2
  <2>4. QED
    BY <2>3, Zenon DEF e
<1>6. l = "L1" \/ l = "GW"
  BY Zenon DEF Layers
<1>7. /\ root'["L1"] = chain'["L1"].executed /\ root'["GW"] = chain'["GW"].executed
      /\ Home'.executed = n + 1
  <2>1. root["L1"] = chain["L1"].executed /\ root["GW"] = chain["GW"].executed /\ n = Home.executed
    BY <1>0, Zenon DEF Intervals
  <2>2. root \in [Layers -> Nat] /\ "L1" \in Layers /\ "GW" \in Layers /\ "L1" # "GW"
    BY Zenon DEF TypeOK, Layers
  <2>3. /\ root' = [root EXCEPT ![l] = @ + 1] /\ chain'[l].executed = chain[l].executed + 1
        /\ \A m \in Layers : m # l => chain'[m] = chain[m]
    BY Zenon DEF Executes
  <2>4. CASE l = "L1"
    <3>1. /\ root'["L1"] = root["L1"] + 1 /\ root'["GW"] = root["GW"]
          /\ chain'["L1"].executed = chain["L1"].executed + 1 /\ chain'["GW"] = chain["GW"]
      BY <2>2, <2>3, <2>4, Zenon
    <3>2. Home = chain["L1"] /\ Home' = chain'["L1"]
      BY <1>2, <1>3, <2>4, HomeIs, Zenon
    <3>3. QED
      BY <2>1, <3>1, <3>2, Zenon
  <2>5. CASE l = "GW"
    <3>1. /\ root'["GW"] = root["GW"] + 1 /\ root'["L1"] = root["L1"]
          /\ chain'["GW"].executed = chain["GW"].executed + 1 /\ chain'["L1"] = chain["L1"]
      BY <2>2, <2>3, <2>5, Zenon
    <3>2. Home = chain["GW"] /\ Home' = chain'["GW"]
      BY <1>2, <1>3, <2>2, <2>5, HomeIs
    <3>3. QED
      BY <2>1, <3>1, <3>2, Zenon
  <2>6. QED
    BY <1>6, <2>4, <2>5, Zenon
<1>8. /\ interval.lower <= gatewayBatch
      /\ ~Away /\ ~Registered => interval = NoInterval
      /\ Away => interval.from <= n /\ (~Registered => interval.from = n)
      /\ Registered /\ ~Away => interval.from <= interval.to /\ interval.to <= n
      /\ \A j \in 1 .. n : Recorded(j)
  BY <1>0, Zenon DEF Intervals
<1>9. ASSUME NEW j \in 1 .. n PROVE Recorded(j)'
  <2>1. (OnGateway(j)' <=> OnGateway(j)) /\ LastSlBatch' = LastSlBatch
    BY <1>3, Zenon DEF OnGateway, LastSlBatch
  <2>2. QED
    BY <1>3, <1>5, <1>8, <2>1, Zenon DEF Recorded
<1>10. Recorded(n + 1)'
  <2>1. settledOn'[n + 1].sl = l /\ settledOn'[n + 1].slBatch = b
    BY <1>5
  <2>2. CASE l = "L1"
    <3>1. ~Away' /\ (Registered' => interval'.to <= n) /\ n \in Nat /\ interval'.to \in Nat
      BY <1>1, <1>2, <1>3, <1>8, <2>2, Zenon
    <3>2. ~OnGateway(n + 1)'
      BY <3>1 DEF OnGateway
    <3>3. QED
      BY <2>1, <2>2, <3>2, Zenon DEF Recorded
  <2>3. CASE l = "GW"
    <3>1. Away /\ Registered /\ ~withdrawal.sent
      BY <1>2, <2>3, Zenon
    <3>2. interval'.from < n + 1 /\ interval'.lower < gatewayBatch + 1
      BY <1>1, <1>3, <1>8, <3>1
    <3>3. OnGateway(n + 1)'
      BY <1>3, <3>1, <3>2, Zenon DEF OnGateway
    <3>4. LastSlBatch' = gatewayBatch + 1
      BY <1>3, <3>1, Zenon DEF LastSlBatch
    <3>5. b = gatewayBatch + 1 /\ b <= gatewayBatch + 1
      BY <1>1, <2>3
    <3> HIDE DEF b
    <3>6. QED
      BY <2>1, <2>3, <3>2, <3>3, <3>4, <3>5, Zenon DEF Recorded
  <2>4. QED
    BY <1>6, <2>2, <2>3, Zenon
<1>11. \A j \in 1 .. n + 1 : Recorded(j)'
  <2>1. \A j \in 1 .. n + 1 : j = n + 1 \/ j \in 1 .. n
    BY <1>1
  <2>2. QED
    BY <1>9, <1>10, <2>1, Zenon
<1>12. /\ Away' => interval'.from <= n + 1 /\ (~Registered' => interval'.from = n + 1)
       /\ Registered' /\ ~Away' => interval'.from <= interval'.to /\ interval'.to <= n + 1
  <2>1. ~(Away /\ ~Registered)
    BY <1>2, Zenon
  <2>2. QED
    BY <1>1, <1>3, <1>8, <2>1
<1>13. interval'.lower <= gatewayBatch' /\ (~Away' /\ ~Registered' => interval' = NoInterval)
  BY <1>3, <1>8, Zenon
<1>14. QED
  BY <1>5, <1>7, <1>11, <1>12, <1>13, Zenon DEF Intervals

\* Before the chain is on the gateway, every batch was settled on L1.
LEMMA AllOnL1 ==
    ASSUME Intervals, ~Registered
    PROVE  \A k \in 1 .. Len(settledOn) : settledOn[k].sl = "L1" /\ settledOn[k].slBatch = 0
  BY Zenon DEF Intervals, Recorded, OnGateway

\* The intervals after a step that moves the chain.
LEMMA MoveIntervals ==
    ASSUME TypeOK, TypeOK', Control, MintsOK, Leaving, TreeOfGateway, Returning, Intervals,
           \/ Leaves \/ Arrives \/ Departs \/ Returns
           \/ \E i \in DOMAIN mints : Recovered(i)
    PROVE  Intervals'
<1>a. /\ chain["L1"] \in Diamonds /\ chain["GW"] \in Diamonds
      /\ "L1" \in Layers /\ "GW" \in Layers /\ "L1" # "GW" /\ root \in [Layers -> Nat]
  BY Zenon DEF TypeOK, Layers
<1>n. PICK n \in Nat : n = Len(settledOn)
  BY IntervalTypes, Zenon
<1>t. /\ interval.from \in Nat /\ interval.to \in Nat /\ interval.lower \in Nat
      /\ interval.upper \in Nat /\ gatewayBatch \in Nat /\ withdrawal.batch \in Nat
      /\ root["L1"] \in Nat /\ root["GW"] \in Nat
      /\ interval \in [from : Nat, to : Nat, lower : Nat, upper : Nat, sl : {"none", "GW"},
                       isActive : BOOLEAN]
  BY IntervalTypes, Zenon DEF TypeOK
<1>i. /\ root["L1"] = chain["L1"].executed /\ root["GW"] = chain["GW"].executed
      /\ n = Home.executed
      /\ interval.lower <= gatewayBatch
      /\ ~Away /\ ~Registered => interval = NoInterval
      /\ Away => interval.from <= n /\ (~Registered => interval.from = n)
      /\ \A k \in 1 .. n : Recorded(k)
  BY <1>n, Zenon DEF Intervals
<1>1. CASE Leaves
  <2>1. ~Away /\ ~Registered /\ Away' /\ ~Registered'
    BY <1>1, Stages, Zenon
  <2>2. /\ chain'["L1"].executed = chain["L1"].executed /\ chain'["GW"] = chain["GW"]
        /\ root' = root /\ settledOn' = settledOn /\ gatewayBatch' = gatewayBatch
        /\ interval' = recordMigrationToSL(root["L1"], gatewayBatch)
    BY <1>1, <1>a, Zenon DEF Leaves, Diamonds
  <2>3. interval'.from = root["L1"] /\ interval'.lower = gatewayBatch
    BY <2>2, Zenon DEF recordMigrationToSL
  <2>4. Home.executed = chain["L1"].executed /\ Home'.executed = chain["L1"].executed
    BY <2>1, <2>2, HomeIs, Zenon
  <2>5. root["L1"] = n
    BY <1>i, <2>4, Zenon
  <2>6. ASSUME NEW k \in 1 .. n PROVE Recorded(k)'
    BY <1>n, <2>1, <2>2, AllOnL1, Zenon DEF Recorded, OnGateway
  <2>7. Len(settledOn') = n
    BY <1>n, <2>2, Zenon
  <2>8. QED
    BY <1>t, <1>i, <2>1, <2>2, <2>3, <2>4, <2>5, <2>6, <2>7 DEF Intervals
<1>2. CASE Arrives
  <2> DEFINE d == Head(toGateway).arg
  <2>1. Away /\ ~Registered /\ Away' /\ Registered'
    BY <1>2, Stages, Zenon
  <2>2. /\ chain'["L1"] = chain["L1"] /\ settledOn' = settledOn /\ gatewayBatch' = gatewayBatch
        /\ interval' = interval
    BY <1>2, Zenon DEF Arrives
  <2>3. d.batchNumber = root["L1"] /\ d.chainData.executed = chain["L1"].executed
    BY <1>2, HeadMintData DEF Arrives, prepareChainCommitment
  <2>4. chain'["GW"].executed = d.chainData.executed
    <3>1. chain'["GW"] = ForwardedBridgeMint("GW", chain["GW"], d.chainData)
      BY <1>2, Zenon DEF Arrives
    <3>2. QED
      BY <1>a, <3>1, Zenon DEF ForwardedBridgeMint, Diamonds
  <2>5. root'["GW"] = root["L1"] /\ root'["L1"] = root["L1"]
    <3>1. root' = [root EXCEPT !["GW"] = d.batchNumber]
      BY <1>2, Zenon DEF Arrives
    <3> HIDE DEF d
    <3>2. QED
      BY <1>a, <2>3, <3>1, Zenon
  <2>6. Home.executed = chain["L1"].executed /\ Home'.executed = chain["L1"].executed
    BY <2>1, <2>3, <2>4, HomeIs, Zenon
  <2>7. ASSUME NEW k \in 1 .. n PROVE Recorded(k)'
    <3>1. ~OnGateway(k)'
      <4>1. interval'.from = n /\ ~(n < k)
        BY <1>i, <2>1, <2>2
      <4>2. QED
        BY <4>1, Zenon DEF OnGateway
    <3>2. QED
      BY <1>n, <2>1, <2>2, <3>1, AllOnL1, Zenon DEF Recorded
  <2>8. Len(settledOn') = n
    BY <1>n, <2>2, Zenon
  <2> HIDE DEF d
  <2>9. QED
    BY <1>t, <1>i, <2>1, <2>2, <2>3, <2>4, <2>5, <2>6, <2>7, <2>8, Zenon DEF Intervals
<1>3. CASE Departs
  <2>1. Away /\ Registered /\ ~withdrawal.sent /\ Away' /\ Registered' /\ withdrawal'.sent
    BY <1>3, Stages, Zenon
  <2>2. /\ chain'["L1"] = chain["L1"] /\ chain'["GW"].executed = chain["GW"].executed
        /\ root' = root /\ settledOn' = settledOn /\ gatewayBatch' = gatewayBatch
        /\ interval' = interval /\ withdrawal'.batch = gatewayBatch + 1
    BY <1>3, <1>a, Zenon DEF Departs, Diamonds
  <2>3. Home'.executed = Home.executed
    BY <2>1, <2>2, HomeIs, Zenon
  <2>4. ASSUME NEW k \in 1 .. n PROVE Recorded(k)'
    <3>1. (OnGateway(k)' <=> OnGateway(k)) /\ LastSlBatch' = LastSlBatch
      BY <2>1, <2>2, Zenon DEF OnGateway, LastSlBatch
    <3>2. QED
      BY <1>i, <2>2, <3>1, Zenon DEF Recorded
  <2>5. Len(settledOn') = n
    BY <1>n, <2>2, Zenon
  <2>6. QED
    BY <1>i, <2>1, <2>2, <2>3, <2>4, <2>5, Zenon DEF Intervals
<1>4. CASE Returns
  <2> DEFINE d == withdrawal.data
  <2>1. Away /\ Registered /\ withdrawal.sent /\ ~Away' /\ Registered'
    BY <1>4, Stages, Zenon
  <2>2. /\ chain'["GW"] = chain["GW"] /\ settledOn' = settledOn /\ gatewayBatch' = gatewayBatch
        /\ interval' = recordMigrationFromSL(interval, d.batchNumber, gatewayBatch)
        /\ withdrawal.batch <= gatewayBatch
    BY <1>4, Zenon DEF Returns, CanVerifyWithdrawal
  <2>3. d.batchNumber = root["GW"] /\ d.chainData.executed = chain["GW"].executed
    BY <2>1, Zenon DEF Returning, Carries
  <2>4. chain'["L1"].executed = d.chainData.executed
    <3>1. chain'["L1"] = ForwardedBridgeMint("L1", chain["L1"], d.chainData)
      BY <1>4, Zenon DEF Returns
    <3>2. QED
      BY <1>a, <3>1, Zenon DEF ForwardedBridgeMint, Diamonds
  <2>5. root'["L1"] = root["GW"] /\ root'["GW"] = root["GW"]
    <3>1. root' = [root EXCEPT !["L1"] = d.batchNumber]
      BY <1>4, Zenon DEF Returns
    <3> HIDE DEF d
    <3>2. QED
      BY <1>a, <2>3, <3>1, Zenon
  <2> HIDE DEF d
  <2>6. Home.executed = chain["GW"].executed /\ Home'.executed = chain["GW"].executed
    BY <2>1, <2>3, <2>4, HomeIs, Zenon
  <2>7. /\ interval'.from = interval.from /\ interval'.lower = interval.lower
        /\ interval'.to = n /\ interval'.upper = gatewayBatch
    <3>1. d.batchNumber = n
      BY <1>i, <2>3, <2>6, Zenon
    <3>2. QED
      BY <1>t, <2>2, <3>1, Zenon DEF recordMigrationFromSL
  <2>8. ASSUME NEW k \in 1 .. n PROVE Recorded(k)'
    <3>1. Recorded(k)
      BY <1>i, Zenon
    <3>2. k <= n
      OBVIOUS
    <3>3. OnGateway(k)' <=> OnGateway(k)
      BY <2>1, <2>7, <3>2, Zenon DEF OnGateway
    <3>4. LastSlBatch = withdrawal.batch /\ LastSlBatch' = gatewayBatch
      BY <2>1, <2>7, Zenon DEF LastSlBatch
    <3>5. settledOn[k].slBatch \in Nat
      BY <1>n, IntervalTypes, Zenon
    <3>6. settledOn[k].slBatch <= withdrawal.batch => settledOn[k].slBatch <= gatewayBatch
      BY <1>t, <2>2, <3>5
    <3>7. QED
      BY <2>2, <2>7, <3>1, <3>3, <3>4, <3>6, Zenon DEF Recorded
  <2>9. Len(settledOn') = n
    BY <1>n, <2>2, Zenon
  <2>10. interval'.from <= interval'.to /\ interval'.to <= n
    BY <1>i, <2>1, <2>7
  <2>11. QED
    BY <1>i, <2>1, <2>2, <2>3, <2>4, <2>5, <2>6, <2>7, <2>8, <2>9, <2>10, Zenon DEF Intervals
<1>5. ASSUME NEW i \in DOMAIN mints, Recovered(i)
      PROVE  Intervals'
  <2>1. Away /\ ~Registered /\ ~Away' /\ ~Registered'
    BY <1>5, Stages, Zenon
  <2>2. /\ chain'["L1"].executed = chain["L1"].executed /\ chain'["GW"] = chain["GW"]
        /\ root' = root /\ settledOn' = settledOn /\ gatewayBatch' = gatewayBatch
        /\ interval' = NoInterval
    BY <1>5, <1>a, Zenon DEF Recovered, Diamonds
  <2>3. Home'.executed = Home.executed
    BY <2>1, <2>2, HomeIs, Zenon
  <2>4. ASSUME NEW k \in 1 .. n PROVE Recorded(k)'
    BY <1>n, <2>1, <2>2, AllOnL1, Zenon DEF Recorded, OnGateway
  <2>5. Len(settledOn') = n
    BY <1>n, <2>2, Zenon
  <2>6. interval'.lower <= gatewayBatch'
    <3>1. interval'.lower = 0 /\ gatewayBatch' = gatewayBatch
      BY <2>2, Zenon DEF NoInterval
    <3>2. QED
      BY <1>t, <3>1
  <2>7. QED
    BY <1>i, <2>1, <2>2, <2>3, <2>4, <2>5, <2>6, Zenon DEF Intervals
<1>6. QED
  BY <1>1, <1>2, <1>3, <1>4, <1>5, Zenon

\* The invariant about the intervals is kept.
LEMMA IntervalsStep ==
    ASSUME TypeOK, TypeOK', Control, MintsOK, Leaving, TreeOfGateway, Returning, Intervals,
           StepClasses
    PROVE  Intervals'
<1>1. CASE Quiet \/ Requests \/ Fails \/ Receives \/ \E i \in DOMAIN mints : Confirmed(i)
  BY <1>1, QuietIntervals, IntervalsStay, Zenon
<1>2. CASE \E l \in Layers, k \in 0 .. MaxOps : Executes(l, k)
  BY <1>2, ExecutesIntervals, Zenon
<1>3. CASE Leaves \/ Arrives \/ Departs \/ Returns \/ \E i \in DOMAIN mints : Recovered(i)
  BY <1>3, MoveIntervals, Zenon
<1>4. QED
  BY <1>1, <1>2, <1>3, Zenon DEF StepClasses

(***************************************************************************)
(* The invariant of the contracts.                                         *)
(***************************************************************************)

\* The invariant holds initially.
LEMMA InvInit == Init => MigrationInv
<1> SUFFICES ASSUME Init PROVE MigrationInv
  BY Zenon
<1>1. TypeOK
  BY TypeInit, Zenon
<1>2. /\ chain["L1"] = [NoDiamond EXCEPT !.deployed = TRUE, !.tree = setup(StartIndex),
                                         !.daPair = TRUE, !.validators = TRUE]
      /\ chain["GW"] = NoDiamond
  BY Zenon DEF Init
<1>3. /\ chain["L1"].deployed /\ chain["L1"].settlementLayer = "none"
      /\ ~chain["L1"].canBeActivated /\ chain["L1"].executed = 0
      /\ chain["L1"].tree = setup(StartIndex)
      /\ ~chain["GW"].deployed /\ chain["GW"].settlementLayer = "none"
      /\ ~chain["GW"].canBeActivated /\ chain["GW"].executed = 0
  BY <1>2 DEF NoDiamond
<1>4. ~Away /\ ~Registered
  BY <1>3, Zenon DEF Away, Registered
<1>5. /\ hub["L1"] = "L1" /\ hub["GW"] = "none" /\ ~inProgress
      /\ handler["L1"].migrationNumber = 0 /\ handler["GW"].migrationNumber = 0
      /\ root["L1"] = 0 /\ root["GW"] = 0
  BY Zenon DEF Init, Layers
<1>6. /\ toGateway = <<>> /\ mints = <<>> /\ settledOn = <<>> /\ gatewayBatch = 0
      /\ interval = NoInterval /\ withdrawal = NoWithdrawal
  BY Zenon DEF Init
<1>7. MintsInFlight = {} /\ OpsInFlight = {}
  BY <1>6 DEF MintsInFlight, OpsInFlight
<1>8. Control
  BY <1>3, <1>4, <1>5, <1>6, Zenon DEF Control, NoInterval, NoWithdrawal
<1>9. MintsOK
  BY <1>4, <1>6, <1>7 DEF MintsOK
<1>10. TreeOfL1
  <2> DEFINE t == setup(StartIndex)
  <2>1. t.startIndex = StartIndex /\ t.unprocessedIndex = 0 /\ t.leaves = <<>> /\ t.historicalRoots = {<<>>}
    BY Zenon DEF setup
  <2>2. Len(t.leaves) = 0
    BY <2>1, Zenon
  <2>3. \A m \in 0 .. 0 : [n \in 1 .. m |-> n] = <<>>
    OBVIOUS
  <2> HIDE DEF t
  <2>4. GoodTree(t)
    BY <2>1, <2>2, <2>3 DEF GoodTree
  <2>5. QED
    BY <1>3, <2>4, Zenon DEF TreeOfL1, t
<1>11. Leaving /\ TreeOfGateway /\ Returning
  BY <1>4, <1>7, Zenon DEF Leaving, TreeOfGateway, Returning
<1>12. Intervals
  <2>1. Home.executed = 0
    BY <1>3, <1>4, HomeIs, Zenon
  <2>2. Len(settledOn) = 0 /\ interval.lower = 0
    BY <1>6, Zenon DEF NoInterval
  <2>3. QED
    BY <1>3, <1>4, <1>5, <1>6, <2>1, <2>2 DEF Intervals
<1>13. VersionsOK
  <2>1. protocol = [ctm |-> [l \in Layers |-> 0], chain |-> [l \in Layers |-> 0], burned |-> <<>>]
    BY Zenon DEF Init
  <2>2. QED
    BY <1>6, <2>1 DEF VersionsOK
<1>14. QED
  BY <1>1, <1>8, <1>9, <1>10, <1>11, <1>12, <1>13, Zenon DEF MigrationInv

\* The versions of the burns are kept, and no diamond goes back to an older version.
LEMMA VersionsStep ==
    ASSUME TypeOK, VersionsOK, ContractNext
    PROVE  VersionsOK'
<1> DEFINE P == [ctm : [Layers -> Nat], chain : [Layers -> Nat], burned : Seq(Nat)]
           v == protocol.chain["L1"]
<1>t. /\ protocol \in P /\ DOMAIN protocol.burned = DOMAIN mints
      /\ \A i \in DOMAIN protocol.burned : protocol.burned[i] <= v
      /\ mints \in Seq(Mints)
  BY Zenon DEF VersionsOK, TypeOK
<1>l. "L1" \in Layers /\ "GW" \in Layers /\ "L1" # "GW"
  BY Zenon DEF Layers
<1>p. /\ protocol.ctm \in [Layers -> Nat] /\ protocol.chain \in [Layers -> Nat]
      /\ protocol.burned \in Seq(Nat) /\ v \in Nat
  BY <1>t, <1>l, Zenon
<1>1. ASSUME protocol' \in P, protocol'.burned = protocol.burned, DOMAIN mints' = DOMAIN mints,
             v <= protocol'.chain["L1"]
      PROVE  VersionsOK'
  <2>1. \A i \in DOMAIN protocol.burned : protocol.burned[i] \in Nat
    BY <1>p
  <2>2. protocol'.chain["L1"] \in Nat
    BY <1>1, <1>l, Zenon
  <2> HIDE DEF v
  <2>3. \A i \in DOMAIN protocol.burned : protocol.burned[i] <= protocol'.chain["L1"]
    BY <1>1, <1>t, <1>p, <2>1, <2>2
  <2>4. QED
    BY <1>1, <1>t, <2>3, Zenon DEF VersionsOK
<1>2. ASSUME protocol' = protocol, DOMAIN mints' = DOMAIN mints
      PROVE  VersionsOK'
  <2>1. v <= v
    BY <1>p
  <2>2. QED
    BY <1>1, <1>2, <1>t, <2>1, Zenon
<1>3. CASE \E l \in Layers : SetNewVersionUpgrade(l)
  <2> PICK l \in Layers : SetNewVersionUpgrade(l)
    BY <1>3, Zenon
  <2> DEFINE n == protocol.ctm[l] + 1
  <2>1. protocol' = [protocol EXCEPT !.ctm = [protocol.ctm EXCEPT ![l] = n]] /\ mints' = mints
    BY Zenon DEF SetNewVersionUpgrade
  <2>2. n \in Nat /\ v <= v
    BY <1>p
  <2> HIDE DEF n
  <2>3. /\ protocol' \in P /\ protocol'.burned = protocol.burned
        /\ protocol'.chain = protocol.chain
    BY <1>t, <1>p, <2>1, <2>2, Zenon
  <2>4. QED
    BY <1>1, <2>1, <2>2, <2>3, Zenon
<1>4. CASE \E l \in Layers : UpgradeChainFromVersion(l)
  <2> PICK l \in Layers : UpgradeChainFromVersion(l)
    BY <1>4, Zenon
  <2> DEFINE n == protocol.chain[l] + 1
             new == [protocol.chain EXCEPT ![l] = n]
  <2>1. protocol' = [protocol EXCEPT !.chain = new] /\ mints' = mints
    BY Zenon DEF UpgradeChainFromVersion
  <2>2. n \in Nat /\ protocol.chain[l] <= n /\ v <= v
    BY <1>p
  <2> HIDE DEF n
  <2>3. /\ new \in [Layers -> Nat]
        /\ new["L1"] = IF l = "L1" THEN n ELSE v
    BY <1>p, <1>l, <2>2, Zenon
  <2> HIDE DEF new
  <2>4. protocol' \in P /\ protocol'.burned = protocol.burned /\ protocol'.chain = new
    BY <1>t, <1>p, <2>1, <2>3, Zenon
  <2>5. v <= new["L1"]
    BY <2>2, <2>3, Zenon
  <2>6. QED
    BY <1>1, <2>1, <2>4, <2>5, Zenon
<1>5. CASE MigrateToGateway
  <2> DEFINE m == [status |-> "pending", batch |-> 0, depositHappened |-> TRUE]
             b == Append(protocol.burned, v)
  <2>1. protocol' = [protocol EXCEPT !.burned = b] /\ mints' = Append(mints, m)
    BY <1>5, Zenon DEF MigrateToGateway
  <2> HIDE DEF m, v
  <2>2. /\ b \in Seq(Nat) /\ DOMAIN b = DOMAIN Append(mints, m)
        /\ \A i \in DOMAIN b : b[i] <= v
    BY <1>t, <1>p
  <2> HIDE DEF b
  <2>3. protocol' \in P /\ protocol'.burned = b /\ protocol'.chain["L1"] = v
    BY <1>t, <1>p, <2>1, <2>2, Zenon DEF v
  <2>4. QED
    BY <2>1, <2>2, <2>3, Zenon DEF VersionsOK
<1>6. CASE GatewayMint
  <2> DEFINE new == [protocol.chain EXCEPT !["GW"] = protocol.ctm["GW"]]
  <2>1. protocol' = [protocol EXCEPT !.chain = new] /\ DOMAIN mints' = DOMAIN mints
    BY <1>6, Zenon DEF GatewayMint, BridgeMint, MintStatus
  <2>2. new \in [Layers -> Nat] /\ new["L1"] = v
    BY <1>p, <1>l, Zenon
  <2> HIDE DEF new
  <2>3. protocol' \in P /\ protocol'.burned = protocol.burned /\ protocol'.chain = new
    BY <1>t, <1>p, <2>1, <2>2, Zenon
  <2>4. v <= v
    BY <1>p
  <2>5. QED
    BY <1>1, <2>1, <2>2, <2>3, <2>4, Zenon
<1>7. CASE FinalizeMigration
  <2> DEFINE new == [protocol.chain EXCEPT !["L1"] = protocol.ctm["L1"]]
  <2>1. protocol' = [protocol EXCEPT !.chain = new] /\ mints' = mints
    BY <1>7, Zenon DEF FinalizeMigration, BridgeMint
  <2>2. v = protocol.ctm["L1"]
    BY <1>7, Zenon DEF FinalizeMigration, CanBridgeMint, CanForwardedBridgeMint
  <2>3. new \in [Layers -> Nat] /\ new["L1"] = v
    BY <1>p, <1>l, <2>2, Zenon
  <2> HIDE DEF new
  <2>4. protocol' \in P /\ protocol'.burned = protocol.burned /\ protocol'.chain = new
    BY <1>t, <1>p, <2>1, <2>3, Zenon
  <2>5. v <= v
    BY <1>p
  <2>6. QED
    BY <1>1, <2>1, <2>3, <2>4, <2>5, Zenon
<1>8. CASE \/ RequestL2Transaction \/ PauseDeposits \/ UnpauseDeposits \/ PermanentlyAllowPriorityMode
           \/ SetDAValidatorPair
           \/ \E kind \in {"burn", "validators", "daPair"} : RequestOnGateway(kind)
           \/ \E l \in Layers : CommitBatch(l) \/ RevertBatch(l) \/ SetMigrationPaused(l)
           \/ \E l \in Layers, k \in 0 .. MaxOps : ExecuteBatch(l, k)
  BY <1>2, <1>8, Zenon
     DEF RequestL2Transaction, PauseDeposits, UnpauseDeposits, PermanentlyAllowPriorityMode,
         SetDAValidatorPair, RequestOnGateway, CommitBatch, RevertBatch, SetMigrationPaused, ExecuteBatch
<1>9. CASE \/ GatewayOp \/ GatewayPause \/ GatewayBurn \/ GatewayRevert \/ GatewaySettles
           \/ \E kind \in {"validators", "daPair"} : GatewayConfigure(kind)
  BY <1>2, <1>9, Zenon
     DEF GatewayOp, GatewayPause, GatewayBurn, GatewayRevert, GatewaySettles, GatewayConfigure, MintStatus
<1>10. CASE \E i \in DOMAIN mints : ConfirmSuccess(i) \/ ConfirmFailure(i)
  BY <1>2, <1>10, Zenon DEF ConfirmSuccess, ConfirmFailure, ClearTransfer
<1>11. QED
  BY <1>3, <1>4, <1>5, <1>6, <1>7, <1>8, <1>9, <1>10, Zenon DEF ContractNext, Environment

\* The invariant is kept by every step of the contracts.
LEMMA InvStep ==
    ASSUME MigrationInv, ContractNext
    PROVE  MigrationInv'
<1>1. TypeOK /\ Control /\ MintsOK /\ TreeOfL1 /\ Leaving /\ TreeOfGateway /\ Returning /\ Intervals
      /\ VersionsOK
  BY Zenon DEF MigrationInv
<1>2. TypeOK' /\ StepClasses
  BY <1>1, StepCases, Zenon
<1>3. Control'
  BY <1>1, <1>2, ControlStep, Zenon
<1>4. MintsOK'
  BY <1>1, <1>2, <1>3, MintsStep, Zenon
<1>5. TreeOfL1'
  BY <1>1, <1>2, TreeOfL1Step, Zenon
<1>6. Leaving'
  BY <1>1, <1>2, LeavingStep, Zenon
<1>7. TreeOfGateway'
  BY <1>1, <1>2, TreeOfGatewayStep, Zenon
<1>8. Returning'
  BY <1>1, <1>2, ReturningStep, Zenon
<1>9. Intervals'
  BY <1>1, <1>2, IntervalsStep, Zenon
<1>10. VersionsOK'
  BY <1>1, VersionsStep, Zenon
<1>11. QED
  BY <1>2, <1>3, <1>4, <1>5, <1>6, <1>7, <1>8, <1>9, <1>10, Zenon DEF MigrationInv

\* The invariant is kept by steps that leave the contracts alone.
LEMMA InvStutter ==
    ASSUME MigrationInv, UNCHANGED vars
    PROVE  MigrationInv'
<1>1. /\ chain' = chain /\ hub' = hub /\ handler' = handler /\ root' = root
      /\ inProgress' = inProgress /\ interval' = interval /\ toGateway' = toGateway
      /\ mints' = mints /\ gatewayBatch' = gatewayBatch /\ withdrawal' = withdrawal
      /\ settledOn' = settledOn /\ protocol' = protocol
  BY Zenon DEF vars
<1>2. TypeOK' <=> TypeOK
  BY <1>1, Zenon DEF TypeOK
<1>3. (Away' <=> Away) /\ (Registered' <=> Registered)
  BY <1>1, Zenon DEF Away, Registered
<1>4. MintsInFlight' = MintsInFlight /\ OpsInFlight' = OpsInFlight
  BY <1>1, Zenon DEF MintsInFlight, OpsInFlight
<1>5. Control' <=> Control
  BY <1>1, <1>3, Zenon DEF Control
<1>6. MintsOK' <=> MintsOK
  BY <1>1, <1>3, <1>4, Zenon DEF MintsOK
<1>7. TreeOfL1' <=> TreeOfL1
  BY <1>1, Zenon DEF TreeOfL1
<1>8. Leaving' <=> Leaving
  BY <1>1, <1>3, <1>4, Zenon DEF Leaving
<1>9. TreeOfGateway' <=> TreeOfGateway
  BY <1>1, <1>3, <1>4, Zenon DEF TreeOfGateway
<1>10. Returning' <=> Returning
  BY <1>1, <1>3, Zenon DEF Returning
<1>11. Intervals' <=> Intervals
  <2>1. Home' = Home
    BY <1>1, Zenon DEF Home
  <2>2. \A k : Recorded(k)' <=> Recorded(k)
    BY <1>1, <1>3, Zenon DEF Recorded, OnGateway, LastSlBatch
  <2>3. QED
    BY <1>1, <1>3, <2>1, <2>2, Zenon DEF Intervals
<1>12. VersionsOK' <=> VersionsOK
  BY <1>1, Zenon DEF VersionsOK
<1>13. QED
  BY <1>2, <1>5, <1>6, <1>7, <1>8, <1>9, <1>10, <1>11, <1>12 DEF MigrationInv

(***************************************************************************)
(* What the invariant implies.                                             *)
(***************************************************************************)

\* The two diamonds never both accept batches.
LEMMA InvOneLayer == MigrationInv => OneSettlementLayer
<1> SUFFICES ASSUME MigrationInv PROVE OneSettlementLayer
  BY Zenon
<1>1. Control
  BY Zenon DEF MigrationInv
<1>2. ~(Settles(chain["L1"]) /\ Settles(chain["GW"]))
  BY <1>1, Zenon DEF Control, Settles, Away, Registered
<1>3. chain["L1"].canBeActivated => chain["L1"].settlementLayer = "none"
  BY <1>1, Zenon DEF Control, Away
<1>4. QED
  BY <1>2, <1>3, Zenon DEF OneSettlementLayer

\* The trees of the two layers agree.
LEMMA InvTrees == MigrationInv => TreesAgree
<1> SUFFICES ASSUME MigrationInv PROVE TreesAgree
  BY Zenon
<1>1. TypeOK /\ Control /\ MintsOK /\ TreeOfL1 /\ Leaving /\ TreeOfGateway
  BY Zenon DEF MigrationInv
<1>2. ASSUME Settles(chain["GW"])
      PROVE  LET onL1 == chain["L1"].tree.leaves
                 onGateway == chain["GW"].tree.leaves
             IN /\ IsSegment(onL1, 0, onGateway)
                /\ {toGateway[i].arg : i \in OpsInFlight} =
                      {onL1[n] : n \in Len(onGateway) + 1 .. Len(onL1)}
                /\ \A i, j \in OpsInFlight : i < j => toGateway[i].arg < toGateway[j].arg
  <2> DEFINE onL1 == chain["L1"].tree.leaves
             onGateway == chain["GW"].tree.leaves
  <2>1. Away /\ Registered
    BY <1>1, <1>2, Zenon DEF Settles, Control, Registered
  <2>2. IsSegment(onL1, 0, onGateway) /\ OpsMatch(Len(onL1), Len(onGateway), toGateway)
    BY <1>1, <2>1, Zenon DEF TreeOfGateway, InSync
  <2>3. Len(onL1) \in Nat /\ Len(onGateway) \in Nat
    BY <1>1, TreeFacts, Zenon DEF Layers
  <2>4. \A n \in 1 .. Len(onL1) : onL1[n] = n
    BY <1>1, Zenon DEF TreeOfL1, GoodTree
  <2>5. OpsInFlight = Ops(toGateway)
    BY Zenon DEF OpsInFlight, Ops
  <2> HIDE DEF onL1, onGateway
  <2>6. \A n \in Len(onGateway) + 1 .. Len(onL1) : onL1[n] = n
    BY <2>3, <2>4
  <2>7. \A i \in OpsInFlight : toGateway[i].arg \in Len(onGateway) + 1 .. Len(onL1)
    BY <2>2, <2>5, Zenon DEF OpsMatch
  <2>8. \A n \in Len(onGateway) + 1 .. Len(onL1) : \E i \in OpsInFlight : toGateway[i].arg = n
    BY <2>2, <2>5, Zenon DEF OpsMatch
  <2>9. {toGateway[i].arg : i \in OpsInFlight} = {onL1[n] : n \in Len(onGateway) + 1 .. Len(onL1)}
    BY <2>6, <2>7, <2>8
  <2>10. \A i, j \in OpsInFlight : i < j => toGateway[i].arg < toGateway[j].arg
    BY <2>2, <2>5, Zenon DEF OpsMatch
  <2>11. QED
    BY <2>2, <2>9, <2>10, Zenon DEF onL1, onGateway
<1>3. ASSUME NEW i \in DOMAIN toGateway, toGateway[i].kind = "mint"
      PROVE  toGateway[i].arg.chainData.priorityTree.sides = chain["L1"].tree.leaves
  <2>1. i \in MintsInFlight
    BY <1>3, Zenon DEF MintsInFlight
  <2>2. Away /\ ~Registered
    BY <1>1, <2>1, Zenon DEF MintsOK
  <2>3. toGateway[i].arg = [batchNumber |-> root["L1"], migrationNumber |-> 1,
                            chainData |-> prepareChainCommitment(chain["L1"])]
    BY <1>1, <2>1, <2>2, Zenon DEF Leaving
  <2>4. prepareChainCommitment(chain["L1"]).priorityTree.sides = chain["L1"].tree.leaves
    BY Zenon DEF prepareChainCommitment, getCommitment
  <2>5. toGateway[i].arg.chainData = prepareChainCommitment(chain["L1"])
    BY <2>3
  <2>6. QED
    BY <2>4, <2>5, Zenon
<1>4. QED
  BY <1>2, <1>3, Zenon DEF TreesAgree

\* The recorded intervals tell the truth.
LEMMA InvRecorded == MigrationInv => RecordedSettlementLayer
<1> SUFFICES ASSUME MigrationInv PROVE RecordedSettlementLayer
  BY Zenon
<1>1. TypeOK /\ Control /\ Intervals
  BY Zenon DEF MigrationInv
<1>t. /\ interval.from \in Nat /\ interval.to \in Nat /\ interval.lower \in Nat
      /\ interval.upper \in Nat /\ gatewayBatch \in Nat
      /\ DOMAIN settledOn = 1 .. Len(settledOn) /\ Len(settledOn) \in Nat
      /\ \A k \in 1 .. Len(settledOn) : settledOn[k].slBatch \in Nat
  <2> DEFINE E == [sl : Layers, slBatch : Nat]
  <2>1. settledOn \in Seq(E)
    BY <1>1, IntervalTypes, Zenon
  <2> HIDE DEF E
  <2>2. DOMAIN settledOn = 1 .. Len(settledOn)
    BY <2>1
  <2>3. QED
    BY <1>1, <2>2, IntervalTypes, Zenon
<1> SUFFICES ASSUME NEW k \in 1 .. Len(settledOn), settledOn[k].slBatch <= gatewayBatch
             PROVE  /\ isValidSettlementLayer(k, settledOn[k].sl, settledOn[k].slBatch)
                    /\ \A b \in 0 .. gatewayBatch, l \in Layers \ {settledOn[k].sl} :
                          ~isValidSettlementLayer(k, l, b)
  BY <1>t, Zenon DEF RecordedSettlementLayer
<1>2. Recorded(k) /\ k \in Nat /\ settledOn[k].slBatch \in Nat /\ k <= Len(settledOn)
  BY <1>1, <1>t DEF Intervals
<1>3. /\ handler["L1"].migrationNumber = IF Away THEN 1 ELSE IF Registered THEN 2 ELSE 0
      /\ interval.sl = IF Away \/ Registered THEN "GW" ELSE "none"
      /\ interval.isActive <=> Away
  BY <1>1, Zenon DEF Control
<1>4. Away /\ ~Registered => k <= interval.from
  BY <1>1, <1>2, <1>t, Zenon DEF Intervals
<1>5. CASE OnGateway(k)
  <2>1. settledOn[k].sl = "GW" /\ interval.lower < settledOn[k].slBatch
        /\ settledOn[k].slBatch <= LastSlBatch
    BY <1>2, <1>5, Zenon DEF Recorded
  <2>2. Registered /\ interval.from < k /\ (~Away => k <= interval.to)
    BY <1>5, Zenon DEF OnGateway
  <2>3. ~(k <= interval.from) /\ ~(handler["L1"].migrationNumber < 1) /\ interval.sl = "GW"
    BY <1>2, <1>3, <1>t, <2>2
  <2>4. settledOn[k].slBatch >= interval.lower /\ interval.lower <= settledOn[k].slBatch
    BY <1>2, <1>t, <2>1
  <2>5. ~Away => settledOn[k].slBatch <= interval.upper
    BY <2>1, Zenon DEF LastSlBatch
  <2>6. isValidSettlementLayer(k, "GW", settledOn[k].slBatch)
    BY <1>3, <2>2, <2>3, <2>4, <2>5, Zenon DEF isValidSettlementLayer, ToGateway
  <2>7. \A b : ~isValidSettlementLayer(k, "L1", b)
    BY <1>3, <2>2, <2>3, Zenon DEF isValidSettlementLayer, ToGateway
  <2>8. QED
    BY <2>1, <2>6, <2>7, Zenon DEF Layers
<1>6. CASE ~OnGateway(k)
  <2>1. settledOn[k].sl = "L1"
    BY <1>2, <1>6, Zenon DEF Recorded
  <2>2. \/ ~Away /\ ~Registered
        \/ k <= interval.from
        \/ Registered /\ ~Away /\ ~(k <= interval.to)
    BY <1>2, <1>4, <1>6, <1>t DEF OnGateway
  <2>3. \A b, l : isValidSettlementLayer(k, l, b) <=> l = "L1"
    BY <1>3, <2>2, Zenon DEF isValidSettlementLayer, ToGateway
  <2>4. QED
    BY <2>1, <2>3
<1>7. QED
  BY <1>5, <1>6, Zenon

\* Only the diamond of L1 that was upgraded since its burn keeps a failed migration
\* from being undone, and nothing that comes from the gateway keeps a return from
\* being finalized.
LEMMA InvNotStuck == MigrationInv => MigrationNotStuck
<1> SUFFICES ASSUME MigrationInv PROVE MigrationNotStuck
  BY Zenon
<1>1. TypeOK /\ Control /\ MintsOK /\ TreeOfL1 /\ TreeOfGateway /\ Returning /\ VersionsOK
  BY Zenon DEF MigrationInv
<1>2. ASSUME NEW i \in DOMAIN mints, CanClearTransfer(i, "failure")
      PROVE  CanRecover(i) \/ protocol.chain["L1"] > protocol.burned[i]
  <2>1. mints[i].depositHappened /\ mints[i].status = "failure"
    BY <1>2, Zenon DEF CanClearTransfer
  <2>2. mints # <<>> /\ i = Len(mints)
    BY <1>1, <2>1 DEF MintsOK, TypeOK
  <2>3. ~Registered /\ Away
    BY <1>1, <2>1, <2>2, Zenon DEF MintsOK
  <2>4. protocol.chain["L1"] = protocol.burned[i] => CanRecover(i)
    BY <1>1, <2>3, Zenon DEF Control, CanRecover, ToGateway, Away
  <2>5. /\ i \in DOMAIN protocol.burned /\ protocol.burned \in Seq(Nat)
        /\ protocol.chain["L1"] \in Nat /\ protocol.burned[i] <= protocol.chain["L1"]
    BY <1>1, Zenon DEF VersionsOK, Layers
  <2>6. QED
    BY <2>4, <2>5
<1>3. ASSUME CanVerifyWithdrawal, ~handler["L1"].migrationPaused, chain["L1"].paused,
             protocol.chain["L1"] = protocol.ctm["L1"]
      PROVE  CanBridgeMint("L1", withdrawal.data)
  <2> DEFINE d == withdrawal.data
             c == d.chainData.priorityTree
             a == chain["L1"].tree
             g == chain["GW"].tree
  <2>1. Away /\ Registered /\ withdrawal.sent
    BY <1>1, <1>3, Zenon DEF CanVerifyWithdrawal, Control
  <2>2. /\ handler["L1"].migrationNumber = 1 /\ interval.isActive /\ hub["L1"] = "GW"
        /\ chain["L1"].deployed /\ chain["L1"].settlementLayer # "none"
    BY <1>1, <2>1, Zenon DEF Control, Away
  <2>3. Carries(d, chain["GW"], root["GW"])
    BY <1>1, <2>1, Zenon DEF Returning
  <2>4. InSync(a, g) /\ root["L1"] <= root["GW"]
    BY <1>1, <2>1, Zenon DEF TreeOfGateway
  <2>5. /\ d.migrationNumber = 2 /\ d.batchNumber = root["GW"]
        /\ c.startIndex = StartIndex /\ c.unprocessedIndex = g.unprocessedIndex
        /\ c.nextLeafIndex = Len(c.sides) /\ c.unprocessedIndex = Len(c.sides)
        /\ IsSegment(g.leaves, 0, c.sides) /\ d \in MintData
    BY <2>3, Zenon DEF Carries
  <2>6. c.sides \in Seq(Nat) /\ Len(c.sides) \in Nat
    BY <2>5, Zenon DEF MintData, TreeCommitments
  <2>7. /\ a.leaves \in Seq(Nat) /\ Len(a.leaves) \in Nat /\ a.unprocessedIndex \in Nat
        /\ g.leaves \in Seq(Nat) /\ Len(g.leaves) \in Nat /\ g.unprocessedIndex \in Nat
    BY <1>1, TreeFacts, Zenon DEF Layers
  <2>8. GoodTree(a)
    BY <1>1, Zenon DEF TreeOfL1
  <2>9. a.unprocessedIndex <= g.unprocessedIndex /\ IsSegment(a.leaves, 0, g.leaves)
    BY <2>4, Zenon DEF InSync
  <2> HIDE DEF d, c, a, g
  <2>10. /\ Len(c.sides) <= Len(g.leaves) /\ Len(g.leaves) <= Len(a.leaves)
         /\ \A n \in 1 .. Len(c.sides) : c.sides[n] = g.leaves[n]
         /\ \A n \in 1 .. Len(g.leaves) : g.leaves[n] = a.leaves[n]
    BY <2>5, <2>6, <2>7, <2>9, Prefixes, Zenon
  <2>11. \A n \in 1 .. Len(a.leaves) : a.leaves[n] = n
    BY <2>8, Zenon DEF GoodTree
  <2>12. \A n \in 1 .. Len(c.sides) : c.sides[n] = n
    <3>1. SUFFICES ASSUME NEW n \in 1 .. Len(c.sides) PROVE c.sides[n] = n
      BY Zenon
    <3>2. n \in 1 .. Len(g.leaves) /\ n \in 1 .. Len(a.leaves)
      <4>1. Len(c.sides) <= Len(g.leaves) /\ Len(g.leaves) <= Len(a.leaves)
        BY <2>10, Zenon
      <4>2. Len(c.sides) \in Nat /\ Len(g.leaves) \in Nat /\ Len(a.leaves) \in Nat
        BY <2>6, <2>7, Zenon
      <4>3. QED
        BY <4>1, <4>2
    <3>3. QED
      BY <2>10, <2>11, <3>2, Zenon
  <2>13. c.sides = [n \in 1 .. Len(c.sides) |-> n]
    <3> DEFINE s == c.sides
    <3>1. s \in Seq(Nat) /\ \A n \in 1 .. Len(s) : s[n] = n
      BY <2>6, <2>12, Zenon
    <3> HIDE DEF s
    <3>2. s = [n \in 1 .. Len(s) |-> s[n]]
      BY <3>1
    <3>3. s = [n \in 1 .. Len(s) |-> n]
      BY <3>1, <3>2, Zenon
    <3>4. QED
      BY <3>3, Zenon DEF s
  <2>14. isHistoricalRoot(a, c)
    <3>1. Len(c.sides) \in 0 .. Len(a.leaves)
      BY <2>6, <2>7, <2>10
    <3>2. [n \in 1 .. Len(c.sides) |-> n] \in a.historicalRoots
      BY <2>8, <3>1, Zenon DEF GoodTree
    <3>3. QED
      BY <2>13, <3>2, Zenon DEF isHistoricalRoot
  <2>15. CanL1Reinit(a, c)
    <3>1. a.startIndex = StartIndex
      BY <2>8, Zenon DEF GoodTree
    <3>2. Len(a.leaves) >= c.nextLeafIndex
      BY <2>5, <2>6, <2>7, <2>10
    <3>3. a.unprocessedIndex <= c.unprocessedIndex
      BY <2>5, <2>9, Zenon
    <3>4. QED
      BY <2>5, <3>1, <3>2, <3>3, Zenon DEF CanL1Reinit
  <2>16. CanForwardedBridgeMint("L1", chain["L1"], d.chainData)
    BY <1>3, <2>2, <2>14, <2>15, Zenon DEF CanForwardedBridgeMint, a, c
  <2>17. QED
    BY <1>3, <2>2, <2>4, <2>5, <2>16, Zenon DEF CanBridgeMint, ToGateway, ToL1, d
<1>4. QED
  BY <1>2, <1>3, Zenon DEF MigrationNotStuck

(***************************************************************************)
(* The operator's tool.                                                    *)
(***************************************************************************)
Calls == [call : {"pause", "submit", "burn", "validators", "daPair", "setDA", "confirm", "finalize"},
          mint : Nat]

\* What a bundle, or what is left of it, relies on.
CallsOK(calls) ==
    /\ calls \in Seq(Calls)
    /\ \A i \in DOMAIN calls :
          /\ calls[i].call = "confirm" => calls[i].mint \in DOMAIN mints
          /\ calls[i].call \in {"validators", "daPair"} => Registered

\* What a finalizing command knows at each step.
FinalizeOK ==
    cmd.phase = "finalize" =>
        /\ cmd.mint \in DOMAIN mints
        /\ cmd.step # "receipt" => mints[cmd.mint].status # "pending"
        /\ cmd.step = "proof" => mints[cmd.mint].batch <= gatewayBatch
        /\ cmd.step = "script" => mints[cmd.mint].batch <= cmd.fork

FinalizeFromOK ==
    cmd.phase = "finalizeFrom" =>
        /\ cmd.step # "receipt" => withdrawal.sent
        /\ cmd.step = "fork" => withdrawal.batch <= gatewayBatch
        /\ cmd.step = "script" => withdrawal.batch <= cmd.fork

CmdOK ==
    /\ cmd \in [phase : {"none", "finalize", "finalizeFrom"},
                step : {"none", "receipt", "finalized", "proof", "executed", "fork", "script"},
                polled : BOOLEAN, mint : Nat, fork : Nat, ok : BOOLEAN]
    /\ cmd.phase = "none" => cmd.step = "none"
    /\ FinalizeOK
    /\ FinalizeFromOK

\* The configuration in flight is for a registered chain.
ConfigOK ==
    \A i \in DOMAIN toGateway : toGateway[i].kind \in {"validators", "daPair"} => Registered

OpsInv == MigrationInv /\ CmdOK /\ CallsOK(bundle) /\ CallsOK(replay) /\ ConfigOK

\* What the contracts never undo.
Monotone ==
    /\ Registered => Registered'
    /\ DOMAIN mints \subseteq DOMAIN mints'
    /\ \A i \in DOMAIN mints : mints[i].status # "pending" =>
          mints'[i].status = mints[i].status /\ mints'[i].batch = mints[i].batch
    /\ gatewayBatch <= gatewayBatch'
    /\ withdrawal.sent => withdrawal'.sent /\ withdrawal'.batch = withdrawal.batch

\* A mint that is executed is the last one and was pending; no other step
\* changes the status of a mint.
LEMMA MintsAreFinal ==
    ASSUME TypeOK, MintsOK, StepClasses
    PROVE  /\ DOMAIN mints \subseteq DOMAIN mints'
           /\ \A i \in DOMAIN mints : mints[i].status # "pending" =>
                mints'[i].status = mints[i].status /\ mints'[i].batch = mints[i].batch
<1>t. mints \in Seq(Mints)
  BY Zenon DEF TypeOK
<1>1. CASE mints' = mints
  BY <1>1, Zenon
<1>2. CASE Leaves
  <2> DEFINE m == [status |-> "pending", batch |-> 0, depositHappened |-> TRUE]
  <2>1. mints' = Append(mints, m)
    BY <1>2, Zenon DEF Leaves
  <2> HIDE DEF m
  <2>2. QED
    BY <1>t, <2>1
<1>3. CASE Arrives \/ Fails
  <2>1. /\ toGateway # <<>> /\ Head(toGateway).kind = "mint"
        /\ MintStatus("success") \/ MintStatus("failure")
    BY <1>3, Zenon DEF Arrives, Fails
  <2>2. mints # <<>> /\ mints[Len(mints)].status = "pending"
    BY <2>1, HeadMint, Zenon
  <2>3. /\ mints' \in Seq(Mints) /\ Len(mints') = Len(mints)
        /\ \A j \in DOMAIN mints : j # Len(mints) => mints'[j] = mints[j]
    BY <2>1, <2>2, MintStatusUpdate, Zenon
  <2>4. DOMAIN mints' = DOMAIN mints
    BY <1>t, <2>3
  <2>5. QED
    BY <2>2, <2>3, <2>4, Zenon
<1>4. ASSUME NEW i \in DOMAIN mints, Confirmed(i) \/ Recovered(i)
      PROVE  /\ DOMAIN mints \subseteq DOMAIN mints'
             /\ \A j \in DOMAIN mints :
                   mints'[j].status = mints[j].status /\ mints'[j].batch = mints[j].batch
  <2> DEFINE m == [mints[i] EXCEPT !.depositHappened = FALSE]
  <2>1. mints' = [mints EXCEPT ![i] = m]
    BY <1>4, Zenon DEF Confirmed, Recovered
  <2>2. mints[i] \in Mints
    BY <1>t
  <2>3. m \in Mints /\ m.status = mints[i].status /\ m.batch = mints[i].batch
    BY <2>2, Zenon DEF Mints
  <2> HIDE DEF m
  <2>4. /\ mints' \in Seq(Mints) /\ Len(mints') = Len(mints) /\ mints'[i] = m
        /\ \A j \in DOMAIN mints : j # i => mints'[j] = mints[j]
    BY <1>t, <2>1, <2>3, MintUpdate
  <2>5. DOMAIN mints' = DOMAIN mints
    BY <1>t, <2>4
  <2>6. QED
    BY <2>3, <2>4, <2>5, Zenon
<1>5. QED
  BY <1>1, <1>2, <1>3, <1>4, Zenon
     DEF StepClasses, Quiet, Requests, Executes, Receives, Departs, Returns

\* No step of the contracts undoes what the tool relies on.
LEMMA ContractsAreMonotone ==
    ASSUME TypeOK, Control, MintsOK, TreeOfGateway, StepClasses
    PROVE  Monotone
<1>1. gatewayBatch <= gatewayBatch'
  <2>1. gatewayBatch \in Nat
    BY Zenon DEF TypeOK
  <2>2. Quiet \/ gatewayBatch' = gatewayBatch
    BY Zenon DEF StepClasses, Requests, Executes, Leaves, Arrives, Fails, Receives, Departs, Returns,
           Confirmed, Recovered
  <2>3. QED
    BY <2>1, <2>2 DEF Quiet
<1>2. Registered => Registered'
  BY Stages, Zenon DEF StepClasses, SameStages
<1>3. withdrawal.sent => withdrawal'.sent /\ withdrawal'.batch = withdrawal.batch
  <2>1. CASE withdrawal' = withdrawal
    BY <2>1, Zenon
  <2>2. CASE Departs
    BY <2>2, Stages, Zenon
  <2>3. CASE Returns
    <3>1. withdrawal' = [withdrawal EXCEPT !.finalized = TRUE]
      BY <2>3, Zenon DEF Returns
    <3>2. withdrawal'.sent = withdrawal.sent /\ withdrawal'.batch = withdrawal.batch
      BY <3>1, Zenon DEF TypeOK
    <3>3. QED
      BY <3>2, Zenon
  <2>4. QED
    BY <2>1, <2>2, <2>3, Zenon
       DEF StepClasses, Quiet, Requests, Executes, Leaves, Arrives, Fails, Receives, Confirmed, Recovered
<1>4. QED
  BY <1>1, <1>2, <1>3, MintsAreFinal, Zenon DEF Monotone

\* The steps of the contracts that configure nothing on the gateway.
PlainNext ==
    \/ Environment \/ UnpauseDeposits \/ PermanentlyAllowPriorityMode
    \/ PauseDeposits \/ MigrateToGateway \/ FinalizeMigration \/ SetDAValidatorPair
    \/ \E i \in DOMAIN mints : ConfirmSuccess(i) \/ ConfirmFailure(i)
    \/ RequestOnGateway("burn")

\* How they move the queue to the gateway.
LEMMA QueueMoves ==
    ASSUME PlainNext
    PROVE  \/ toGateway' = toGateway
           \/ toGateway # <<>> /\ toGateway' = Tail(toGateway)
           \/ \E arg : \E kind \in {"op", "mint", "pause", "burn"} :
                 toGateway' = Append(toGateway, [kind |-> kind, arg |-> arg])
<1>1. CASE UnpauseDeposits \/ PermanentlyAllowPriorityMode \/ FinalizeMigration \/ SetDAValidatorPair
  BY <1>1, Zenon DEF UnpauseDeposits, PermanentlyAllowPriorityMode, FinalizeMigration, SetDAValidatorPair
<1>2. CASE PauseDeposits
  BY <1>2, Zenon DEF PauseDeposits, SendToGateway
<1>3. CASE MigrateToGateway
  BY <1>3, Zenon DEF MigrateToGateway, SendToGateway
<1>4. CASE \E i \in DOMAIN mints : ConfirmSuccess(i) \/ ConfirmFailure(i)
  BY <1>4, Zenon DEF ConfirmSuccess, ConfirmFailure
<1>5. CASE RequestOnGateway("burn")
  BY <1>5, Zenon DEF RequestOnGateway, SendToGateway
<1>6. CASE RequestL2Transaction
  BY <1>6, Zenon DEF RequestL2Transaction, SendToGateway
<1>7. CASE \E l \in Layers : CommitBatch(l) \/ RevertBatch(l) \/ SetMigrationPaused(l)
                           \/ SetNewVersionUpgrade(l) \/ UpgradeChainFromVersion(l)
  BY <1>7, Zenon DEF CommitBatch, RevertBatch, SetMigrationPaused, SetNewVersionUpgrade,
                     UpgradeChainFromVersion
<1>8. CASE \E l \in Layers, k \in 0 .. MaxOps : ExecuteBatch(l, k)
  BY <1>8, Zenon DEF ExecuteBatch
<1>9. CASE GatewayMint \/ GatewayOp \/ GatewayPause \/ GatewayBurn \/ GatewayRevert \/ GatewaySettles
  BY <1>9, Zenon DEF GatewayMint, GatewayOp, GatewayPause, GatewayBurn, GatewayRevert, GatewaySettles, Dequeue
<1>10. CASE \E kind \in {"validators", "daPair"} : GatewayConfigure(kind)
  BY <1>10, Zenon DEF GatewayConfigure, Dequeue
<1>11. QED
  BY <1>1, <1>2, <1>3, <1>4, <1>5, <1>6, <1>7, <1>8, <1>9, <1>10, Zenon DEF PlainNext, Environment

\* What the tool knows stays true while the contracts move on.
LEMMA ToolStays ==
    ASSUME TypeOK, TypeOK', Monotone
    PROVE  /\ \A calls : CallsOK(calls) => CallsOK(calls)'
           /\ CmdOK /\ cmd' = cmd => CmdOK'
<1>1. ASSUME NEW calls, CallsOK(calls)
      PROVE  CallsOK(calls)'
  BY <1>1, Zenon DEF CallsOK, Monotone
<1>2. ASSUME CmdOK, cmd' = cmd
      PROVE  CmdOK'
  <2>1. FinalizeOK'
    <3>1. SUFFICES ASSUME cmd.phase = "finalize" PROVE FinalizeOK'
      BY <1>2, Zenon DEF FinalizeOK
    <3> DEFINE i == cmd.mint
    <3>2. /\ i \in DOMAIN mints
          /\ cmd.step # "receipt" => mints[i].status # "pending"
          /\ cmd.step = "proof" => mints[i].batch <= gatewayBatch
          /\ cmd.step = "script" => mints[i].batch <= cmd.fork
      BY <1>2, <3>1, Zenon DEF CmdOK, FinalizeOK
    <3>3. i \in DOMAIN mints'
      BY <3>2, Zenon DEF Monotone
    <3>4. cmd.step # "receipt" => mints'[i].status = mints[i].status /\ mints'[i].batch = mints[i].batch
      BY <3>2, Zenon DEF Monotone
    <3>5. mints[i].batch <= gatewayBatch => mints[i].batch <= gatewayBatch'
      <4>1. mints \in Seq(Mints) /\ gatewayBatch \in Nat /\ gatewayBatch' \in Nat
        BY Zenon DEF TypeOK
      <4>2. mints[i] \in Mints
        BY <3>2, <4>1
      <4>3. mints[i].batch \in Nat
        BY <4>2, Zenon DEF Mints
      <4>4. gatewayBatch <= gatewayBatch'
        BY Zenon DEF Monotone
      <4> HIDE DEF i
      <4>5. QED
        BY <4>1, <4>3, <4>4
    <3>6. QED
      BY <1>2, <3>2, <3>3, <3>4, <3>5, Zenon DEF FinalizeOK
  <2>2. FinalizeFromOK'
    <3>1. SUFFICES ASSUME cmd.phase = "finalizeFrom" PROVE FinalizeFromOK'
      BY <1>2, Zenon DEF FinalizeFromOK
    <3>2. /\ cmd.step # "receipt" => withdrawal.sent
          /\ cmd.step = "fork" => withdrawal.batch <= gatewayBatch
          /\ cmd.step = "script" => withdrawal.batch <= cmd.fork
      BY <1>2, <3>1, Zenon DEF CmdOK, FinalizeFromOK
    <3>3. cmd.step # "receipt" => withdrawal'.sent /\ withdrawal'.batch = withdrawal.batch
      BY <3>2, Zenon DEF Monotone
    <3>4. withdrawal.batch <= gatewayBatch => withdrawal.batch <= gatewayBatch'
      <4>1. withdrawal.batch \in Nat /\ gatewayBatch \in Nat
        BY IntervalTypes, Zenon
      <4>2. gatewayBatch' \in Nat
        BY Zenon DEF TypeOK
      <4>3. gatewayBatch <= gatewayBatch'
        BY Zenon DEF Monotone
      <4>4. QED
        BY <4>1, <4>2, <4>3
    <3>5. QED
      BY <1>2, <3>2, <3>3, <3>4, Zenon DEF FinalizeFromOK
  <2>3. QED
    BY <1>2, <2>1, <2>2, Zenon DEF CmdOK
<1>3. QED
  BY <1>1, <1>2, Zenon

\* A step that leaves the contracts alone.
LEMMA ToolOnly ==
    ASSUME TypeOK, UNCHANGED vars
    PROVE  /\ \A calls : CallsOK(calls) => CallsOK(calls)'
           /\ ConfigOK => ConfigOK'
<1>1. toGateway' = toGateway /\ mints' = mints /\ (Registered' <=> Registered)
  BY Zenon DEF vars, Registered
<1>2. QED
  BY <1>1, Zenon DEF CallsOK, ConfigOK

\* The configuration that is sent is for a registered chain.
LEMMA ConfigStep ==
    ASSUME TypeOK, ConfigOK, PlainNext \/ Registered, Registered => Registered'
    PROVE  ConfigOK'
<1>1. toGateway \in Seq(Transactions)
  BY Zenon DEF TypeOK
<1>2. CASE toGateway' = toGateway
  BY <1>2, Zenon DEF ConfigOK
<1>3. CASE toGateway # <<>> /\ toGateway' = Tail(toGateway)
  <2>1. /\ DOMAIN toGateway = 1 .. Len(toGateway) /\ Len(toGateway) \in Nat \ {0}
        /\ DOMAIN toGateway' = 1 .. Len(toGateway) - 1
        /\ \A i \in 1 .. Len(toGateway) - 1 : toGateway'[i] = toGateway[i + 1]
    BY <1>3, Dequeued, Zenon
  <2>2. \A i \in DOMAIN toGateway' : i + 1 \in DOMAIN toGateway /\ toGateway'[i] = toGateway[i + 1]
    BY <2>1
  <2>3. QED
    BY <2>2, Zenon DEF ConfigOK
<1>4. ASSUME NEW kind \in {"op", "mint", "pause", "burn"}, NEW arg,
             toGateway' = Append(toGateway, [kind |-> kind, arg |-> arg])
      PROVE  ConfigOK'
  <2> DEFINE tx == [kind |-> kind, arg |-> arg]
  <2>1. tx.kind \notin {"validators", "daPair"}
    BY Zenon
  <2> HIDE DEF tx
  <2>2. /\ DOMAIN toGateway = 1 .. Len(toGateway) /\ Len(toGateway) \in Nat
        /\ DOMAIN toGateway' = 1 .. Len(toGateway) + 1
        /\ \A i \in 1 .. Len(toGateway) : toGateway'[i] = toGateway[i]
        /\ toGateway'[Len(toGateway) + 1] = tx
    BY <1>4, Enqueued, Zenon DEF tx
  <2>3. \A i \in DOMAIN toGateway' :
            (i \in DOMAIN toGateway /\ toGateway'[i] = toGateway[i]) \/ toGateway'[i] = tx
    BY <2>2
  <2>4. QED
    BY <2>1, <2>3, Zenon DEF ConfigOK
<1>5. CASE Registered
  BY <1>5, Zenon DEF ConfigOK
<1>6. QED
  BY <1>2, <1>3, <1>4, <1>5, QueueMoves, Zenon

\* The steps of the tool that leave the contracts alone keep what it knows.
LEMMA ToolSteps ==
    ASSUME OpsInv, Commands \/ Waits \/ Timeout \/ Killed \/ StartReplay \/ ReplayReverts
    PROVE  UNCHANGED vars /\ CmdOK' /\ CallsOK(bundle)' /\ CallsOK(replay)'
<1>t. TypeOK /\ MintsOK /\ CmdOK /\ CallsOK(bundle) /\ CallsOK(replay)
  BY Zenon DEF OpsInv, MigrationInv
<1>m. mints \in Seq(Mints) /\ Len(mints) \in Nat /\ DOMAIN mints = 1 .. Len(mints)
  BY <1>t DEF TypeOK
<1>1. UNCHANGED vars
  BY Zenon DEF Commands, Waits, Timeout, Killed, StartReplay, ReplayReverts, RunPausePhase, RunSubmitPhase,
         RunSubmitFromPhase, RunValidatorsPhase, RunSetDAPhase, WriteBundle, StartFinalize,
         StartFinalizeFrom, WaitForReceipt, WaitForBlockFinalized, ForkForFinalize, FinalizeScript,
         WaitForWithdrawal, WaitForBatchExecuted, ForkForFinalizeFrom, FinalizeFromScript
<1>2. /\ mints' = mints /\ withdrawal' = withdrawal /\ gatewayBatch' = gatewayBatch
      /\ (Registered' <=> Registered)
  BY <1>1, Zenon DEF vars, Registered
<1>3. \A calls : CallsOK(calls) => CallsOK(calls)'
  BY <1>1, <1>t, ToolOnly, Zenon
<1>c. cmd' = cmd => CmdOK'
  BY <1>2, <1>t, Zenon DEF CmdOK, FinalizeOK, FinalizeFromOK
<1>i. cmd' = Idle => CmdOK'
  BY DEF CmdOK, FinalizeOK, FinalizeFromOK, Idle
<1>e. CallsOK(<<>>)'
  <2>1. <<>> \in Seq(Calls) /\ DOMAIN <<>> = {}
    OBVIOUS
  <2>2. QED
    BY <2>1, Zenon DEF CallsOK
<1>b. bundle' = bundle => CallsOK(bundle)'
  BY <1>2, <1>t, Zenon DEF CallsOK
<1>r. (replay' = replay \/ replay' = <<>>) => CallsOK(replay)'
  <2>1. replay' = replay => CallsOK(replay)'
    BY <1>2, <1>t, Zenon DEF CallsOK
  <2>2. replay' = <<>> => CallsOK(replay)'
    BY <1>e, Zenon DEF CallsOK
  <2>3. QED
    BY <2>1, <2>2, Zenon
<1>4. ASSUME NEW c \in Calls, c.call # "confirm", c.call \in {"validators", "daPair"} => Registered,
             bundle' = <<c>>
      PROVE  CallsOK(bundle)'
  BY <1>2, <1>4 DEF CallsOK
<1>5. CASE RunPausePhase \/ RunSubmitPhase \/ RunSubmitFromPhase \/ RunSetDAPhase
  <2>1. /\ cmd' = cmd /\ replay' = replay
        /\ \E call \in {"pause", "submit", "burn", "setDA"} : bundle' = <<[call |-> call, mint |-> 0]>>
    BY <1>5, Zenon DEF RunPausePhase, RunSubmitPhase, RunSubmitFromPhase, RunSetDAPhase, WriteBundle
  <2>2. CallsOK(bundle)'
    <3>1. PICK call \in {"pause", "submit", "burn", "setDA"} : bundle' = <<[call |-> call, mint |-> 0]>>
      BY <2>1, Zenon
    <3> DEFINE c == [call |-> call, mint |-> 0]
    <3>2. c \in Calls /\ c.call # "confirm" /\ c.call \notin {"validators", "daPair"} /\ bundle' = <<c>>
      BY <3>1, Zenon DEF Calls
    <3> HIDE DEF c
    <3>3. QED
      BY <1>4, <3>2, Zenon
  <2>3. QED
    BY <1>1, <1>c, <1>r, <2>1, <2>2, Zenon
<1>6. CASE RunValidatorsPhase
  <2> DEFINE c == [call |-> "validators", mint |-> 0]
             e == [call |-> "daPair", mint |-> 0]
  <2>1. cmd' = cmd /\ replay' = replay /\ bundle' = <<c, e>> /\ Registered
    BY <1>6, Zenon DEF RunValidatorsPhase, WriteBundle, RegisteredOnGateway, Registered
  <2>2. c \in Calls /\ e \in Calls /\ c.call # "confirm" /\ e.call # "confirm"
    BY Zenon DEF Calls
  <2> HIDE DEF c, e
  <2>3. /\ bundle' \in Seq(Calls) /\ DOMAIN bundle' = {1, 2} /\ bundle'[1] = c /\ bundle'[2] = e
    BY <2>1, <2>2
  <2>4. CallsOK(bundle)'
    BY <1>2, <2>1, <2>2, <2>3, Zenon DEF CallsOK
  <2>5. QED
    BY <1>1, <1>c, <1>r, <2>1, <2>4
<1>7. CASE StartFinalize
  <2>1. /\ cmd' = [Idle EXCEPT !.phase = "finalize", !.step = "receipt", !.mint = Len(mints)]
        /\ bundle' = bundle /\ replay' = replay /\ mints # <<>>
    BY <1>7, Zenon DEF StartFinalize
  <2>2. /\ cmd'.phase = "finalize" /\ cmd'.step = "receipt" /\ cmd'.mint = Len(mints)
        /\ cmd' \in [phase : {"none", "finalize", "finalizeFrom"},
                     step : {"none", "receipt", "finalized", "proof", "executed", "fork", "script"},
                     polled : BOOLEAN, mint : Nat, fork : Nat, ok : BOOLEAN]
    BY <1>m, <2>1, Zenon DEF Idle
  <2>3. Len(mints) \in DOMAIN mints
    BY <1>m, <2>1
  <2>4. CmdOK'
    BY <1>2, <2>2, <2>3, Zenon DEF CmdOK, FinalizeOK, FinalizeFromOK
  <2>5. QED
    BY <1>1, <1>b, <1>r, <2>1, <2>4, Zenon
<1>8. CASE StartFinalizeFrom
  <2>1. /\ cmd' = [Idle EXCEPT !.phase = "finalizeFrom", !.step = "receipt"]
        /\ bundle' = bundle /\ replay' = replay
    BY <1>8, Zenon DEF StartFinalizeFrom
  <2>2. /\ cmd'.phase = "finalizeFrom" /\ cmd'.step = "receipt"
        /\ cmd' \in [phase : {"none", "finalize", "finalizeFrom"},
                     step : {"none", "receipt", "finalized", "proof", "executed", "fork", "script"},
                     polled : BOOLEAN, mint : Nat, fork : Nat, ok : BOOLEAN]
    BY <2>1, Zenon DEF Idle
  <2>3. CmdOK'
    BY <2>2, Zenon DEF CmdOK, FinalizeOK, FinalizeFromOK
  <2>4. QED
    BY <1>1, <1>b, <1>r, <2>1, <2>3, Zenon
<1>p. Poll /\ cmd.phase # "none" => CmdOK'
  <2>1. ASSUME Poll PROVE CmdOK'
    <3>1. cmd' = [cmd EXCEPT !.polled = TRUE]
      BY <2>1, Zenon DEF Poll
    <3>2. /\ cmd'.phase = cmd.phase /\ cmd'.step = cmd.step /\ cmd'.mint = cmd.mint /\ cmd'.fork = cmd.fork
          /\ cmd' \in [phase : {"none", "finalize", "finalizeFrom"},
                       step : {"none", "receipt", "finalized", "proof", "executed", "fork", "script"},
                       polled : BOOLEAN, mint : Nat, fork : Nat, ok : BOOLEAN]
      BY <1>t, <3>1, Zenon DEF CmdOK
    <3>3. QED
      BY <1>2, <1>t, <3>2, Zenon DEF CmdOK, FinalizeOK, FinalizeFromOK
  <2>2. QED
    BY <2>1, Zenon
<1>g. ASSUME NEW step \in {"finalized", "proof", "executed", "fork"}, Goto(step)
      PROVE  /\ cmd'.phase = cmd.phase /\ cmd'.step = step /\ cmd'.mint = cmd.mint
             /\ cmd' \in [phase : {"none", "finalize", "finalizeFrom"},
                          step : {"none", "receipt", "finalized", "proof", "executed", "fork", "script"},
                          polled : BOOLEAN, mint : Nat, fork : Nat, ok : BOOLEAN]
  BY <1>g, <1>t, Zenon DEF Goto, CmdOK
<1>9. CASE WaitForReceipt
  <2>1. /\ cmd.phase = "finalize" /\ cmd.step = "receipt" /\ bundle' = bundle /\ replay' = replay
        /\ Poll \/ Stop \/ (mints[cmd.mint].status # "pending" /\ Goto("finalized"))
    BY <1>9, Zenon DEF WaitForReceipt, Running
  <2>2. CASE mints[cmd.mint].status # "pending" /\ Goto("finalized")
    <3>1. CmdOK'
      BY <1>2, <1>g, <1>t, <2>1, <2>2, Zenon DEF CmdOK, FinalizeOK, FinalizeFromOK
    <3>2. QED
      BY <1>1, <1>b, <1>r, <2>1, <3>1, Zenon
  <2>3. QED
    BY <1>1, <1>b, <1>r, <1>p, <1>i, <2>1, <2>2 DEF Stop
<1>10. CASE WaitForBlockFinalized
  <2>1. /\ cmd.phase = "finalize" /\ cmd.step = "finalized" /\ bundle' = bundle /\ replay' = replay
        /\ Poll \/ (mints[cmd.mint].batch <= gatewayBatch /\ Goto("proof"))
    BY <1>10, Zenon DEF WaitForBlockFinalized, Running
  <2>2. CASE mints[cmd.mint].batch <= gatewayBatch /\ Goto("proof")
    <3>1. CmdOK'
      BY <1>2, <1>g, <1>t, <2>1, <2>2, Zenon DEF CmdOK, FinalizeOK, FinalizeFromOK
    <3>2. QED
      BY <1>1, <1>b, <1>r, <2>1, <3>1, Zenon
  <2>3. QED
    BY <1>1, <1>b, <1>r, <1>p, <2>1, <2>2, Zenon
<1>f. ASSUME NEW ok \in BOOLEAN, cmd' = [cmd EXCEPT !.step = "script", !.fork = gatewayBatch, !.ok = ok]
      PROVE  /\ cmd'.phase = cmd.phase /\ cmd'.step = "script" /\ cmd'.mint = cmd.mint
             /\ cmd'.fork = gatewayBatch
             /\ cmd' \in [phase : {"none", "finalize", "finalizeFrom"},
                          step : {"none", "receipt", "finalized", "proof", "executed", "fork", "script"},
                          polled : BOOLEAN, mint : Nat, fork : Nat, ok : BOOLEAN]
  <2>1. gatewayBatch \in Nat
    BY <1>t, Zenon DEF TypeOK
  <2>2. QED
    BY <1>f, <1>t, <2>1, Zenon DEF CmdOK
<1>11. CASE ForkForFinalize
  <2> DEFINE ok == CanClearTransfer(cmd.mint, "success")
  <2>1. /\ cmd.phase = "finalize" /\ cmd.step = "proof" /\ bundle' = bundle /\ replay' = replay
        /\ cmd' = [cmd EXCEPT !.step = "script", !.fork = gatewayBatch, !.ok = ok]
    BY <1>11, Zenon DEF ForkForFinalize, Running
  <2>2. ok \in BOOLEAN
    BY <1>t, <2>1, Zenon DEF CanClearTransfer, CmdOK, FinalizeOK, TypeOK, Mints
  <2> HIDE DEF ok
  <2>3. CmdOK'
    BY <1>2, <1>f, <1>t, <2>1, <2>2, Zenon DEF CmdOK, FinalizeOK, FinalizeFromOK
  <2>4. QED
    BY <1>1, <1>b, <1>r, <2>1, <2>3, Zenon
<1>12. CASE ForkForFinalizeFrom
  <2> DEFINE ok == CanVerifyWithdrawal /\ CanBridgeMint("L1", withdrawal.data)
  <2>1. /\ cmd.phase = "finalizeFrom" /\ cmd.step = "fork" /\ bundle' = bundle /\ replay' = replay
        /\ cmd' = [cmd EXCEPT !.step = "script", !.fork = gatewayBatch, !.ok = ok]
    BY <1>12, Zenon DEF ForkForFinalizeFrom, Running
  <2>2. ok \in BOOLEAN
    BY Zenon
  <2> HIDE DEF ok
  <2>3. CmdOK'
    BY <1>2, <1>f, <1>t, <2>1, <2>2, Zenon DEF CmdOK, FinalizeOK, FinalizeFromOK
  <2>4. QED
    BY <1>1, <1>b, <1>r, <2>1, <2>3, Zenon
<1>13. CASE FinalizeScript
  <2> DEFINE c == [call |-> "confirm", mint |-> cmd.mint]
  <2>1. /\ cmd.phase = "finalize" /\ cmd' = Idle /\ replay' = replay
        /\ bundle' = bundle \/ bundle' = <<c>>
    BY <1>13, Zenon DEF FinalizeScript, Running, Stop
  <2>2. c \in Calls /\ c.call = "confirm" /\ c.mint \in DOMAIN mints
    BY <1>t, <2>1, Zenon DEF CmdOK, FinalizeOK, Calls
  <2> HIDE DEF c
  <2>3. CallsOK(bundle)'
    <3>1. CASE bundle' = <<c>>
      BY <1>2, <2>2, <3>1 DEF CallsOK
    <3>2. QED
      BY <1>b, <2>1, <3>1, Zenon
  <2>4. QED
    BY <1>1, <1>i, <1>r, <2>1, <2>3, Zenon
<1>14. CASE FinalizeFromScript
  <2> DEFINE c == [call |-> "finalize", mint |-> 0]
  <2>1. /\ cmd' = Idle /\ replay' = replay
        /\ bundle' = bundle \/ bundle' = <<c>>
    BY <1>14, Zenon DEF FinalizeFromScript, Stop
  <2>2. c \in Calls /\ c.call # "confirm" /\ c.call \notin {"validators", "daPair"}
    BY Zenon DEF Calls
  <2> HIDE DEF c
  <2>3. CallsOK(bundle)'
    BY <1>4, <1>b, <2>1, <2>2, Zenon
  <2>4. QED
    BY <1>1, <1>i, <1>r, <2>1, <2>3, Zenon
<1>15. CASE WaitForWithdrawal
  <2>1. /\ cmd.phase = "finalizeFrom" /\ cmd.step = "receipt" /\ bundle' = bundle /\ replay' = replay
        /\ Poll \/ Stop \/ (withdrawal.sent /\ Goto("executed"))
    BY <1>15, Zenon DEF WaitForWithdrawal, Running
  <2>2. CASE withdrawal.sent /\ Goto("executed")
    <3>1. CmdOK'
      BY <1>2, <1>g, <1>t, <2>1, <2>2, Zenon DEF CmdOK, FinalizeOK, FinalizeFromOK
    <3>2. QED
      BY <1>1, <1>b, <1>r, <2>1, <3>1, Zenon
  <2>3. QED
    BY <1>1, <1>b, <1>r, <1>p, <1>i, <2>1, <2>2 DEF Stop
<1>16. CASE WaitForBatchExecuted
  <2>1. /\ cmd.phase = "finalizeFrom" /\ cmd.step = "executed" /\ bundle' = bundle /\ replay' = replay
        /\ Poll \/ (withdrawal.batch <= gatewayBatch /\ Goto("fork"))
    BY <1>16, Zenon DEF WaitForBatchExecuted, Running
  <2>2. CASE withdrawal.batch <= gatewayBatch /\ Goto("fork")
    <3>1. CmdOK'
      BY <1>2, <1>g, <1>t, <2>1, <2>2, Zenon DEF CmdOK, FinalizeOK, FinalizeFromOK
    <3>2. QED
      BY <1>1, <1>b, <1>r, <2>1, <3>1, Zenon
  <2>3. QED
    BY <1>1, <1>b, <1>r, <1>p, <2>1, <2>2
<1>17. CASE Timeout \/ Killed
  <2>1. cmd' = Idle /\ bundle' = bundle /\ (replay' = replay \/ replay' = <<>>)
    BY <1>17, Zenon DEF Timeout, Killed, Stop
  <2>2. QED
    BY <1>1, <1>b, <1>i, <1>r, <2>1, Zenon
<1>18. CASE StartReplay
  <2>1. cmd' = cmd /\ bundle' = bundle /\ replay' = bundle
    BY <1>18, Zenon DEF StartReplay
  <2>2. CallsOK(replay)'
    BY <1>2, <1>t, <2>1, Zenon DEF CallsOK
  <2>3. QED
    BY <1>1, <1>b, <1>c, <2>1, <2>2, Zenon
<1>19. CASE ReplayReverts
  <2>1. cmd' = cmd /\ bundle' = bundle /\ replay' = <<>>
    BY <1>19, Zenon DEF ReplayReverts
  <2>2. QED
    BY <1>1, <1>b, <1>c, <1>r, <2>1, Zenon
<1>20. QED
  BY <1>5, <1>6, <1>7, <1>8, <1>9, <1>10, <1>11, <1>12, <1>13, <1>14, <1>15, <1>16, <1>17, <1>18, <1>19
     DEF Commands, Waits

\* A call that is replayed is a step of the contracts, or changes nothing there.
LEMMA ReplayedCall ==
    ASSUME OpsInv, ReplayCall
    PROVE  /\ UNCHANGED vars \/ (ContractNext /\ (PlainNext \/ Registered))
           /\ cmd' = cmd /\ bundle' = bundle
           /\ CallsOK(replay) => CallsOK(replay')
<1> DEFINE c == Head(replay)
<1>1. replay # <<>> /\ Call(c) /\ replay' = Tail(replay) /\ cmd' = cmd /\ bundle' = bundle
  BY Zenon DEF ReplayCall
<1>2. CallsOK(replay) /\ replay \in Seq(Calls)
  BY Zenon DEF OpsInv, CallsOK
<1>3. 1 \in DOMAIN replay /\ c = replay[1]
  BY <1>1, <1>2
<1>4. /\ c.call = "confirm" => c.mint \in DOMAIN mints
      /\ c.call \in {"validators", "daPair"} => Registered
  BY <1>2, <1>3, Zenon DEF CallsOK
<1>5. CallsOK(replay')
  <2> DEFINE s == replay'
  <2>1. /\ s \in Seq(Calls)
        /\ \A i \in DOMAIN s : i + 1 \in DOMAIN replay /\ s[i] = replay[i + 1]
    BY <1>1, <1>2
  <2> HIDE DEF s
  <2>2. CallsOK(s)
    BY <1>2, <2>1, Zenon DEF CallsOK
  <2>3. QED
    BY <2>2, Zenon DEF s
<1> HIDE DEF c
<1>6. \/ PauseDeposits \/ MigrateToGateway \/ FinalizeMigration \/ SetDAValidatorPair
      \/ UNCHANGED vars
      \/ c.call = "confirm" /\ ConfirmSuccess(c.mint)
      \/ RequestOnGateway("burn")
      \/ Registered /\ (RequestOnGateway("validators") \/ RequestOnGateway("daPair"))
  BY <1>1, <1>4, Zenon DEF Call
<1>7. c.call = "confirm" /\ ConfirmSuccess(c.mint) => \E i \in DOMAIN mints : ConfirmSuccess(i)
  BY <1>4, Zenon
<1>8. UNCHANGED vars \/ (ContractNext /\ (PlainNext \/ Registered))
  BY <1>6, <1>7, Zenon DEF ContractNext, PlainNext
<1>9. QED
  BY <1>1, <1>5, <1>8, Zenon

\* The tool adds nothing to what the contracts may do.
LEMMA OpsStepCases ==
    ASSUME OpsInv, [OpsNext]_allVars
    PROVE  UNCHANGED vars \/ ContractNext
<1>1. CASE UNCHANGED allVars
  BY <1>1, Zenon DEF allVars
<1>2. CASE Contracts
  BY <1>2, Zenon DEF Contracts, ContractNext
<1>3. CASE ReplayCall
  BY <1>3, ReplayedCall, Zenon
<1>4. CASE Commands \/ Waits \/ Timeout \/ Killed \/ StartReplay \/ ReplayReverts
  BY <1>4, ToolSteps, Zenon
<1>5. QED
  BY <1>1, <1>2, <1>3, <1>4, Zenon DEF OpsNext

\* The invariant of the tool and the contracts is kept by every step.
LEMMA OpsStep ==
    ASSUME OpsInv, [OpsNext]_allVars
    PROVE  OpsInv'
<1>0. MigrationInv /\ CmdOK /\ CallsOK(bundle) /\ CallsOK(replay) /\ ConfigOK
  BY Zenon DEF OpsInv
<1>1. MigrationInv'
  BY <1>0, OpsStepCases, InvStep, InvStutter, Zenon
<1>t. TypeOK /\ TypeOK' /\ Control /\ MintsOK /\ TreeOfGateway /\ Returning
  BY <1>0, <1>1, Zenon DEF MigrationInv
<1>2. CASE UNCHANGED allVars
  <2>1. /\ UNCHANGED vars /\ cmd' = cmd /\ bundle' = bundle /\ replay' = replay
    BY <1>2, Zenon DEF allVars, opsVars
  <2>2. ConfigOK'
    BY <1>0, <1>t, <2>1, ToolOnly, Zenon
  <2>3. CallsOK(bundle') /\ CallsOK(replay')
    BY <1>0, <2>1, Zenon
  <2>4. /\ mints' = mints /\ withdrawal' = withdrawal /\ gatewayBatch' = gatewayBatch
        /\ (Registered' <=> Registered)
    BY <2>1, Zenon DEF vars, Registered
  <2>5. CmdOK' /\ CallsOK(bundle)' /\ CallsOK(replay)'
    BY <1>0, <2>1, <2>4, Zenon DEF CmdOK, FinalizeOK, FinalizeFromOK, CallsOK
  <2>6. QED
    BY <1>1, <2>2, <2>5, Zenon DEF OpsInv
<1>3. CASE Commands \/ Waits \/ Timeout \/ Killed \/ StartReplay \/ ReplayReverts
  <2>1. UNCHANGED vars /\ CmdOK' /\ CallsOK(bundle)' /\ CallsOK(replay)'
    BY <1>3, ToolSteps, Zenon
  <2>2. ConfigOK'
    BY <1>0, <1>t, <2>1, ToolOnly, Zenon
  <2>3. QED
    BY <1>1, <2>1, <2>2, Zenon DEF OpsInv
<1>4. ASSUME UNCHANGED vars \/ (ContractNext /\ (PlainNext \/ Registered)),
             cmd' = cmd, bundle' = bundle, CallsOK(replay')
      PROVE  OpsInv'
  <2>1. Monotone
    <3>1. CASE UNCHANGED vars
      <4>1. /\ mints' = mints /\ withdrawal' = withdrawal /\ gatewayBatch' = gatewayBatch
            /\ (Registered' <=> Registered)
        BY <3>1, Zenon DEF vars, Registered
      <4>2. gatewayBatch <= gatewayBatch
        BY <1>t DEF TypeOK
      <4>3. QED
        BY <4>1, <4>2 DEF Monotone
    <3>2. CASE ContractNext
      BY <1>t, <3>2, StepCases, ContractsAreMonotone, Zenon
    <3>3. QED
      BY <1>4, <3>1, <3>2, Zenon
  <2>2. CmdOK'
    BY <1>0, <1>t, <1>4, <2>1, ToolStays, Zenon
  <2>3. DOMAIN mints \subseteq DOMAIN mints' /\ (Registered => Registered')
    BY <2>1, Zenon DEF Monotone
  <2>4. CallsOK(bundle)' /\ CallsOK(replay)'
    BY <1>0, <1>4, <2>3, Zenon DEF CallsOK
  <2>5. ConfigOK'
    BY <1>0, <1>t, <1>4, <2>3, ToolOnly, ConfigStep, Zenon
  <2>6. QED
    BY <1>1, <2>2, <2>4, <2>5 DEF OpsInv
<1>5. CASE Contracts
  <2>1. ContractNext /\ PlainNext /\ cmd' = cmd /\ bundle' = bundle /\ replay' = replay
    BY <1>5, Zenon DEF Contracts, ContractNext, PlainNext, opsVars
  <2>2. QED
    BY <1>0, <1>4, <2>1, Zenon
<1>6. CASE ReplayCall
  BY <1>0, <1>4, <1>6, ReplayedCall, Zenon
<1>7. QED
  BY <1>2, <1>3, <1>5, <1>6, Zenon DEF OpsNext

\* It holds initially.
LEMMA OpsInvInit == OpsInit => OpsInv
<1> SUFFICES ASSUME OpsInit PROVE OpsInv
  BY Zenon
<1>1. Init /\ cmd = Idle /\ bundle = <<>> /\ replay = <<>> /\ toGateway = <<>>
  BY Zenon DEF OpsInit, Init
<1>2. MigrationInv
  BY <1>1, InvInit, Zenon
<1>3. CmdOK
  BY <1>1, Zenon DEF CmdOK, FinalizeOK, FinalizeFromOK, Idle
<1>4. CallsOK(bundle) /\ CallsOK(replay) /\ ConfigOK
  BY <1>1 DEF CallsOK, ConfigOK
<1>5. QED
  BY <1>2, <1>3, <1>4, Zenon DEF OpsInv

(***************************************************************************)
(* The refinement.                                                         *)
(***************************************************************************)

\* The operations processed so far: a first part of those of L1.
LEMMA Cuts ==
    ASSUME NEW s \in Seq(Nat), NEW r \in Seq(Nat), IsSegment(s, 0, r), NEW u \in Nat, u <= Len(r)
    PROVE  /\ SubSeq(r, 1, u) = SubSeq(s, 1, u)
           /\ Len(SubSeq(s, 1, u)) = u
           /\ u <= Len(s)
<1>1. Len(r) \in Nat /\ Len(s) \in Nat /\ Len(r) <= Len(s) /\ \A n \in 1 .. Len(r) : r[n] = s[n]
  BY Prefixes
<1>2. \A i \in 1 .. u : r[i] \in Nat /\ s[i] \in Nat /\ r[i] = s[i]
  BY <1>1
<1>3. ASSUME NEW q \in Seq(Nat), u <= Len(q)
      PROVE  /\ SubSeq(q, 1, u) \in Seq(Nat) /\ Len(SubSeq(q, 1, u)) = u
             /\ \A i \in 1 .. u : SubSeq(q, 1, u)[i] = q[i]
  <2>1. \A i \in 1 .. u : q[i] \in Nat
    BY <1>3
  <2>2. /\ SubSeq(q, 1, u) \in Seq(Nat) /\ Len(SubSeq(q, 1, u)) = IF 1 <= u THEN u - 1 + 1 ELSE 0
        /\ \A i \in 1 .. u - 1 + 1 : SubSeq(q, 1, u)[i] = q[1 + i - 1]
    BY <2>1, SubSeqProperties
  <2>3. QED
    BY <2>2
<1>4. /\ SubSeq(r, 1, u) \in Seq(Nat) /\ Len(SubSeq(r, 1, u)) = u
      /\ \A i \in 1 .. u : SubSeq(r, 1, u)[i] = r[i]
  BY <1>3, Zenon
<1>5. /\ SubSeq(s, 1, u) \in Seq(Nat) /\ Len(SubSeq(s, 1, u)) = u
      /\ \A i \in 1 .. u : SubSeq(s, 1, u)[i] = s[i]
  <2>1. u <= Len(s)
    BY <1>1
  <2>2. QED
    BY <1>3, <2>1, Zenon
<1>6. SubSeq(r, 1, u) = SubSeq(s, 1, u)
  BY <1>2, <1>4, <1>5
<1>7. QED
  BY <1>1, <1>5, <1>6

\* The number of operations processed so far.
Cut == Home.tree.unprocessedIndex

\* The state of SettledChain, read off the tree of L1 and the history of batches.
SettledIs ==
    /\ SubSeq(Home.tree.leaves, 1, Home.tree.unprocessedIndex) = SubSeq(chain["L1"].tree.leaves, 1, Cut)
    /\ Len(SubSeq(chain["L1"].tree.leaves, 1, Cut)) = Cut
    /\ Cut \in Nat /\ Cut <= Len(chain["L1"].tree.leaves)
    /\ Home.executed = Len(settledOn)
    /\ Len(chain["L1"].tree.leaves) \in Nat
    /\ chain["L1"].tree.leaves \in Seq(Nat)

\* The home of a chain has processed a first part of the operations of L1.
LEMMA SettledState == MigrationInv => SettledIs
<1> SUFFICES ASSUME MigrationInv PROVE SettledIs
  BY Zenon
<1> DEFINE a == chain["L1"].tree
           h == Home.tree
<1>1. TypeOK /\ TreeOfL1 /\ TreeOfGateway /\ Intervals
  BY Zenon DEF MigrationInv
<1>2. /\ a.leaves \in Seq(Nat) /\ Len(a.leaves) \in Nat /\ a.unprocessedIndex \in Nat
      /\ chain["GW"].tree.leaves \in Seq(Nat) /\ chain["GW"].tree.unprocessedIndex \in Nat
  BY <1>1, TreeFacts, Zenon DEF Layers
<1>3. h.leaves \in Seq(Nat) /\ h.unprocessedIndex \in Nat
  BY <1>2, HomeIs, Zenon
<1>4. IsSegment(a.leaves, 0, h.leaves) /\ h.unprocessedIndex <= Len(h.leaves)
  <2>1. CASE Away /\ Registered
    BY <1>1, <2>1, HomeIs, Zenon DEF TreeOfGateway, InSync
  <2>2. CASE ~(Away /\ Registered)
    <3>1. h = a
      BY <2>2, HomeIs, Zenon
    <3>2. IsSegment(a.leaves, 0, a.leaves)
      BY <1>2 DEF IsSegment
    <3>3. QED
      BY <1>1, <3>1, <3>2, Zenon DEF TreeOfL1, GoodTree
  <2>3. QED
    BY <2>1, <2>2, Zenon
<1>5. Home.executed = Len(settledOn)
  BY <1>1, Zenon DEF Intervals
<1> HIDE DEF a, h
<1>6. /\ SubSeq(h.leaves, 1, h.unprocessedIndex) = SubSeq(a.leaves, 1, h.unprocessedIndex)
      /\ Len(SubSeq(a.leaves, 1, h.unprocessedIndex)) = h.unprocessedIndex
      /\ h.unprocessedIndex <= Len(a.leaves)
  BY <1>2, <1>3, <1>4, Cuts, Zenon
<1>7. QED
  BY <1>2, <1>3, <1>5, <1>6, Zenon DEF SettledIs, Cut, a, h

\* What a step does to the operations requested and processed, and to the number
\* of batches.
Stutters ==
    /\ chain'["L1"].tree.leaves = chain["L1"].tree.leaves
    /\ Cut' = Cut
    /\ settledOn' = settledOn

\* Every step of the contracts leaves these alone, appends one operation on L1, or
\* executes a batch with the next operations.
LEMMA SettledMoves ==
    ASSUME MigrationInv, TypeOK', StepClasses
    PROVE  \/ Stutters
           \/ /\ chain'["L1"].tree.leaves = Append(chain["L1"].tree.leaves, Len(chain["L1"].tree.leaves) + 1)
              /\ Cut' = Cut /\ settledOn' = settledOn
           \/ \E k \in Nat :
                 /\ Cut' = Cut + k /\ Len(settledOn') = Len(settledOn) + 1
                 /\ chain'["L1"].tree.leaves = chain["L1"].tree.leaves
<1>i. TypeOK /\ Control /\ MintsOK /\ TreeOfL1 /\ Leaving /\ TreeOfGateway /\ Returning
  BY Zenon DEF MigrationInv
<1>a. /\ chain["L1"] \in Diamonds /\ chain["GW"] \in Diamonds
      /\ "L1" \in Layers /\ "GW" \in Layers /\ "L1" # "GW"
  BY <1>i, Zenon DEF TypeOK, Layers
<1>t. chain["L1"].tree \in Tree(Nat) /\ chain["GW"].tree \in Tree(Nat)
  BY <1>a, Zenon DEF Diamonds
<1>s. SameStages /\ SameTrees /\ settledOn' = settledOn => Stutters
  <2>1. ASSUME SameStages, SameTrees, settledOn' = settledOn PROVE Stutters
    <3>1. chain'["L1"].tree = chain["L1"].tree /\ chain'["GW"].tree = chain["GW"].tree
      BY <1>a, <2>1, Zenon DEF SameTrees
    <3>2. Cut' = Cut
      BY <2>1, <3>1, HomeIs, Zenon DEF Cut, SameStages
    <3>3. QED
      BY <2>1, <3>1, <3>2, Zenon DEF Stutters
  <2>2. QED
    BY <2>1, Zenon
<1>1. CASE Quiet
  <2>1. SameStages /\ SameTrees /\ settledOn' = settledOn
    BY <1>1, <1>i, Stages, Zenon DEF Quiet, QuietDiamonds, SameTrees
  <2>2. QED
    BY <1>s, <2>1, Zenon
<1>2. CASE Requests
  <2> DEFINE n == Len(chain["L1"].tree.leaves)
  <2>1. SameStages
    BY <1>2, <1>i, Stages, Zenon
  <2>2. chain'["L1"].tree = push(chain["L1"].tree, n + 1) /\ chain'["GW"] = chain["GW"] /\ settledOn' = settledOn
    BY <1>2, Zenon DEF Requests
  <2>3. n + 1 \in Nat
    BY <1>t DEF Tree
  <2> HIDE DEF n
  <2>4. /\ chain'["L1"].tree.leaves = Append(chain["L1"].tree.leaves, n + 1)
        /\ chain'["L1"].tree.unprocessedIndex = chain["L1"].tree.unprocessedIndex
    BY <1>t, <2>2, <2>3, PushLeaves, Zenon
  <2>5. Cut' = Cut
    BY <2>1, <2>2, <2>4, HomeIs, Zenon DEF Cut, SameStages
  <2>6. QED
    BY <2>2, <2>4, <2>5, Zenon DEF n
<1>3. ASSUME NEW l \in Layers, NEW k \in 0 .. MaxOps, Executes(l, k)
      PROVE  /\ k \in Nat
             /\ Cut' = Cut + k /\ Len(settledOn') = Len(settledOn) + 1
             /\ chain'["L1"].tree.leaves = chain["L1"].tree.leaves
  <2>1. /\ SameStages /\ k \in Nat
        /\ IF l = "L1" THEN ~Away ELSE Away /\ Registered
    BY <1>3, <1>i, Stages, MigrationAssumption
  <2>2. /\ chain'[l].tree = [chain[l].tree EXCEPT !.unprocessedIndex = @ + k]
        /\ \A m \in Layers : m # l => chain'[m] = chain[m]
    BY <1>3, Zenon DEF Executes
  <2>3. /\ chain'[l].tree.unprocessedIndex = chain[l].tree.unprocessedIndex + k
        /\ chain'[l].tree.leaves = chain[l].tree.leaves
    BY <1>t, <2>2, Zenon DEF Tree, Layers
  <2>4. Home = chain[l] /\ Home' = chain'[l]
    BY <2>1, <1>a, HomeIs, Zenon DEF SameStages, Layers
  <2>5. Cut' = Cut + k
    BY <2>3, <2>4, Zenon DEF Cut
  <2>6. chain'["L1"].tree.leaves = chain["L1"].tree.leaves
    BY <1>a, <2>2, <2>3, Zenon DEF Layers
  <2>7. Len(settledOn') = Len(settledOn) + 1
    <3> DEFINE e == [sl |-> l, slBatch |-> IF l = "GW" THEN gatewayBatch + 1 ELSE 0]
    <3>1. settledOn' = Append(settledOn, e) /\ settledOn \in Seq([sl : Layers, slBatch : Nat])
      BY <1>3, <1>i, Zenon DEF Executes, TypeOK
    <3> HIDE DEF e
    <3>2. QED
      BY <3>1
  <2>8. QED
    BY <2>1, <2>5, <2>6, <2>7, Zenon
<1>4. CASE Leaves
  <2>1. ~Registered /\ ~Registered'
    BY <1>4, <1>i, Stages, Zenon
  <2>2. chain'["L1"].tree = chain["L1"].tree /\ settledOn' = settledOn
    BY <1>4, <1>a, Zenon DEF Leaves, Diamonds
  <2>3. QED
    BY <2>1, <2>2, HomeIs, Zenon DEF Stutters, Cut
<1>5. CASE Arrives
  <2> DEFINE d == Head(toGateway).arg
             g == chain["GW"]
  <2>1. Away /\ ~Registered /\ Away' /\ Registered'
    BY <1>5, <1>i, Stages, Zenon
  <2>2. /\ chain'["L1"] = chain["L1"] /\ settledOn' = settledOn
        /\ chain'["GW"] = ForwardedBridgeMint("GW", g, d.chainData)
    BY <1>5, Zenon DEF Arrives
  <2>3. d.chainData.priorityTree = getCommitment(chain["L1"].tree)
    <3>1. toGateway # <<>> /\ Head(toGateway).kind = "mint"
      BY <1>5, Zenon DEF Arrives
    <3>2. d.chainData = prepareChainCommitment(chain["L1"])
      BY <1>i, <3>1, HeadMintData
    <3>3. prepareChainCommitment(chain["L1"]).priorityTree = getCommitment(chain["L1"].tree)
      BY Zenon DEF prepareChainCommitment
    <3>4. QED
      BY <3>2, <3>3, Zenon
  <2>4. chain'["GW"].tree = initFromCommitment(g.tree, d.chainData.priorityTree)
    BY <1>a, <2>2, MintedTree, Zenon
  <2>5. chain'["GW"].tree.unprocessedIndex = chain["L1"].tree.unprocessedIndex
    <3>1. chain'["GW"].tree = initFromCommitment(g.tree, getCommitment(chain["L1"].tree))
      BY <2>3, <2>4, Zenon
    <3>2. \A t, u : initFromCommitment(t, getCommitment(u)).unprocessedIndex = u.unprocessedIndex
      BY Zenon DEF initFromCommitment, getCommitment
    <3>3. QED
      BY <3>1, <3>2, Zenon
  <2>6. QED
    BY <2>1, <2>2, <2>5, HomeIs, Zenon DEF Stutters, Cut
<1>6. CASE Fails
  <2>1. SameStages /\ SameTrees /\ settledOn' = settledOn
    BY <1>6, <1>i, Stages, Zenon DEF Fails, SameTrees
  <2>2. QED
    BY <1>s, <2>1, Zenon
<1>7. CASE Receives
  <2> DEFINE x == Head(toGateway).arg
  <2>1. SameStages
    BY <1>7, <1>i, Stages, Zenon
  <2>2. chain'["GW"].tree = push(chain["GW"].tree, x) /\ chain'["L1"] = chain["L1"] /\ settledOn' = settledOn
    BY <1>7, Zenon DEF Receives
  <2>3. chain'["GW"].tree.unprocessedIndex = chain["GW"].tree.unprocessedIndex
    BY <1>t, <2>2, Zenon DEF push, Tree
  <2>4. QED
    BY <2>1, <2>2, <2>3, HomeIs, Zenon DEF Stutters, Cut, SameStages
<1>8. CASE Departs
  <2>1. Away /\ Registered /\ Away' /\ Registered'
    BY <1>8, <1>i, Stages, Zenon
  <2>2. /\ chain'["GW"].tree = chain["GW"].tree /\ chain'["L1"] = chain["L1"] /\ settledOn' = settledOn
    BY <1>8, <1>a, Zenon DEF Departs, Diamonds
  <2>3. QED
    BY <2>1, <2>2, HomeIs, Zenon DEF Stutters, Cut
<1>9. CASE Returns
  <2> DEFINE c == withdrawal.data.chainData.priorityTree
  <2>1. Away /\ Registered /\ withdrawal.sent /\ ~Away'
    BY <1>9, <1>i, Stages, Zenon
  <2>2. /\ chain'["L1"] = ForwardedBridgeMint("L1", chain["L1"], withdrawal.data.chainData)
        /\ settledOn' = settledOn
    BY <1>9, Zenon DEF Returns
  <2>3. chain'["L1"].tree = L1Reinit(chain["L1"].tree, c)
    BY <1>a, <2>2, Zenon DEF ForwardedBridgeMint, Diamonds
  <2>4. /\ chain'["L1"].tree.leaves = chain["L1"].tree.leaves
        /\ chain'["L1"].tree.unprocessedIndex = c.unprocessedIndex
    BY <1>t, <2>3, Zenon DEF L1Reinit, Tree
  <2>5. c.unprocessedIndex = chain["GW"].tree.unprocessedIndex
    BY <1>i, <2>1, Zenon DEF Returning, Carries
  <2>6. QED
    BY <2>1, <2>2, <2>4, <2>5, HomeIs, Zenon DEF Stutters, Cut
<1>10. ASSUME NEW i \in DOMAIN mints, Confirmed(i) \/ Recovered(i)
       PROVE  Stutters
  <2>1. /\ chain'["L1"].tree = chain["L1"].tree /\ chain'["GW"] = chain["GW"] /\ settledOn' = settledOn
    BY <1>10, <1>a, Zenon DEF Confirmed, Recovered, Diamonds
  <2>2. (Away' /\ Registered') <=> (Away /\ Registered)
    BY <1>10, <1>i, Stages, Zenon DEF SameStages
  <2>3. QED
    BY <2>1, <2>2, HomeIs, Zenon DEF Stutters, Cut
<1>11. QED
  BY <1>1, <1>2, <1>3, <1>4, <1>5, <1>6, <1>7, <1>8, <1>9, <1>10, Zenon DEF StepClasses

\* The initial states are initial states of SettledChain.
LEMMA SettledInit == OpsInit => Settled!Init
<1> SUFFICES ASSUME OpsInit PROVE Settled!Init
  BY Zenon
<1>1. Init /\ MigrationInv
  BY OpsInvInit, Zenon DEF OpsInit, OpsInv
<1>2. chain["L1"].tree.leaves = <<>> /\ settledOn = <<>>
  <2>1. /\ chain["L1"] = [NoDiamond EXCEPT !.deployed = TRUE, !.tree = setup(StartIndex), !.daPair = TRUE,
                                           !.validators = TRUE]
        /\ settledOn = <<>>
    BY <1>1, Zenon DEF Init
  <2>2. chain["L1"].tree = setup(StartIndex)
    BY <2>1, Zenon DEF NoDiamond
  <2>3. QED
    BY <2>1, <2>2 DEF setup, EmptyTree
<1>3. Home.executed = 0 /\ Cut = 0
  BY <1>1, <1>2, SettledState DEF SettledIs
<1>4. SubSeq(<<>>, 1, 0) = <<>>
  OBVIOUS
<1>5. QED
  BY <1>1, <1>2, <1>3, <1>4, SettledState, Zenon DEF SettledIs, Settled!Init, Cut

\* Every step of the contracts is a step of SettledChain or leaves it as it is:
\* a request on L1 is a request, an executed batch, on either layer, settles the
\* next operations, and no part of a migration is seen.
LEMMA SettledStep ==
    ASSUME OpsInv, OpsInv', SettledIs, SettledIs', [OpsNext]_allVars
    PROVE  [Settled!Next]_(Settled!settledVars)
<1> DEFINE a == chain["L1"].tree.leaves
           b == chain'["L1"].tree.leaves
           n == Cut
           m == Cut'
<1>0. MigrationInv /\ MigrationInv'
  BY Zenon DEF OpsInv
<1>1. /\ SubSeq(Home.tree.leaves, 1, Home.tree.unprocessedIndex) = SubSeq(a, 1, n)
      /\ Len(SubSeq(a, 1, n)) = n /\ n \in Nat /\ n <= Len(a) /\ Len(a) \in Nat
      /\ Home.executed = Len(settledOn)
  BY Zenon DEF SettledIs
<1>2. /\ SubSeq(Home.tree.leaves, 1, Home.tree.unprocessedIndex)' = SubSeq(b, 1, m)
      /\ m \in Nat /\ m <= Len(b)
      /\ Home'.executed = Len(settledOn')
  BY Zenon DEF SettledIs
<1>3. CASE Stutters
  BY <1>1, <1>2, <1>3, Zenon DEF Stutters, Settled!settledVars
<1>4. CASE b = Append(a, Len(a) + 1) /\ m = n /\ settledOn' = settledOn
  <2>1. a \in Seq(Nat) /\ Len(a) + 1 \in Nat
    BY <1>1 DEF SettledIs
  <2> HIDE DEF a, b, n, m
  <2>2. IsSegment(Append(a, Len(a) + 1), 0, a)
    BY <2>1 DEF IsSegment
  <2>3. Append(a, Len(a) + 1) \in Seq(Nat)
    BY <2>1
  <2>4. SubSeq(b, 1, m) = SubSeq(a, 1, n)
    BY <1>1, <1>4, <2>1, <2>2, <2>3, Cuts, Zenon
  <2>5. QED
    BY <1>1, <1>2, <1>4, <2>4, Zenon DEF a, b, Settled!Next, Settled!Request
<1>5. ASSUME NEW k \in Nat, m = n + k, Len(settledOn') = Len(settledOn) + 1, b = a
      PROVE  Settled!Next
  <2> HIDE DEF a, b, n, m
  <2>1. n + k <= Len(a) /\ k \in 0 .. Len(a)
    BY <1>1, <1>2, <1>5
  <2>2. QED
    BY <1>1, <1>2, <1>5, <2>1, Zenon DEF a, b, Settled!Next, Settled!Settle
<1>6. CASE UNCHANGED vars
  BY <1>6, <1>1, <1>2, HomeIs, Zenon DEF vars, Settled!settledVars, Cut, Home
<1>7. CASE ContractNext
  <2>1. StepClasses /\ TypeOK'
    BY <1>0, <1>7, StepCases, Zenon DEF MigrationInv
  <2>2. QED
    BY <1>0, <1>3, <1>4, <1>5, <2>1, SettledMoves, Zenon
<1>8. QED
  BY <1>6, <1>7, OpsStepCases, Zenon

(***************************************************************************)
(* The tool.                                                               *)
(***************************************************************************)

\* The fork of a script has the batch the script proves a message of.
LEMMA InvFork == OpsInv => ForkSeesSettledBatch
  BY Zenon DEF OpsInv, CmdOK, FinalizeOK, FinalizeFromOK, ForkSeesSettledBatch

\* The configuration at the head of the queue finds the chain registered.
LEMMA InvConfiguration == OpsInv => ConfigurationIsNotLost
<1> SUFFICES ASSUME OpsInv, toGateway # <<>>, Head(toGateway).kind \in {"validators", "daPair"}
             PROVE  SucceedsOnGateway(Head(toGateway))
  BY Zenon DEF ConfigurationIsNotLost
<1>1. TypeOK /\ ConfigOK
  BY Zenon DEF OpsInv, MigrationInv
<1>2. 1 \in DOMAIN toGateway /\ Head(toGateway) = toGateway[1]
  BY <1>1 DEF TypeOK
<1>3. Registered
  BY <1>1, <1>2, Zenon DEF ConfigOK
<1>4. QED
  BY <1>2, <1>3, Zenon DEF SucceedsOnGateway, Registered

(***************************************************************************)
(* The theorems.                                                           *)
(***************************************************************************)

\* The invariant of the contracts and of the tool holds throughout a migration,
\* whatever the tool, its operator and the contracts do.
THEOREM MigrationInvariance == OpsSpec => []OpsInv
<1>1. OpsInit => OpsInv
  BY OpsInvInit, Zenon
<1>2. OpsInv /\ [OpsNext]_allVars => OpsInv'
  BY OpsStep, Zenon
<1>3. QED
  BY <1>1, <1>2, PTL DEF OpsSpec

\* The two diamonds of a chain never both accept batches (onlySettlementLayer), and
\* a chain that permanently allowed Priority Mode is never away from L1.
THEOREM ChainSettlesOnOneLayer == OpsSpec => []OneSettlementLayer
<1>1. OpsInv => OneSettlementLayer
  BY InvOneLayer, Zenon DEF OpsInv
<1>2. QED
  BY <1>1, MigrationInvariance, PTL

\* The priority trees of the two layers agree on the operations they hold, so no
\* operation is lost, repeated or overtaken by a migration.
THEOREM PriorityTreesAgree == OpsSpec => []TreesAgree
<1>1. OpsInv => TreesAgree
  BY InvTrees, Zenon DEF OpsInv
<1>2. QED
  BY <1>1, MigrationInvariance, PTL

\* The migration intervals of the chain asset handler attribute each executed
\* batch to the layer it was executed on.
THEOREM SettlementLayersAreRecorded == OpsSpec => []RecordedSettlementLayer
<1>1. OpsInv => RecordedSettlementLayer
  BY InvRecorded, Zenon DEF OpsInv
<1>2. QED
  BY <1>1, MigrationInvariance, PTL

\* A failed migration can be undone on L1 as soon as its failure is provable, unless
\* the diamond there was upgraded since the burn (bridgeConfirmTransferResult), and
\* the finalization of a return by the diamond at its manager's version never
\* reverts for what the gateway sent (bridgeMint).
THEOREM MigrationsAreNotStuck == OpsSpec => []MigrationNotStuck
<1>1. OpsInv => MigrationNotStuck
  BY InvNotStuck, Zenon DEF OpsInv
<1>2. QED
  BY <1>1, MigrationInvariance, PTL

\* The fork on which a finalizing script runs has the gateway batch that the
\* script proves a message of.
THEOREM ForksAreRecent == OpsSpec => []ForkSeesSettledBatch
<1>1. OpsInv => ForkSeesSettledBatch
  BY InvFork, Zenon
<1>2. QED
  BY <1>1, MigrationInvariance, PTL

\* The validators and the DA pair that the tool sends to the gateway find the
\* chain registered there.
THEOREM ConfigurationArrives == OpsSpec => []ConfigurationIsNotLost
<1>1. OpsInv => ConfigurationIsNotLost
  BY InvConfiguration, Zenon
<1>2. QED
  BY <1>1, MigrationInvariance, PTL

\* A chain that migrates settles like one that never does: the contracts, driven
\* by the tool, implement SettledChain.
THEOREM MigrationImplementsSettledChain == OpsSpec => SettlesLikeOneChain
<1>1. OpsInit => Settled!Init
  BY SettledInit, Zenon
<1>2. OpsInv => SettledIs
  BY SettledState, Zenon DEF OpsInv
<1>3. OpsInv /\ OpsInv' /\ SettledIs /\ SettledIs' /\ [OpsNext]_allVars
        => [Settled!Next]_(Settled!settledVars)
  BY SettledStep, Zenon
<1>4. QED
  BY <1>1, <1>2, <1>3, MigrationInvariance, PTL DEF OpsSpec, SettlesLikeOneChain, Settled!Spec


=============================================================================
