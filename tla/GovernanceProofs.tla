--------------------------- MODULE GovernanceProofs ---------------------------
(***************************************************************************)
(* Proofs about Governance for all operations, delays, bounds and depths   *)
(* of nesting.                                                             *)
(***************************************************************************)
EXTENDS Governance, SequenceTheorems, TLAPS

Done(st, op) == st.timestamps[op] = EXECUTED_PROPOSAL_TIMESTAMP

\* Every operation done in `a` is done in `b`.
Extends(a, b) == \A op \in Operations : Done(a, op) => Done(b, op)

\* What holds of a storage and its history, in force or saved in a frame.
Sound(st, hist) ==
    /\ st \in Storage
    /\ hist \in History
    /\ \A op \in Operations : hist.executions[op] = IF Done(st, op) THEN 1 ELSE 0
    /\ \A op \in Operations :
          (Done(st, op) /\ predecessor[op] # NoOperation) => Done(st, predecessor[op])
    /\ \A op \in Operations :
          (st.timestamps[op] # 0 /\ ~Done(st, op)) => st.timestamps[op] >= hist.notBefore[op]

\* What holds of a frame below the storage `st`: it can restore a sound storage,
\* found its predecessor done, and saved nothing done that is not done now.
SoundFrame(f, st) ==
    /\ Sound(f.g, f.h)
    /\ predecessor[f.op] # NoOperation => Done(f.g, predecessor[f.op])
    /\ Extends(f.g, st)

\* The inductive invariant.
GovernanceInv ==
    /\ GovernanceTypeOK
    /\ Sound(g, h)
    /\ \A i \in 1 .. Len(stack) : SoundFrame(stack[i], g)
    /\ \A i, j \in 1 .. Len(stack) : i < j => Extends(stack[i].g, stack[j].g)

\* The initial storage is sound.
LEMMA InitGovernance == Init => GovernanceInv
<1> SUFFICES ASSUME Init PROVE GovernanceInv
  OBVIOUS
<1> USE GovernanceAssumption
<1>1. g \in Storage /\ h \in History
  BY DEF Init, Storage, History
<1>2. GovernanceTypeOK
  BY <1>1 DEF Init, GovernanceTypeOK
<1>3. Sound(g, h)
  BY <1>1 DEF Init, Sound, Done, EXECUTED_PROPOSAL_TIMESTAMP
<1>4. Len(stack) = 0
  BY DEF Init
<1> QED
  BY <1>2, <1>3, <1>4 DEF GovernanceInv

\* A step that changes the storage soundly, undoes no operation and keeps the
\* frames up to their position preserves the invariant.
LEMMA StorageStep ==
    ASSUME GovernanceInv, stack' \in Seq(Frame), Sound(g', h'), Extends(g, g'),
           now' = now, Len(stack') <= Len(stack),
           \A i \in 1 .. Len(stack') :
              /\ stack'[i].op = stack[i].op
              /\ stack'[i].g = stack[i].g
              /\ stack'[i].h = stack[i].h
    PROVE  GovernanceInv'
<1>1. Len(stack) \in Nat /\ Len(stack') \in Nat /\ stack \in Seq(Frame)
  BY DEF GovernanceInv, GovernanceTypeOK
<1>2. \A i \in 1 .. Len(stack') : i \in 1 .. Len(stack)
  BY <1>1
<1>3. GovernanceTypeOK'
  BY DEF GovernanceInv, GovernanceTypeOK, Sound
<1>4. ASSUME NEW i \in 1 .. Len(stack') PROVE SoundFrame(stack'[i], g')
  <2>1. SoundFrame(stack[i], g)
    BY <1>2 DEF GovernanceInv
  <2>2. Extends(stack[i].g, g')
    BY <2>1 DEF SoundFrame, Extends
  <2> QED
    BY <2>1, <2>2 DEF SoundFrame
<1>5. \A i, j \in 1 .. Len(stack') : i < j => Extends(stack'[i].g, stack'[j].g)
  BY <1>2 DEF GovernanceInv
<1> QED
  BY <1>3, <1>4, <1>5 DEF GovernanceInv

\* The values of a timestamp.
Timestamp == {0, EXECUTED_PROPOSAL_TIMESTAMP} \cup {t \in Nat : t >= InitTime}

\* Setting the timestamp of an operation changes nothing else.
LEMMA TimestampUpdate ==
    ASSUME NEW st \in Storage, NEW op \in Operations, NEW t \in Timestamp
    PROVE  /\ [st EXCEPT !.timestamps[op] = t] \in Storage
           /\ [st EXCEPT !.timestamps[op] = t].timestamps = [st.timestamps EXCEPT ![op] = t]
           /\ st.timestamps \in [Operations -> Timestamp]
<1>1. Storage = [timestamps : [Operations -> Timestamp], minDelay : Delays,
                 securityCouncil : Councils]
  BY DEF Storage, Timestamp
<1> QED
  BY <1>1

\* The same for the times of the history.
LEMMA NotBeforeUpdate ==
    ASSUME NEW hist \in History, NEW op \in Operations, NEW t \in Nat
    PROVE  /\ [hist EXCEPT !.notBefore[op] = t] \in History
           /\ [hist EXCEPT !.notBefore[op] = t].executions = hist.executions
           /\ [hist EXCEPT !.notBefore[op] = t].notBefore = [hist.notBefore EXCEPT ![op] = t]
           /\ hist.notBefore \in [Operations -> Nat]
BY DEF History

\* The same for the count of executions.
LEMMA ExecutionsUpdate ==
    ASSUME NEW hist \in History, NEW op \in Operations
    PROVE  /\ [hist EXCEPT !.executions[op] = @ + 1] \in History
           /\ [hist EXCEPT !.executions[op] = @ + 1].notBefore = hist.notBefore
           /\ [hist EXCEPT !.executions[op] = @ + 1].executions
                = [hist.executions EXCEPT ![op] = @ + 1]
           /\ hist.executions \in [Operations -> Nat]
BY DEF History

\* A change that executes and undoes no operation is sound if every pending
\* operation still waits for its delay.
LEMMA SameDone ==
    ASSUME NEW a, NEW ha, Sound(a, ha), NEW b \in Storage, NEW hb \in History,
           \A x \in Operations : Done(b, x) <=> Done(a, x),
           hb.executions = ha.executions,
           \A x \in Operations :
              (b.timestamps[x] # 0 /\ ~Done(b, x)) => b.timestamps[x] >= hb.notBefore[x]
    PROVE  Sound(b, hb) /\ Extends(a, b)
<1>1. \A x \in Operations : hb.executions[x] = IF Done(b, x) THEN 1 ELSE 0
  BY DEF Sound
<1>2. \A x \in Operations :
         (Done(b, x) /\ predecessor[x] # NoOperation) => Done(b, predecessor[x])
  <2>1. \A x \in Operations : predecessor[x] # NoOperation => predecessor[x] \in Operations
    BY GovernanceAssumption
  <2> QED
    BY <2>1 DEF Sound
<1> QED
  BY <1>1, <1>2 DEF Sound, Extends

\* Scheduling touches only an operation that is unset.
LEMMA ScheduleStep ==
    ASSUME GovernanceInv, NEW op \in Operations, NEW delay \in Delays, schedule(op, delay)
    PROVE  GovernanceInv' /\ Extends(g, g')
<1> USE GovernanceAssumption
<1>1. /\ g \in Storage /\ h \in History /\ now \in Nat /\ now >= InitTime
      /\ stack \in Seq(Frame) /\ g.minDelay \in Nat /\ delay \in Nat /\ delay >= g.minDelay
  BY DEF GovernanceInv, GovernanceTypeOK, Storage, schedule
<1>2. now + delay \in Timestamp /\ now + g.minDelay \in Nat
  BY <1>1 DEF Timestamp
<1>3. /\ g' \in Storage /\ g'.timestamps[op] = now + delay
      /\ \A x \in Operations \ {op} : g'.timestamps[x] = g.timestamps[x]
  <2>1. g' = [g EXCEPT !.timestamps[op] = now + delay]
    BY DEF schedule
  <2>2. /\ g' \in Storage /\ g'.timestamps = [g.timestamps EXCEPT ![op] = now + delay]
        /\ g.timestamps \in [Operations -> Timestamp]
    BY <1>1, <1>2, <2>1, TimestampUpdate, Zenon
  <2> QED
    BY <2>2
<1>4. /\ h' \in History /\ h'.executions = h.executions /\ h'.notBefore[op] = now + g.minDelay
      /\ \A x \in Operations \ {op} : h'.notBefore[x] = h.notBefore[x]
  <2> DEFINE t == now + g.minDelay
  <2>1. h' = [h EXCEPT !.notBefore[op] = t] /\ t \in Nat /\ h \in History
    BY <1>1, <1>2 DEF schedule
  <2> HIDE DEF t
  <2>2. /\ h' \in History /\ h'.executions = h.executions
        /\ h'.notBefore = [h.notBefore EXCEPT ![op] = t]
        /\ h.notBefore \in [Operations -> Nat]
    BY <2>1, NotBeforeUpdate
  <2> QED
    BY <2>2 DEF t
<1>5. ~Done(g, op) /\ ~Done(g', op)
  BY <1>1, <1>3 DEF Done, schedule, isOperation, EXECUTED_PROPOSAL_TIMESTAMP
<1>6. \A x \in Operations : Done(g', x) <=> Done(g, x)
  BY <1>3, <1>5 DEF Done
<1>7. ASSUME NEW x \in Operations, g'.timestamps[x] # 0, ~Done(g', x)
      PROVE  g'.timestamps[x] >= h'.notBefore[x]
  <2>1. CASE x = op
    BY <1>1, <1>3, <1>4, <2>1
  <2>2. CASE x # op
    <3>1. g'.timestamps[x] = g.timestamps[x] /\ h'.notBefore[x] = h.notBefore[x] /\ ~Done(g, x)
      BY <1>3, <1>4, <1>6, <1>7, <2>2
    <3> QED
      BY <1>7, <3>1 DEF GovernanceInv, Sound
  <2> QED
    BY <2>1, <2>2
<1>8. Sound(g', h') /\ Extends(g, g')
  <2>1. Sound(g, h)
    BY DEF GovernanceInv
  <2> QED
    BY <1>3, <1>4, <1>6, <1>7, <2>1, SameDone
<1>9. stack' = stack /\ now' = now
  BY DEF schedule
<1> QED
  BY <1>1, <1>8, <1>9, StorageStep

\* Cancelling touches only an operation that is pending.
LEMMA CancelStep ==
    ASSUME GovernanceInv, NEW op \in Operations, cancel(op)
    PROVE  GovernanceInv' /\ Extends(g, g')
<1> USE GovernanceAssumption
<1>1. g \in Storage /\ h \in History /\ stack \in Seq(Frame)
  BY DEF GovernanceInv, GovernanceTypeOK
<1>2. /\ g' \in Storage /\ g'.timestamps[op] = 0
      /\ \A x \in Operations \ {op} : g'.timestamps[x] = g.timestamps[x]
  <2>1. g' = [g EXCEPT !.timestamps[op] = 0]
    BY DEF cancel
  <2>2. 0 \in Timestamp
    BY DEF Timestamp
  <2>3. /\ g' \in Storage /\ g'.timestamps = [g.timestamps EXCEPT ![op] = 0]
        /\ g.timestamps \in [Operations -> Timestamp]
    BY <1>1, <2>1, <2>2, TimestampUpdate, Zenon
  <2> QED
    BY <2>3
<1>3. h' = h /\ stack' = stack /\ now' = now
  BY DEF cancel
<1>4. \A x \in Operations : Done(g', x) <=> Done(g, x)
  BY <1>2 DEF Done, cancel, isOperationPending, isOperationDone, EXECUTED_PROPOSAL_TIMESTAMP
<1>5. ASSUME NEW x \in Operations, g'.timestamps[x] # 0, ~Done(g', x)
      PROVE  g'.timestamps[x] >= h'.notBefore[x]
  <2>1. g'.timestamps[x] = g.timestamps[x] /\ ~Done(g, x)
    BY <1>2, <1>4, <1>5
  <2> QED
    BY <1>3, <1>5, <2>1 DEF GovernanceInv, Sound
<1>6. Sound(g', h') /\ Extends(g, g')
  <2>1. Sound(g, h)
    BY DEF GovernanceInv
  <2> QED
    BY <1>1, <1>2, <1>3, <1>4, <1>5, <2>1, SameDone
<1> QED
  BY <1>1, <1>3, <1>6, StorageStep

\* Moving to the next call of the innermost execution changes its position only.
LEMMA NextCallFrames ==
    ASSUME stack \in Seq(Frame), stack # <<>>
    PROVE  /\ NextCall \in Seq(Frame) /\ Len(NextCall) = Len(stack)
           /\ \A i \in 1 .. Len(stack) :
                 /\ NextCall[i].op = stack[i].op
                 /\ NextCall[i].g = stack[i].g
                 /\ NextCall[i].h = stack[i].h
<1> DEFINE n == Len(stack)
           f == [stack[n] EXCEPT !.pc = @ + 1]
<1>1. n \in 1 .. n /\ n \in Nat /\ stack[n] \in Frame
  OBVIOUS
<1>2. f \in Frame /\ f.op = stack[n].op /\ f.g = stack[n].g /\ f.h = stack[n].h
  BY <1>1 DEF Frame
<1>3. NextCall = [stack EXCEPT ![n] = f]
  BY DEF NextCall
<1> HIDE DEF f
<1>4. NextCall \in Seq(Frame) /\ Len(NextCall) = Len(stack)
  BY <1>1, <1>2, <1>3
<1>5. \A i \in 1 .. Len(stack) : NextCall[i] = IF i = n THEN f ELSE stack[i]
  BY <1>1, <1>3
<1> QED
  BY <1>2, <1>4, <1>5

\* Leaving the innermost execution keeps the others.
LEMMA PopFrames ==
    ASSUME stack \in Seq(Frame), stack # <<>>
    PROVE  /\ Pop \in Seq(Frame) /\ Len(Pop) = Len(stack) - 1
           /\ \A i \in 1 .. Len(Pop) : Pop[i] = stack[i] /\ i \in 1 .. Len(stack) /\ i < Len(stack)
           /\ Len(stack) \in 1 .. Len(stack)
<1>1. Len(stack) \in Nat /\ Len(stack) >= 1
  OBVIOUS
<1> DEFINE n == Len(stack) - 1
<1>2. n \in Int /\ 1 \in Int /\ \A i \in 1 .. n : stack[i] \in Frame
  BY <1>1
<1>3. /\ Pop \in Seq(Frame) /\ Len(Pop) = IF 1 <= n THEN n - 1 + 1 ELSE 0
      /\ \A i \in 1 .. n - 1 + 1 : Pop[i] = stack[1 + i - 1]
  <2> HIDE DEF n
  <2>1. Pop = SubSeq(stack, 1, n)
    BY DEF Pop, n
  <2> QED
    BY <1>2, <2>1, SubSeqProperties
<1>4. \A i \in 1 .. n : Pop[i] = stack[i]
  <2> SUFFICES ASSUME NEW i \in 1 .. n PROVE Pop[i] = stack[i]
    OBVIOUS
  <2>1. i \in 1 .. n - 1 + 1 /\ 1 + i - 1 = i
    BY <1>2
  <2> HIDE DEF n
  <2> QED
    BY <1>3, <2>1
<1>5. Len(Pop) = n
  <2>1. n \in Nat
    BY <1>1
  <2>2. Len(Pop) = IF 1 <= n THEN n - 1 + 1 ELSE 0
    BY <1>3, Zenon
  <2> HIDE DEF n
  <2> QED
    BY <2>1, <2>2
<1>6. \A i \in 1 .. n : i \in 1 .. Len(stack) /\ i < Len(stack)
  BY <1>1
<1>7. n = Len(stack) - 1 /\ Len(stack) \in 1 .. Len(stack)
  BY <1>1
<1> HIDE DEF n
<1> QED
  BY <1>3, <1>4, <1>5, <1>6, <1>7, SMTT(30)

\* The calls of an operation change the configuration or nothing.
LEMMA CallStep ==
    ASSUME GovernanceInv, updateDelay \/ updateSecurityCouncil \/ CallReturns
    PROVE  GovernanceInv' /\ Extends(g, g')
<1> USE GovernanceAssumption
<1>1. g \in Storage /\ h \in History /\ stack \in Seq(Frame) /\ stack # <<>>
  BY DEF GovernanceInv, GovernanceTypeOK, updateDelay, updateSecurityCouncil, CallReturns, Running
<1>2. CurrentCall \in Call
  <2>1. Top.op \in Operations /\ Top.pc \in Nat \ {0}
    <3>1. Top \in Frame
      BY <1>1 DEF Top
    <3> QED
      BY <3>1 DEF Frame
  <2>2. calls[Top.op] \in Seq(Call)
    BY <2>1
  <2>3. Top.pc <= Len(calls[Top.op])
    BY DEF updateDelay, updateSecurityCouncil, CallReturns, Running
  <2> QED
    BY <2>1, <2>2, <2>3 DEF CurrentCall
<1>3. g' \in Storage /\ g'.timestamps = g.timestamps
  <2>1. CASE updateDelay
    <3>1. CurrentCall.arg \in Delays
      BY <1>2, <2>1 DEF updateDelay, Call
    <3> QED
      BY <1>1, <2>1, <3>1, Zenon DEF updateDelay, Storage
  <2>2. CASE updateSecurityCouncil
    <3>1. CurrentCall.arg \in Councils
      BY <1>2, <2>2 DEF updateSecurityCouncil, Call
    <3> QED
      BY <1>1, <2>2, <3>1, Zenon DEF updateSecurityCouncil, Storage
  <2> QED
    BY <1>1, <2>1, <2>2 DEF CallReturns
<1>4. h' = h /\ now' = now /\ stack' = NextCall
  BY DEF updateDelay, updateSecurityCouncil, CallReturns
<1>5. Sound(g', h') /\ Extends(g, g')
  BY <1>1, <1>3, <1>4 DEF GovernanceInv, Sound, Extends, Done
<1>6. Len(stack') <= Len(stack) /\ Len(stack') = Len(stack)
  BY <1>1, <1>4, NextCallFrames
<1> QED
  BY <1>1, <1>4, <1>5, <1>6, NextCallFrames, StorageStep

\* An execution starts with a frame that saves the storage in force.
LEMMA BeginStep ==
    ASSUME GovernanceInv, NEW op \in Operations, NEW instant \in BOOLEAN, Begin(op, instant)
    PROVE  GovernanceInv'
<1> DEFINE f == [op |-> op, instant |-> instant, pc |-> 1, g |-> g, h |-> h]
<1>1. /\ g \in Storage /\ h \in History /\ stack \in Seq(Frame) /\ Len(stack) \in Nat
      /\ g' = g /\ h' = h /\ now' = now /\ stack' = Append(stack, f)
  BY DEF GovernanceInv, GovernanceTypeOK, Begin
<1>2. f \in Frame
  BY <1>1 DEF Frame
<1>3. SoundFrame(f, g)
  BY DEF SoundFrame, GovernanceInv, Extends, Begin, checkPredecessorDone, isOperationDone, Done
<1>4. f.g = g
  OBVIOUS
<1> HIDE DEF f
<1>5. /\ stack' \in Seq(Frame) /\ Len(stack') = Len(stack) + 1
      /\ \A i \in 1 .. Len(stack) : stack'[i] = stack[i]
      /\ stack'[Len(stack) + 1] = f
  BY <1>1, <1>2
<1>6. \A i \in 1 .. Len(stack') : i \in 1 .. Len(stack) \/ i = Len(stack) + 1
  BY <1>1, <1>5
<1>7. \A i \in 1 .. Len(stack') : SoundFrame(stack'[i], g')
  BY <1>1, <1>3, <1>5, <1>6 DEF GovernanceInv
<1>8. ASSUME NEW i \in 1 .. Len(stack'), NEW j \in 1 .. Len(stack'), i < j
      PROVE  Extends(stack'[i].g, stack'[j].g)
  <2>1. i \in 1 .. Len(stack)
    BY <1>1, <1>5, <1>8
  <2>2. CASE j \in 1 .. Len(stack)
    BY <1>5, <1>8, <2>1, <2>2 DEF GovernanceInv
  <2>3. CASE j = Len(stack) + 1
    BY <1>4, <1>5, <2>1, <2>3 DEF GovernanceInv, SoundFrame
  <2> QED
    BY <1>6, <2>2, <2>3
<1>9. GovernanceTypeOK'
  BY <1>1, <1>5 DEF GovernanceInv, GovernanceTypeOK
<1> QED
  BY <1>1, <1>7, <1>8, <1>9 DEF GovernanceInv

\* An execution that completes marks an operation that was pending until then,
\* and whose predecessor, done when it began, is still done.
LEMMA FinishStep ==
    ASSUME GovernanceInv, Finish
    PROVE  GovernanceInv' /\ Extends(g, g')
<1> USE GovernanceAssumption
<1> DEFINE op == Top.op
<1>1. /\ g \in Storage /\ h \in History /\ stack \in Seq(Frame) /\ stack # <<>>
      /\ Sound(g, h)
  BY DEF GovernanceInv, GovernanceTypeOK, Finish
<1>2. Len(stack) \in 1 .. Len(stack)
  BY <1>1, PopFrames
<1>3. op \in Operations /\ SoundFrame(Top, g)
  <2>1. Top \in Frame
    BY <1>1, <1>2 DEF Top
  <2> QED
    BY <1>2, <2>1 DEF Frame, GovernanceInv, Top
<1>4. /\ g' = [g EXCEPT !.timestamps[op] = 1] /\ h' = [h EXCEPT !.executions[op] = @ + 1]
      /\ stack' = Pop /\ now' = now
  BY DEF Finish, Complete, EXECUTED_PROPOSAL_TIMESTAMP
<1>5. ~Done(g, op)
  BY DEF Finish, Executable, isOperationReady, isOperationPending, isOperationDone, Done
<1>6. predecessor[op] # NoOperation => predecessor[op] \in Operations /\ Done(g, predecessor[op])
  BY <1>3 DEF SoundFrame, Extends
<1> HIDE DEF op
<1>7. /\ g' \in Storage /\ Done(g', op)
      /\ \A x \in Operations \ {op} : g'.timestamps[x] = g.timestamps[x]
  <2>1. 1 \in Timestamp
    BY DEF Timestamp, EXECUTED_PROPOSAL_TIMESTAMP
  <2>2. /\ g' \in Storage /\ g'.timestamps = [g.timestamps EXCEPT ![op] = 1]
        /\ g.timestamps \in [Operations -> Timestamp]
    BY <1>1, <1>3, <1>4, <2>1, TimestampUpdate
  <2> QED
    BY <1>3, <2>2 DEF Done, EXECUTED_PROPOSAL_TIMESTAMP
<1>8. /\ h' \in History /\ h'.executions[op] = h.executions[op] + 1
      /\ \A x \in Operations \ {op} : h'.executions[x] = h.executions[x]
      /\ h'.notBefore = h.notBefore
  <2>1. /\ h' \in History /\ h'.executions = [h.executions EXCEPT ![op] = @ + 1]
        /\ h.executions \in [Operations -> Nat] /\ h'.notBefore = h.notBefore
    BY <1>1, <1>3, <1>4, ExecutionsUpdate, Zenon
  <2> QED
    BY <1>3, <2>1
<1>9. Extends(g, g')
  BY <1>7 DEF Extends, Done
<1>10. Sound(g', h')
  <2>1. ASSUME NEW x \in Operations
        PROVE  h'.executions[x] = IF Done(g', x) THEN 1 ELSE 0
    <3>1. CASE x = op
      <4>1. h.executions[op] = 0
        BY <1>1, <1>3, <1>5 DEF Sound
      <4> QED
        BY <1>7, <1>8, <3>1, <4>1
    <3>2. CASE x # op
      BY <1>1, <1>7, <1>8, <3>2, SMTT(30) DEF Sound, Done
    <3> QED
      BY <3>1, <3>2
  <2>2. ASSUME NEW x \in Operations, Done(g', x), predecessor[x] # NoOperation
        PROVE  Done(g', predecessor[x])
    <3>1. predecessor[x] \in Operations
      BY <2>2
    <3>2. Done(g, predecessor[x])
      <4>1. CASE x = op
        BY <1>6, <2>2, <4>1
      <4>2. CASE x # op
        BY <1>1, <1>7, <2>2, <4>2 DEF Sound, Done
      <4> QED
        BY <4>1, <4>2
    <3> QED
      BY <1>9, <3>1, <3>2 DEF Extends
  <2>3. ASSUME NEW x \in Operations, g'.timestamps[x] # 0, ~Done(g', x)
        PROVE  g'.timestamps[x] >= h'.notBefore[x]
    <3>1. x # op
      BY <1>7, <2>3
    <3>2. g'.timestamps[x] = g.timestamps[x] /\ ~Done(g, x)
      BY <1>7, <2>3, <3>1 DEF Done
    <3> QED
      BY <1>1, <1>8, <2>3, <3>2 DEF Sound
  <2> QED
    BY <1>7, <1>8, <2>1, <2>2, <2>3 DEF Sound
<1>11. /\ stack' \in Seq(Frame) /\ Len(stack') <= Len(stack)
       /\ \A i \in 1 .. Len(stack') : stack'[i] = stack[i]
  BY <1>1, <1>4, PopFrames
<1> QED
  BY <1>4, <1>9, <1>10, <1>11, StorageStep

\* An execution that fails restores what its frame saved.
LEMMA FailStep ==
    ASSUME GovernanceInv, Fail
    PROVE  GovernanceInv'
<1>1. stack \in Seq(Frame) /\ stack # <<>>
  BY DEF GovernanceInv, GovernanceTypeOK, Fail
<1>2. /\ Pop \in Seq(Frame) /\ Len(stack) \in 1 .. Len(stack)
      /\ \A i \in 1 .. Len(Pop) : Pop[i] = stack[i] /\ i \in 1 .. Len(stack) /\ i < Len(stack)
  BY <1>1, PopFrames
<1>3. g' = stack[Len(stack)].g /\ h' = stack[Len(stack)].h /\ stack' = Pop /\ now' = now
  BY DEF Fail, Top
<1>4. Sound(g', h')
  BY <1>2, <1>3 DEF GovernanceInv, SoundFrame
<1>5. ASSUME NEW i \in 1 .. Len(stack') PROVE SoundFrame(stack'[i], g')
  <2>1. stack'[i] = stack[i] /\ i \in 1 .. Len(stack) /\ i < Len(stack)
    BY <1>2, <1>3
  <2>2. SoundFrame(stack[i], g)
    BY <2>1 DEF GovernanceInv
  <2>3. Extends(stack[i].g, g')
    BY <1>2, <1>3, <2>1 DEF GovernanceInv
  <2> QED
    BY <2>1, <2>2, <2>3 DEF SoundFrame
<1>6. \A i, j \in 1 .. Len(stack') : i < j => Extends(stack'[i].g, stack'[j].g)
  BY <1>2, <1>3 DEF GovernanceInv
<1>7. GovernanceTypeOK'
  BY <1>2, <1>3, <1>4 DEF GovernanceInv, GovernanceTypeOK, Sound
<1> QED
  BY <1>4, <1>5, <1>6, <1>7 DEF GovernanceInv

\* Time passes between transactions only.
LEMMA TickStep ==
    ASSUME GovernanceInv, Tick \/ UNCHANGED vars
    PROVE  GovernanceInv'
<1>1. g' = g /\ h' = h /\ stack' = stack
  BY DEF Tick, vars
<1>2. now' \in Nat /\ now' >= InitTime
  BY GovernanceAssumption DEF Tick, vars, GovernanceInv, GovernanceTypeOK
<1> QED
  BY <1>1, <1>2 DEF GovernanceInv, GovernanceTypeOK, Sound, SoundFrame, Extends, Done

\* Every step preserves the inductive invariant.
LEMMA NextGovernance == GovernanceInv /\ [Next]_vars => GovernanceInv'
<1> SUFFICES ASSUME GovernanceInv, [Next]_vars PROVE GovernanceInv'
  OBVIOUS
<1>1. CASE \E op \in Operations, delay \in Delays : schedule(op, delay)
  BY <1>1, ScheduleStep
<1>2. CASE \E op \in Operations : cancel(op)
  BY <1>2, CancelStep
<1>3. CASE \E op \in Operations, sender \in Councils \cup {Owner} :
              execute(sender, op) \/ executeInstant(sender, op)
  BY <1>3, BeginStep, Zenon DEF execute, executeInstant
<1>4. CASE updateDelay \/ updateSecurityCouncil \/ CallReturns
  BY <1>4, CallStep
<1>5. CASE Finish
  BY <1>5, FinishStep
<1>6. CASE Fail
  BY <1>6, FailStep
<1>7. CASE Tick \/ UNCHANGED vars
  BY <1>7, TickStep
<1> QED
  BY <1>1, <1>2, <1>3, <1>4, <1>5, <1>6, <1>7, Zenon DEF Next

\* The inductive invariant holds at every depth of nesting.
THEOREM GovernanceInvariance == Spec => []GovernanceInv
BY InitGovernance, NextGovernance, PTL DEF Spec

\* The calls of an operation take effect at most once, whatever they call back.
THEOREM OperationsExecutedOnce == Spec => []ExecutedOnce
<1>1. GovernanceInv => ExecutedOnce
  BY DEF GovernanceInv, Sound, ExecutedOnce, isOperationDone, Done
<1> QED
  BY <1>1, GovernanceInvariance, PTL

\* An operation is executed after its predecessor.
THEOREM PredecessorsExecutedFirst == Spec => []PredecessorsFirst
<1>1. GovernanceInv => PredecessorsFirst
  <2> SUFFICES ASSUME GovernanceInv, NEW op \in Operations, h.executions[op] > 0,
                      predecessor[op] # NoOperation
               PROVE  h.executions[predecessor[op]] > 0
    BY DEF PredecessorsFirst
  <2>1. predecessor[op] \in Operations
    BY GovernanceAssumption
  <2>2. Done(g, op)
    BY DEF GovernanceInv, Sound
  <2>3. Done(g, predecessor[op])
    BY <2>2 DEF GovernanceInv, Sound
  <2> QED
    BY <2>1, <2>3 DEF GovernanceInv, Sound
<1> QED
  BY <1>1, GovernanceInvariance, PTL

\* Every variable keeps its type; 0 and 1 are never mistaken for a time.
THEOREM GovernanceTypeCorrect == Spec => []GovernanceTypeOK
<1>1. GovernanceInv => GovernanceTypeOK
  BY DEF GovernanceInv
<1> QED
  BY <1>1, GovernanceInvariance, PTL

\* The steps other than failing undo no operation, and those other than
\* completing execute none.
LEMMA StepEffects ==
    ASSUME GovernanceInv, [Next]_vars
    PROVE  /\ Fail \/ Extends(g, g')
           /\ Fail \/ Finish \/ h'.executions = h.executions
<1>1. CASE \E op \in Operations, delay \in Delays : schedule(op, delay)
  <2>1. PICK op \in Operations, delay \in Delays : schedule(op, delay)
    BY <1>1
  <2>2. h'.executions = h.executions
    BY <2>1 DEF schedule, GovernanceInv, GovernanceTypeOK, History
  <2> QED
    BY <2>1, <2>2, ScheduleStep
<1>2. CASE \E op \in Operations : cancel(op)
  BY <1>2, CancelStep DEF cancel
<1>3. CASE \E op \in Operations, sender \in Councils \cup {Owner} :
              execute(sender, op) \/ executeInstant(sender, op)
  BY <1>3, Zenon DEF execute, executeInstant, Begin, Extends
<1>4. CASE updateDelay \/ updateSecurityCouncil \/ CallReturns
  BY <1>4, CallStep DEF updateDelay, updateSecurityCouncil, CallReturns
<1>5. CASE Finish
  BY <1>5, FinishStep
<1>6. CASE Tick \/ UNCHANGED vars
  BY <1>6 DEF Tick, vars, Extends
<1> QED
  BY <1>1, <1>2, <1>3, <1>4, <1>5, <1>6, Zenon DEF Next

\* An operation that is executed without the council has waited for its delay.
THEOREM DelaysAreRespected == Spec => DelayRespected
<1>1. ASSUME GovernanceInv, [Next]_vars, NEW op \in Operations,
             h'.executions[op] > h.executions[op], ~Top.instant
      PROVE  now >= h.notBefore[op]
  <2>1. CASE Finish
    <3>1. Top.op \in Operations /\ stack # <<>>
      <4>1. stack \in Seq(Frame) /\ stack # <<>>
        BY <1>1, <2>1 DEF GovernanceInv, GovernanceTypeOK, Finish
      <4>2. Top \in Frame
        BY <4>1 DEF Top
      <4> QED
        BY <4>1, <4>2 DEF Frame
    <3>2. op = Top.op
      <4>1. h' = [h EXCEPT !.executions[Top.op] = @ + 1] /\ h \in History
        BY <1>1, <2>1 DEF Finish, Complete, GovernanceInv, GovernanceTypeOK
      <4>2. /\ h'.executions = [h.executions EXCEPT ![Top.op] = @ + 1]
            /\ h.executions \in [Operations -> Nat]
        BY <3>1, <4>1, ExecutionsUpdate, Zenon
      <4> QED
        BY <1>1, <3>1, <4>2
    <3>3. g.timestamps[op] # 0 /\ ~Done(g, op) /\ g.timestamps[op] <= now
      BY <1>1, <2>1, <3>2 DEF Finish, Executable, isOperationReady, isOperationPending,
         isOperation, isOperationDone, Done
    <3>4. g.timestamps[op] >= h.notBefore[op]
      BY <1>1, <3>3 DEF GovernanceInv, Sound
    <3>5. g.timestamps[op] \in Nat /\ h.notBefore[op] \in Nat /\ now \in Nat
      <4>1. g \in Storage /\ h \in History /\ now \in Nat
        BY <1>1 DEF GovernanceInv, GovernanceTypeOK
      <4>2. g.timestamps \in [Operations -> Timestamp] /\ h.notBefore \in [Operations -> Nat]
        BY <4>1 DEF Storage, History, Timestamp
      <4>3. Timestamp \subseteq Nat
        BY DEF Timestamp, EXECUTED_PROPOSAL_TIMESTAMP
      <4> QED
        BY <4>1, <4>2, <4>3, Zenon
    <3> QED
      BY <3>3, <3>4, <3>5
  <2>2. CASE Fail
    <3>1. stack \in Seq(Frame) /\ stack # <<>> /\ h' = stack[Len(stack)].h
      BY <1>1, <2>2 DEF GovernanceInv, GovernanceTypeOK, Fail, Top
    <3>2. SoundFrame(stack[Len(stack)], g)
      BY <1>1, <3>1, PopFrames DEF GovernanceInv
    <3> QED
      BY <1>1, <3>1, <3>2 DEF GovernanceInv, SoundFrame, Sound, Extends
  <2>3. CASE h'.executions = h.executions
    <3>1. h.executions[op] \in Nat
      BY <1>1 DEF GovernanceInv, GovernanceTypeOK, History
    <3> QED
      BY <1>1, <2>3, <3>1
  <2> QED
    BY <1>1, <2>1, <2>2, <2>3, StepEffects
<1>2. GovernanceInv /\ [Next]_vars =>
        [\A op \in Operations :
           (h'.executions[op] > h.executions[op] /\ ~Top.instant) => now >= h.notBefore[op]]_vars
  BY <1>1
<1> QED
  BY <1>2, GovernanceInvariance, PTL DEF Spec, DelayRespected

\* While a transaction is in progress its outermost frame stays.
LEMMA OutermostFrame ==
    ASSUME GovernanceInv, [Next]_vars, stack # <<>>, stack' # <<>>
    PROVE  stack'[1].g = stack[1].g
<1>1. stack \in Seq(Frame) /\ Len(stack) \in Nat /\ 1 \in 1 .. Len(stack)
  BY DEF GovernanceInv, GovernanceTypeOK
<1>2. CASE stack' = stack
  BY <1>2
<1>3. CASE stack' = NextCall
  BY <1>1, <1>3, NextCallFrames
<1>4. CASE stack' = Pop
  <2>1. Pop \in Seq(Frame) /\ \A i \in 1 .. Len(Pop) : Pop[i] = stack[i]
    BY <1>1, PopFrames
  <2>2. 1 \in 1 .. Len(Pop)
    BY <1>4, <2>1
  <2> QED
    BY <1>4, <2>1, <2>2
<1>5. CASE \E op \in Operations, instant \in BOOLEAN : Begin(op, instant)
  BY <1>1, <1>5 DEF Begin
<1> QED
  BY <1>2, <1>3, <1>4, <1>5, Zenon
  DEF Next, vars, schedule, cancel, execute, executeInstant, updateDelay,
      updateSecurityCouncil, CallReturns, Finish, Complete, Fail, Tick

\* An executed operation stays executed once its transaction is over.
THEOREM DoneStaysDone == Spec => DoneIsFinal
<1>1. ASSUME GovernanceInv, [Next]_vars
      PROVE  Extends(Settled, Settled') /\ Extends(Settled, g')
  <2>1. Extends(Settled, g)
    <3>1. CASE stack = <<>>
      BY <3>1 DEF Settled, Extends
    <3>2. CASE stack # <<>>
      <4>1. 1 \in 1 .. Len(stack)
        BY <1>1, <3>2 DEF GovernanceInv, GovernanceTypeOK
      <4> QED
        BY <1>1, <3>2, <4>1 DEF Settled, GovernanceInv, SoundFrame
    <3> QED
      BY <3>1, <3>2
  <2>2. Extends(Settled, g')
    <3>1. CASE Fail
      <4>1. stack # <<>> /\ stack \in Seq(Frame) /\ g' = stack[Len(stack)].g
        BY <1>1, <3>1 DEF Fail, Top, GovernanceInv, GovernanceTypeOK
      <4>2. Settled = stack[1].g
        BY <4>1, Zenon DEF Settled
      <4>3. Len(stack) \in Nat /\ 1 \in 1 .. Len(stack) /\ Len(stack) \in 1 .. Len(stack)
        BY <4>1
      <4>4. CASE Len(stack) = 1
        BY <4>1, <4>2, <4>4 DEF Extends
      <4>5. CASE 1 < Len(stack)
        BY <1>1, <4>1, <4>2, <4>3, <4>5 DEF GovernanceInv
      <4>6. Len(stack) = 1 \/ 1 < Len(stack)
        <5>1. \A n \in Nat : 1 \in 1 .. n => n = 1 \/ 1 < n
          OBVIOUS
        <5> QED
          BY <4>3, <5>1, Zenon
      <4> QED
        BY <4>4, <4>5, <4>6, Zenon
    <3>2. CASE Extends(g, g')
      BY <2>1, <3>2 DEF Extends
    <3> QED
      BY <1>1, <3>1, <3>2, StepEffects
  <2>3. CASE stack' = <<>>
    BY <2>2, <2>3 DEF Settled
  <2>4. CASE stack # <<>> /\ stack' # <<>>
    <3>1. Settled' = Settled
      BY <1>1, <2>4, OutermostFrame DEF Settled
    <3> QED
      BY <2>2, <3>1 DEF Extends
  <2>5. CASE stack = <<>> /\ stack' # <<>>
    <3>1. PICK op \in Operations, instant \in BOOLEAN : Begin(op, instant)
      BY <1>1, <2>5, Zenon
      DEF Next, vars, schedule, cancel, execute, executeInstant, updateDelay,
          updateSecurityCouncil, CallReturns, Finish, Fail, Tick, Running
    <3>2. stack'[1].g = g
      BY <2>5, <3>1 DEF Begin
    <3>3. Settled' = Settled
      BY <2>5, <3>2 DEF Settled
    <3> QED
      BY <2>2, <3>3 DEF Extends
  <2> QED
    BY <2>2, <2>3, <2>4, <2>5
<1>2. GovernanceInv /\ [Next]_vars =>
        [\A op \in Operations :
           Settled.timestamps[op] = EXECUTED_PROPOSAL_TIMESTAMP
              => /\ Settled'.timestamps[op] = EXECUTED_PROPOSAL_TIMESTAMP
                 /\ g'.timestamps[op] = EXECUTED_PROPOSAL_TIMESTAMP]_vars
  BY <1>1 DEF Extends, Done
<1> QED
  BY <1>2, GovernanceInvariance, PTL DEF Spec, DoneIsFinal
=============================================================================
