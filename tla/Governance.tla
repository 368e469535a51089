------------------------------ MODULE Governance ------------------------------
(***************************************************************************)
(* The timelocked operations of governance/Governance.sol.                 *)
(*                                                                         *)
(* An operation is a list of calls.  While one of them is running in       *)
(* another contract, that contract, or whoever it calls in turn, may call  *)
(* Governance again.  So an execution is not one step: `stack` holds the   *)
(* executions in progress, the innermost last, all within one transaction. *)
(* A frame that fails restores the storage it started from; the contract   *)
(* that made the failed call may go on or fail as well.                    *)
(*                                                                         *)
(* An operation stands for its hash.  Owner is constant (Ownable2Step's    *)
(* transfer is not modelled), and ether sent with the calls is left out.   *)
(***************************************************************************)
EXTENDS Integers, Sequences

CONSTANTS
    Operations,     \* the operations somebody may propose
    NoOperation,    \* bytes32(0) as a predecessor
    predecessor,    \* predecessor[op] is the operation that has to be done first
    calls,          \* calls[op] is the sequence of calls of op
    Owner,
    Councils,       \* addresses that may become the security council
    Delays,         \* delays proposed or set
    InitDelay,
    InitCouncil,
    InitTime,       \* block.timestamp of the deployment
    MaxTime,        \* bound: time stops here
    MaxDepth        \* bound: nested executions

\* A call that leaves Governance, and the calls Governance makes to itself.
Call ==
    [kind : {"external"}] \cup [kind : {"updateDelay"}, arg : Delays]
        \cup [kind : {"updateSecurityCouncil"}, arg : Councils]

ASSUME GovernanceAssumption ==
    /\ NoOperation \notin Operations
    /\ predecessor \in [Operations -> Operations \cup {NoOperation}]
    /\ calls \in [Operations -> Seq(Call)]
    /\ Delays \subseteq Nat
    /\ InitDelay \in Delays
    /\ InitCouncil \in Councils
    /\ InitTime \in Nat /\ InitTime > 1
    /\ MaxTime \in Nat
    /\ MaxDepth \in Nat

VARIABLES
    g,      \* the storage: timestamps, minDelay, securityCouncil
    h,      \* history, read by no action: for each operation how often it was
            \* executed, and the earliest time its last scheduling allows
    stack,  \* the executions in progress
    now     \* block.timestamp

vars == <<g, h, stack, now>>

EXECUTED_PROPOSAL_TIMESTAMP == 1

Init ==
    /\ g = [timestamps |-> [op \in Operations |-> 0],
            minDelay |-> InitDelay,
            securityCouncil |-> InitCouncil]
    /\ h = [executions |-> [op \in Operations |-> 0], notBefore |-> [op \in Operations |-> 0]]
    /\ stack = <<>>
    /\ now = InitTime

(***************************************************************************)
(* Operation states.                                                       *)
(***************************************************************************)
isOperation(op) == g.timestamps[op] # 0

isOperationDone(op) == g.timestamps[op] = EXECUTED_PROPOSAL_TIMESTAMP

isOperationPending(op) == isOperation(op) /\ ~isOperationDone(op)

isOperationReady(op) == isOperationPending(op) /\ g.timestamps[op] <= now

\* Mutant: a scheduled predecessor is enough.
PredecessorScheduled(op) ==
    predecessor[op] # NoOperation => isOperation(predecessor[op])

checkPredecessorDone(op) ==
    predecessor[op] # NoOperation => isOperationDone(predecessor[op])

(***************************************************************************)
(* The call in progress.                                                   *)
(***************************************************************************)
Top == stack[Len(stack)]

Pop == SubSeq(stack, 1, Len(stack) - 1)

Running == stack # <<>> /\ Top.pc <= Len(calls[Top.op])

CurrentCall == calls[Top.op][Top.pc]

\* Governance can be called at the start of a transaction and from the contract
\* that the innermost execution is calling.
Callable == stack = <<>> \/ (Running /\ CurrentCall.kind = "external")

NextCall == [stack EXCEPT ![Len(stack)].pc = @ + 1]

(***************************************************************************)
(* Scheduling and cancelling.                                              *)
(***************************************************************************)

\* scheduleTransparent and scheduleShadow differ in what they publish.
schedule(op, delay) ==
    /\ Callable
    /\ ~isOperation(op)
    /\ delay >= g.minDelay
    /\ g' = [g EXCEPT !.timestamps[op] = now + delay]
    /\ h' = [h EXCEPT !.notBefore[op] = now + g.minDelay]
    /\ UNCHANGED <<stack, now>>

cancel(op) ==
    /\ Callable
    /\ isOperationPending(op)
    /\ g' = [g EXCEPT !.timestamps[op] = 0]
    /\ UNCHANGED <<h, stack, now>>

(***************************************************************************)
(* Executing: the checks before the calls, the calls, the checks and the   *)
(* assignment after them.                                                  *)
(***************************************************************************)
Executable(op, instant) == IF instant THEN isOperationPending(op) ELSE isOperationReady(op)

Begin(op, instant) ==
    /\ Callable
    /\ Len(stack) < MaxDepth
    /\ checkPredecessorDone(op)
    /\ Executable(op, instant)
    /\ stack' = Append(stack, [op |-> op, instant |-> instant, pc |-> 1, g |-> g, h |-> h])
    /\ UNCHANGED <<g, h, now>>

execute(sender, op) ==
    /\ sender \in {Owner, g.securityCouncil}
    /\ Begin(op, FALSE)

executeInstant(sender, op) ==
    /\ sender = g.securityCouncil
    /\ Begin(op, TRUE)

updateDelay ==
    /\ Running
    /\ CurrentCall.kind = "updateDelay"
    /\ g' = [g EXCEPT !.minDelay = CurrentCall.arg]
    /\ stack' = NextCall
    /\ UNCHANGED <<h, now>>

updateSecurityCouncil ==
    /\ Running
    /\ CurrentCall.kind = "updateSecurityCouncil"
    /\ g' = [g EXCEPT !.securityCouncil = CurrentCall.arg]
    /\ stack' = NextCall
    /\ UNCHANGED <<h, now>>

\* The called contract returns.
CallReturns ==
    /\ Running
    /\ CurrentCall.kind = "external"
    /\ stack' = NextCall
    /\ UNCHANGED <<g, h, now>>

Complete ==
    /\ g' = [g EXCEPT !.timestamps[Top.op] = EXECUTED_PROPOSAL_TIMESTAMP]
    /\ h' = [h EXCEPT !.executions[Top.op] = @ + 1]
    /\ stack' = Pop
    /\ UNCHANGED now

\* Mutant: the state of the operation is not looked at again after the calls.
FinishUnconfirmed ==
    /\ stack # <<>>
    /\ ~Running
    /\ Complete

\* Mutant: after the calls a pending operation is good enough for both.
FinishPending ==
    /\ stack # <<>>
    /\ ~Running
    /\ isOperationPending(Top.op)
    /\ Complete

Finish ==
    /\ stack # <<>>
    /\ ~Running
    /\ Executable(Top.op, Top.instant)
    /\ Complete

\* A call, or the check after the calls, fails.
Fail ==
    /\ stack # <<>>
    /\ g' = Top.g
    /\ h' = Top.h
    /\ stack' = Pop
    /\ UNCHANGED now

Tick ==
    /\ stack = <<>>
    /\ now < MaxTime
    /\ now' = now + 1
    /\ UNCHANGED <<g, h, stack>>

Next ==
    \/ \E op \in Operations :
          \/ \E delay \in Delays : schedule(op, delay)
          \/ cancel(op)
          \/ \E sender \in Councils \cup {Owner} : execute(sender, op)
          \/ \E sender \in Councils \cup {Owner} : executeInstant(sender, op)
    \/ updateDelay
    \/ updateSecurityCouncil
    \/ CallReturns
    \/ Finish
    \/ Fail
    \/ Tick

Spec == Init /\ [][Next]_vars

(***************************************************************************)
(* Properties.                                                             *)
(***************************************************************************)
Storage ==
    [timestamps : [Operations -> {0, EXECUTED_PROPOSAL_TIMESTAMP} \cup {t \in Nat : t >= InitTime}],
     minDelay : Delays,
     securityCouncil : Councils]

History == [executions : [Operations -> Nat], notBefore : [Operations -> Nat]]

Frame == [op : Operations, instant : BOOLEAN, pc : Nat \ {0}, g : Storage, h : History]

\* The types of Governance's storage.  A timestamp is 0, 1 or a time at which the
\* contract existed, so the two special values are never mistaken for a time.
GovernanceTypeOK ==
    /\ g \in Storage
    /\ h \in History
    /\ stack \in Seq(Frame)
    /\ now \in Nat /\ now >= InitTime

\* However executions are nested, cancelled, scheduled again and reverted, the
\* calls of an operation take effect at most once, and exactly when its
\* timestamp says so (the second check in execute and executeInstant).
ExecutedOnce ==
    \A op \in Operations : h.executions[op] = IF isOperationDone(op) THEN 1 ELSE 0

\* An operation has been executed only if its predecessor has, although the
\* predecessor is looked at before the calls and not after (_checkPredecessorDone).
PredecessorsFirst ==
    \A op \in Operations :
        (h.executions[op] > 0 /\ predecessor[op] # NoOperation) => h.executions[predecessor[op]] > 0

\* An operation completed by `execute` was last scheduled at least the minimum
\* delay before, as that was at the time, even if it was cancelled and scheduled
\* again by the calls it makes or the minimum changed since (_schedule).
DelayRespected ==
    [][\A op \in Operations :
         (h'.executions[op] > h.executions[op] /\ ~Top.instant) => now >= h.notBefore[op]]_vars

\* The storage as the transaction in progress found it.
Settled == IF stack = <<>> THEN g ELSE stack[1].g

\* Once the transaction that executed an operation is over the operation stays
\* executed, in the storage and in whatever a later failure restores (cancel
\* accepts pending operations only).
DoneIsFinal ==
    [][\A op \in Operations :
         Settled.timestamps[op] = EXECUTED_PROPOSAL_TIMESTAMP
            => /\ Settled'.timestamps[op] = EXECUTED_PROPOSAL_TIMESTAMP
               /\ g'.timestamps[op] = EXECUTED_PROPOSAL_TIMESTAMP]_vars
=============================================================================
