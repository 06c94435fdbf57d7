------------------------ MODULE RetainedWorkerProofs ------------------------
(***************************************************************************)
(* For every set of tasks and stores, every queue length and whatever the  *)
(* bounds: the names and the mutexes of the retained worker's interface    *)
(* are where the code's control flow puts them.  The invariant is Typed,   *)
(* and Control: where a task stands in its call decides, both ways, which  *)
(* of the two mutexes and the three names it holds, and the flush mutex is *)
(* the worker's exactly while its pass is among the stores.  The second    *)
(* half is about data: what a pass for a call has saved when the call is   *)
(* told OK (ForcedInv).                                                    *)
(***************************************************************************)
EXTENDS RetainedWorker, SequenceTheorems, TLAPS

CallType == [n : 0 .. MaxCalls, mode : Modes \cup {"none"}, seen : [Stores -> Nat],
             ret : Returns, store : Stores, snap : Nat, home : {"idle", "owned"}]
WorkerType == [pc : {"idle", "lock", "observe", "ready", "write", "flushed", "publish"},
               req : 0 .. MaxCalls, i : 1 .. StoreCount + 1, snap : Nat, err : Returns]

(* WorkerTypeOK in named parts, with what it needs to be inductive: a forced*)
(* call has a number, and a pass that flushes is at a store.               *)
ForceLabels == {"f_lock", "f_register", "f_send", "f_poll"}
TasksType ==
  /\ pc \in [Tasks -> TaskLabels] /\ call \in [Tasks -> CallType]
  /\ \A t \in Tasks : pc[t] \in ForceLabels => call[t].n # 0
SignalsType ==
  /\ mutex \in [request : Holders, flush : Holders]
  /\ quiesce \in [requester : Tasks \cup {NoTask}, owner : Tasks \cup {NoTask}, preempt : BOOLEAN]
  /\ forcer \in Tasks \cup {NoTask}
QueueType ==
  /\ queue \in Seq(1 .. MaxCalls) /\ Len(queue) <= QueueLength
  /\ result \in [id : 0 .. MaxCalls, ret : Returns]
PassType ==
  /\ worker \in WorkerType
  /\ worker.pc \in {"ready", "write"} => worker.i \in Stores
StoresType ==
  /\ rev \in [Stores -> Nat] /\ saved \in [Stores -> Nat] /\ io \in [Stores -> Holders]
BoundsType ==
  /\ passed \subseteq 1 .. MaxCalls
  /\ used \in [calls : 0 .. MaxCalls, changes : 0 .. MaxChanges, faults : 0 .. MaxFaults]

Typed == TasksType /\ SignalsType /\ QueueType /\ PassType /\ StoresType /\ BoundsType

LEMMA TypedIsTypeOK == Typed => WorkerTypeOK
  BY DEF Typed, TasksType, SignalsType, QueueType, PassType, StoresType, BoundsType,
         WorkerTypeOK, CallType, WorkerType

LEMMA NoCallTyped == ASSUME NEW r \in Returns PROVE NoCall \in CallType /\ [NoCall EXCEPT !.ret = r] \in CallType
  BY CountsAssumption DEF NoCall, CallType, Stores, Returns

LEMMA ReturnTyped ==
  ASSUME TasksType, NEW t \in Tasks, NEW r \in Returns, Return(t, r)
  PROVE  TasksType'
  BY NoCallTyped DEF TasksType, Return, Goto, TaskLabels, ForceLabels

LEMMA GotoTyped ==
  ASSUME TasksType, NEW t \in Tasks, NEW l \in TaskLabels, Goto(t, l), UNCHANGED call,
         l \in ForceLabels => call[t].n # 0
  PROVE  TasksType'
  BY DEF TasksType, Goto

LEMMA TakeTyped ==
  ASSUME SignalsType, NEW l \in {"request", "flush"}, NEW t \in Holders, UNCHANGED <<quiesce, forcer>>,
         Take(l, t) \/ Give(l) \/ GiveBoth \/ UNCHANGED mutex
  PROVE  SignalsType'
  BY DEF SignalsType, Take, Give, GiveBoth, Holders

LEMMA InitTyped == WorkerInit => Typed
<1> SUFFICES ASSUME WorkerInit PROVE Typed
  OBVIOUS
<1> USE DEF WorkerInit
<1>1. TasksType
  <2>1. NoCall \in CallType  BY NoCallTyped DEF Returns
  <2> QED BY <2>1 DEF TasksType, TaskLabels, ForceLabels
<1>2. SignalsType  BY DEF SignalsType, Holders
<1>3. QueueType  BY CountsAssumption DEF QueueType, Returns
<1>4. PassType  BY CountsAssumption DEF PassType, IdleWorker, WorkerType, Returns
<1>5. StoresType  BY DEF StoresType, Holders
<1>6. BoundsType  BY CountsAssumption DEF BoundsType
<1> QED BY <1>1, <1>2, <1>3, <1>4, <1>5, <1>6 DEF Typed

LEMMA ChangeTyped == ASSUME Typed, NEW s \in Stores, Change(s) PROVE Typed'
<1> USE DEF Typed, Change, signals
<1>1. rev[s] + 1 \in Nat  BY DEF StoresType
<1>2. StoresType'  BY <1>1 DEF StoresType
<1>3. used.changes + 1 \in 0 .. MaxChanges  BY CountsAssumption DEF BoundsType
<1>4. BoundsType'  BY <1>3 DEF BoundsType
<1> QED BY <1>2, <1>4 DEF TasksType, SignalsType, QueueType, PassType

LEMMA DeadlineTyped == ASSUME Typed, NEW n \in 1 .. used.calls, DeadlinePasses(n) PROVE Typed'
  BY CountsAssumption DEF Typed, TasksType, SignalsType, QueueType, PassType, StoresType, BoundsType,
     DeadlinePasses, signals, stores

LEMMA BeginTyped ==
  ASSUME Typed, NEW t \in Tasks, NEW mode \in Modes, NEW l \in TaskLabels, Begin(t, mode, l) PROVE Typed'
<1>1. NoCall \in CallType  BY NoCallTyped DEF Returns
<1>2. used.calls \in Nat /\ used.calls + 1 \in 0 .. MaxCalls
  BY CountsAssumption DEF Typed, BoundsType, Begin
<1>3. [NoCall EXCEPT !.n = used.calls + 1, !.mode = mode, !.seen = rev] \in CallType
  BY <1>1, <1>2 DEF CallType, Typed, StoresType
<1>4. TasksType'
  <2>1. call'[t].n # 0 /\ call'[t] \in CallType  BY <1>2, <1>3 DEF Begin, NoCall, Typed, TasksType
  <2> QED BY <1>3, <2>1 DEF Typed, TasksType, Begin, Goto
<1>5. BoundsType'  BY <1>2, CountsAssumption DEF Typed, BoundsType, Begin
<1> QED BY <1>4, <1>5 DEF Typed, SignalsType, QueueType, PassType, StoresType, Begin, signals, stores

LEMMA ForceTyped == ASSUME Typed, NEW t \in Tasks, ForceStep(t) PROVE Typed'
<1> USE DEF Typed
<1> DEFINE R == {"TIMEOUT", "INVALID_STATE"}
<1>0. R \subseteq Returns /\ t \in Holders /\ NoTask \in Holders  BY DEF Returns, Holders
<1>1. CASE ForceLock(t)
  <2>1. TasksType'  BY <1>1, <1>0, ReturnTyped, GotoTyped DEF ForceLock, TaskLabels, TasksType, ForceLabels
  <2>2. SignalsType'  BY <1>1, <1>0, TakeTyped DEF ForceLock
  <2> QED BY <1>1, <2>1, <2>2 DEF ForceLock, QueueType, PassType, StoresType, BoundsType, stores
<1>2. CASE ForceRegister(t)
  <2>1. TasksType'  BY <1>2, <1>0, ReturnTyped, GotoTyped DEF ForceRegister, TaskLabels, TasksType, ForceLabels
  <2>2. SignalsType'  BY <1>2 DEF ForceRegister, SignalsType, Give, Holders
  <2> QED BY <1>2, <2>1, <2>2 DEF ForceRegister, QueueType, PassType, StoresType, BoundsType, stores
<1>3. CASE ForceSend(t)
  <2>1. TasksType'  BY <1>3, <1>0, ReturnTyped, GotoTyped DEF ForceSend, ForceLeaves, TaskLabels, TasksType, ForceLabels
  <2>2. SignalsType'  BY <1>3 DEF ForceSend, ForceLeaves, SignalsType, Give, Holders
  <2>3. QueueType'
    <3>1. CASE UNCHANGED queue  BY <1>3, <3>1 DEF ForceSend, QueueType
    <3>2. CASE QueueHasRoom /\ queue' = Append(queue, call[t].n)
      <4>1. call[t].n \in 1 .. MaxCalls
        BY <1>3, CountsAssumption DEF ForceSend, TasksType, ForceLabels, CallType
      <4> QED BY <1>3, <3>2, <4>1, CountsAssumption DEF ForceSend, QueueType, QueueHasRoom
    <3> QED BY <1>3, <3>1, <3>2 DEF ForceSend
  <2> QED BY <1>3, <2>1, <2>2, <2>3 DEF ForceSend, PassType, StoresType, BoundsType, stores
<1>4. CASE ForcePoll(t)
  <2>1. result.ret \in Returns  BY DEF QueueType
  <2>2. TasksType'  BY <1>4, <1>0, <2>1, ReturnTyped DEF ForcePoll, ForceLeaves
  <2>3. SignalsType'  BY <1>4 DEF ForcePoll, ForceLeaves, SignalsType, Give, Holders
  <2> QED BY <1>4, <2>2, <2>3 DEF ForcePoll, QueueType, PassType, StoresType, BoundsType, stores
<1> QED BY <1>1, <1>2, <1>3, <1>4 DEF ForceStep

LEMMA QuiesceTyped == ASSUME Typed, NEW t \in Tasks, QuiesceStep(t) PROVE Typed'
<1> USE DEF Typed
<1>0. {"OK", "TIMEOUT", "INVALID_STATE"} \subseteq Returns /\ t \in Holders /\ NoTask \in Holders
  BY DEF Returns, Holders
<1>1. CASE QuiesceRegister(t)
  <2>1. TasksType'
    BY <1>1, <1>0, ReturnTyped, GotoTyped DEF QuiesceRegister, TaskLabels, ForceLabels
  <2>2. SignalsType'  BY <1>1 DEF QuiesceRegister, SignalsType
  <2> QED BY <1>1, <2>1, <2>2 DEF QuiesceRegister, QueueType, PassType, StoresType, BoundsType, stores
<1>2. CASE QuiesceRequest(t)
  <2>1. TasksType'
    BY <1>2, <1>0, ReturnTyped, GotoTyped DEF QuiesceRequest, TaskLabels, ForceLabels
  <2>2. SignalsType'  BY <1>2 DEF QuiesceRequest, SignalsType, Take, Unregister, Holders
  <2> QED BY <1>2, <2>1, <2>2 DEF QuiesceRequest, QueueType, PassType, StoresType, BoundsType, stores
<1>3. CASE QuiesceFlush(t)
  <2>1. TasksType'
    BY <1>3, <1>0, ReturnTyped, GotoTyped DEF QuiesceFlush, TaskLabels, ForceLabels
  <2>2. SignalsType'  BY <1>3 DEF QuiesceFlush, SignalsType, Take, Give, Unregister, Holders
  <2> QED BY <1>3, <2>1, <2>2 DEF QuiesceFlush, QueueType, PassType, StoresType, BoundsType, stores
<1>4. CASE QuiesceOwn(t)
  <2>1. TasksType'
    BY <1>4, <1>0, ReturnTyped, GotoTyped DEF QuiesceOwn, TaskLabels, ForceLabels
  <2>2. mutex' \in [request : Holders, flush : Holders]
    BY <1>4 DEF QuiesceOwn, SignalsType, GiveBoth, Holders
  <2>3. quiesce' \in [requester : Tasks \cup {NoTask}, owner : Tasks \cup {NoTask}, preempt : BOOLEAN]
    <3>1. CASE quiesce' = Owned(quiesce, t)  BY <3>1 DEF SignalsType, Owned
    <3>2. CASE Unregister(t)  BY <3>2 DEF SignalsType, Unregister
    <3> QED BY <1>4, <3>1, <3>2 DEF QuiesceOwn
  <2>4. SignalsType'  BY <1>4, <2>2, <2>3 DEF QuiesceOwn, SignalsType
  <2> QED BY <1>4, <2>1, <2>4 DEF QuiesceOwn, QueueType, PassType, StoresType, BoundsType, stores
<1>5. CASE QuiesceEnd(t)
  <2>1. TasksType'  BY <1>5, GotoTyped DEF QuiesceEnd, TaskLabels, ForceLabels
  <2>2. SignalsType'  BY <1>5 DEF QuiesceEnd, SignalsType
  <2> QED BY <1>5, <2>1, <2>2 DEF QuiesceEnd, QueueType, PassType, StoresType, BoundsType, stores
<1>6. CASE QuiesceGive(t)
  <2>1. TasksType'  BY <1>6, <1>0, ReturnTyped DEF QuiesceGive
  <2>2. SignalsType'  BY <1>6 DEF QuiesceGive, SignalsType, GiveBoth, Holders
  <2> QED BY <1>6, <2>1, <2>2 DEF QuiesceGive, QueueType, PassType, StoresType, BoundsType, stores
<1> QED BY <1>1, <1>2, <1>3, <1>4, <1>5, <1>6 DEF QuiesceStep

LEMMA SaveBeginTyped == ASSUME Typed, NEW t \in Tasks, NEW s \in Stores, SaveBegin(t, s) PROVE Typed'
<1> USE DEF Typed
<1>1. rev[s] \in Nat /\ pc[t] \in {"idle", "owned"}  BY DEF StoresType, SaveBegin
<1>2. TasksType'
  <2> DEFINE begun == [call[t] EXCEPT !.store = s, !.snap = rev[s], !.home = pc[t]]
  <2>1. call[t] \in CallType  BY DEF TasksType
  <2>2. begun \in CallType /\ begun.n = call[t].n  BY <1>1, <2>1 DEF CallType
  <2>3. call' = [call EXCEPT ![t] = begun]  BY DEF SaveBegin
  <2> QED BY <2>2, <2>3 DEF TasksType, SaveBegin, Goto, TaskLabels, ForceLabels
<1>3. StoresType'  BY DEF StoresType, SaveBegin, Holders
<1> QED BY <1>2, <1>3 DEF SaveBegin, SignalsType, QueueType, PassType, BoundsType, signals

LEMMA SaveLeavesTyped == ASSUME TasksType, NEW t \in Tasks, SaveLeaves(t) PROVE TasksType'
<1> DEFINE left == [call[t] EXCEPT !.store = 1, !.snap = 0, !.home = "idle"]
<1>1. call[t] \in CallType  BY DEF TasksType
<1>0. 1 \in Stores  BY CountsAssumption DEF Stores
<1>2. left \in CallType /\ left.n = call[t].n  BY <1>0, <1>1 DEF CallType
<1>3. call' = [call EXCEPT ![t] = left]  BY DEF SaveLeaves
<1>4. call[t].home \in TaskLabels /\ call[t].home \notin ForceLabels
  BY <1>1 DEF CallType, TaskLabels, ForceLabels
<1> QED BY <1>2, <1>3, <1>4 DEF TasksType, SaveLeaves, Goto

LEMMA FaultTyped == ASSUME BoundsType, Fault, UNCHANGED passed PROVE BoundsType'
<1>1. used.faults + 1 \in 0 .. MaxFaults  BY CountsAssumption DEF BoundsType, Fault
<1> QED BY <1>1 DEF BoundsType, Fault

LEMMA SaveTyped == ASSUME Typed, NEW t \in Tasks, SaveStep(t) PROVE Typed'
<1> USE DEF Typed
<1>1. CASE SaveCheck(t)
  <2>1. TasksType'
    BY <1>1, SaveLeavesTyped, GotoTyped DEF SaveCheck, TaskLabels, ForceLabels
  <2>2. StoresType'  BY <1>1 DEF SaveCheck, SaveLeaves, StoresType, Holders
  <2> QED BY <1>1, <2>1, <2>2 DEF SaveCheck, SignalsType, QueueType, PassType, BoundsType, signals
<1>2. CASE SaveWrite(t)
  <2>1. TasksType'  BY <1>2, SaveLeavesTyped DEF SaveWrite
  <2>2. call[t].snap \in Nat  BY DEF TasksType, CallType
  <2>3. StoresType'  BY <1>2, <2>2 DEF SaveWrite, SaveLeaves, StoresType, Holders
  <2>4. BoundsType'  BY <1>2, FaultTyped DEF SaveWrite, BoundsType
  <2> QED BY <1>2, <2>1, <2>3, <2>4 DEF SaveWrite, SignalsType, QueueType, PassType, signals
<1> QED BY <1>1, <1>2 DEF SaveStep

LEMMA WorkerTyped == ASSUME Typed, WorkerStep PROVE Typed'
<1> USE DEF Typed, PassType
<1>0. /\ worker \in WorkerType /\ IdleWorker \in WorkerType
      /\ {"OK", "TIMEOUT", "FAILED"} \subseteq Returns
  BY CountsAssumption DEF IdleWorker, WorkerType, Returns
<1>1. CASE WorkerTakes
  <2>1. CASE queue = <<>>
    BY <1>0, <1>1, <2>1 DEF WorkerTakes, WorkerType, TasksType, SignalsType, QueueType, StoresType,
       BoundsType, signals, stores
  <2>2. CASE queue # <<>>
    <3>1. Head(queue) \in 0 .. MaxCalls /\ QueueType'
      <4>1. queue \in Seq(1 .. MaxCalls) /\ Len(queue) <= QueueLength  BY DEF QueueType
      <4>2. /\ Head(queue) \in 1 .. MaxCalls
            /\ Tail(queue) \in Seq(1 .. MaxCalls)
            /\ Len(Tail(queue)) = Len(queue) - 1
        BY <2>2, <4>1, HeadTailProperties
      <4>3. Len(Tail(queue)) <= QueueLength  BY <4>1, <4>2, LenProperties, CountsAssumption
      <4>4. Head(queue) \in 0 .. MaxCalls  BY <4>2, CountsAssumption
      <4>5. queue' = Tail(queue) /\ UNCHANGED result  BY <1>1, <2>2 DEF WorkerTakes
      <4> QED BY <4>2, <4>3, <4>4, <4>5 DEF QueueType
    <3>2. PassType'  BY <1>0, <1>1, <2>2, <3>1 DEF WorkerTakes, WorkerType
    <3> QED BY <1>1, <3>1, <3>2 DEF WorkerTakes, TasksType, SignalsType, StoresType, BoundsType, signals, stores
  <2> QED BY <2>1, <2>2
<1>2. CASE WorkerLock
  <2>1. PassType'  BY <1>0, <1>2 DEF WorkerLock, WorkerType
  <2>2. SignalsType'  BY <1>2 DEF WorkerLock, SignalsType, Take, Holders
  <2> QED BY <1>2, <2>1, <2>2 DEF WorkerLock, TasksType, QueueType, StoresType, BoundsType, stores
<1>3. ASSUME NEW ret \in Returns, EndPass(ret) PROVE PassType' /\ (UNCHANGED <<quiesce, forcer>> => SignalsType')
  BY <1>0, <1>3 DEF EndPass, Give, WorkerType, SignalsType, Holders
<1>4. CASE WorkerCancels
  <2>1. worker.err \in Returns  BY <1>0 DEF WorkerType
  <2>2. CancelledPass(worker.err) \in Returns  BY <2>1, <1>0 DEF CancelledPass
  <2> QED BY <1>4, <1>3, <2>2, <1>0 DEF WorkerCancels, TasksType, QueueType, StoresType, BoundsType, stores
<1>5. CASE WorkerObserves
  <2>1. worker.i \in Stores  BY <1>0, <1>5 DEF WorkerObserves, AtStore, WorkerType, Stores
  <2>2. worker.i + 1 \in 1 .. StoreCount + 1  BY <2>1, CountsAssumption DEF Stores
  <2>3. PassType'  BY <1>0, <1>5, <2>1, <2>2 DEF WorkerObserves, WorkerType
  <2> QED BY <1>5, <2>3 DEF WorkerObserves, TasksType, SignalsType, QueueType, StoresType, BoundsType, signals, stores
<1>6. ASSUME NEW err \in Returns, worker.pc \in {"ready", "write"}, worker' = Flushed(err) PROVE PassType'
  <2>1. worker.i \in Stores  BY <1>6
  <2>2. worker.i + 1 \in 1 .. StoreCount + 1  BY <2>1, CountsAssumption DEF Stores
  <2> QED BY <1>0, <1>6, <2>2 DEF Flushed, WorkerType
<1>7. CASE WorkerFlushes
  <2>1. worker.i \in Stores /\ rev[worker.i] \in Nat  BY <1>7 DEF WorkerFlushes, StoresType
  <2>2. PassType'  BY <1>0, <1>7, <2>1 DEF WorkerFlushes, WorkerType
  <2>3. StoresType'  BY <1>7 DEF WorkerFlushes, StoresType, Holders
  <2> QED BY <1>7, <2>2, <2>3 DEF WorkerFlushes, TasksType, SignalsType, QueueType, BoundsType, signals
<1>8. CASE WorkerNotDue
  <2>1. worker.err \in Returns  BY <1>0 DEF WorkerType
  <2>2. PassType'  BY <1>8, <1>6, <2>1 DEF WorkerNotDue
  <2> QED BY <1>8, <2>2 DEF WorkerNotDue, TasksType, SignalsType, QueueType, StoresType, BoundsType, signals, stores
<1>9. CASE WorkerWrites
  <2>1. worker.err \in Returns /\ worker.snap \in Nat  BY <1>0 DEF WorkerType
  <2>2. FirstError("FAILED") \in Returns  BY <1>0, <2>1 DEF FirstError
  <2>3. PassType'  BY <1>9, <1>6, <2>1, <2>2 DEF WorkerWrites
  <2>4. StoresType'  BY <1>9, <2>1 DEF WorkerWrites, StoresType, Holders
  <2>5. BoundsType'  BY <1>9, FaultTyped DEF WorkerWrites, BoundsType
  <2> QED BY <1>9, <2>3, <2>4, <2>5 DEF WorkerWrites, TasksType, SignalsType, QueueType, signals
<1>10. CASE WorkerDone
  <2>1. worker.err \in Returns  BY <1>0 DEF WorkerType
  <2> QED BY <1>10, <1>3, <2>1 DEF WorkerDone, TasksType, QueueType, StoresType, BoundsType, stores
<1>11. CASE WorkerPublishes
  <2>1. QueueType'  BY <1>11, <1>0 DEF WorkerPublishes, QueueType, WorkerType
  <2>2. PassType'  BY <1>11, <1>0 DEF WorkerPublishes, IdleWorker
  <2> QED BY <1>11, <2>1, <2>2 DEF WorkerPublishes, TasksType, SignalsType, StoresType, BoundsType, signals, stores
<1> QED BY <1>1, <1>2, <1>4, <1>5, <1>7, <1>8, <1>9, <1>10, <1>11 DEF WorkerStep

-----------------------------------------------------------------------------
(* A save does not change where a task stands: it returns to the label it  *)
(* left, and an owner that saves a store remains the owner.                *)
Standing ==
  [t \in Tasks |-> IF pc[t] \in {"s_check", "s_write"} THEN call[t].home ELSE pc[t]]

(* Where a task holds the request mutex, the flush mutex, the name of the  *)
(* forcer, and that of the quiesce requester.                              *)
Requesting == {"f_register", "f_send", "f_poll", "q_flush", "q_own", "owned", "q_give"}
Flushing == {"q_own", "owned", "q_give"}
Forcing == {"f_send", "f_poll"}
Quiescing == {"q_request", "q_flush", "q_own", "owned"}

Placed ==
  \A t \in Tasks :
    /\ mutex.request = t <=> Standing[t] \in Requesting
    /\ mutex.flush = t <=> Standing[t] \in Flushing
    /\ forcer = t <=> Standing[t] \in Forcing
    /\ quiesce.requester = t <=> Standing[t] \in Quiescing
    /\ quiesce.owner = t <=> Standing[t] = "owned"
WorkerPlaced == mutex.flush = Worker <=> WorkerInStore
QuiesceShape ==
  /\ quiesce.owner # NoTask => quiesce.preempt
  /\ quiesce.requester = NoTask => ~quiesce.preempt

Control == Placed /\ WorkerPlaced /\ QuiesceShape
IInv == Typed /\ Control

LEMMA ReturnStands ==
  ASSUME TasksType, NEW t \in Tasks, NEW r, Return(t, r)
  PROVE  Standing'[t] = "idle" /\ \A u \in Tasks \ {t} : Standing'[u] = Standing[u]
  BY DEF TasksType, Return, Goto, Standing

LEMMA GotoStands ==
  ASSUME TasksType, NEW t \in Tasks, NEW l \in TaskLabels \ {"s_check", "s_write"}, Goto(t, l), UNCHANGED call
  PROVE  Standing'[t] = l /\ \A u \in Tasks \ {t} : Standing'[u] = Standing[u]
  BY DEF TasksType, Goto, Standing

LEMMA SaveStands ==
  ASSUME TasksType, NEW t \in Tasks, (\E s \in Stores : SaveBegin(t, s)) \/ SaveStep(t)
  PROVE  \A u \in Tasks : Standing'[u] = Standing[u]
<1>1. ASSUME NEW s \in Stores, SaveBegin(t, s) PROVE \A u \in Tasks : Standing'[u] = Standing[u]
  <2> DEFINE begun == [call[t] EXCEPT !.store = s, !.snap = rev[s], !.home = pc[t]]
  <2>1. call[t] \in CallType  BY DEF TasksType
  <2>2. begun.home = pc[t]  BY <2>1 DEF CallType
  <2>3. call' = [call EXCEPT ![t] = begun] /\ pc[t] \in {"idle", "owned"} /\ pc' = [pc EXCEPT ![t] = "s_check"]
    BY <1>1 DEF SaveBegin, Goto
  <2> HIDE DEF begun
  <2> QED BY <2>2, <2>3 DEF TasksType, Standing
<1>2. ASSUME SaveLeaves(t), pc[t] \in {"s_check", "s_write"} PROVE \A u \in Tasks : Standing'[u] = Standing[u]
  <2>1. call[t].home \in {"idle", "owned"}  BY DEF TasksType, CallType
  <2> QED BY <1>2, <2>1 DEF SaveLeaves, Goto, TasksType, Standing
<1>3. CASE SaveStep(t)
  <2>1. CASE SaveLeaves(t)  BY <1>2, <1>3, <2>1 DEF SaveStep, SaveCheck, SaveWrite
  <2>2. CASE pc[t] = "s_check" /\ Goto(t, "s_write") /\ UNCHANGED call
    BY <2>2 DEF Goto, TasksType, Standing
  <2> QED BY <1>3, <2>1, <2>2 DEF SaveStep, SaveCheck, SaveWrite
<1> QED BY <1>1, <1>3

LEMMA InitControl == WorkerInit => Control
<1> SUFFICES ASSUME WorkerInit PROVE Control
  OBVIOUS
<1>1. \A t \in Tasks : Standing[t] = "idle" /\ t # NoTask
  BY TasksAssumption DEF WorkerInit, Standing
<1>2. Placed  BY <1>1 DEF Placed, WorkerInit, Requesting, Flushing, Forcing, Quiescing
<1>3. WorkerPlaced /\ QuiesceShape
  BY TasksAssumption DEF WorkerInit, WorkerPlaced, QuiesceShape, WorkerInStore, IdleWorker
<1> QED BY <1>2, <1>3 DEF Control

LEMMA ForceControl == ASSUME IInv, NEW t \in Tasks, ForceStep(t) PROVE Control'
<1> USE DEF IInv, Typed, Control, Requesting, Flushing, Forcing, Quiescing
<1>0. t # NoTask /\ t # Worker /\ NoTask # Worker  BY TasksAssumption
<1>1. UNCHANGED <<quiesce, worker>>  BY DEF ForceStep, ForceLock, ForceRegister, ForceSend, ForcePoll
<1>2. QuiesceShape' /\ (WorkerInStore' <=> WorkerInStore)  BY <1>1 DEF QuiesceShape, WorkerInStore
<1>3. \A u \in Tasks \ {t} : Standing'[u] = Standing[u]
  BY ReturnStands, GotoStands DEF ForceStep, ForceLock, ForceRegister, ForceSend, ForcePoll, ForceLeaves, TaskLabels
<1>4. mutex \in [request : Holders, flush : Holders]  BY DEF SignalsType
<1>5. CASE ForceLock(t)
  <2>1. Standing[t] = "f_lock"  BY <1>5 DEF ForceLock, Standing
  <2>2. CASE Take("request", t) /\ Standing'[t] = "f_register"
    <3>1. mutex.request = NoTask /\ mutex'.request = t /\ mutex'.flush = mutex.flush
      BY <1>4, <2>2 DEF Take
    <3>2. UNCHANGED forcer  BY <1>5 DEF ForceLock
    <3>3. \A u \in Tasks : u # NoTask  BY TasksAssumption
    <3>4. Placed'  BY <1>1, <1>3, <2>1, <2>2, <3>1, <3>2, <3>3 DEF Placed
    <3> QED BY <1>2, <3>1, <3>4 DEF WorkerPlaced
  <2>3. CASE UNCHANGED mutex /\ Standing'[t] = "idle"
    BY <1>0, <1>1, <1>2, <1>3, <1>5, <2>1, <2>3 DEF ForceLock, Placed, WorkerPlaced
  <2> QED BY <1>5, <2>2, <2>3, ReturnStands, GotoStands DEF ForceLock, TaskLabels
<1>6. ASSUME ForceLeaves(t, "TIMEOUT") \/ ForceLeaves(t, result.ret), UNCHANGED <<quiesce, worker>>,
             Standing[t] \in Forcing
      PROVE  Control'
  <2>1. Standing'[t] = "idle"  BY <1>6, ReturnStands DEF ForceLeaves
  <2>2. mutex.request = t /\ forcer = t /\ forcer' = NoTask  BY <1>6 DEF Placed, ForceLeaves
  <2>3. mutex'.request = NoTask /\ mutex'.flush = mutex.flush  BY <1>4, <1>6 DEF ForceLeaves, Give
  <2>4. \A u \in Tasks : u # NoTask  BY TasksAssumption
  <2>5. \A u \in Tasks \ {t} : mutex.request # u /\ forcer # u  BY <2>2
  <2>6. mutex.flush # t /\ quiesce.requester # t /\ quiesce.owner # t  BY <1>6 DEF Placed
  <2>7. Placed'  BY <1>1, <1>3, <2>1, <2>2, <2>3, <2>4, <2>5, <2>6 DEF Placed
  <2> QED BY <1>2, <2>3, <2>7 DEF WorkerPlaced
<1>7. CASE ForceRegister(t)
  <2>1. Standing[t] = "f_register"  BY <1>7 DEF ForceRegister, Standing
  <2>2. CASE forcer = NoTask /\ forcer' = t /\ UNCHANGED mutex /\ Standing'[t] = "f_send"
    BY <1>0, <1>1, <1>2, <1>3, <2>1, <2>2 DEF Placed, WorkerPlaced
  <2>3. CASE Give("request") /\ UNCHANGED forcer /\ Standing'[t] = "idle"
    <3>1. mutex.request = t  BY <2>1 DEF Placed
    <3>2. mutex'.request = NoTask /\ mutex'.flush = mutex.flush  BY <1>4, <2>3 DEF Give
    <3>3. \A u \in Tasks : u # NoTask  BY TasksAssumption
    <3>4. \A u \in Tasks \ {t} : mutex.request # u  BY <3>1
    <3>5. Placed'  BY <1>1, <1>3, <2>1, <2>3, <3>2, <3>3, <3>4 DEF Placed
    <3> QED BY <1>2, <3>2, <3>5 DEF WorkerPlaced
  <2> QED BY <1>7, <2>2, <2>3, ReturnStands, GotoStands DEF ForceRegister, TaskLabels
<1>8. CASE ForceSend(t)
  <2>1. Standing[t] = "f_send"  BY <1>8 DEF ForceSend, Standing
  <2>2. CASE UNCHANGED <<mutex, forcer>> /\ Standing'[t] = "f_poll"
    BY <1>0, <1>1, <1>2, <1>3, <2>1, <2>2 DEF Placed, WorkerPlaced
  <2>3. CASE ForceLeaves(t, "TIMEOUT")  BY <1>1, <1>6, <2>1, <2>3
  <2> QED BY <1>8, <2>2, <2>3, GotoStands DEF ForceSend, TaskLabels
<1>9. CASE ForcePoll(t)
  <2>1. Standing[t] = "f_poll"  BY <1>9 DEF ForcePoll, Standing
  <2> QED BY <1>1, <1>6, <1>9, <2>1 DEF ForcePoll
<1> QED BY <1>5, <1>7, <1>8, <1>9 DEF ForceStep

LEMMA QuiesceControl == ASSUME IInv, NEW t \in Tasks, QuiesceStep(t) PROVE Control'
<1> USE DEF IInv, Typed, Control, Requesting, Flushing, Forcing, Quiescing
<1>0. t # NoTask /\ t # Worker /\ NoTask # Worker  BY TasksAssumption
<1>1. UNCHANGED <<forcer, worker>>
  BY DEF QuiesceStep, QuiesceRegister, QuiesceRequest, QuiesceFlush, QuiesceOwn, QuiesceEnd, QuiesceGive
<1>2. WorkerInStore' <=> WorkerInStore  BY <1>1 DEF WorkerInStore
<1>3. \A u \in Tasks \ {t} : Standing'[u] = Standing[u]
  BY ReturnStands, GotoStands
  DEF QuiesceStep, QuiesceRegister, QuiesceRequest, QuiesceFlush, QuiesceOwn, QuiesceEnd, QuiesceGive, TaskLabels
<1>4. /\ mutex \in [request : Holders, flush : Holders]
      /\ quiesce \in [requester : Tasks \cup {NoTask}, owner : Tasks \cup {NoTask}, preempt : BOOLEAN]
  BY DEF SignalsType
<1>5. ASSUME Unregister(t), quiesce.requester = t, Standing[t] # "owned"
      PROVE  /\ quiesce'.requester = NoTask /\ quiesce'.owner = quiesce.owner
             /\ quiesce.owner = NoTask /\ QuiesceShape'
  <2>1. quiesce'.requester = NoTask /\ quiesce'.owner = quiesce.owner /\ ~quiesce'.preempt
    BY <1>4, <1>5 DEF Unregister
  <2>2. \A u \in Tasks : quiesce.owner = u => quiesce.requester = u  BY DEF Placed
  <2>3. quiesce.owner = NoTask  BY <1>4, <1>5, <2>2 DEF Placed
  <2> QED BY <2>1, <2>3 DEF QuiesceShape
<1>6. CASE QuiesceRegister(t)
  <2>1. Standing[t] = "q_register"  BY <1>6 DEF QuiesceRegister, Standing
  <2>2. CASE QuiesceIsFree /\ quiesce' = [quiesce EXCEPT !.requester = t, !.preempt = call[t].mode # "wait"]
             /\ Standing'[t] = "q_request"
    <3>1. quiesce'.requester = t /\ quiesce'.owner = NoTask /\ quiesce.requester = NoTask /\ quiesce.owner = NoTask
      BY <1>4, <2>2 DEF QuiesceIsFree
    <3>2. QuiesceShape'  BY <1>0, <3>1 DEF QuiesceShape
    <3>3. UNCHANGED mutex  BY <1>6 DEF QuiesceRegister
    <3>4. \A u \in Tasks : u # NoTask  BY TasksAssumption
    <3>5. Placed'  BY <1>1, <1>3, <2>1, <2>2, <3>1, <3>3, <3>4 DEF Placed
    <3> QED BY <1>2, <3>2, <3>3, <3>5 DEF WorkerPlaced
  <2>3. CASE UNCHANGED quiesce /\ Standing'[t] = "idle"
    BY <1>0, <1>1, <1>2, <1>3, <1>6, <2>1, <2>3 DEF QuiesceRegister, Placed, WorkerPlaced, QuiesceShape
  <2> QED BY <1>6, <2>2, <2>3, ReturnStands, GotoStands DEF QuiesceRegister, TaskLabels
<1>7. CASE QuiesceRequest(t)
  <2>1. Standing[t] = "q_request"  BY <1>7 DEF QuiesceRequest, Standing
  <2>2. CASE Take("request", t) /\ Standing'[t] = "q_flush" /\ UNCHANGED quiesce
    BY <1>0, <1>1, <1>2, <1>3, <1>4, <2>1, <2>2 DEF Take, Placed, WorkerPlaced, QuiesceShape
  <2>3. CASE Unregister(t) /\ Standing'[t] = "idle" /\ UNCHANGED mutex
    <3>1. quiesce.requester = t  BY <2>1 DEF Placed
    <3> QED BY <1>0, <1>1, <1>2, <1>3, <1>5, <2>1, <2>3, <3>1 DEF Placed, WorkerPlaced
  <2> QED BY <1>7, <2>2, <2>3, ReturnStands, GotoStands DEF QuiesceRequest, TaskLabels
<1>8. CASE QuiesceFlush(t)
  <2>1. Standing[t] = "q_flush"  BY <1>8 DEF QuiesceFlush, Standing
  <2>2. CASE Take("flush", t) /\ Standing'[t] = "q_own" /\ UNCHANGED quiesce
    BY <1>0, <1>1, <1>2, <1>3, <1>4, <2>1, <2>2 DEF Take, Placed, WorkerPlaced, QuiesceShape
  <2>3. CASE Unregister(t) /\ Standing'[t] = "idle" /\ Give("request")
    <3>1. quiesce.requester = t /\ mutex.request = t  BY <2>1 DEF Placed
    <3>2. mutex'.request = NoTask /\ mutex'.flush = mutex.flush  BY <1>4, <2>3 DEF Give
    <3> QED BY <1>0, <1>1, <1>2, <1>3, <1>5, <2>1, <2>3, <3>1, <3>2 DEF Placed, WorkerPlaced
  <2> QED BY <1>8, <2>2, <2>3, ReturnStands, GotoStands DEF QuiesceFlush, TaskLabels
<1>9. ASSUME GiveBoth, mutex.request = t, mutex.flush = t, Standing'[t] = "idle",
             \A u \in Tasks \cup {Worker} : u # t => mutex.flush # u /\ mutex.request # u
      PROVE  /\ WorkerPlaced'
             /\ \A u \in Tasks : /\ mutex'.request = u <=> Standing'[u] \in Requesting
                                 /\ mutex'.flush = u <=> Standing'[u] \in Flushing
  <2>1. mutex'.request = NoTask /\ mutex'.flush = NoTask  BY <1>9 DEF GiveBoth
  <2>2. WorkerPlaced'  BY <1>0, <1>2, <1>9, <2>1 DEF WorkerPlaced
  <2>3. \A u \in Tasks : u # NoTask  BY TasksAssumption
  <2>4. \A u \in Tasks \ {t} : mutex.request # u /\ mutex.flush # u  BY <1>9
  <2> QED BY <1>3, <1>9, <2>1, <2>2, <2>3, <2>4 DEF Placed
<1>10. CASE QuiesceOwn(t)
  <2>1. Standing[t] = "q_own"  BY <1>10 DEF QuiesceOwn, Standing
  <2>2. CASE quiesce' = Owned(quiesce, t) /\ Standing'[t] = "owned" /\ UNCHANGED mutex
    <3>1. quiesce'.owner = t /\ quiesce'.preempt /\ quiesce'.requester = quiesce.requester
      BY <1>4, <2>2 DEF Owned
    <3>2. quiesce.requester = t  BY <2>1 DEF Placed
    <3>3. \A u \in Tasks \ {t} : quiesce.owner # u  BY <3>2 DEF Placed
    <3>4. QuiesceShape'  BY <1>0, <3>1, <3>2 DEF QuiesceShape
    <3> QED BY <1>0, <1>1, <1>2, <1>3, <2>1, <2>2, <3>1, <3>2, <3>3, <3>4 DEF Placed, WorkerPlaced
  <2>3. CASE Unregister(t) /\ Standing'[t] = "idle" /\ GiveBoth
    <3>1. quiesce.requester = t /\ mutex.request = t /\ mutex.flush = t  BY <2>1 DEF Placed
    <3>2. WorkerPlaced' /\ \A u \in Tasks : /\ mutex'.request = u <=> Standing'[u] \in Requesting
                                            /\ mutex'.flush = u <=> Standing'[u] \in Flushing
      BY <1>9, <2>3, <3>1
    <3>3. QuiesceShape' /\ quiesce'.requester = NoTask /\ quiesce'.owner = NoTask /\ quiesce.owner = NoTask
      BY <1>5, <2>1, <2>3, <3>1
    <3>4. \A u \in Tasks : u # NoTask  BY TasksAssumption
    <3> QED BY <1>1, <1>3, <2>1, <2>3, <3>1, <3>2, <3>3, <3>4 DEF Placed
  <2> QED BY <1>10, <2>2, <2>3, ReturnStands, GotoStands DEF QuiesceOwn, TaskLabels
<1>11. CASE QuiesceEnd(t)
  <2>1. Standing[t] = "owned"  BY <1>11 DEF QuiesceEnd, Standing
  <2>2. Standing'[t] = "q_give" /\ UNCHANGED mutex  BY <1>11, GotoStands DEF QuiesceEnd, TaskLabels
  <2>3. quiesce'.requester = NoTask /\ quiesce'.owner = NoTask /\ ~quiesce'.preempt
    BY <1>11 DEF QuiesceEnd
  <2>4. quiesce.requester = t /\ quiesce.owner = t  BY <2>1 DEF Placed
  <2>5. \A u \in Tasks : u # NoTask  BY TasksAssumption
  <2> QED BY <1>1, <1>2, <1>3, <2>1, <2>2, <2>3, <2>4, <2>5 DEF Placed, WorkerPlaced, QuiesceShape
<1>12. CASE QuiesceGive(t)
  <2>1. Standing[t] = "q_give"  BY <1>12 DEF QuiesceGive, Standing
  <2>2. Standing'[t] = "idle" /\ UNCHANGED quiesce  BY <1>12, ReturnStands DEF QuiesceGive
  <2>3. mutex.request = t /\ mutex.flush = t  BY <2>1 DEF Placed
  <2>4. WorkerPlaced' /\ \A u \in Tasks : /\ mutex'.request = u <=> Standing'[u] \in Requesting
                                          /\ mutex'.flush = u <=> Standing'[u] \in Flushing
    BY <1>9, <1>12, <2>2, <2>3 DEF QuiesceGive
  <2> QED BY <1>1, <1>3, <2>1, <2>2, <2>4 DEF Placed, QuiesceShape
<1> QED BY <1>6, <1>7, <1>8, <1>10, <1>11, <1>12 DEF QuiesceStep

LEMMA WorkerControl == ASSUME IInv, WorkerStep PROVE Control'
<1> USE DEF IInv, Typed, Control
<1>0. (\A u \in Tasks : u # NoTask /\ u # Worker) /\ NoTask # Worker  BY TasksAssumption
<1>1. UNCHANGED <<pc, call, quiesce, forcer>>
  BY DEF WorkerStep, WorkerTakes, WorkerLock, WorkerCancels, WorkerObserves, WorkerFlushes, WorkerNotDue,
         WorkerWrites, WorkerDone, WorkerPublishes, signals
<1>2. QuiesceShape' /\ Standing' = Standing  BY <1>1 DEF QuiesceShape, Standing
<1>3. mutex \in [request : Holders, flush : Holders] /\ worker \in WorkerType
  BY DEF SignalsType, PassType
<1>4. ASSUME UNCHANGED mutex, WorkerInStore' <=> WorkerInStore PROVE Placed' /\ WorkerPlaced'
  BY <1>1, <1>2, <1>4 DEF Placed, WorkerPlaced
<1>5. ASSUME NEW ret, EndPass(ret), WorkerInStore PROVE Placed' /\ WorkerPlaced'
  <2>1. mutex.flush = Worker  BY <1>5 DEF WorkerPlaced
  <2>2. mutex'.flush = NoTask /\ mutex'.request = mutex.request  BY <1>3, <1>5 DEF EndPass, Give
  <2>3. ~WorkerInStore'  BY <1>5 DEF EndPass, IdleWorker, WorkerInStore
  <2> QED BY <1>0, <1>1, <1>2, <2>1, <2>2, <2>3 DEF Placed, WorkerPlaced
<1>6. CASE WorkerTakes  BY <1>2, <1>3, <1>4, <1>6 DEF WorkerTakes, WorkerInStore, IdleWorker, signals
<1>7. CASE WorkerLock
  <2>1. ~WorkerInStore  BY <1>7 DEF WorkerLock, WorkerInStore
  <2>2. CASE Take("flush", Worker) /\ worker' = [worker EXCEPT !.pc = "observe"]
    <3>1. mutex.flush = NoTask /\ mutex'.flush = Worker /\ mutex'.request = mutex.request
      BY <1>3, <2>2 DEF Take
    <3>2. WorkerInStore'  BY <1>3, <2>2 DEF WorkerInStore, WorkerType
    <3> QED BY <1>0, <1>1, <1>2, <3>1, <3>2 DEF Placed, WorkerPlaced
  <2>3. CASE UNCHANGED mutex /\ worker' = [worker EXCEPT !.pc = "publish", !.err = "TIMEOUT"]
    <3>1. ~WorkerInStore'  BY <1>3, <2>3 DEF WorkerInStore, WorkerType
    <3> QED BY <1>2, <1>4, <2>1, <2>3, <3>1
  <2> QED BY <1>7, <2>2, <2>3 DEF WorkerLock
<1>8. CASE WorkerCancels  BY <1>2, <1>5, <1>8 DEF WorkerCancels, Looks, WorkerInStore
<1>9. CASE WorkerObserves
  BY <1>2, <1>3, <1>4, <1>9 DEF WorkerObserves, WorkerInStore, WorkerType, signals
<1>10. ASSUME NEW err, worker.pc \in {"ready", "write"}, worker' = Flushed(err)
       PROVE  WorkerInStore /\ WorkerInStore'
  BY <1>3, <1>10 DEF Flushed, WorkerInStore, WorkerType
<1>11. CASE WorkerFlushes
  BY <1>2, <1>3, <1>4, <1>11 DEF WorkerFlushes, WorkerInStore, WorkerType, signals
<1>12. CASE WorkerNotDue  BY <1>2, <1>4, <1>10, <1>12 DEF WorkerNotDue, signals
<1>13. CASE WorkerWrites  BY <1>2, <1>4, <1>10, <1>13 DEF WorkerWrites, signals
<1>14. CASE WorkerDone  BY <1>2, <1>5, <1>14 DEF WorkerDone, WorkerInStore
<1>15. CASE WorkerPublishes
  BY <1>2, <1>4, <1>15 DEF WorkerPublishes, WorkerInStore, IdleWorker, signals
<1> QED BY <1>6, <1>7, <1>8, <1>9, <1>11, <1>12, <1>13, <1>14, <1>15 DEF WorkerStep

LEMMA ControlKept ==
  ASSUME Control, UNCHANGED <<signals, worker>>, \A u \in Tasks : Standing'[u] = Standing[u]
  PROVE  Control'
  BY DEF Control, Placed, WorkerPlaced, QuiesceShape, WorkerInStore, signals

LEMMA BeginControl ==
  ASSUME IInv, NEW t \in Tasks, NEW mode, NEW l \in {"f_lock", "q_register"}, Begin(t, mode, l)
  PROVE  Control'
<1> USE DEF IInv, Typed, Control
<1>1. UNCHANGED <<signals, worker>>  BY DEF Begin
<1>2. Standing[t] = "idle"  BY DEF Begin, Standing
<1>3. Standing'[t] = l /\ \A u \in Tasks \ {t} : Standing'[u] = Standing[u]
  BY DEF Begin, Goto, TasksType, Standing
<1>4. Placed'
  BY <1>1, <1>2, <1>3 DEF Placed, Requesting, Flushing, Forcing, Quiescing, signals
<1> QED BY <1>1, <1>4 DEF WorkerPlaced, QuiesceShape, WorkerInStore, signals

LEMMA Step == ASSUME IInv, [WorkerNext]_workerVars PROVE IInv'
<1>1. ASSUME UNCHANGED <<pc, call, signals, worker>> PROVE Control'
  <2>1. Standing' = Standing  BY <1>1 DEF Standing
  <2> QED BY <1>1, <2>1, ControlKept DEF IInv
<1>2. ASSUME NEW s \in Stores, Change(s) PROVE IInv'
  BY <1>1, <1>2, ChangeTyped DEF IInv, Change
<1>3. ASSUME NEW n \in 1 .. used.calls, DeadlinePasses(n) PROVE IInv'
  BY <1>1, <1>3, DeadlineTyped DEF IInv, DeadlinePasses
<1>4. ASSUME NEW t \in Tasks, NEW mode \in Modes, NEW l \in {"f_lock", "q_register"}, Begin(t, mode, l)
      PROVE  IInv'
  <2>1. l \in TaskLabels  BY DEF TaskLabels
  <2> QED BY <1>4, <2>1, BeginTyped, BeginControl DEF IInv
<1>5. ASSUME NEW t \in Tasks, NEW s \in Stores, SaveBegin(t, s) PROVE IInv'
  BY <1>5, SaveBeginTyped, SaveStands, ControlKept DEF IInv, Typed, SaveBegin
<1>6. ASSUME NEW t \in Tasks, TaskStep(t) PROVE IInv'
  <2>1. CASE ForceStep(t)  BY <2>1, ForceTyped, ForceControl DEF IInv
  <2>2. CASE QuiesceStep(t)  BY <2>2, QuiesceTyped, QuiesceControl DEF IInv
  <2>3. CASE SaveStep(t)
    BY <2>3, SaveTyped, SaveStands, ControlKept DEF IInv, Typed, SaveStep, SaveCheck, SaveWrite
  <2> QED BY <1>6, <2>1, <2>2, <2>3 DEF TaskStep
<1>7. CASE WorkerStep  BY <1>7, WorkerTyped, WorkerControl DEF IInv
<1>8. CASE UNCHANGED workerVars
  BY <1>1, <1>8 DEF IInv, Typed, TasksType, SignalsType, QueueType, PassType, StoresType, BoundsType,
     workerVars, stores, signals
<1>9. {"force", "begin", "wait", "edit"} = Modes  BY DEF Modes
<1> QED BY <1>2, <1>3, <1>4, <1>5, <1>6, <1>7, <1>8, <1>9 DEF WorkerNext

(* The invariant: whatever the interleaving of force_flush, the three      *)
(* quiesces, the saves of other tasks and the worker's passes, and whenever*)
(* deadlines pass, every name and mutex is held by the task whose position *)
(* in route_store_worker.c says so, and by nobody else.                    *)
THEOREM WorkerInvariant == WorkerSpec => []IInv
<1>1. WorkerInit => IInv  BY InitTyped, InitControl DEF IInv
<1>2. IInv /\ [WorkerNext]_workerVars => IInv'  BY Step
<1> QED BY <1>1, <1>2, PTL DEF WorkerSpec

(* The worker's variables keep their types: positions, calls, names and    *)
(* mutexes, the queue within its length, the pass, revisions and counters. *)
THEOREM WorkerTyping == WorkerSpec => []WorkerTypeOK
<1>1. IInv => WorkerTypeOK  BY TypedIsTypeOK DEF IInv
<1> QED BY <1>1, WorkerInvariant, PTL

(* While a task owns the quiesce, no pass is among the stores, no forced   *)
(* flush is under way, and d1l_route_store_persistence_should_yield is true*)
(* for every task but the owner.                                           *)
THEOREM OwnerHasTheBridge == WorkerSpec => []OwnerIsUndisturbed
<1>1. ASSUME IInv PROVE OwnerIsUndisturbed
  <2> SUFFICES ASSUME quiesce.owner # NoTask
               PROVE  /\ ~WorkerInStore /\ forcer = NoTask
                      /\ \A t \in Tasks \cup {Worker} : ShouldYield(t) <=> t # quiesce.owner
    BY DEF OwnerIsUndisturbed
  <2>1. quiesce.owner \in Tasks /\ forcer \in Tasks \cup {NoTask}
    BY <1>1 DEF IInv, Typed, SignalsType
  <2>2. PICK o \in Tasks : o = quiesce.owner  BY <2>1
  <2>3. o # NoTask /\ o # Worker  BY TasksAssumption
  <2>4. Standing[o] = "owned"  BY <1>1, <2>2 DEF IInv, Control, Placed
  <2>5. mutex.request = o /\ mutex.flush = o /\ quiesce.requester = o /\ quiesce.preempt
    BY <1>1, <2>2, <2>4 DEF IInv, Control, Placed, QuiesceShape, Requesting, Flushing, Quiescing
  <2>6. ~WorkerInStore  BY <1>1, <2>3, <2>5 DEF IInv, Control, WorkerPlaced
  <2>7. forcer = NoTask
    <3>1. \A u \in Tasks : forcer = u => mutex.request = u
      BY <1>1 DEF IInv, Control, Placed, Requesting, Forcing
    <3>2. forcer # o  BY <1>1, <2>4 DEF IInv, Control, Placed, Forcing
    <3> QED BY <2>1, <2>5, <3>1, <3>2
  <2>8. \A t \in Tasks \cup {Worker} : ShouldYield(t) <=> t # o
    BY <2>2, <2>3, <2>5, <2>7 DEF ShouldYield
  <2> QED BY <2>2, <2>6, <2>7, <2>8
<1> QED BY <1>1, WorkerInvariant, PTL

(* A task that is outside every call of the interface holds no name and no *)
(* mutex of it, whichever of the timeouts or refusals ended its last call. *)
THEOREM CallersLeaveNothing == WorkerSpec => []NothingLeftBehind
<1>1. ASSUME IInv PROVE NothingLeftBehind
  <2>1. ASSUME NEW t \in Tasks, pc[t] = "idle"
        PROVE  /\ t \notin {quiesce.requester, quiesce.owner, forcer}
               /\ t \notin {mutex.request, mutex.flush}
    <3>1. Standing[t] = "idle"  BY <2>1 DEF Standing
    <3> QED BY <1>1, <3>1 DEF IInv, Control, Placed, Requesting, Flushing, Forcing, Quiescing
  <2> QED BY <1>1, <2>1 DEF IInv, Control, WorkerPlaced, QuiesceShape, NothingLeftBehind
<1> QED BY <1>1, WorkerInvariant, PTL

-----------------------------------------------------------------------------
(* What a forced pass has saved.  A store is saved by one task at a time,  *)
(* and never back to an older revision.                                    *)
Saving(t) == pc[t] \in {"s_check", "s_write"}

NothingLost == \A s \in Stores : saved[s] <= rev[s]
SaverHasTheStore ==
  \A s \in Stores : /\ \A t \in Tasks : io[s] = t <=> Saving(t) /\ call[t].store = s
                    /\ io[s] = Worker <=> worker.pc = "write" /\ worker.i = s
SnapshotsAreNewer ==
  /\ \A t \in Tasks : Saving(t) => /\ saved[call[t].store] <= call[t].snap
                                   /\ call[t].snap <= rev[call[t].store]
  /\ worker.pc = "write" => saved[worker.i] <= worker.snap /\ worker.snap <= rev[worker.i]
SavesInv == NothingLost /\ SaverHasTheStore /\ SnapshotsAreNewer

(* Numbers stand for calls that were made; a pass begins at the first      *)
(* store and is over behind the last.                                      *)
NumbersInv ==
  /\ \A t \in Tasks : call[t].n <= used.calls
  /\ \A k \in DOMAIN queue : queue[k] <= used.calls
  /\ result.id <= used.calls /\ worker.req <= used.calls
PassInv ==
  /\ worker.pc = "lock" => worker.i = 1
  /\ worker.pc = "flushed" => worker.i = StoreCount + 1

(* A pass without an error that runs for the number of a call has saved    *)
(* what that call had seen of the stores behind it; so has one whose       *)
(* result is OK, of all stores.                                            *)
Covers(t, s) == saved[s] >= call[t].seen[s]
PassCovers(t) ==
  /\ WorkerInStore => \A s \in Stores : s < worker.i => Covers(t, s)
  /\ worker.pc = "write" => worker.snap >= call[t].seen[worker.i]
  /\ worker.pc = "publish" => \A s \in Stores : Covers(t, s)
CallCovered(t) ==
  call[t].n # 0 =>
    /\ \A s \in Stores : call[t].seen[s] <= rev[s]
    /\ worker.req = call[t].n /\ worker.err = "OK" => PassCovers(t)
    /\ result.id = call[t].n /\ result.ret = "OK" => \A s \in Stores : Covers(t, s)
CoverInv == NumbersInv /\ PassInv /\ \A t \in Tasks : CallCovered(t)

LEMMA InitSaves == WorkerInit => SavesInv /\ CoverInv
<1> SUFFICES ASSUME WorkerInit PROVE SavesInv /\ CoverInv
  OBVIOUS
<1> USE DEF WorkerInit
<1>1. \A t \in Tasks : pc[t] = "idle" /\ call[t] = NoCall /\ t # NoTask
  BY TasksAssumption
<1>2. NoCall.n = 0 /\ Worker # NoTask  BY TasksAssumption DEF NoCall
<1>3. SavesInv
  BY <1>1, <1>2 DEF SavesInv, NothingLost, SaverHasTheStore, SnapshotsAreNewer, Saving, IdleWorker
<1>4. CoverInv
  BY <1>1, <1>2 DEF CoverInv, NumbersInv, PassInv, CallCovered, IdleWorker
<1> QED BY <1>3, <1>4

(* A step in which nobody begins or ends a save.                           *)
LEMMA QuietSaves ==
  ASSUME Typed, SavesInv, UNCHANGED <<saved, io>>,
         rev' \in [Stores -> Nat], \A s \in Stores : rev[s] <= rev'[s],
         \A t \in Tasks : /\ Saving(t)' <=> Saving(t)
                          /\ Saving(t) => call'[t].store = call[t].store /\ call'[t].snap = call[t].snap,
         worker'.pc = "write" <=> worker.pc = "write",
         worker.pc = "write" => worker'.i = worker.i /\ worker'.snap = worker.snap
  PROVE  SavesInv'
<1> USE DEF Typed, TasksType, PassType, StoresType, CallType, WorkerType
<1>1. NothingLost'  BY DEF SavesInv, NothingLost
<1>2. SaverHasTheStore'  BY DEF SavesInv, SaverHasTheStore
<1>3. \A t \in Tasks : Saving(t) => call[t].store \in Stores /\ call[t].snap \in Nat
  OBVIOUS
<1>4. SnapshotsAreNewer'  BY <1>3 DEF SavesInv, SnapshotsAreNewer
<1> QED BY <1>1, <1>2, <1>4 DEF SavesInv

LEMMA SaveBeginSaves ==
  ASSUME Typed, SavesInv, NEW t \in Tasks, NEW s \in Stores, SaveBegin(t, s)
  PROVE  /\ SavesInv' /\ UNCHANGED <<queue, result, worker, rev, saved, used>>
         /\ \A u \in Tasks : call'[u].n = call[u].n /\ call'[u].seen = call[u].seen
         /\ pc[t] # "f_poll"
         /\ \A u \in Tasks \ {t} : pc'[u] = pc[u]
<1> USE DEF Typed, StoresType
<1>0. /\ \A u \in Tasks : u # NoTask /\ u # Worker
      /\ pc \in [Tasks -> TaskLabels] /\ call \in [Tasks -> CallType] /\ call[t] \in CallType
  BY TasksAssumption DEF TasksType
<1> DEFINE begun == [call[t] EXCEPT !.store = s, !.snap = rev[s], !.home = pc[t]]
<1>1. begun.store = s /\ begun.snap = rev[s] /\ begun.n = call[t].n /\ begun.seen = call[t].seen
  BY <1>0 DEF CallType
<1>2. /\ call' = [call EXCEPT ![t] = begun] /\ io' = [io EXCEPT ![s] = t]
      /\ pc' = [pc EXCEPT ![t] = "s_check"] /\ pc[t] \in {"idle", "owned"}
      /\ io[s] = NoTask /\ UNCHANGED <<queue, result, worker, rev, saved, used>>
  <2>1. call' = [call EXCEPT ![t] = begun]  BY DEF SaveBegin
  <2> QED BY <2>1 DEF SaveBegin, Goto
<1> HIDE DEF begun
<1>3. ~Saving(t) /\ Saving(t)' /\ \A u \in Tasks \ {t} : (Saving(u)' <=> Saving(u)) /\ call'[u] = call[u] /\ pc'[u] = pc[u]
  BY <1>0, <1>2 DEF Saving
<1>4. call'[t] = begun  BY <1>0, <1>2
<1>5. NothingLost'  BY <1>2 DEF SavesInv, NothingLost
<1>6. SaverHasTheStore'
  <2> SUFFICES ASSUME NEW r \in Stores
               PROVE  /\ \A u \in Tasks : io'[r] = u <=> Saving(u)' /\ call'[u].store = r
                      /\ io'[r] = Worker <=> worker'.pc = "write" /\ worker'.i = r
    BY DEF SaverHasTheStore
  <2>1. CASE r = s
    <3>1. io'[r] = t /\ io[r] = NoTask  BY <1>2, <2>1
    <3>2. \A u \in Tasks : ~(Saving(u) /\ call[u].store = r)
      BY <1>0, <3>1 DEF SavesInv, SaverHasTheStore
    <3>3. ~(worker.pc = "write" /\ worker.i = r)
      BY <3>1, TasksAssumption DEF SavesInv, SaverHasTheStore
    <3> QED BY <1>0, <1>1, <1>2, <1>3, <1>4, <2>1, <3>1, <3>2, <3>3
  <2>2. CASE r # s
    <3>1. io'[r] = io[r]  BY <1>2, <2>2
    <3>2. io[r] # t  BY <1>3 DEF SavesInv, SaverHasTheStore
    <3> QED BY <1>1, <1>2, <1>3, <1>4, <2>2, <3>1, <3>2 DEF SavesInv, SaverHasTheStore
  <2> QED BY <2>1, <2>2
<1>7. SnapshotsAreNewer'
  BY <1>0, <1>1, <1>2, <1>3, <1>4 DEF SavesInv, SnapshotsAreNewer, NothingLost
<1> QED BY <1>1, <1>2, <1>3, <1>4, <1>5, <1>6, <1>7 DEF SavesInv

LEMMA SaveStepSaves ==
  ASSUME Typed, SavesInv, NEW t \in Tasks, (\E s \in Stores : SaveBegin(t, s)) \/ SaveStep(t)
  PROVE  /\ SavesInv'
         /\ \A s \in Stores : saved[s] <= saved'[s]
         /\ UNCHANGED <<queue, result, worker, rev, used.calls>>
         /\ \A u \in Tasks : call'[u].n = call[u].n /\ call'[u].seen = call[u].seen
         /\ pc[t] # "f_poll"
         /\ \A u \in Tasks \ {t} : pc'[u] = pc[u]
<1> USE DEF Typed, StoresType
<1>0. /\ \A u \in Tasks : u # NoTask /\ u # Worker
      /\ pc \in [Tasks -> TaskLabels] /\ call \in [Tasks -> CallType] /\ call[t] \in CallType
  BY TasksAssumption DEF TasksType
<1>2. ASSUME SaveLeaves(t), Saving(t),
             saved' = saved \/ saved' = [saved EXCEPT ![call[t].store] = call[t].snap],
             UNCHANGED <<rev, worker>>
      PROVE  /\ SavesInv' /\ \A s \in Stores : saved[s] <= saved'[s]
             /\ \A u \in Tasks : call'[u].n = call[u].n /\ call'[u].seen = call[u].seen
             /\ \A u \in Tasks \ {t} : pc'[u] = pc[u]
  <2> DEFINE left == [call[t] EXCEPT !.store = 1, !.snap = 0, !.home = "idle"]
             mine == call[t].store
  <2>1. left.n = call[t].n /\ left.seen = call[t].seen  BY <1>0 DEF CallType
  <2>2. /\ call' = [call EXCEPT ![t] = left] /\ io' = [io EXCEPT ![mine] = NoTask]
        /\ pc' = [pc EXCEPT ![t] = call[t].home]
    BY <1>2 DEF SaveLeaves, Goto
  <2>3. mine \in Stores /\ call[t].snap \in Nat /\ call[t].home \in {"idle", "owned"}  BY <1>0 DEF CallType
  <2> HIDE DEF left, mine
  <2>4. ~Saving(t)' /\ \A u \in Tasks \ {t} : (Saving(u)' <=> Saving(u)) /\ call'[u] = call[u] /\ pc'[u] = pc[u]
    BY <1>0, <2>2, <2>3 DEF Saving
  <2>5. io[mine] = t /\ (\A u \in Tasks \ {t} : Saving(u) => call[u].store # mine)
        /\ (worker.pc = "write" => worker.i # mine)
    BY <1>0, <1>2, <2>3 DEF SavesInv, SaverHasTheStore, mine
  <2>6. saved[mine] <= call[t].snap /\ call[t].snap <= rev[mine]
    BY <1>2 DEF SavesInv, SnapshotsAreNewer, mine
  <2>7. \A s \in Stores : saved[s] <= saved'[s] /\ saved'[s] <= rev[s] /\ (s # mine => saved'[s] = saved[s])
    BY <1>2, <2>3, <2>6 DEF SavesInv, NothingLost, mine
  <2>8. NothingLost'  BY <1>2, <2>7 DEF NothingLost
  <2>9. SaverHasTheStore'
    <3> SUFFICES ASSUME NEW r \in Stores
                 PROVE  /\ \A u \in Tasks : io'[r] = u <=> Saving(u)' /\ call'[u].store = r
                        /\ io'[r] = Worker <=> worker'.pc = "write" /\ worker'.i = r
      BY DEF SaverHasTheStore
    <3>1. CASE r = mine
      <4>1. io'[r] = NoTask  BY <2>2, <3>1
      <4> QED BY <1>0, <1>2, <2>4, <2>5, <3>1, <4>1, TasksAssumption
    <3>2. CASE r # mine
      <4>1. io'[r] = io[r]  BY <2>2, <3>2
      <4>2. io[r] # t  BY <3>2 DEF SavesInv, SaverHasTheStore, mine
      <4> QED BY <1>2, <2>4, <4>1, <4>2 DEF SavesInv, SaverHasTheStore
    <3> QED BY <3>1, <3>2
  <2>10. SnapshotsAreNewer'
    <3>1. \A u \in Tasks : call[u].store \in Stores  BY <1>0 DEF CallType
    <3>2. worker.pc = "write" => worker.i \in Stores  BY DEF PassType
    <3> QED BY <1>2, <2>4, <2>5, <2>7, <3>1, <3>2 DEF SavesInv, SnapshotsAreNewer
  <2>11. call'[t] = left  BY <1>0, <2>2
  <2> QED BY <2>1, <2>4, <2>7, <2>8, <2>9, <2>10, <2>11 DEF SavesInv
<1>3. CASE \E s \in Stores : SaveBegin(t, s)
  <2>1. PICK s \in Stores : SaveBegin(t, s)  BY <1>3
  <2> QED BY <2>1, SaveBeginSaves
<1>4. CASE SaveCheck(t)
  <2>1. CASE SaveLeaves(t)
    BY <1>2, <1>4, <2>1 DEF SaveCheck, Saving
  <2>2. CASE Goto(t, "s_write") /\ UNCHANGED <<io, call>>
    <3>1. /\ \A u \in Tasks : Saving(u)' <=> Saving(u)
          /\ \A u \in Tasks \ {t} : pc'[u] = pc[u]
      BY <1>0, <1>4, <2>2 DEF SaveCheck, Goto, Saving
    <3>2. UNCHANGED <<rev, saved, worker, queue, result, used>> /\ pc[t] = "s_check"  BY <1>4 DEF SaveCheck
    <3>3. SavesInv'  BY <2>2, <3>1, <3>2, QuietSaves
    <3> QED BY <2>2, <3>1, <3>2, <3>3
  <2> QED BY <1>4, <2>1, <2>2 DEF SaveCheck
<1>5. CASE SaveWrite(t)
  <2>1. used'.calls = used.calls  BY <1>5 DEF SaveWrite, Fault, BoundsType
  <2> QED BY <1>2, <1>5, <2>1 DEF SaveWrite, Saving
<1> QED BY <1>3, <1>4, <1>5 DEF SaveStep

LEMMA CallStepSaves ==
  ASSUME Typed, SavesInv, NEW t \in Tasks, ForceStep(t) \/ QuiesceStep(t)
  PROVE  /\ SavesInv' /\ UNCHANGED <<worker, result, used, stores>>
         /\ \A u \in Tasks : call'[u].n # 0 => call'[u] = call[u]
         /\ queue' = queue \/ (queue' = Append(queue, call[t].n))
<1> USE DEF Typed, TasksType
<1>1. /\ UNCHANGED <<worker, result, used, stores>>
      /\ queue' = queue \/ (queue' = Append(queue, call[t].n))
  BY DEF ForceStep, ForceLock, ForceRegister, ForceSend, ForcePoll, QuiesceStep, QuiesceRegister,
         QuiesceRequest, QuiesceFlush, QuiesceOwn, QuiesceEnd, QuiesceGive
<1>2. ~Saving(t)
  BY DEF ForceStep, ForceLock, ForceRegister, ForceSend, ForcePoll, QuiesceStep, QuiesceRegister,
         QuiesceRequest, QuiesceFlush, QuiesceOwn, QuiesceEnd, QuiesceGive, Saving
<1>3. \/ \E l \in TaskLabels \ {"s_check", "s_write"} : Goto(t, l) /\ UNCHANGED call
      \/ \E r \in {"OK", "TIMEOUT", "INVALID_STATE", result.ret} : Return(t, r)
  BY DEF ForceStep, ForceLock, ForceRegister, ForceSend, ForcePoll, ForceLeaves, QuiesceStep, QuiesceRegister,
         QuiesceRequest, QuiesceFlush, QuiesceOwn, QuiesceEnd, QuiesceGive, TaskLabels
<1>4. /\ \A u \in Tasks \ {t} : (Saving(u)' <=> Saving(u)) /\ call'[u] = call[u]
      /\ ~Saving(t)' /\ (call'[t] = call[t] \/ call'[t].n = 0)
  BY <1>3 DEF Goto, Return, Saving, NoCall
<1>5. SavesInv'
  <2>1. \A s \in Stores : rev[s] \in Nat /\ rev' = rev  BY <1>1 DEF StoresType, stores
  <2> QED BY <1>1, <1>2, <1>4, <2>1, QuietSaves DEF stores, StoresType
<1> QED BY <1>1, <1>4, <1>5

LEMMA BeginSaves ==
  ASSUME Typed, SavesInv, NEW t \in Tasks, NEW mode, NEW l \in {"f_lock", "q_register"}, Begin(t, mode, l)
  PROVE  /\ SavesInv' /\ pc[t] = "idle" /\ UNCHANGED <<worker, result, queue, stores>>
         /\ \A u \in Tasks \ {t} : call'[u] = call[u] /\ pc'[u] = pc[u]
         /\ call'[t].n = used.calls + 1 /\ call'[t].seen = rev /\ used'.calls = used.calls + 1
<1> USE DEF Typed, TasksType
<1> DEFINE begun == [NoCall EXCEPT !.n = used.calls + 1, !.mode = mode, !.seen = rev]
<1>1. begun.n = used.calls + 1 /\ begun.seen = rev  BY DEF NoCall
<1>2. call' = [call EXCEPT ![t] = begun] /\ pc' = [pc EXCEPT ![t] = l] /\ pc[t] = "idle"
      /\ UNCHANGED <<worker, result, queue, stores>>
      /\ used' = [used EXCEPT !.calls = @ + 1]
  BY DEF Begin, Goto
<1> HIDE DEF begun
<1>3. \A u \in Tasks : Saving(u)' <=> Saving(u)  BY <1>2 DEF Saving
<1>4. ~Saving(t)  BY <1>2 DEF Saving
<1>5. \A u \in Tasks \ {t} : call'[u] = call[u] /\ pc'[u] = pc[u]  BY <1>2
<1>6. SavesInv'
  <2>1. \A s \in Stores : rev[s] \in Nat /\ rev' = rev  BY <1>2 DEF StoresType, stores
  <2> QED BY <1>2, <1>3, <1>4, <1>5, <2>1, QuietSaves DEF stores, StoresType
<1>7. used'.calls = used.calls + 1  BY <1>2 DEF BoundsType
<1> QED BY <1>1, <1>2, <1>5, <1>6, <1>7

(* The pass: its own saves.                                                *)
LEMMA WorkerFlushesSaves ==
  ASSUME Typed, SavesInv, WorkerFlushes
  PROVE  /\ SavesInv' /\ UNCHANGED <<saved, rev>>
         /\ worker'.snap = rev[worker.i] /\ worker'.pc = "write" /\ worker'.i = worker.i
<1> USE DEF Typed, StoresType
<1>1. /\ worker' = [worker EXCEPT !.pc = "write", !.snap = rev[worker.i]] /\ worker.pc = "ready"
      /\ io' = [io EXCEPT ![worker.i] = Worker] /\ io[worker.i] = NoTask
      /\ UNCHANGED <<pc, call, rev, saved>>
  BY DEF WorkerFlushes
<1>2. worker.i \in Stores /\ worker \in WorkerType  BY <1>1 DEF PassType
<1>3. worker'.snap = rev[worker.i] /\ worker'.pc = "write" /\ worker'.i = worker.i
  BY <1>1, <1>2 DEF WorkerType
<1>4. NothingLost'  BY <1>1 DEF SavesInv, NothingLost
<1>5. SaverHasTheStore'
  <2> SUFFICES ASSUME NEW r \in Stores
               PROVE  /\ \A u \in Tasks : io'[r] = u <=> Saving(u)' /\ call'[u].store = r
                      /\ io'[r] = Worker <=> worker'.pc = "write" /\ worker'.i = r
    BY DEF SaverHasTheStore
  <2>0. \A u \in Tasks : (Saving(u)' <=> Saving(u)) /\ call'[u] = call[u] /\ u # NoTask /\ u # Worker
    BY <1>1, TasksAssumption DEF Saving
  <2>1. CASE r = worker.i
    <3>1. io'[r] = Worker /\ io[r] = NoTask  BY <1>1, <2>1
    <3>2. \A u \in Tasks : ~(Saving(u) /\ call[u].store = r)
      BY <2>0, <3>1 DEF SavesInv, SaverHasTheStore
    <3> QED BY <1>3, <2>0, <2>1, <3>1, <3>2
  <2>2. CASE r # worker.i
    <3>1. io'[r] = io[r]  BY <1>1, <2>2
    <3> QED BY <1>1, <1>3, <2>0, <2>2, <3>1 DEF SavesInv, SaverHasTheStore
  <2> QED BY <2>1, <2>2
<1>6. SnapshotsAreNewer'
  <2>1. saved[worker.i] <= rev[worker.i] /\ rev[worker.i] \in Nat  BY <1>2 DEF SavesInv, NothingLost
  <2> QED BY <1>1, <1>3, <2>1 DEF SavesInv, SnapshotsAreNewer, Saving
<1> QED BY <1>1, <1>3, <1>4, <1>5, <1>6 DEF SavesInv

LEMMA WorkerWritesSaves ==
  ASSUME Typed, SavesInv, WorkerWrites
  PROVE  /\ SavesInv' /\ rev' = rev /\ \A s \in Stores : saved[s] <= saved'[s]
         /\ \/ saved'[worker.i] = worker.snap /\ worker' = Flushed(worker.err)
            \/ worker' = Flushed(FirstError("FAILED"))
         /\ used'.calls = used.calls
<1> USE DEF Typed, StoresType
<1> DEFINE mine == worker.i
<1>1. /\ worker.pc = "write" /\ io' = [io EXCEPT ![mine] = NoTask]
      /\ UNCHANGED <<pc, call, rev>>
      /\ \/ saved' = [saved EXCEPT ![mine] = worker.snap] /\ worker' = Flushed(worker.err)
         \/ saved' = saved /\ worker' = Flushed(FirstError("FAILED"))
  BY DEF WorkerWrites
<1>2. mine \in Stores /\ worker \in WorkerType /\ worker.snap \in Nat  BY <1>1 DEF PassType, WorkerType
<1>3. worker'.pc # "write"  BY <1>1, <1>2 DEF Flushed, WorkerType
<1>4. saved[mine] <= worker.snap /\ worker.snap <= rev[mine]
  BY <1>1 DEF SavesInv, SnapshotsAreNewer
<1>5. io[mine] = Worker /\ \A u \in Tasks : u # NoTask /\ u # Worker /\ ~(Saving(u) /\ call[u].store = mine)
  BY <1>1, <1>2, TasksAssumption DEF SavesInv, SaverHasTheStore
<1> HIDE DEF mine
<1>6. \A s \in Stores : saved[s] <= saved'[s] /\ saved'[s] <= rev[s] /\ (s # mine => saved'[s] = saved[s])
  BY <1>1, <1>2, <1>4 DEF SavesInv, NothingLost
<1>7. NothingLost'  BY <1>1, <1>6 DEF NothingLost
<1>8. SaverHasTheStore'
  <2> SUFFICES ASSUME NEW r \in Stores
               PROVE  /\ \A u \in Tasks : io'[r] = u <=> Saving(u)' /\ call'[u].store = r
                      /\ io'[r] = Worker <=> worker'.pc = "write" /\ worker'.i = r
    BY DEF SaverHasTheStore
  <2>0. \A u \in Tasks : (Saving(u)' <=> Saving(u)) /\ call'[u] = call[u]
    BY <1>1 DEF Saving
  <2>1. CASE r = mine
    <3>1. io'[r] = NoTask  BY <1>1, <2>1
    <3> QED BY <1>3, <1>5, <2>0, <2>1, <3>1, TasksAssumption
  <2>2. CASE r # mine
    <3>1. io'[r] = io[r]  BY <1>1, <2>2
    <3>2. io[r] # Worker  BY <2>2 DEF SavesInv, SaverHasTheStore, mine
    <3> QED BY <1>3, <2>0, <3>1, <3>2 DEF SavesInv, SaverHasTheStore
  <2> QED BY <2>1, <2>2
<1>9. SnapshotsAreNewer'
  <2>1. \A u \in Tasks : call[u].store \in Stores  BY DEF TasksType, CallType
  <2> QED BY <1>1, <1>3, <1>5, <1>6, <2>1 DEF SavesInv, SnapshotsAreNewer, Saving
<1>10. saved' = [saved EXCEPT ![mine] = worker.snap] => saved'[worker.i] = worker.snap
  BY <1>2 DEF mine
<1>11. used'.calls = used.calls  BY DEF WorkerWrites, Fault, BoundsType
<1> QED BY <1>1, <1>6, <1>7, <1>8, <1>9, <1>10, <1>11 DEF SavesInv

LEMMA WorkerElseSaves ==
  ASSUME Typed, SavesInv,
         WorkerTakes \/ WorkerLock \/ WorkerCancels \/ WorkerObserves \/ WorkerNotDue
           \/ WorkerDone \/ WorkerPublishes
  PROVE  SavesInv'
<1> USE DEF Typed
<1>1. worker \in WorkerType /\ UNCHANGED <<pc, call, stores>>
  BY DEF PassType, WorkerTakes, WorkerLock, WorkerCancels, WorkerObserves, WorkerNotDue, WorkerDone,
         WorkerPublishes
<1>2. worker.pc # "write"
  BY DEF WorkerTakes, WorkerLock, WorkerCancels, Looks, WorkerObserves, WorkerNotDue, WorkerDone, WorkerPublishes
<1>3. worker'.pc # "write"
  <2>1. ASSUME NEW ret, EndPass(ret) PROVE worker'.pc = "publish"  BY <2>1 DEF EndPass, IdleWorker
  <2>2. CASE WorkerTakes  BY <2>2 DEF WorkerTakes, IdleWorker
  <2>3. CASE WorkerLock  BY <1>1, <2>3 DEF WorkerLock, WorkerType
  <2>4. CASE WorkerCancels  BY <2>1, <2>4 DEF WorkerCancels
  <2>5. CASE WorkerObserves  BY <1>1, <2>5 DEF WorkerObserves, WorkerType
  <2>6. CASE WorkerNotDue  BY <1>1, <2>6 DEF WorkerNotDue, Flushed, WorkerType
  <2>7. CASE WorkerDone  BY <2>1, <2>7 DEF WorkerDone
  <2>8. CASE WorkerPublishes  BY <2>8 DEF WorkerPublishes, IdleWorker
  <2> QED BY <2>2, <2>3, <2>4, <2>5, <2>6, <2>7, <2>8
<1>4. \A u \in Tasks : Saving(u)' <=> Saving(u)  BY <1>1 DEF Saving
<1>5. \A s \in Stores : rev[s] \in Nat /\ rev' = rev  BY <1>1 DEF StoresType, stores
<1> QED BY <1>1, <1>2, <1>3, <1>4, <1>5, QuietSaves DEF stores, StoresType

(* What is covered stays covered, while the pass does not move.            *)
LEMMA CoversKept ==
  ASSUME Typed, Typed', CoverInv, UNCHANGED <<worker, result>>, used.calls <= used'.calls,
         \A s \in Stores : saved[s] <= saved'[s] /\ rev[s] <= rev'[s],
         NEW T \in SUBSET Tasks,
         \A u \in T : call'[u].n # 0 => call'[u].n = call[u].n /\ call'[u].seen = call[u].seen,
         \A u \in Tasks \ T : /\ call'[u].n > used.calls /\ call'[u].n <= used'.calls
                              /\ \A s \in Stores : call'[u].seen[s] <= rev'[s],
         \A k \in DOMAIN queue' : queue'[k] <= used.calls
  PROVE  CoverInv'
<1>0. /\ call \in [Tasks -> CallType] /\ call' \in [Tasks -> CallType]
      /\ used.calls \in Nat /\ used'.calls \in Nat /\ worker \in WorkerType /\ result.id \in Nat
      /\ saved \in [Stores -> Nat] /\ saved' \in [Stores -> Nat] /\ rev \in [Stores -> Nat] /\ rev' \in [Stores -> Nat]
  BY CountsAssumption DEF Typed, TasksType, QueueType, PassType, StoresType, BoundsType
<1>1. queue' \in Seq(1 .. MaxCalls)  BY DEF Typed, QueueType
<1>2. NumbersInv'
  <2>1. \A u \in Tasks : call'[u].n \in Nat /\ call[u].n \in Nat  BY <1>0, CountsAssumption DEF CallType
  <2>2. \A k \in DOMAIN queue' : queue'[k] \in Nat  BY <1>1, CountsAssumption
  <2>3. worker.req \in Nat  BY <1>0, CountsAssumption DEF WorkerType
  <2> QED BY <1>0, <2>1, <2>2, <2>3 DEF CoverInv, NumbersInv
<1>3. PassInv'  BY DEF CoverInv, PassInv
<1>4. ASSUME NEW u \in Tasks PROVE CallCovered(u)'
  <2> SUFFICES ASSUME call'[u].n # 0 PROVE CallCovered(u)'
    BY DEF CallCovered
  <2>0. call[u] \in CallType /\ call'[u] \in CallType  BY <1>0
  <2>1. CASE u \in T
    <3>1. call'[u].n = call[u].n /\ call'[u].seen = call[u].seen  BY <2>1
    <3>2. \A s \in Stores : call[u].seen[s] \in Nat  BY <2>0 DEF CallType
    <3>3. CallCovered(u)  BY DEF CoverInv
    <3>4. \A s \in Stores : call'[u].seen[s] <= rev'[s]  BY <1>0, <3>1, <3>2, <3>3 DEF CallCovered
    <3>5. \A s \in Stores : Covers(u, s) => Covers(u, s)'  BY <1>0, <3>1, <3>2 DEF Covers
    <3>6. PassCovers(u) => PassCovers(u)'  BY <3>1, <3>5 DEF PassCovers, WorkerInStore
    <3> QED BY <3>1, <3>3, <3>4, <3>5, <3>6 DEF CallCovered
  <2>2. CASE u \in Tasks \ T
    <3>1. worker.req <= used.calls /\ result.id <= used.calls  BY DEF CoverInv, NumbersInv
    <3>2. worker.req \in Nat /\ call'[u].n \in Nat  BY <1>0, <2>0, CountsAssumption DEF WorkerType, CallType
    <3>3. worker'.req # call'[u].n /\ result'.id # call'[u].n  BY <1>0, <2>2, <3>1, <3>2
    <3> QED BY <2>2, <3>3 DEF CallCovered
  <2> QED BY <2>1, <2>2
<1> QED BY <1>2, <1>3, <1>4 DEF CoverInv

LEMMA QueueNumbers ==
  ASSUME Typed, NumbersInv, NEW t \in Tasks, queue' = queue \/ (queue' = Append(queue, call[t].n))
  PROVE  \A k \in DOMAIN queue' : queue'[k] <= used.calls
<1>1. queue \in Seq(1 .. MaxCalls)  BY DEF Typed, QueueType
<1>2. CASE queue' = Append(queue, call[t].n)
  <2>1. DOMAIN queue' = 1 .. Len(queue) + 1 /\ DOMAIN queue = 1 .. Len(queue) /\ Len(queue) \in Nat
    BY <1>1, <1>2
  <2>2. queue'[Len(queue) + 1] = call[t].n /\ \A k \in 1 .. Len(queue) : queue'[k] = queue[k]
    BY <1>1, <1>2
  <2> QED BY <2>1, <2>2 DEF NumbersInv
<1> QED BY <1>2 DEF NumbersInv

(* The pass goes on: for each call whose number it has, without an error.  *)
LEMMA PassMoves ==
  ASSUME Typed, Typed', CoverInv, UNCHANGED <<call, used.calls>>, NumbersInv', PassInv',
         \A s \in Stores : saved[s] <= saved'[s] /\ rev'[s] = rev[s],
         \A u \in Tasks : call[u].n # 0 /\ worker'.req = call[u].n /\ worker'.err = "OK" => PassCovers(u)',
         \A u \in Tasks : call[u].n # 0 /\ result'.id = call[u].n /\ result'.ret = "OK" =>
           \/ result' = result
           \/ \A s \in Stores : Covers(u, s)
  PROVE  CoverInv'
<1>0. /\ call \in [Tasks -> CallType] /\ saved \in [Stores -> Nat] /\ saved' \in [Stores -> Nat]
      /\ rev \in [Stores -> Nat]
  BY DEF Typed, TasksType, StoresType
<1>1. ASSUME NEW u \in Tasks PROVE CallCovered(u)'
  <2> SUFFICES ASSUME call[u].n # 0 PROVE CallCovered(u)'
    BY DEF CallCovered
  <2>1. \A s \in Stores : call[u].seen[s] \in Nat  BY <1>0 DEF CallType
  <2>2. \A s \in Stores : Covers(u, s) => Covers(u, s)'  BY <1>0, <2>1 DEF Covers
  <2>3. CallCovered(u)  BY DEF CoverInv
  <2> QED BY <2>2, <2>3 DEF CallCovered
<1> QED BY <1>1 DEF CoverInv

LEMMA EndPassCovers ==
  ASSUME Typed, Typed', CoverInv, NEW ret \in Returns, EndPass(ret), UNCHANGED <<call, queue, result, used, stores>>,
         \A u \in Tasks : call[u].n # 0 /\ worker.req = call[u].n /\ ret = "OK" => \A s \in Stores : Covers(u, s)
  PROVE  CoverInv'
<1>1. worker'.pc = "publish" /\ worker'.req = worker.req /\ worker'.err = ret
  BY DEF EndPass, IdleWorker
<1>2. NumbersInv' /\ PassInv'  BY <1>1 DEF CoverInv, NumbersInv, PassInv
<1>3. \A u \in Tasks : call[u].n # 0 /\ worker'.req = call[u].n /\ worker'.err = "OK" => PassCovers(u)'
  BY <1>1 DEF PassCovers, WorkerInStore, Covers, stores
<1>4. \A s \in Stores : saved[s] <= saved'[s] /\ rev'[s] = rev[s]
  BY DEF stores, Typed, StoresType
<1> QED BY <1>2, <1>3, <1>4, PassMoves

LEMMA WorkerCovers ==
  ASSUME Typed, Typed', SavesInv, CoverInv, WorkerStep
  PROVE  CoverInv'
<1>0. /\ worker \in WorkerType /\ call \in [Tasks -> CallType] /\ used.calls \in Nat
      /\ saved \in [Stores -> Nat] /\ rev \in [Stores -> Nat] /\ saved' \in [Stores -> Nat]
      /\ (worker.pc \in {"ready", "write"} => worker.i \in Stores) /\ worker.i \in 1 .. StoreCount + 1
      /\ \A u \in Tasks : \A s \in Stores : call[u].seen[s] \in Nat
      /\ queue \in Seq(1 .. MaxCalls)
  <2>1. call \in [Tasks -> CallType] /\ \A u \in Tasks : call[u] \in CallType  BY DEF Typed, TasksType
  <2>2. \A u \in Tasks : \A s \in Stores : call[u].seen[s] \in Nat  BY <2>1 DEF CallType
  <2>3. worker \in WorkerType /\ (worker.pc \in {"ready", "write"} => worker.i \in Stores)
    BY DEF Typed, PassType
  <2>4. worker.i \in 1 .. StoreCount + 1  BY <2>3 DEF WorkerType
  <2>5. used.calls \in Nat  BY CountsAssumption DEF Typed, BoundsType
  <2>6. saved \in [Stores -> Nat] /\ rev \in [Stores -> Nat] /\ saved' \in [Stores -> Nat]
    BY DEF Typed, StoresType
  <2>7. queue \in Seq(1 .. MaxCalls)  BY DEF Typed, QueueType
  <2> QED BY <2>1, <2>2, <2>3, <2>4, <2>5, <2>6, <2>7
<1>00. StoreCount \in Nat /\ Stores = 1 .. StoreCount  BY CountsAssumption DEF Stores
<1>01. UNCHANGED stores => \A s \in Stores : saved[s] <= saved'[s] /\ rev'[s] = rev[s]
  BY <1>0 DEF stores
<1> DEFINE Mine(u) == call[u].n # 0 /\ worker.req = call[u].n /\ worker.err = "OK"
<1>02. \A u \in Tasks : Mine(u) => PassCovers(u)  BY DEF CoverInv, CallCovered
<1>1. CASE WorkerTakes
  <2>1. /\ worker'.pc = "lock" /\ worker'.i = 1 /\ worker'.req <= used.calls
        /\ UNCHANGED <<call, used, result, stores>>
    <3>1. CASE queue = <<>>  BY <1>0, <1>1, <3>1 DEF WorkerTakes, IdleWorker
    <3>2. CASE queue # <<>>
      <4>1. Head(queue) = queue[1] /\ 1 \in DOMAIN queue  BY <1>0, <3>2
      <4>2. Head(queue) <= used.calls  BY <4>1 DEF CoverInv, NumbersInv
      <4> QED BY <1>1, <3>2, <4>2 DEF WorkerTakes, IdleWorker
    <3> QED BY <3>1, <3>2
  <2>2. \A k \in DOMAIN queue' : queue'[k] <= used.calls
    <3>1. CASE queue = <<>>  BY <1>1, <3>1 DEF WorkerTakes, CoverInv, NumbersInv
    <3>2. CASE queue # <<>>
      <4>1. queue' = Tail(queue)  BY <1>1, <3>2 DEF WorkerTakes
      <4>2. \A k \in DOMAIN Tail(queue) : k + 1 \in DOMAIN queue /\ Tail(queue)[k] = queue[k + 1]
        BY <1>0, <3>2
      <4> QED BY <4>1, <4>2 DEF CoverInv, NumbersInv
    <3> QED BY <3>1, <3>2
  <2>3. NumbersInv' /\ PassInv'  BY <2>1, <2>2 DEF CoverInv, NumbersInv, PassInv
  <2>4. \A u \in Tasks : PassCovers(u)'  BY <2>1 DEF PassCovers, WorkerInStore
  <2> QED BY <1>01, <2>1, <2>3, <2>4, PassMoves
<1>2. CASE WorkerLock
  <2>1. /\ \/ worker'.pc = "observe" /\ worker'.err = worker.err
           \/ worker'.pc = "publish" /\ worker'.err = "TIMEOUT"
        /\ worker'.i = 1 /\ worker'.req = worker.req
        /\ UNCHANGED <<call, used, result, stores, queue>>
    BY <1>0, <1>2 DEF WorkerLock, WorkerType, CoverInv, PassInv
  <2>2. NumbersInv' /\ PassInv'  BY <2>1 DEF CoverInv, NumbersInv, PassInv
  <2>3. \A u \in Tasks : worker'.err = "OK" => PassCovers(u)'
    BY <1>00, <2>1 DEF PassCovers, WorkerInStore
  <2> QED BY <1>01, <2>1, <2>2, <2>3, PassMoves
<1>3. CASE WorkerCancels
  <2>1. PICK ret : EndPass(ret) /\ ret \in {"TIMEOUT", CancelledPass(worker.err)}  BY <1>3 DEF WorkerCancels
  <2>2. worker.err \in Returns  BY <1>0 DEF WorkerType
  <2>3. ret \in Returns /\ (worker.req # 0 => ret # "OK")
    BY <2>1, <2>2 DEF CancelledPass, Forced, Returns
  <2>4. UNCHANGED <<call, queue, result, used, stores>>  BY <1>3 DEF WorkerCancels
  <2> QED BY <2>1, <2>3, <2>4, EndPassCovers
<1>4. CASE WorkerDone
  <2>1. EndPass(worker.err) /\ UNCHANGED <<call, queue, result, used, stores>>  BY <1>4 DEF WorkerDone
  <2>2. worker.err \in Returns  BY <1>0 DEF WorkerType
  <2>3. worker.i = StoreCount + 1 /\ WorkerInStore
    BY <1>0, <1>00, <1>4 DEF WorkerDone, AtStore, WorkerInStore, CoverInv, PassInv
  <2>4. \A u \in Tasks : Mine(u) => \A s \in Stores : Covers(u, s)
    BY <1>00, <1>02, <2>3 DEF PassCovers
  <2> QED BY <2>1, <2>2, <2>4, EndPassCovers
<1>5. CASE WorkerPublishes
  <2>1. /\ worker' = IdleWorker /\ worker.pc = "publish" /\ UNCHANGED <<call, queue, used, stores>>
        /\ result' = IF worker.req # 0 THEN [id |-> worker.req, ret |-> worker.err] ELSE result
    BY <1>5 DEF WorkerPublishes, Forced
  <2>2. worker'.pc = "idle" /\ worker'.req = 0  BY <2>1 DEF IdleWorker
  <2>3. (result'.id = worker.req /\ result'.ret = worker.err) \/ result' = result  BY <2>1
  <2>4. NumbersInv' /\ PassInv'  BY <1>0, <2>1, <2>2, <2>3 DEF CoverInv, NumbersInv, PassInv
  <2>5. \A u \in Tasks : Mine(u) => \A s \in Stores : Covers(u, s)  BY <1>02, <2>1 DEF PassCovers
  <2>6. \A u \in Tasks : call[u].n # 0 => ~(worker'.req = call[u].n)  BY <2>2
  <2> QED BY <1>01, <2>1, <2>3, <2>4, <2>5, <2>6, PassMoves
<1>6. CASE WorkerObserves
  <2>1. worker.pc = "observe" /\ worker.i \in Stores /\ UNCHANGED <<call, queue, result, used, stores>>
    BY <1>0, <1>00, <1>6 DEF WorkerObserves, AtStore
  <2>2. /\ worker'.req = worker.req /\ worker'.err = worker.err
        /\ \/ worker'.pc = "ready" /\ worker'.i = worker.i
           \/ ~Dirty(worker.i) /\ worker'.pc = "observe" /\ worker'.i = worker.i + 1
    BY <1>0, <1>6 DEF WorkerObserves, WorkerType
  <2>3. NumbersInv' /\ PassInv'  BY <2>1, <2>2 DEF CoverInv, NumbersInv, PassInv
  <2>4. ASSUME NEW u \in Tasks, Mine(u) PROVE PassCovers(u)'
    <3>1. \A s \in Stores : s < worker.i => Covers(u, s)  BY <1>02, <2>1, <2>4 DEF PassCovers, WorkerInStore
    <3>2. ~Dirty(worker.i) => Covers(u, worker.i)
      <4>1. CallCovered(u)  BY DEF CoverInv
      <4> QED BY <1>0, <2>1, <2>4, <4>1 DEF Dirty, Covers, CallCovered
    <3>3. \A s \in Stores : s < worker'.i => Covers(u, s)  BY <1>00, <2>1, <2>2, <3>1, <3>2
    <3> QED BY <2>1, <2>2, <3>3 DEF PassCovers, Covers, stores
  <2> QED BY <1>01, <2>1, <2>2, <2>3, <2>4, PassMoves
<1>7. ASSUME NEW err, worker' = Flushed(err), worker.pc \in {"ready", "write"}
      PROVE  /\ worker'.req = worker.req /\ worker'.err = err /\ worker'.i = worker.i + 1
             /\ worker'.pc = IF worker.i = StoreCount THEN "flushed" ELSE "observe"
  BY <1>0, <1>7 DEF Flushed, WorkerType
<1>8. CASE WorkerFlushes
  <2>1. /\ worker' = [worker EXCEPT !.pc = "write", !.snap = rev[worker.i]] /\ worker.pc = "ready"
        /\ UNCHANGED <<call, queue, result, used, saved, rev>>
    BY <1>8 DEF WorkerFlushes
  <2>2. /\ worker'.pc = "write" /\ worker'.snap = rev[worker.i] /\ worker'.i = worker.i
        /\ worker'.req = worker.req /\ worker'.err = worker.err
    BY <1>0, <2>1 DEF WorkerType
  <2>3. NumbersInv' /\ PassInv'  BY <2>1, <2>2 DEF CoverInv, NumbersInv, PassInv
  <2>4. ASSUME NEW u \in Tasks, Mine(u) PROVE PassCovers(u)'
    <3>1. \A s \in Stores : s < worker.i => Covers(u, s)  BY <1>02, <2>1, <2>4 DEF PassCovers, WorkerInStore
    <3>2. CallCovered(u) /\ worker.i \in Stores  BY <1>0, <2>1 DEF CoverInv
    <3>3. rev[worker.i] >= call[u].seen[worker.i]  BY <1>0, <2>4, <3>2 DEF CallCovered
    <3> QED BY <2>1, <2>2, <3>1, <3>3 DEF PassCovers, Covers
  <2>5. \A s \in Stores : saved[s] <= saved'[s] /\ rev'[s] = rev[s]  BY <1>0, <2>1
  <2> QED BY <2>1, <2>2, <2>3, <2>4, <2>5, PassMoves
<1>9. CASE WorkerNotDue
  <2>1. worker' = Flushed(worker.err) /\ worker.pc = "ready" /\ worker.req = 0
        /\ UNCHANGED <<call, queue, result, used, stores>>
    BY <1>9 DEF WorkerNotDue, Forced
  <2>2. NumbersInv' /\ PassInv'  BY <1>7, <2>1 DEF CoverInv, NumbersInv, PassInv
  <2>3. worker'.req = 0  BY <1>7, <2>1
  <2> QED BY <1>01, <2>1, <2>2, <2>3, PassMoves
<1>10. CASE WorkerWrites
  <2>1. worker.pc = "write" /\ UNCHANGED <<call, queue, result>>  BY <1>10 DEF WorkerWrites
  <2>2. /\ rev' = rev /\ \A s \in Stores : saved[s] <= saved'[s]
        /\ \/ saved'[worker.i] = worker.snap /\ worker' = Flushed(worker.err)
           \/ worker' = Flushed(FirstError("FAILED"))
        /\ used'.calls = used.calls
    BY <1>10, WorkerWritesSaves
  <2>3. NumbersInv' /\ PassInv'  BY <1>7, <2>1, <2>2 DEF CoverInv, NumbersInv, PassInv
  <2>4. ASSUME NEW u \in Tasks, call[u].n # 0, worker'.req = call[u].n, worker'.err = "OK" PROVE PassCovers(u)'
    <3>1. worker'.err = "OK" => worker' = Flushed(worker.err) /\ saved'[worker.i] = worker.snap /\ worker.err = "OK"
      <4>1. FirstError("FAILED") # "OK"  BY DEF FirstError
      <4> QED BY <1>7, <2>1, <2>2, <4>1
    <3>2. Mine(u) /\ worker'.i = worker.i + 1 /\ worker'.pc \in {"observe", "flushed"}
      BY <1>7, <2>1, <2>4, <3>1
    <3>3. PassCovers(u)  BY <1>02, <3>2
    <3>4. ASSUME NEW s \in Stores, s < worker.i PROVE Covers(u, s)'
      <4>1. Covers(u, s)  BY <2>1, <3>3, <3>4 DEF PassCovers, WorkerInStore
      <4>2. /\ saved[s] \in Nat /\ saved'[s] \in Nat /\ call[u].seen[s] \in Nat
            /\ saved[s] <= saved'[s]
        BY <1>0, <2>2
      <4> QED BY <2>1, <4>1, <4>2 DEF Covers
    <3>5. ASSUME NEW s \in Stores, s = worker.i PROVE Covers(u, s)'
      <4>1. worker.snap >= call[u].seen[s]  BY <2>1, <3>3, <3>5 DEF PassCovers
      <4>2. saved'[s] = worker.snap  BY <2>4, <3>1, <3>5
      <4> QED BY <2>1, <4>1, <4>2 DEF Covers
    <3>6. ASSUME NEW s \in Stores, s < worker.i + 1 PROVE Covers(u, s)'
      <4>1. s \in Int /\ worker.i \in Int  BY <1>0, <1>00
      <4>2. s < worker.i \/ s = worker.i  BY <3>6, <4>1
      <4> QED BY <3>4, <3>5, <4>2
    <3> QED BY <3>2, <3>6 DEF PassCovers
  <2> QED BY <2>1, <2>2, <2>3, <2>4, PassMoves
<1> QED BY <1>1, <1>2, <1>3, <1>4, <1>5, <1>6, <1>8, <1>9, <1>10 DEF WorkerStep

LEMMA TaskCovers ==
  ASSUME Typed, Typed', SavesInv, CoverInv,
         NEW t \in Tasks,
         \/ ForceStep(t) \/ QuiesceStep(t) \/ SaveStep(t) \/ \E s \in Stores : SaveBegin(t, s)
         \/ \E mode \in Modes, l \in {"f_lock", "q_register"} : Begin(t, mode, l)
  PROVE  SavesInv' /\ CoverInv'
<1>0. /\ used.calls \in Nat /\ saved \in [Stores -> Nat] /\ rev \in [Stores -> Nat]
  BY CountsAssumption DEF Typed, StoresType, BoundsType
<1>00. UNCHANGED stores => \A s \in Stores : saved[s] <= saved'[s] /\ rev[s] <= rev'[s]
  BY <1>0 DEF stores
<1>1. NumbersInv  BY DEF CoverInv
<1>2. CASE ForceStep(t) \/ QuiesceStep(t)
  <2>1. /\ SavesInv' /\ UNCHANGED <<worker, result, used, stores>>
        /\ \A u \in Tasks : call'[u].n # 0 => call'[u] = call[u]
        /\ queue' = queue \/ (queue' = Append(queue, call[t].n))
    BY <1>2, CallStepSaves
  <2>2. \A k \in DOMAIN queue' : queue'[k] <= used.calls  BY <1>1, <2>1, QueueNumbers
  <2>3. used.calls <= used'.calls  BY <1>0, <2>1
  <2>4. Tasks \in SUBSET Tasks /\ Tasks \ Tasks = {}  OBVIOUS
  <2> QED BY <1>00, <2>1, <2>2, <2>3, <2>4, CoversKept
<1>3. CASE SaveStep(t) \/ \E s \in Stores : SaveBegin(t, s)
  <2>1. /\ SavesInv' /\ \A s \in Stores : saved[s] <= saved'[s]
        /\ UNCHANGED <<queue, result, worker, rev, used.calls>>
        /\ \A u \in Tasks : call'[u].n = call[u].n /\ call'[u].seen = call[u].seen
    BY <1>3, SaveStepSaves
  <2>2. \A k \in DOMAIN queue' : queue'[k] <= used.calls  BY <1>1, <2>1 DEF NumbersInv
  <2>3. used.calls <= used'.calls /\ \A s \in Stores : rev[s] <= rev'[s]  BY <1>0, <2>1
  <2>4. Tasks \in SUBSET Tasks /\ Tasks \ Tasks = {}  OBVIOUS
  <2> QED BY <2>1, <2>2, <2>3, <2>4, CoversKept
<1>4. CASE \E mode \in Modes, l \in {"f_lock", "q_register"} : Begin(t, mode, l)
  <2>1. PICK mode \in Modes, l \in {"f_lock", "q_register"} : Begin(t, mode, l)  BY <1>4
  <2>2. /\ SavesInv' /\ UNCHANGED <<worker, result, queue, stores>>
        /\ \A u \in Tasks \ {t} : call'[u] = call[u]
        /\ call'[t].n = used.calls + 1 /\ call'[t].seen = rev /\ used'.calls = used.calls + 1
    BY <2>1, BeginSaves
  <2>3. \A k \in DOMAIN queue' : queue'[k] <= used.calls  BY <1>1, <2>2 DEF NumbersInv
  <2>4. Tasks \ {t} \in SUBSET Tasks /\ Tasks \ (Tasks \ {t}) = {t}  OBVIOUS
  <2>5. used.calls <= used'.calls /\ call'[t].n > used.calls /\ call'[t].n <= used'.calls
    BY <1>0, <2>2
  <2>6. \A s \in Stores : call'[t].seen[s] <= rev'[s]  BY <1>0, <2>2 DEF stores
  <2> QED BY <1>00, <2>2, <2>3, <2>4, <2>5, <2>6, CoversKept
<1> QED BY <1>2, <1>3, <1>4

LEMMA SavesStep ==
  ASSUME Typed, Typed', SavesInv, CoverInv, [WorkerNext]_workerVars
  PROVE  SavesInv' /\ CoverInv'
<1>0. /\ used.calls \in Nat /\ saved \in [Stores -> Nat] /\ rev \in [Stores -> Nat]
  BY CountsAssumption DEF Typed, StoresType, BoundsType
<1>1. NumbersInv /\ Tasks \in SUBSET Tasks /\ Tasks \ Tasks = {}  BY DEF CoverInv
<1>2. ASSUME UNCHANGED <<pc, call, queue, result, worker, saved, io>>, used'.calls = used.calls,
             rev' \in [Stores -> Nat], \A s \in Stores : rev[s] <= rev'[s]
      PROVE  SavesInv' /\ CoverInv'
  <2>1. SavesInv'  BY <1>2, QuietSaves DEF Saving
  <2>2. \A k \in DOMAIN queue' : queue'[k] <= used.calls  BY <1>1, <1>2 DEF NumbersInv
  <2>3. used.calls <= used'.calls /\ \A s \in Stores : saved[s] <= saved'[s]  BY <1>0, <1>2
  <2> QED BY <1>1, <1>2, <2>1, <2>2, <2>3, CoversKept
<1>3. CASE UNCHANGED workerVars
  BY <1>0, <1>2, <1>3 DEF workerVars
<1>4. ASSUME NEW s \in Stores, Change(s) PROVE SavesInv' /\ CoverInv'
  <2>1. /\ rev' = [rev EXCEPT ![s] = @ + 1] /\ used' = [used EXCEPT !.changes = @ + 1]
        /\ UNCHANGED <<pc, call, queue, result, worker, saved, io>>
    BY <1>4 DEF Change
  <2>2. used'.calls = used.calls  BY <2>1 DEF Typed, BoundsType
  <2>3. \A r \in Stores : rev[r] <= rev'[r]  BY <1>0, <2>1
  <2>4. rev' \in [Stores -> Nat]  BY DEF Typed, StoresType
  <2> QED BY <1>2, <2>1, <2>2, <2>3, <2>4
<1>5. ASSUME NEW n \in 1 .. used.calls, DeadlinePasses(n) PROVE SavesInv' /\ CoverInv'
  <2>1. UNCHANGED <<pc, call, queue, result, worker, rev, saved, io, used>>
    BY <1>5 DEF DeadlinePasses, stores
  <2> QED BY <1>0, <1>2, <2>1
<1>6. CASE WorkerStep
  <2>1. SavesInv'
    BY <1>6, WorkerFlushesSaves, WorkerWritesSaves, WorkerElseSaves DEF WorkerStep
  <2> QED BY <1>6, <2>1, WorkerCovers
<1>7. ASSUME NEW t \in Tasks, TaskStep(t) PROVE SavesInv' /\ CoverInv'
  BY <1>7, TaskCovers DEF TaskStep
<1>8. ASSUME NEW t \in Tasks, NEW s \in Stores, SaveBegin(t, s) PROVE SavesInv' /\ CoverInv'
  BY <1>8, TaskCovers
<1>9. ASSUME NEW t \in Tasks, NEW mode \in {"force", "begin", "wait", "edit"}, NEW l \in {"f_lock", "q_register"},
             Begin(t, mode, l)
      PROVE  SavesInv' /\ CoverInv'
  BY <1>9, TaskCovers DEF Modes
<1> QED BY <1>3, <1>4, <1>5, <1>6, <1>7, <1>8, <1>9 DEF WorkerNext

(* What a store's saver and a pass know of its revisions, by number: for   *)
(* every call, the stores its forced pass has behind it are saved at least *)
(* up to what the call saw when it began (the request id and the first     *)
(* error of d1l_retained_store_scheduler_run).                             *)
ForcedInv == IInv /\ SavesInv /\ CoverInv

(* ForcedInv holds in every reachable state.                               *)
THEOREM ForcedPassInvariant == WorkerSpec => []ForcedInv
<1>1. WorkerInit => ForcedInv  BY InitTyped, InitControl, InitSaves DEF ForcedInv, IInv
<1>2. ForcedInv /\ [WorkerNext]_workerVars => ForcedInv'  BY Step, SavesStep DEF ForcedInv, IInv
<1> QED BY <1>1, <1>2, PTL DEF WorkerSpec

(* d1l_route_store_worker_force_flush returns ESP_OK only when every change*)
(* made before it was called is saved, whatever requests of callers that   *)
(* gave up were left in the queue, and whoever else saved in between.      *)
THEOREM ForcedOkIsSaved == WorkerSpec => ForcedOkMeansSaved
<1> DEFINE Claim(t) ==
      pc[t] = "f_poll" /\ pc'[t] = "idle" /\ call'[t].ret = "OK" =>
        \A s \in Stores : saved[s] >= call[t].seen[s]
<1>1. ASSUME ForcedInv, [WorkerNext]_workerVars, NEW t \in Tasks PROVE Claim(t)
  <2> SUFFICES ASSUME pc[t] = "f_poll", pc'[t] = "idle", call'[t].ret = "OK"
               PROVE  \A s \in Stores : saved[s] >= call[t].seen[s]
    OBVIOUS
  <2>0. pc \in [Tasks -> TaskLabels] /\ call \in [Tasks -> CallType] /\ CallCovered(t)
    BY <1>1 DEF ForcedInv, IInv, Typed, TasksType, CoverInv
  <2>1. ASSUME NEW u \in Tasks, u # t, TaskStep(u) \/ \E s \in Stores : SaveBegin(u, s) PROVE FALSE
    <3>1. ASSUME NEW l, Goto(u, l) PROVE pc'[t] = pc[t]  BY <2>0, <2>1, <3>1 DEF Goto
    <3>2. ASSUME NEW s \in Stores, SaveBegin(u, s) PROVE Goto(u, "s_check")  BY <3>2 DEF SaveBegin
    <3>3. TaskStep(u) => \E l : Goto(u, l)
      BY DEF TaskStep, SaveStep, SaveCheck, SaveWrite, SaveLeaves, ForceStep, ForceLock, ForceRegister,
         ForceSend, ForcePoll, ForceLeaves, QuiesceStep, QuiesceRegister, QuiesceRequest, QuiesceFlush, QuiesceOwn,
         QuiesceEnd, QuiesceGive, Return
    <3> QED BY <2>1, <3>1, <3>2, <3>3
  <2>2. ASSUME NEW u \in Tasks, NEW mode, NEW l \in {"f_lock", "q_register"}, Begin(u, mode, l) PROVE FALSE
    <3>1. Goto(u, l)  BY <2>2 DEF Begin
    <3> QED BY <2>0, <3>1 DEF Goto
  <2>3. pc' # pc  OBVIOUS
  <2>4. ~WorkerStep /\ ~UNCHANGED workerVars
    BY <2>3 DEF WorkerStep, WorkerTakes, WorkerLock, WorkerCancels, WorkerObserves, WorkerFlushes, WorkerNotDue,
       WorkerWrites, WorkerDone, WorkerPublishes, workerVars
  <2>5. (\A s \in Stores : ~Change(s)) /\ (\A n \in 1 .. used.calls : ~DeadlinePasses(n))
    BY <2>3 DEF Change, DeadlinePasses
  <2>6. TaskStep(t) \/ \E s \in Stores : SaveBegin(t, s)
    BY <1>1, <2>1, <2>2, <2>4, <2>5 DEF WorkerNext
  <2>7. ForcePoll(t)
    <3>1. \A s \in Stores : ~SaveBegin(t, s)  BY DEF SaveBegin
    <3> QED BY <2>6, <3>1 DEF TaskStep, SaveStep, SaveCheck, SaveWrite, ForceStep, ForceLock, ForceRegister,
       ForceSend, QuiesceStep, QuiesceRegister, QuiesceRequest, QuiesceFlush, QuiesceOwn, QuiesceEnd, QuiesceGive
  <2>8. PICK r \in {result.ret, "TIMEOUT"} : Return(t, r) /\ (r = result.ret => ResultIsMine(t) \/ r = "TIMEOUT")
    BY <2>7 DEF ForcePoll, ForceLeaves
  <2>9. call'[t].ret = r  BY <2>0, <2>8 DEF Return, NoCall
  <2>10. call[t].n # 0  BY <1>1 DEF ForcedInv, IInv, Typed, TasksType, ForceLabels
  <2>11. result.ret = "OK" /\ result.id = call[t].n  BY <2>8, <2>9 DEF ResultIsMine
  <2> QED BY <2>0, <2>10, <2>11 DEF CallCovered, Covers
<1>2. ForcedInv /\ [WorkerNext]_workerVars => \A t \in Tasks : Claim(t)  BY <1>1
<1>3. ForcedInv /\ [WorkerNext]_workerVars => [\A t \in Tasks : Claim(t)]_workerVars  BY <1>2
<1> HIDE DEF Claim
<1>4. WorkerSpec => [][\A t \in Tasks : Claim(t)]_workerVars
  BY <1>3, ForcedPassInvariant, PTL DEF WorkerSpec
<1> QED BY <1>4 DEF ForcedOkMeansSaved, Claim
=============================================================================
