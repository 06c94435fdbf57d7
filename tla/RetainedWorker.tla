--------------------------- MODULE RetainedWorker ---------------------------
(***************************************************************************)
(* The retained worker (main/mesh/route_store_worker.c) and the passes it  *)
(* runs (main/storage/retained_store_scheduler.c).  The worker saves the   *)
(* stores in the background.  Other tasks ask it for a forced pass before  *)
(* a reboot, silence it (quiesce) before they use the storage bridge, and  *)
(* save single stores themselves.                                          *)
(*                                                                         *)
(* A call has a deadline of its own, which may pass at any moment; calls   *)
(* are numbered, and a number stands for the deadline and, as request ids  *)
(* are only compared, for the id of a forced request.                      *)
(*                                                                         *)
(* What a store's flush does with its media is the store's (DmStore): here *)
(* saved is the revision that a flush returning OK left clean.  Without a  *)
(* card a store that is kept on the card only has no medium, and its flush *)
(* returns OK all the same.                                                *)
(***************************************************************************)
EXTENDS Integers, Sequences, FiniteSets

CONSTANTS
  Tasks,          \* the tasks that call the worker's interface
  CallsOf,        \* which calls each of them makes
  Worker,         \* the worker's task
  NoTask,
  StoreCount,     \* stores, in the order of s_retained_stores
  QueueLength,    \* D1L_ROUTE_STORE_WORKER_QUEUE_LENGTH
  MaxCalls,       \* bounds of the model: calls,
  MaxChanges,     \* changes of a store,
  MaxFaults       \* writes that fail

ASSUME TasksAssumption == Worker \notin Tasks /\ NoTask \notin Tasks \cup {Worker}
Modes == {"force", "begin", "wait", "edit"}
ASSUME CallsAssumption == CallsOf \in [Tasks -> SUBSET Modes]
ASSUME CountsAssumption ==
  /\ StoreCount \in Nat \ {0} /\ QueueLength \in Nat \ {0}
  /\ MaxCalls \in Nat /\ MaxChanges \in Nat /\ MaxFaults \in Nat

VARIABLES
  pc,        \* where each task is
  call,      \* its call: number, mode, what it found, the store it saves
  mutex,     \* s_request_mutex, s_flush_mutex: the holders
  quiesce,   \* s_quiesce_requester, s_quiesce_owner, s_quiesce_preempt_requested
  forcer,    \* s_force_flush_requester
  queue,     \* s_request_queue: numbers of forced calls
  result,    \* s_result_request_id, s_result
  worker,    \* the worker: where it is, its pass
  rev,       \* each store: its revision in RAM,
  saved,     \*             the revision its last flush left clean,
  io,        \*             the task that is saving it
  passed,    \* calls whose deadline has passed
  used       \* what of the bounds is used

workerVars == <<pc, call, mutex, quiesce, forcer, queue, result, worker,
          rev, saved, io, passed, used>>
stores == <<rev, saved, io>>
signals == <<mutex, quiesce, forcer>>

Stores == 1 .. StoreCount
Dirty(s) == saved[s] # rev[s]
Passed(n) == n \in passed

NoCall == [n |-> 0, mode |-> "none", seen |-> [s \in Stores |-> 0], ret |-> "none",
           store |-> 1, snap |-> 0, home |-> "idle"]
IdleWorker == [pc |-> "idle", req |-> 0, i |-> 1, snap |-> 0, err |-> "OK"]

WorkerInit ==
  /\ pc = [t \in Tasks |-> "idle"]
  /\ call = [t \in Tasks |-> NoCall]
  /\ mutex = [request |-> NoTask, flush |-> NoTask]
  /\ quiesce = [requester |-> NoTask, owner |-> NoTask, preempt |-> FALSE]
  /\ forcer = NoTask
  /\ queue = <<>>
  /\ result = [id |-> 0, ret |-> "OK"]
  /\ worker = IdleWorker
  /\ rev = [s \in Stores |-> 0] /\ saved = rev
  /\ io = [s \in Stores |-> NoTask]
  /\ passed = {}
  /\ used = [calls |-> 0, changes |-> 0, faults |-> 0]

Goto(t, label) == pc' = [pc EXCEPT ![t] = label]
Return(t, ret) ==
  /\ Goto(t, "idle")
  /\ call' = [call EXCEPT ![t] = [NoCall EXCEPT !.ret = ret]]

Give(lock) == mutex' = [mutex EXCEPT ![lock] = NoTask]
Take(lock, t) ==
  /\ mutex[lock] = NoTask
  /\ mutex' = [mutex EXCEPT ![lock] = t]

(* d1l_route_store_persistence_should_yield, asked by task t.              *)
ShouldYield(t) ==
  \/ quiesce.preempt /\ quiesce.requester # NoTask
     /\ t \notin {quiesce.requester, quiesce.owner}
  \/ forcer # NoTask /\ t \notin {forcer, Worker}

-----------------------------------------------------------------------------
(* A store changes in RAM; a deadline somebody still looks at passes.      *)
Change(s) ==
  /\ used.changes < MaxChanges
  /\ used' = [used EXCEPT !.changes = @ + 1]
  /\ rev' = [rev EXCEPT ![s] = @ + 1]
  /\ UNCHANGED <<pc, call, signals, queue, result, worker, saved, io, passed>>

Watched(n) ==
  \/ \E t \in Tasks : call[t].n = n
  \/ \E k \in DOMAIN queue : queue[k] = n
  \/ worker.req = n

DeadlinePasses(n) ==
  /\ ~Passed(n) /\ Watched(n)
  /\ passed' = passed \cup {n}
  /\ UNCHANGED <<pc, call, signals, queue, result, worker, stores, used>>

Begin(t, mode, label) ==
  /\ pc[t] = "idle" /\ mode \in CallsOf[t]
  /\ used.calls < MaxCalls
  /\ used' = [used EXCEPT !.calls = @ + 1]
  /\ call' = [call EXCEPT ![t] = [NoCall EXCEPT !.n = used.calls + 1, !.mode = mode, !.seen = rev]]
  /\ Goto(t, label)
  /\ UNCHANGED <<signals, queue, result, worker, stores, passed>>

-----------------------------------------------------------------------------
(* d1l_route_store_worker_force_flush.                                     *)
Late(t) == Passed(call[t].n)

ForceLock(t) ==
  /\ pc[t] = "f_lock"
  /\ \/ /\ ~Late(t) /\ Take("request", t)
        /\ Goto(t, "f_register")
        /\ UNCHANGED call
     \/ /\ Late(t)
        /\ Return(t, "TIMEOUT")
        /\ UNCHANGED mutex
  /\ UNCHANGED <<quiesce, forcer, queue, result, worker, stores, passed, used>>

ForceRegister(t) ==
  /\ pc[t] = "f_register"
  /\ IF forcer = NoTask
     THEN forcer' = t /\ Goto(t, "f_send") /\ UNCHANGED <<call, mutex>>
     ELSE Return(t, "INVALID_STATE") /\ Give("request") /\ UNCHANGED forcer
  /\ UNCHANGED <<quiesce, queue, result, worker, stores, passed, used>>

ForceLeaves(t, ret) ==
  /\ forcer' = IF forcer = t THEN NoTask ELSE forcer
  /\ Give("request")
  /\ Return(t, ret)

RoomForOneMore == Len(queue) <= QueueLength      \* mutant: off by one
QueueHasRoom == Len(queue) < QueueLength

ForceSend(t) ==
  /\ pc[t] = "f_send"
  /\ \/ /\ QueueHasRoom
        /\ queue' = Append(queue, call[t].n)
        /\ Goto(t, "f_poll")
        /\ UNCHANGED <<call, mutex, forcer>>
     \/ /\ ~QueueHasRoom
        /\ ForceLeaves(t, "TIMEOUT")
        /\ UNCHANGED queue
  /\ UNCHANGED <<quiesce, result, worker, stores, passed, used>>

AnyResult(t) == result.id # 0                    \* mutant: whatever was published last
ResultIsMine(t) == result.id = call[t].n

ForcePoll(t) ==
  /\ pc[t] = "f_poll"
  /\ \/ ResultIsMine(t) /\ ForceLeaves(t, result.ret)
     \/ ~ResultIsMine(t) /\ Late(t) /\ ForceLeaves(t, "TIMEOUT")
  /\ UNCHANGED <<quiesce, queue, result, worker, stores, passed, used>>

-----------------------------------------------------------------------------
(* route_store_worker_quiesce_begin and its three front ends: "begin"      *)
(* cancels the worker's pass, "wait" lets it finish, "edit" repeats the    *)
(* request while another task has it.                                      *)
StayRegistered(t) == UNCHANGED quiesce           \* mutant: a timeout keeps the name
Unregister(t) ==
  quiesce' = IF quiesce.requester = t
             THEN [quiesce EXCEPT !.requester = NoTask, !.preempt = FALSE]
             ELSE quiesce

QuiesceIsFree == quiesce.owner = NoTask /\ quiesce.requester = NoTask

QuiesceRegister(t) ==
  /\ pc[t] = "q_register"
  /\ \/ /\ QuiesceIsFree
        /\ quiesce' = [quiesce EXCEPT !.requester = t, !.preempt = call[t].mode # "wait"]
        /\ Goto(t, "q_request")
        /\ UNCHANGED call
     \/ /\ ~QuiesceIsFree /\ call[t].mode # "edit"
        /\ Return(t, "INVALID_STATE")
        /\ UNCHANGED quiesce
     \/ /\ call[t].mode = "edit" /\ Late(t)
        /\ Return(t, "TIMEOUT")
        /\ UNCHANGED quiesce
  /\ UNCHANGED <<mutex, forcer, queue, result, worker, stores, passed, used>>

QuiesceRequest(t) ==
  /\ pc[t] = "q_request"
  /\ \/ ~Late(t) /\ Take("request", t) /\ Goto(t, "q_flush") /\ UNCHANGED <<call, quiesce>>
     \/ Late(t) /\ Unregister(t) /\ Return(t, "TIMEOUT") /\ UNCHANGED mutex
  /\ UNCHANGED <<forcer, queue, result, worker, stores, passed, used>>

QuiesceFlush(t) ==
  /\ pc[t] = "q_flush"
  /\ \/ ~Late(t) /\ Take("flush", t) /\ Goto(t, "q_own") /\ UNCHANGED <<call, quiesce>>
     \/ Late(t) /\ Unregister(t) /\ Give("request") /\ Return(t, "TIMEOUT")
  /\ UNCHANGED <<forcer, queue, result, worker, stores, passed, used>>

ModeKept(q, t) == [q EXCEPT !.owner = t]         \* mutant: a waiting request stays passive
Owned(q, t) == [q EXCEPT !.owner = t, !.preempt = TRUE]
GiveFlush == mutex' = [mutex EXCEPT !.flush = NoTask]   \* mutant: the request mutex is kept
GiveBoth == mutex' = [request |-> NoTask, flush |-> NoTask]

QuiesceOwn(t) ==
  /\ pc[t] = "q_own"
  /\ \/ ~Late(t) /\ quiesce' = Owned(quiesce, t) /\ Goto(t, "owned") /\ UNCHANGED <<call, mutex>>
     \/ Late(t) /\ Unregister(t) /\ GiveBoth /\ Return(t, "TIMEOUT")
  /\ UNCHANGED <<forcer, queue, result, worker, stores, passed, used>>

(* d1l_route_store_worker_quiesce_end: first the names, then the mutexes.  *)
QuiesceEnd(t) ==
  /\ pc[t] = "owned"
  /\ quiesce' = [requester |-> NoTask, owner |-> NoTask, preempt |-> FALSE]
  /\ Goto(t, "q_give")
  /\ UNCHANGED <<call, mutex, forcer, queue, result, worker, stores, passed, used>>

QuiesceGive(t) ==
  /\ pc[t] = "q_give"
  /\ GiveBoth
  /\ Return(t, "OK")
  /\ UNCHANGED <<quiesce, forcer, queue, result, worker, stores, passed, used>>

-----------------------------------------------------------------------------
(* A task saves a store itself: under the store's lock it asks whether to  *)
(* give way before each exchange with the bridge.                          *)
SaveBegin(t, s) ==
  /\ pc[t] \in {"idle", "owned"}
  /\ Dirty(s) /\ io[s] = NoTask
  /\ io' = [io EXCEPT ![s] = t]
  /\ call' = [call EXCEPT ![t].store = s, ![t].snap = rev[s], ![t].home = pc[t]]
  /\ Goto(t, "s_check")
  /\ UNCHANGED <<signals, queue, result, worker, rev, saved, passed, used>>

SaveLeaves(t) ==
  /\ io' = [io EXCEPT ![call[t].store] = NoTask]
  /\ call' = [call EXCEPT ![t].store = 1, ![t].snap = 0, ![t].home = "idle"]
  /\ Goto(t, call[t].home)

SaveCheck(t) ==
  /\ pc[t] = "s_check"
  /\ IF ShouldYield(t) THEN SaveLeaves(t) ELSE Goto(t, "s_write") /\ UNCHANGED <<io, call>>
  /\ UNCHANGED <<signals, queue, result, worker, rev, saved, passed, used>>

Fault ==
  /\ used.faults < MaxFaults
  /\ used' = [used EXCEPT !.faults = @ + 1]

SaveWrite(t) ==
  /\ pc[t] = "s_write"
  /\ \/ saved' = [saved EXCEPT ![call[t].store] = call[t].snap] /\ UNCHANGED used
     \/ Fault /\ UNCHANGED saved
  /\ SaveLeaves(t)
  /\ UNCHANGED <<signals, queue, result, worker, rev, passed>>

-----------------------------------------------------------------------------
(* route_store_worker_task.  A request, or after an idle second a pass of  *)
(* its own.                                                                *)
Forced == worker.req # 0

WorkerTakes ==
  /\ worker.pc = "idle"
  /\ IF queue = <<>>
     THEN worker' = [IdleWorker EXCEPT !.pc = "lock"] /\ UNCHANGED queue
     ELSE /\ worker' = [IdleWorker EXCEPT !.pc = "lock", !.req = Head(queue)]
          /\ queue' = Tail(queue)
  /\ UNCHANGED <<pc, call, signals, result, stores, passed, used>>

WorkerLock ==
  /\ worker.pc = "lock"
  /\ \/ /\ Forced => ~Passed(worker.req)
        /\ Take("flush", Worker)
        /\ worker' = [worker EXCEPT !.pc = "observe"]
     \/ /\ Forced /\ Passed(worker.req)
        /\ worker' = [worker EXCEPT !.pc = "publish", !.err = "TIMEOUT"]
        /\ UNCHANGED mutex
  /\ UNCHANGED <<pc, call, quiesce, forcer, queue, result, stores, passed, used>>

Expired == Forced /\ Passed(worker.req)
QuiesceRequested == quiesce.requester # NoTask /\ quiesce.preempt

(* d1l_retained_store_scheduler_run, one store after the other.  Before    *)
(* each store, before its flush and after the last flush the pass looks    *)
(* at its deadline and at the quiesce.                                     *)
AtStore == worker.i <= StoreCount
Looks == worker.pc \in {"ready", "flushed"} \/ (worker.pc = "observe" /\ AtStore)

EndPass(ret) ==
  /\ Give("flush")
  /\ worker' = [IdleWorker EXCEPT !.pc = "publish", !.req = worker.req, !.err = ret]

CancelledPass(err) == IF Forced /\ err = "OK" THEN "TIMEOUT" ELSE err

WorkerCancels ==
  /\ Looks
  /\ \/ Expired /\ EndPass("TIMEOUT")
     \/ ~Expired /\ QuiesceRequested /\ EndPass(CancelledPass(worker.err))
  /\ UNCHANGED <<pc, call, quiesce, forcer, queue, result, stores, passed, used>>

GoesOn == ~Expired /\ ~QuiesceRequested

WorkerObserves ==
  /\ worker.pc = "observe" /\ AtStore /\ GoesOn
  /\ worker' = IF Dirty(worker.i) THEN [worker EXCEPT !.pc = "ready"]
               ELSE [worker EXCEPT !.i = @ + 1]
  /\ UNCHANGED <<pc, call, signals, queue, result, stores, passed, used>>

FirstError(err) == IF worker.err = "OK" THEN err ELSE worker.err
Flushed(err) ==
  [worker EXCEPT !.pc = IF worker.i = StoreCount THEN "flushed" ELSE "observe",
                 !.i = @ + 1, !.snap = 0, !.err = err]

(* flush, or flush_if_due when the store is due.  The pass looks once more *)
(* and then waits for the store's lock, so it may cancel or go on.         *)
WorkerFlushes ==
  /\ worker.pc = "ready"
  /\ io[worker.i] = NoTask
  /\ io' = [io EXCEPT ![worker.i] = Worker]
  /\ worker' = [worker EXCEPT !.pc = "write", !.snap = rev[worker.i]]
  /\ UNCHANGED <<pc, call, signals, queue, result, rev, saved, passed, used>>

WorkerNotDue ==
  /\ worker.pc = "ready"
  /\ ~Forced
  /\ worker' = Flushed(worker.err)
  /\ UNCHANGED <<pc, call, signals, queue, result, stores, passed, used>>

WorkerWrites ==
  /\ worker.pc = "write"
  /\ io' = [io EXCEPT ![worker.i] = NoTask]
  /\ \/ /\ ~ShouldYield(Worker)
        /\ saved' = [saved EXCEPT ![worker.i] = worker.snap]
        /\ worker' = Flushed(worker.err)
        /\ UNCHANGED used
     \/ /\ ShouldYield(Worker)
        /\ worker' = Flushed(FirstError("FAILED"))
        /\ UNCHANGED <<saved, used>>
     \/ /\ Fault
        /\ worker' = Flushed(FirstError("FAILED"))
        /\ UNCHANGED saved
  /\ UNCHANGED <<pc, call, signals, queue, result, rev, passed>>

WorkerDone ==
  /\ (worker.pc = "observe" /\ ~AtStore) \/ (worker.pc = "flushed" /\ GoesOn)
  /\ EndPass(worker.err)
  /\ UNCHANGED <<pc, call, quiesce, forcer, queue, result, stores, passed, used>>

WorkerPublishes ==
  /\ worker.pc = "publish"
  /\ result' = IF Forced THEN [id |-> worker.req, ret |-> worker.err] ELSE result
  /\ worker' = IdleWorker
  /\ UNCHANGED <<pc, call, signals, queue, stores, passed, used>>

-----------------------------------------------------------------------------
ForceStep(t) == ForceLock(t) \/ ForceRegister(t) \/ ForceSend(t) \/ ForcePoll(t)
QuiesceStep(t) ==
  \/ QuiesceRegister(t) \/ QuiesceRequest(t) \/ QuiesceFlush(t) \/ QuiesceOwn(t)
  \/ QuiesceEnd(t) \/ QuiesceGive(t)
SaveStep(t) == SaveCheck(t) \/ SaveWrite(t)
TaskStep(t) == ForceStep(t) \/ QuiesceStep(t) \/ SaveStep(t)

WorkerStep ==
  \/ WorkerTakes \/ WorkerLock \/ WorkerCancels \/ WorkerObserves
  \/ WorkerFlushes \/ WorkerNotDue \/ WorkerWrites
  \/ WorkerDone \/ WorkerPublishes

WorkerNext ==
  \/ \E s \in Stores : Change(s)
  \/ \E n \in 1 .. used.calls : DeadlinePasses(n)
  \/ \E t \in Tasks :
       \/ Begin(t, "force", "f_lock")
       \/ \E mode \in {"begin", "wait", "edit"} : Begin(t, mode, "q_register")
       \/ \E s \in Stores : SaveBegin(t, s)
       \/ TaskStep(t)
  \/ WorkerStep

WorkerSpec == WorkerInit /\ [][WorkerNext]_workerVars

-----------------------------------------------------------------------------
TaskLabels ==
  {"idle", "f_lock", "f_register", "f_send", "f_poll", "q_register", "q_request",
   "q_flush", "q_own", "owned", "q_give", "s_check", "s_write"}
Returns == {"none", "OK", "TIMEOUT", "INVALID_STATE", "FAILED"}
Holders == Tasks \cup {Worker, NoTask}

WorkerTypeOK ==
  /\ pc \in [Tasks -> TaskLabels]
  /\ call \in [Tasks -> [n : 0 .. MaxCalls, mode : Modes \cup {"none"},
                         seen : [Stores -> Nat], ret : Returns, store : Stores,
                         snap : Nat, home : {"idle", "owned"}]]
  /\ mutex \in [request : Holders, flush : Holders]
  /\ quiesce \in [requester : Tasks \cup {NoTask}, owner : Tasks \cup {NoTask}, preempt : BOOLEAN]
  /\ forcer \in Tasks \cup {NoTask}
  /\ queue \in Seq(1 .. MaxCalls) /\ Len(queue) <= QueueLength
  /\ result \in [id : 0 .. MaxCalls, ret : Returns]
  /\ worker \in [pc : {"idle", "lock", "observe", "ready", "write", "flushed", "publish"},
                 req : 0 .. MaxCalls, i : 1 .. StoreCount + 1, snap : Nat, err : Returns]
  /\ rev \in [Stores -> Nat] /\ saved \in [Stores -> Nat] /\ io \in [Stores -> Holders]
  /\ passed \subseteq 1 .. MaxCalls
  /\ used \in [calls : 0 .. MaxCalls, changes : 0 .. MaxChanges, faults : 0 .. MaxFaults]

(* While a task owns the quiesce, the worker saves nothing, no forced      *)
(* flush is under way, and everybody but the owner is told to give way:    *)
(* the owner has the bridge for itself and its own saves are not cancelled *)
(* (route_store_worker.c quiesce_begin, contact_store.c contact_edit_lock).*)
WorkerInStore == worker.pc \in {"observe", "ready", "write", "flushed"}
OwnerIsUndisturbed ==
  quiesce.owner # NoTask =>
    /\ ~WorkerInStore
    /\ forcer = NoTask
    /\ \A t \in Tasks \cup {Worker} : ShouldYield(t) <=> t # quiesce.owner

(* No task that left keeps a name or a mutex: a later caller is not        *)
(* refused, and nobody is told to give way, for a call that has ended.     *)
NothingLeftBehind ==
  /\ \A t \in Tasks :
       pc[t] = "idle" => /\ t \notin {quiesce.requester, quiesce.owner, forcer}
                         /\ t \notin {mutex.request, mutex.flush}
  /\ quiesce.requester = NoTask => ~quiesce.preempt
  /\ mutex.flush = Worker => WorkerInStore

(* A forced flush that returns OK has flushed every change made before it  *)
(* was called, whatever was left in the queue by callers that gave up.     *)
ForcedOkMeansSaved ==
  [][\A t \in Tasks :
       pc[t] = "f_poll" /\ pc'[t] = "idle" /\ call'[t].ret = "OK" =>
         \A s \in Stores : saved[s] >= call[t].seen[s]]_workerVars

(* Every call returns even if no deadline ever passes: a quiesce, a forced *)
(* flush, an edit and the worker never wait for each other in a circle.    *)
Waiting(t) == pc[t] \notin {"idle", "owned"}
CallsReturn == []<>(\A t \in Tasks : ~Waiting(t))

(* What is dirty is flushed in the end, by the worker or by another task,  *)
(* although passes are cancelled, deadlines pass and writes fail.          *)
DirtyIsSaved == []<>(\A s \in Stores : ~Dirty(s))
=============================================================================
