------------------------------ MODULE MCTasks -------------------------------
(***************************************************************************)
(* The parts of the firmware that let tasks wait for one another: the      *)
(* retained worker and the Mesh owner's requests.  They share no variable, *)
(* so a behaviour runs one of them, picked at the start.                   *)
(***************************************************************************)
EXTENDS RetainedWorker, MeshRequests, TLC

CONSTANTS console, other, w, none

VARIABLE part

TheTasks == {console, other}
TheCalls == (console :> {"force", "begin"}) @@ (other :> {"wait", "edit"})

vars == <<part, workerVars, requestVars>>

Init ==
  /\ part \in {"worker", "requests"}
  /\ WorkerInit /\ RequestInit

InWorker(A) == part = "worker" /\ A /\ UNCHANGED <<part, requestVars>>
InRequests(A) == part = "requests" /\ A /\ UNCHANGED <<part, workerVars>>

Next == InWorker(WorkerNext) \/ InRequests(RequestNext)

(* Tasks run, a flush does not stay "not due" for ever, and a mutex or a   *)
(* store's lock goes to each of those who wait for it.  No deadline needs  *)
(* to pass.                                                                *)
WorkerFairness ==
  /\ WF_vars(InWorker(WorkerStep))
  /\ SF_vars(InWorker(WorkerFlushes)) /\ SF_vars(InWorker(WorkerLock))
  /\ \A t \in Tasks : SF_vars(InWorker(TaskStep(t)))

(* The owner is an endless loop and gives every radio operation up in the  *)
(* end (RadioReleased of DmRuntime), callers run, and their timeouts end.  *)
RequestFairness ==
  /\ WF_vars(InRequests(OwnerStep))
  /\ \A t \in Callers : WF_vars(InRequests(CallerStep(t)))

(* Both parts' variables keep their types, and their queues their lengths. *)
TasksTypeOK == WorkerTypeOK /\ RequestTypeOK

FairSpec == Init /\ [][Next]_vars /\ WorkerFairness /\ RequestFairness
=============================================================================
