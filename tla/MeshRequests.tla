---------------------------- MODULE MeshRequests ----------------------------
(***************************************************************************)
(* How other tasks have the Mesh owner run a command and wait for its      *)
(* result (main/mesh/meshcore_command_guard.h and the request slots of     *)
(* main/mesh/meshcore_service.c).  A caller claims a slot, publishes it,   *)
(* puts a token into the owner's queue and waits for the slot's signal; it *)
(* may give up at any time, and the owner may find the deadline passed.    *)
(* Id and state of a slot are one word that is only changed by             *)
(* compare-and-swap; each step below is one access to shared memory, a     *)
(* queue or a signal.                                                      *)
(***************************************************************************)
EXTENDS Integers, Sequences, FiniteSets

CONSTANTS
  Callers,
  SlotCount,       \* D1L_MESHCORE_REQUEST_SLOT_COUNT
  QueueDepth,      \* D1L_MESHCORE_SERVICE_QUEUE_LEN
  MaxRequests      \* bound of the model: request ids

ASSUME SlotsAssumption ==
  SlotCount \in Nat \ {0} /\ QueueDepth \in Nat \ {0} /\ MaxRequests \in Nat

VARIABLES
  slot,        \* s_request_slots: lifecycle word, credentials, signal, result
  caller,      \* each caller: where it is, its request id and slot
  commands,    \* s_service_queue: tokens
  owner,       \* the Mesh task: where it is, the token it holds
  nextId,      \* s_next_request_id
  executed,    \* ghost: requests whose command was run
  told         \* ghost: what the caller of each request was told

requestVars == <<slot, caller, commands, owner, nextId, executed, told>>

Slots == 1 .. SlotCount
Ids == 1 .. MaxRequests
Free == [id |-> 0, st |-> "FREE"]
IdleCaller == [pc |-> "idle", id |-> 0, k |-> 1, secret |-> FALSE, ret |-> "none"]
NoToken == [id |-> 0, k |-> 1, secret |-> FALSE]
IdleOwner == [pc |-> "idle", cmd |-> NoToken]

RequestInit ==
  /\ slot = [k \in Slots |-> [word |-> Free, secret |-> 0, signal |-> FALSE, result |-> "none"]]
  /\ caller = [t \in Callers |-> IdleCaller]
  /\ commands = <<>>
  /\ owner = IdleOwner
  /\ nextId = 0
  /\ executed = {}
  /\ told = [n \in Ids |-> "nothing"]

Word(id, st) == [id |-> id, st |-> st]
MySlot(t) == slot[caller[t].k]
Mine(t) == MySlot(t).word.id = caller[t].id
In(t, st) == MySlot(t).word = Word(caller[t].id, st)

At(t, label) == caller[t].pc = label
CallerGoes(t, label) == caller' = [caller EXCEPT ![t].pc = label]
SetWord(k, w) == slot' = [slot EXCEPT ![k].word = w]
Wipe(k) == slot' = [slot EXCEPT ![k].secret = 0]

(* The call returns: what the caller learns of its request.                *)
Tell(t, ret) ==
  /\ caller' = [caller EXCEPT ![t] = IdleCaller]
  /\ told' = [told EXCEPT ![caller[t].id] = ret]

-----------------------------------------------------------------------------
(* meshcore_request_next_id and meshcore_request_claim: the slots are      *)
(* tried one after the other.                                              *)
Call(t, secret) ==
  /\ At(t, "idle")
  /\ nextId < MaxRequests
  /\ nextId' = nextId + 1
  /\ caller' = [caller EXCEPT ![t] = [IdleCaller EXCEPT !.pc = "claim", !.id = nextId', !.secret = secret]]
  /\ UNCHANGED <<slot, commands, owner, executed, told>>

Claim(t) ==
  /\ At(t, "claim")
  /\ \/ /\ MySlot(t).word = Free
        /\ slot' = [slot EXCEPT ![caller[t].k].word = Word(caller[t].id, "CLAIMED"),
                                ![caller[t].k].secret = 0]
        /\ CallerGoes(t, "drain")
        /\ UNCHANGED told
     \/ /\ MySlot(t).word # Free /\ caller[t].k < SlotCount
        /\ caller' = [caller EXCEPT ![t].k = @ + 1]
        /\ UNCHANGED <<slot, told>>
     \/ /\ MySlot(t).word # Free /\ caller[t].k = SlotCount
        /\ Tell(t, "timeout")
        /\ UNCHANGED slot
  /\ UNCHANGED <<commands, owner, nextId, executed>>

Drain(t) ==
  /\ At(t, "drain")
  /\ slot' = [slot EXCEPT ![caller[t].k].signal = FALSE, ![caller[t].k].result = "timeout"]
  /\ CallerGoes(t, "publish")
  /\ UNCHANGED <<commands, owner, nextId, executed, told>>

Publish(t) ==
  /\ At(t, "publish")
  /\ In(t, "CLAIMED")
  /\ SetWord(caller[t].k, Word(caller[t].id, "PENDING"))
  /\ CallerGoes(t, IF caller[t].secret THEN "store" ELSE "send")
  /\ UNCHANGED <<commands, owner, nextId, executed, told>>

(* d1l_mesh_command_request_store_admin_password and _cli.                 *)
StoreSecret(t) ==
  /\ At(t, "store")
  /\ In(t, "PENDING")
  /\ slot' = [slot EXCEPT ![caller[t].k].secret = caller[t].id]
  /\ CallerGoes(t, "send")
  /\ UNCHANGED <<commands, owner, nextId, executed, told>>

RoomForToken == Len(commands) < QueueDepth

(* d1l_mesh_command_request_enqueue: a full queue for the whole timeout    *)
(* cancels the request.                                                    *)
Send(t) ==
  /\ At(t, "send")
  /\ \/ /\ RoomForToken
        /\ commands' = Append(commands, [id |-> caller[t].id, k |-> caller[t].k,
                                         secret |-> caller[t].secret])
        /\ CallerGoes(t, "wait")
     \/ /\ ~RoomForToken
        /\ CallerGoes(t, "cancel")
        /\ UNCHANGED commands
  /\ UNCHANGED <<slot, owner, nextId, executed, told>>

-----------------------------------------------------------------------------
(* meshcore_request_wait: the signal, or a timeout.                        *)
Decided(t) == In(t, "COMPLETED") \/ In(t, "OWNER_EXPIRED")
TakeSignal(t) == slot' = [slot EXCEPT ![caller[t].k].signal = FALSE]

WaitSignalled(t) ==
  /\ At(t, "wait")
  /\ MySlot(t).signal
  /\ TakeSignal(t)
  /\ CallerGoes(t, IF Decided(t) THEN "consume" ELSE "cancel")
  /\ UNCHANGED <<commands, owner, nextId, executed, told>>

WaitTimesOut(t) ==
  /\ At(t, "wait")
  /\ ~MySlot(t).signal
  /\ CallerGoes(t, "cancel")
  /\ UNCHANGED <<slot, commands, owner, nextId, executed, told>>

(* d1l_mesh_command_request_cancel_and_release: three steps, of which the  *)
(* first decides.                                                          *)
OwnerHasIt(t) == In(t, "ADMITTED") \/ Decided(t)
SkipSignal(t) == IF OwnerHasIt(t) THEN "consume" ELSE "leave"   \* mutant: the signal is left behind
AfterLostCancel(t) == IF OwnerHasIt(t) THEN "block" ELSE "leave"

Cancel(t) ==
  /\ At(t, "cancel")
  /\ IF In(t, "PENDING")
     THEN SetWord(caller[t].k, Word(caller[t].id, "CALLER_CANCELLED")) /\ CallerGoes(t, "wipe")
     ELSE CallerGoes(t, AfterLostCancel(t)) /\ UNCHANGED slot
  /\ UNCHANGED <<commands, owner, nextId, executed, told>>

CancelWipes(t) ==
  /\ At(t, "wipe")
  /\ Wipe(caller[t].k)
  /\ CallerGoes(t, "release")
  /\ UNCHANGED <<commands, owner, nextId, executed, told>>

KeepsWord(t) == MySlot(t).word                   \* mutant: a cancelled slot is not released
WordAfterCancel(t) == IF In(t, "CALLER_CANCELLED") THEN Free ELSE MySlot(t).word

CancelReleases(t) ==
  /\ At(t, "release")
  /\ SetWord(caller[t].k, WordAfterCancel(t))
  /\ Tell(t, "timeout")
  /\ UNCHANGED <<commands, owner, nextId, executed>>

(* The owner won the race: wait for its signal without a timeout.          *)
Block(t) ==
  /\ At(t, "block")
  /\ MySlot(t).signal
  /\ TakeSignal(t)
  /\ CallerGoes(t, IF Decided(t) THEN "consume" ELSE "leave")
  /\ UNCHANGED <<commands, owner, nextId, executed, told>>

(* meshcore_request_consume: the result is read, the slot wiped, released. *)
Consume(t) ==
  /\ At(t, "consume")
  /\ slot' = [slot EXCEPT ![caller[t].k].secret = 0, ![caller[t].k].signal = FALSE]
  /\ caller' = [caller EXCEPT ![t].pc = "free", ![t].ret = MySlot(t).result]
  /\ UNCHANGED <<commands, owner, nextId, executed, told>>

ConsumeReleases(t) ==
  /\ At(t, "free")
  /\ SetWord(caller[t].k, IF Decided(t) THEN Free ELSE MySlot(t).word)
  /\ Tell(t, IF Decided(t) THEN caller[t].ret ELSE "invalid")
  /\ UNCHANGED <<commands, owner, nextId, executed>>

Leave(t) ==
  /\ At(t, "leave")
  /\ Tell(t, "invalid")
  /\ UNCHANGED <<slot, commands, owner, nextId, executed>>

-----------------------------------------------------------------------------
(* The Mesh task: it takes a token and may hold it while a transmission is *)
(* active; then meshcore_request_admit.                                    *)
Cmd == owner.cmd
Token == slot[Cmd.k].word
TokenIs(st) == Token = Word(Cmd.id, st)
OwnerGoes(label) == owner' = [owner EXCEPT !.pc = label]

Dequeue ==
  /\ owner.pc = "idle"
  /\ commands # <<>>
  /\ owner' = [pc |-> "admit", cmd |-> Head(commands)]
  /\ commands' = Tail(commands)
  /\ UNCHANGED <<slot, caller, nextId, executed, told>>

SlotMatches == Token.id = Cmd.id
Drop == owner' = IdleOwner /\ UNCHANGED slot

Stale ==
  /\ owner.pc = "admit"
  /\ ~SlotMatches
  /\ Drop
  /\ UNCHANGED <<caller, commands, nextId, executed, told>>

(* The deadline has passed: only a request that is still pending expires.  *)
Expire ==
  /\ owner.pc = "admit"
  /\ SlotMatches
  /\ IF TokenIs("PENDING")
     THEN SetWord(Cmd.k, Word(Cmd.id, "OWNER_EXPIRED")) /\ OwnerGoes("expire_wipe")
     ELSE Drop
  /\ UNCHANGED <<caller, commands, nextId, executed, told>>

NoSignal == "idle"                               \* mutant: nobody tells the caller
AfterExpiry == "give"

ExpireWipes ==
  /\ owner.pc = "expire_wipe"
  /\ slot' = [slot EXCEPT ![Cmd.k].secret = 0, ![Cmd.k].result = "timeout"]
  /\ OwnerGoes(AfterExpiry)
  /\ UNCHANGED <<caller, commands, nextId, executed, told>>

AdmitAnyState == SlotMatches                     \* mutant: a cancelled request is admitted
Admissible == TokenIs("PENDING")

Admit ==
  /\ owner.pc = "admit"
  /\ SlotMatches
  /\ IF Admissible
     THEN SetWord(Cmd.k, Word(Cmd.id, "ADMITTED")) /\ OwnerGoes("run")
     ELSE Drop
  /\ UNCHANGED <<caller, commands, nextId, executed, told>>

(* The handler; credentials are taken, and wiped, by the handlers that     *)
(* need them.                                                              *)
Execute ==
  /\ owner.pc = "run"
  /\ executed' = executed \cup {Cmd.id}
  /\ Wipe(Cmd.k)
  /\ OwnerGoes("result")
  /\ UNCHANGED <<caller, commands, nextId, told>>

(* meshcore_request_complete: result and wipe, the word, the signal.       *)
WriteResult ==
  /\ owner.pc = "result"
  /\ slot' = [slot EXCEPT ![Cmd.k].result = "done", ![Cmd.k].secret = 0]
  /\ OwnerGoes("complete")
  /\ UNCHANGED <<caller, commands, nextId, executed, told>>

Complete ==
  /\ owner.pc = "complete"
  /\ IF TokenIs("ADMITTED")
     THEN SetWord(Cmd.k, Word(Cmd.id, "COMPLETED")) /\ OwnerGoes("give")
     ELSE Drop
  /\ UNCHANGED <<caller, commands, nextId, executed, told>>

GiveSignal ==
  /\ owner.pc = "give"
  /\ slot' = [slot EXCEPT ![Cmd.k].signal = TRUE]
  /\ owner' = IdleOwner
  /\ UNCHANGED <<caller, commands, nextId, executed, told>>

-----------------------------------------------------------------------------
CallerStep(t) ==
  \/ Claim(t) \/ Drain(t) \/ Publish(t) \/ StoreSecret(t) \/ Send(t)
  \/ WaitSignalled(t) \/ WaitTimesOut(t)
  \/ Cancel(t) \/ CancelWipes(t) \/ CancelReleases(t)
  \/ Block(t) \/ Consume(t) \/ ConsumeReleases(t) \/ Leave(t)

OwnerStep ==
  \/ Dequeue \/ Stale \/ Expire \/ ExpireWipes \/ Admit \/ Execute
  \/ WriteResult \/ Complete \/ GiveSignal

RequestNext ==
  \/ \E t \in Callers : CallerStep(t) \/ \E secret \in BOOLEAN : Call(t, secret)
  \/ OwnerStep

RequestSpec == RequestInit /\ [][RequestNext]_requestVars

-----------------------------------------------------------------------------
SlotStates == {"FREE", "CLAIMED", "PENDING", "ADMITTED", "CALLER_CANCELLED",
           "OWNER_EXPIRED", "COMPLETED"}
CallerLabels == {"idle", "claim", "drain", "publish", "store", "send", "wait", "cancel",
                 "wipe", "release", "block", "consume", "free", "leave"}
OwnerLabels == {"idle", "admit", "expire_wipe", "run", "result", "complete", "give"}
Tokens == [id : Ids, k : Slots, secret : BOOLEAN]
RequestResults == {"none", "timeout", "done"}

RequestTypeOK ==
  /\ slot \in [Slots -> [word : [id : 0 .. MaxRequests, st : SlotStates], secret : 0 .. MaxRequests,
                         signal : BOOLEAN, result : RequestResults]]
  /\ caller \in [Callers -> [pc : CallerLabels, id : 0 .. MaxRequests, k : Slots,
                             secret : BOOLEAN, ret : RequestResults]]
  /\ commands \in Seq(Tokens) /\ Len(commands) <= QueueDepth
  /\ owner \in [pc : OwnerLabels, cmd : Tokens \cup {NoToken}]
  /\ nextId \in 0 .. MaxRequests
  /\ executed \subseteq Ids
  /\ told \in [Ids -> RequestResults \cup {"nothing", "invalid"}]

(* A caller that was told ESP_ERR_TIMEOUT by the slot protocol can repeat  *)
(* its command: the old one was not run and never will be.  One that was   *)
(* told a result had its command run (meshcore_request_wait).              *)
ToldTheTruth ==
  \A n \in Ids :
    /\ told[n] = "timeout" => n \notin executed
    /\ told[n] = "done" => n \in executed
    /\ told[n] # "invalid"

(* Nothing of one request leaks into the next one of its slot: a signal is *)
(* only up for the request that is in the slot, once its outcome is        *)
(* decided and while its caller still takes it ("a late semaphore give     *)
(* could leak", meshcore_request_wait); credentials are only in the slot   *)
(* of the request they belong to, and gone before the slot is free.        *)
NothingLeaks ==
  \A k \in Slots :
    /\ slot[k].signal =>
         /\ slot[k].word.st \in {"COMPLETED", "OWNER_EXPIRED"}
         /\ \E t \in Callers : caller[t].k = k /\ caller[t].id = slot[k].word.id
                               /\ caller[t].pc \in {"wait", "cancel", "block"}
    /\ slot[k].secret # 0 =>
         slot[k].secret = slot[k].word.id
         /\ slot[k].word.st \notin {"FREE", "CLAIMED", "COMPLETED"}

(* No slot is lost: one that is not free belongs to a call under way.      *)
SlotHasItsCaller ==
  \A k \in Slots : slot[k].word # Free =>
    \E t \in Callers : caller[t].k = k /\ caller[t].id = slot[k].word.id

(* Every call returns, though it waits for an admitted command without a   *)
(* timeout.                                                                *)
RequestsReturn == []<>(\A t \in Callers : At(t, "idle"))
=============================================================================
