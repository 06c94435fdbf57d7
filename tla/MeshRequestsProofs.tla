------------------------- MODULE MeshRequestsProofs -------------------------
(***************************************************************************)
(* For every set of callers, every number of slots and depth of queue, and *)
(* any number of requests: what the slot protocol of meshcore_service.c    *)
(* tells a caller is true, nothing of a request is left in its slot for    *)
(* the next one, and no slot is lost.  The invariant ties together where a *)
(* caller stands and the state of its slot (Standing), each slot and the   *)
(* caller that has it (SlotOK), the tokens in the queue and the callers    *)
(* that sent them (TokensInv), and the owner's position and the slot of    *)
(* the token it holds (OwnerInv).                                          *)
(***************************************************************************)
EXTENDS MeshRequests, SequenceTheorems, TLAPS

(* RequestTypeOK in named parts, with what it needs to be inductive: an    *)
(* owner that is not idle has a token.                                     *)
WordType == [id : 0 .. MaxRequests, st : SlotStates]
SlotType == [word : WordType, secret : 0 .. MaxRequests, signal : BOOLEAN, result : RequestResults]
CallerType == [pc : CallerLabels, id : 0 .. MaxRequests, k : Slots, secret : BOOLEAN, ret : RequestResults]
OwnerType == [pc : OwnerLabels, cmd : Tokens \cup {NoToken}]

SlotTyped == slot \in [Slots -> SlotType]
CallerTyped == caller \in [Callers -> CallerType]
QueueTyped ==
  /\ commands \in Seq(Tokens) /\ Len(commands) <= QueueDepth
  /\ owner \in OwnerType
  /\ owner.pc # "idle" => owner.cmd \in Tokens
CountsTyped ==
  /\ nextId \in 0 .. MaxRequests
  /\ executed \subseteq Ids
  /\ told \in [Ids -> RequestResults \cup {"nothing", "invalid"}]

Typed == SlotTyped /\ CallerTyped /\ QueueTyped /\ CountsTyped

LEMMA TypedIsTypeOK == Typed => RequestTypeOK
  BY DEF Typed, SlotTyped, CallerTyped, QueueTyped, CountsTyped, RequestTypeOK,
         WordType, SlotType, CallerType, OwnerType

LEMMA Ranges == 1 \in Slots /\ 0 \in 0 .. MaxRequests /\ \A n \in Ids : n \in 0 .. MaxRequests
  BY SlotsAssumption DEF Slots, Ids

-----------------------------------------------------------------------------
(* What the operators that a step is built from change.                    *)
CallerFrame(t) == \A u \in Callers \ {t} : caller'[u] = caller[u]
SlotFrame(k) == \A j \in Slots \ {k} : slot'[j] = slot[j]

LEMMA GoesFacts ==
  ASSUME CallerTyped, NEW t \in Callers, NEW l \in CallerLabels, CallerGoes(t, l)
  PROVE  /\ caller'[t].pc = l /\ caller'[t].id = caller[t].id /\ caller'[t].k = caller[t].k
         /\ caller'[t].secret = caller[t].secret /\ caller'[t].ret = caller[t].ret
         /\ CallerFrame(t) /\ CallerTyped'
<1> DEFINE moved == [caller[t] EXCEPT !.pc = l]
<1>1. caller[t] \in CallerType  BY DEF CallerTyped
<1>2. /\ moved \in CallerType /\ moved.pc = l /\ moved.id = caller[t].id /\ moved.k = caller[t].k
      /\ moved.secret = caller[t].secret /\ moved.ret = caller[t].ret
  BY <1>1 DEF CallerType
<1>3. caller' = [caller EXCEPT ![t] = moved]  BY DEF CallerGoes
<1> HIDE DEF moved
<1> QED BY <1>2, <1>3 DEF CallerTyped, CallerFrame

LEMMA TellFacts ==
  ASSUME CallerTyped, CountsTyped, NEW t \in Callers, NEW r \in RequestResults \cup {"invalid"}, Tell(t, r)
  PROVE  /\ caller'[t] = IdleCaller /\ CallerFrame(t) /\ CallerTyped'
         /\ told' \in [Ids -> RequestResults \cup {"nothing", "invalid"}]
         /\ \A n \in Ids : told'[n] = IF n = caller[t].id THEN r ELSE told[n]
<1>1. IdleCaller \in CallerType
  BY Ranges DEF IdleCaller, CallerType, CallerLabels, RequestResults
<1>2. IdleCaller.pc = "idle"  BY DEF IdleCaller
<1> HIDE DEF IdleCaller
<1> QED BY <1>1 DEF Tell, CallerTyped, CallerFrame, CountsTyped

LEMMA SlotFacts ==
  ASSUME SlotTyped, NEW k \in Slots, NEW s \in SlotType, slot' = [slot EXCEPT ![k] = s]
  PROVE  slot'[k] = s /\ SlotFrame(k) /\ SlotTyped'
  BY DEF SlotTyped, SlotFrame

LEMMA WordFacts ==
  ASSUME SlotTyped, NEW k \in Slots, NEW w \in WordType, SetWord(k, w)
  PROVE  /\ slot'[k].word = w /\ slot'[k].secret = slot[k].secret
         /\ slot'[k].signal = slot[k].signal /\ slot'[k].result = slot[k].result
         /\ SlotFrame(k) /\ SlotTyped'
<1> DEFINE s == [slot[k] EXCEPT !.word = w]
<1>1. slot[k] \in SlotType  BY DEF SlotTyped
<1>2. /\ s \in SlotType /\ s.word = w /\ s.secret = slot[k].secret
      /\ s.signal = slot[k].signal /\ s.result = slot[k].result
  BY <1>1 DEF SlotType
<1>3. slot' = [slot EXCEPT ![k] = s]  BY DEF SetWord
<1> HIDE DEF s
<1> QED BY <1>2, <1>3, SlotFacts

LEMMA WipeFacts ==
  ASSUME SlotTyped, NEW k \in Slots, Wipe(k)
  PROVE  /\ slot'[k].word = slot[k].word /\ slot'[k].secret = 0
         /\ slot'[k].signal = slot[k].signal /\ slot'[k].result = slot[k].result
         /\ SlotFrame(k) /\ SlotTyped'
<1> DEFINE s == [slot[k] EXCEPT !.secret = 0]
<1>1. slot[k] \in SlotType  BY DEF SlotTyped
<1>2. /\ s \in SlotType /\ s.word = slot[k].word /\ s.secret = 0
      /\ s.signal = slot[k].signal /\ s.result = slot[k].result
  BY <1>1, Ranges DEF SlotType
<1>3. slot' = [slot EXCEPT ![k] = s]  BY DEF Wipe
<1> HIDE DEF s
<1> QED BY <1>2, <1>3, SlotFacts

LEMMA SignalFacts ==
  ASSUME SlotTyped, NEW k \in Slots, NEW b \in BOOLEAN, slot' = [slot EXCEPT ![k].signal = b]
  PROVE  /\ slot'[k].word = slot[k].word /\ slot'[k].secret = slot[k].secret
         /\ slot'[k].signal = b /\ slot'[k].result = slot[k].result
         /\ SlotFrame(k) /\ SlotTyped'
<1> DEFINE s == [slot[k] EXCEPT !.signal = b]
<1>1. slot[k] \in SlotType  BY DEF SlotTyped
<1>2. /\ s \in SlotType /\ s.word = slot[k].word /\ s.secret = slot[k].secret
      /\ s.signal = b /\ s.result = slot[k].result
  BY <1>1, Ranges DEF SlotType
<1>3. slot' = [slot EXCEPT ![k] = s]  OBVIOUS
<1> HIDE DEF s
<1> QED BY <1>2, <1>3, SlotFacts

-----------------------------------------------------------------------------
(* The positions of a caller that has a slot; before its token is in the   *)
(* queue; and those from which it still takes the signal.                  *)
Holding ==
  {"drain", "publish", "store", "send", "wait", "cancel", "wipe", "release", "block", "consume", "free"}
BeforeSend == {"claim", "drain", "publish", "store", "send"}
Listening == {"wait", "cancel", "block"}
Final == {"COMPLETED", "OWNER_EXPIRED"}

(* A request has one caller, and it has not been told anything while its   *)
(* call is under way.                                                      *)
CallerOK(t) ==
  /\ At(t, "idle") <=> caller[t].id = 0
  /\ caller[t].id <= nextId
  /\ ~At(t, "idle") => told[caller[t].id] = "nothing"
  /\ At(t, "claim") => caller[t].id \notin executed
  /\ \A u \in Callers : caller[u].id = caller[t].id /\ u # t => At(t, "idle")

(* Where a caller stands decides the states its slot may be in: nobody else*)
(* takes the slot from it, and of the owner it only finds that it was      *)
(* admitted, expired or completed.                                         *)
Standing(t) ==
  /\ caller[t].pc \in Holding => Mine(t)
  /\ caller[t].pc \in {"drain", "publish"} => MySlot(t).word.st = "CLAIMED"
  /\ caller[t].pc \in {"store", "send"} => MySlot(t).word.st = "PENDING"
  /\ caller[t].pc \in {"wait", "cancel"} => MySlot(t).word.st \in {"PENDING", "ADMITTED"} \cup Final
  /\ caller[t].pc \in {"wipe", "release"} => MySlot(t).word.st = "CALLER_CANCELLED"
  /\ caller[t].pc = "block" => MySlot(t).word.st \in {"ADMITTED"} \cup Final
  /\ caller[t].pc \in {"consume", "free"} => MySlot(t).word.st \in Final
  /\ caller[t].pc # "leave"
  /\ caller[t].pc = "publish" => MySlot(t).result = "timeout"
  /\ caller[t].pc \in {"release", "free"} => MySlot(t).secret = 0
  /\ caller[t].pc = "free" => caller[t].ret = MySlot(t).result

CallerAt(k, n, labels) == \E t \in Callers : caller[t].k = k /\ caller[t].id = n /\ caller[t].pc \in labels

(* A slot that is not free has its caller; a signal is only up when the    *)
(* outcome is decided and the caller still takes it; credentials are of the*)
(* request in the slot; and the result agrees with the state of the word   *)
(* and with whether the command was run.                                   *)
SlotOK(k) ==
  /\ slot[k].word.id = 0 <=> slot[k].word.st = "FREE"
  /\ slot[k].word.id # 0 => CallerAt(k, slot[k].word.id, Holding)
  /\ slot[k].signal => slot[k].word.st \in Final /\ CallerAt(k, slot[k].word.id, Listening)
  /\ slot[k].secret # 0 => /\ slot[k].secret = slot[k].word.id
                           /\ slot[k].word.st \notin {"FREE", "CLAIMED", "COMPLETED"}
  /\ slot[k].word.st \in {"PENDING", "CALLER_CANCELLED", "OWNER_EXPIRED"} => slot[k].result = "timeout"
  /\ slot[k].word.st = "COMPLETED" => slot[k].result = "done" /\ slot[k].word.id \in executed
  /\ slot[k].word.st \in {"CLAIMED", "PENDING", "CALLER_CANCELLED", "OWNER_EXPIRED"} =>
       slot[k].word.id \notin executed

(* A token is of a request whose caller has sent it: the owner cannot find *)
(* a request pending whose caller has not yet gone past the queue.         *)
Sent(n) == n <= nextId /\ \A t \in Callers : caller[t].pc \in BeforeSend => caller[t].id # n
TokensInv ==
  /\ \A i \in 1 .. Len(commands) : Sent(commands[i].id)
  /\ owner.pc = "admit" => Sent(Cmd.id)

(* From admission to the signal the slot stays with the token the owner    *)
(* holds; when the outcome is decided the caller listens for it.           *)
OwnerInv ==
  /\ owner.pc \in {"run", "result", "complete"} => TokenIs("ADMITTED")
  /\ owner.pc \in {"result", "complete"} => Cmd.id \in executed
  /\ owner.pc = "complete" => slot[Cmd.k].result = "done" /\ slot[Cmd.k].secret = 0
  /\ owner.pc = "expire_wipe" => Token.st = "OWNER_EXPIRED"
  /\ owner.pc \in {"expire_wipe", "give"} =>
       /\ Token.id = Cmd.id /\ Token.st \in Final
       /\ ~slot[Cmd.k].signal
       /\ CallerAt(Cmd.k, Cmd.id, Listening)

(* Only requests that were made have been run or answered.                 *)
ToldInv ==
  /\ executed \subseteq 1 .. nextId
  /\ \A n \in Ids : n > nextId => told[n] = "nothing"
  /\ ToldTheTruth

CallersInv == \A t \in Callers : CallerOK(t) /\ Standing(t)
SlotsInv == \A k \in Slots : SlotOK(k)
Inv == Typed /\ CallersInv /\ SlotsInv /\ TokensInv /\ OwnerInv /\ ToldInv

(* The invariant gives the three properties.                               *)
LEMMA InvImplies == Inv => ToldTheTruth /\ NothingLeaks /\ SlotHasItsCaller
<1> SUFFICES ASSUME Inv PROVE ToldTheTruth /\ NothingLeaks /\ SlotHasItsCaller
  OBVIOUS
<1>1. ToldTheTruth  BY DEF Inv, ToldInv
<1>2. NothingLeaks
  BY DEF Inv, NothingLeaks, SlotsInv, SlotOK, CallerAt, Listening, Final
<1>3. SlotHasItsCaller
  BY DEF Inv, SlotsInv, SlotOK, SlotHasItsCaller, CallerAt, Free, Typed, SlotTyped, SlotType, WordType
<1> QED BY <1>1, <1>2, <1>3

(* What a step of caller t on its slot leaves alone.                       *)
LEMMA OthersKept ==
  ASSUME Inv, NEW t \in Callers, caller[t].pc \in Holding \cup {"claim"},
         CallerFrame(t), SlotFrame(caller[t].k),
         caller'[t].id \in {caller[t].id, 0},
         caller[t].pc = "claim" => slot[caller[t].k].word = Free \/ UNCHANGED slot,
         \A n \in Ids : n # caller[t].id => told'[n] = told[n],
         UNCHANGED <<nextId, executed>>
  PROVE  /\ \A u \in Callers \ {t} : CallerOK(u)' /\ Standing(u)'
         /\ \A j \in Slots \ {caller[t].k} : SlotOK(j)'
<1> USE DEF Inv, Typed
<1>0. \A u \in Callers : caller[u] \in CallerType  BY DEF CallerTyped
<1>1. \A u \in Callers \ {t} : caller[u].pc # "idle" => caller[u].id \in Ids /\ caller[u].id # caller[t].id
  BY <1>0 DEF CallersInv, CallerOK, CallerType, Ids, At
<1>2. \A u \in Callers \ {t} : CallerOK(u)'
  BY <1>0, <1>1 DEF CallersInv, CallerOK, CallerFrame, At, CallerType
<1>3. \A u \in Callers \ {t} : caller[u].pc \in Holding =>
        caller[u].k \in Slots /\ (caller[u].k # caller[t].k \/ UNCHANGED slot)
  BY <1>0, <1>1 DEF CallersInv, CallerOK, Standing, At, CallerType, Mine, MySlot, Holding, Free
<1>4. \A u \in Callers \ {t} : caller[u].pc \in Holding => slot'[caller[u].k] = slot[caller[u].k]
  BY <1>3 DEF SlotFrame
<1>5. \A u \in Callers \ {t} : Standing(u)'
  BY <1>4 DEF CallersInv, Standing, CallerFrame, Mine, MySlot, Holding
<1>6. ASSUME NEW j \in Slots \ {caller[t].k} PROVE SlotOK(j)'
  <2>1. \A n, labels : CallerAt(j, n, labels) => CallerAt(j, n, labels)'
    BY DEF CallerAt, CallerFrame
  <2>2. slot'[j] = slot[j]  BY DEF SlotFrame
  <2> QED BY <2>1, <2>2 DEF SlotsInv, SlotOK
<1> QED BY <1>2, <1>5, <1>6

LEMMA CallerFacts ==
  ASSUME Inv, NEW t \in Callers
  PROVE  /\ caller[t] \in CallerType /\ caller[t].k \in Slots /\ slot[caller[t].k] \in SlotType
         /\ slot[caller[t].k].word \in WordType
         /\ CallerOK(t) /\ Standing(t) /\ SlotOK(caller[t].k)
  BY DEF Inv, Typed, CallerTyped, SlotTyped, CallerType, SlotType, CallersInv, SlotsInv

(* A step of caller t on its slot keeps the invariant if it keeps the parts*)
(* that speak of the caller and the slot.                                  *)
LEMMA StepOfCaller ==
  ASSUME Inv, NEW t \in Callers, NEW k \in Slots, k = caller[t].k, caller[t].pc \in Holding \cup {"claim"},
         caller[t].pc = "claim" => slot[k].word = Free \/ UNCHANGED slot,
         CallerFrame(t), SlotFrame(k), CallerTyped', SlotTyped',
         caller'[t].id \in {caller[t].id, 0}, caller'[t].pc \notin BeforeSend \/ caller[t].pc \in BeforeSend,
         UNCHANGED <<owner, nextId, executed, commands>>,
         \A n \in Ids : n # caller[t].id => told'[n] = told[n],
         told' \in [Ids -> RequestResults \cup {"nothing", "invalid"}], ToldTheTruth',
         CallerOK(t)', Standing(t)', SlotOK(k)', OwnerInv'
  PROVE  Inv'
<1> USE DEF Inv, Typed
<1>1. (\A u \in Callers \ {t} : CallerOK(u)' /\ Standing(u)') /\ \A j \in Slots \ {k} : SlotOK(j)'
  BY OthersKept DEF Holding
<1>2. CallersInv' /\ SlotsInv'
  <2>1. ASSUME NEW u \in Callers PROVE CallerOK(u)' /\ Standing(u)'
    <3>1. CASE u = t  BY <3>1
    <3>2. CASE u # t  BY <1>1, <3>2
    <3> QED BY <3>1, <3>2
  <2>2. ASSUME NEW j \in Slots PROVE SlotOK(j)'
    <3>1. CASE j = k  BY <3>1
    <3>2. CASE j # k  BY <1>1, <3>2
    <3> QED BY <3>1, <3>2
  <2> QED BY <2>1, <2>2 DEF CallersInv, SlotsInv
<1>3. caller[t].id \in Ids /\ caller[t].id <= nextId
  BY CallerFacts DEF CallerOK, At, Holding, CallerType, Ids
<1>4. ASSUME NEW n, Sent(n) PROVE Sent(n)'
  <2> SUFFICES ASSUME NEW u \in Callers, caller'[u].pc \in BeforeSend PROVE caller'[u].id # n
    BY <1>4 DEF Sent
  <2>1. CASE u = t
    <3>1. caller[t].id # n  BY <1>4, <2>1 DEF Sent
    <3>2. caller'[t].id # 0  BY <2>1 DEF CallerOK, At, BeforeSend
    <3> QED BY <2>1, <3>1, <3>2
  <2>2. CASE u # t  BY <1>4, <2>2 DEF Sent, CallerFrame
  <2> QED BY <2>1, <2>2
<1>5. TokensInv'
  <2>1. ASSUME NEW i \in 1 .. Len(commands) PROVE Sent(commands[i].id)'
    <3> PICK n : n = commands[i].id  OBVIOUS
    <3>1. Sent(n)'  BY <1>4, <2>1 DEF TokensInv, Sent
    <3> QED BY <3>1 DEF Sent
  <2>2. ASSUME owner.pc = "admit" PROVE Sent(Cmd.id)'
    <3> PICK n : n = Cmd.id  OBVIOUS
    <3>1. Sent(n)'  BY <1>4, <2>2 DEF TokensInv, Sent
    <3> QED BY <3>1 DEF Sent, Cmd
  <2> QED BY <2>1, <2>2 DEF TokensInv
<1>6. ToldInv'
  <2>1. ASSUME NEW n \in Ids, n > nextId' PROVE told'[n] = "nothing"
    BY <1>3, <2>1 DEF ToldInv, Ids, CountsTyped
  <2> QED BY <2>1 DEF ToldInv
<1> QED BY <1>2, <1>5, <1>6 DEF QueueTyped, CountsTyped

(* A step of a caller whose slot is not the owner's to look at, or that    *)
(* keeps what the owner relies on.                                         *)
LEMMA OwnerKept ==
  ASSUME Inv, NEW t \in Callers, UNCHANGED <<owner, executed>>, SlotFrame(caller[t].k), CallerFrame(t),
         caller[t].pc \in Holding \cup {"claim"},
         \/ caller[t].k # Cmd.k \/ owner.pc \in {"idle", "admit"}
         \/ caller[t].pc \in Holding /\ MySlot(t).word.st \notin {"ADMITTED"} \cup Final
         \/ /\ caller[t].pc \in Holding
            /\ slot'[caller[t].k].word = MySlot(t).word
            /\ slot'[caller[t].k].result = MySlot(t).result
            /\ slot'[caller[t].k].secret \in {MySlot(t).secret, 0}
            /\ MySlot(t).signal \/ caller[t].pc \in Listening
            /\ MySlot(t).signal \/ ~slot'[caller[t].k].signal
            /\ MySlot(t).signal
               \/ (caller'[t].pc \in Listening /\ caller'[t].id = caller[t].id /\ caller'[t].k = caller[t].k)
  PROVE  OwnerInv'
<1> USE DEF Inv, Typed
<1>0. owner.pc # "idle" => Cmd \in Tokens /\ Cmd.k \in Slots /\ Cmd.id # 0
  BY DEF QueueTyped, Cmd, Tokens, Ids
<1>1. ASSUME NEW l, CallerAt(Cmd.k, Cmd.id, l), Cmd.k # caller[t].k PROVE CallerAt(Cmd.k, Cmd.id, l)'
  BY <1>1 DEF CallerAt, CallerFrame, Cmd
<1>2. CASE Cmd.k # caller[t].k \/ owner.pc \in {"idle", "admit"}
  <2>1. owner.pc \notin {"idle", "admit"} => slot'[Cmd.k] = slot[Cmd.k]  BY <1>0, <1>2 DEF SlotFrame
  <2>2. CASE owner.pc \in {"idle", "admit"}  BY <2>2 DEF OwnerInv
  <2>3. CASE owner.pc \notin {"idle", "admit"}
    BY <1>1, <1>2, <2>1, <2>3 DEF OwnerInv, TokenIs, Token, Cmd, Word
  <2> QED BY <2>2, <2>3
<1>3. CASE Cmd.k = caller[t].k /\ owner.pc \notin {"idle", "admit"}
  <2>1. Cmd.id = MySlot(t).word.id /\ MySlot(t).word.st \in {"ADMITTED"} \cup Final
    BY <1>3 DEF OwnerInv, TokenIs, Token, Word, MySlot, QueueTyped, OwnerType, OwnerLabels
  <2>2. owner.pc \in {"expire_wipe", "give"} => ~MySlot(t).signal  BY <1>3 DEF OwnerInv, MySlot
  <2>3. MySlot(t).word.id = caller[t].id  BY <1>3 DEF CallersInv, Standing, Mine
  <2>4. owner.pc \in {"expire_wipe", "give"} => CallerAt(Cmd.k, Cmd.id, Listening)'
    BY <1>3, <2>1, <2>2, <2>3 DEF CallerAt, Cmd
  <2> QED BY <1>3, <2>1, <2>2, <2>4 DEF OwnerInv, TokenIs, Token, Word, MySlot, Cmd
<1> QED BY <1>2, <1>3 DEF QueueTyped, OwnerType, OwnerLabels

-----------------------------------------------------------------------------
(* The steps of a caller that holds a slot.                                *)
LEMMA WordTyped == \A n \in Ids, st \in SlotStates : Word(n, st) \in WordType /\ Free \in WordType
  BY Ranges DEF Word, WordType, Free, SlotStates

LEMMA HolderFacts ==
  ASSUME Inv, NEW t \in Callers, caller[t].pc \in Holding
  PROVE  /\ caller[t].k \in Slots /\ caller[t].id \in Ids /\ caller[t].id <= nextId
         /\ told[caller[t].id] = "nothing" /\ Mine(t) /\ MySlot(t).word.id = caller[t].id
         /\ \A u \in Callers \ {t} : caller[u].id # caller[t].id
  BY CallerFacts DEF CallerOK, Standing, At, Holding, CallerType, Ids, Mine, Inv, CallersInv

LEMMA DrainKeeps == ASSUME Inv, NEW t \in Callers, Drain(t) PROVE Inv'
<1> USE DEF Inv, Typed
<1>0. caller[t].pc = "drain" /\ caller[t].pc \in Holding /\ caller[t].pc \in BeforeSend
  BY DEF Drain, At, Holding, BeforeSend
<1> PICK k \in Slots : k = caller[t].k  BY <1>0, HolderFacts
<1> DEFINE s == [slot[k] EXCEPT !.signal = FALSE, !.result = "timeout"]
<1>1. slot[k] \in SlotType  BY DEF SlotTyped
<1>2. /\ s \in SlotType /\ s.word = slot[k].word /\ s.secret = slot[k].secret
      /\ s.signal = FALSE /\ s.result = "timeout"
  BY <1>1 DEF SlotType, RequestResults
<1>3. slot' = [slot EXCEPT ![k] = s]  BY DEF Drain
<1> HIDE DEF s
<1>4. slot'[k] = s /\ SlotFrame(k) /\ SlotTyped'  BY <1>2, <1>3, SlotFacts
<1>5. /\ caller'[t].pc = "publish" /\ caller'[t].id = caller[t].id /\ caller'[t].k = k
      /\ CallerFrame(t) /\ CallerTyped'
  BY GoesFacts DEF Drain, CallerLabels
<1>6. Mine(t) /\ slot[k].word.st = "CLAIMED" /\ CallerOK(t) /\ SlotOK(k)
  BY <1>0, CallerFacts DEF Standing, MySlot, Holding
<1>7. CallerOK(t)'  BY <1>0, <1>5, <1>6 DEF Drain, CallerOK, At, CallerFrame
<1>8. Standing(t)'
  BY <1>2, <1>4, <1>5, <1>6 DEF Standing, Mine, MySlot, Holding
<1>9. SlotOK(k)'
  <2>1. CallerAt(k, slot[k].word.id, Holding)'
    BY <1>2, <1>4, <1>5, <1>6 DEF CallerAt, Mine, MySlot, Holding
  <2> QED BY <1>2, <1>4, <1>6, <2>1 DEF Drain, SlotOK, Final
<1>10. OwnerInv'  BY <1>0, <1>4, <1>5, <1>6, OwnerKept DEF Drain, MySlot, Final
<1>11. ToldTheTruth'  BY DEF Drain, ToldInv, ToldTheTruth
<1> QED BY <1>0, <1>4, <1>5, <1>7, <1>8, <1>9, <1>10, <1>11, StepOfCaller DEF Drain, CountsTyped

LEMMA PublishKeeps == ASSUME Inv, NEW t \in Callers, Publish(t) PROVE Inv'
<1> USE DEF Inv, Typed
<1>0. caller[t].pc = "publish" /\ caller[t].pc \in Holding /\ caller[t].pc \in BeforeSend
  BY DEF Publish, At, Holding, BeforeSend
<1> PICK k \in Slots : k = caller[t].k  BY <1>0, HolderFacts
<1>1. Word(caller[t].id, "PENDING") \in WordType  BY <1>0, WordTyped, HolderFacts DEF SlotStates
<1>4. /\ slot'[k].word = Word(caller[t].id, "PENDING") /\ slot'[k].secret = slot[k].secret
      /\ slot'[k].signal = slot[k].signal /\ slot'[k].result = slot[k].result
      /\ SlotFrame(k) /\ SlotTyped'
  BY <1>1, WordFacts DEF Publish
<1> PICK l \in {"store", "send"} : CallerGoes(t, l)  BY DEF Publish
<1>5. /\ caller'[t].pc \in {"store", "send"} /\ caller'[t].id = caller[t].id /\ caller'[t].k = k
      /\ CallerFrame(t) /\ CallerTyped'
  BY GoesFacts DEF CallerLabels
<1>6. Mine(t) /\ slot[k].word.st = "CLAIMED" /\ slot[k].result = "timeout" /\ CallerOK(t) /\ SlotOK(k)
  BY <1>0, CallerFacts DEF Standing, MySlot, Holding
<1>7. CallerOK(t)'  BY <1>0, <1>5, <1>6 DEF Publish, CallerOK, At, CallerFrame
<1>8. Standing(t)'
  BY <1>4, <1>5, <1>6 DEF Standing, Mine, MySlot, Holding, Word
<1>9. SlotOK(k)'
  BY <1>0, <1>4, <1>5, <1>6, HolderFacts DEF Publish, SlotOK, CallerAt, Mine, MySlot, Final, Holding, Word, Ids
<1>10. OwnerInv'  BY <1>0, <1>4, <1>5, <1>6, OwnerKept DEF Publish, MySlot, Final
<1> QED BY <1>0, <1>4, <1>5, <1>7, <1>8, <1>9, <1>10, StepOfCaller
    DEF Publish, ToldInv, ToldTheTruth, CountsTyped, BeforeSend

LEMMA StoreSecretKeeps == ASSUME Inv, NEW t \in Callers, StoreSecret(t) PROVE Inv'
<1> USE DEF Inv, Typed
<1>0. caller[t].pc = "store" /\ caller[t].pc \in Holding /\ caller[t].pc \in BeforeSend
  BY DEF StoreSecret, At, Holding, BeforeSend
<1> PICK k \in Slots : k = caller[t].k  BY <1>0, HolderFacts
<1> DEFINE s == [slot[k] EXCEPT !.secret = caller[t].id]
<1>1. slot[k] \in SlotType /\ caller[t].id \in 0 .. MaxRequests
  BY <1>0, HolderFacts, Ranges DEF SlotTyped
<1>2. /\ s \in SlotType /\ s.word = slot[k].word /\ s.secret = caller[t].id
      /\ s.signal = slot[k].signal /\ s.result = slot[k].result
  BY <1>1 DEF SlotType
<1>3. slot' = [slot EXCEPT ![k] = s]  BY DEF StoreSecret
<1> HIDE DEF s
<1>4. slot'[k] = s /\ SlotFrame(k) /\ SlotTyped'  BY <1>2, <1>3, SlotFacts
<1>5. /\ caller'[t].pc = "send" /\ caller'[t].id = caller[t].id /\ caller'[t].k = k
      /\ CallerFrame(t) /\ CallerTyped'
  BY GoesFacts DEF StoreSecret, CallerLabels
<1>6. Mine(t) /\ slot[k].word.st = "PENDING" /\ CallerOK(t) /\ SlotOK(k)
  BY <1>0, CallerFacts DEF Standing, MySlot, Holding
<1>7. CallerOK(t)'  BY <1>0, <1>5, <1>6 DEF StoreSecret, CallerOK, At, CallerFrame
<1>8. Standing(t)'
  BY <1>2, <1>4, <1>5, <1>6 DEF Standing, Mine, MySlot, Holding
<1>9. SlotOK(k)'
  <2>1. CallerAt(k, slot[k].word.id, Holding)'
    BY <1>2, <1>4, <1>5, <1>6 DEF CallerAt, Mine, MySlot, Holding
  <2> QED BY <1>2, <1>4, <1>6, <2>1 DEF StoreSecret, SlotOK, Final, Mine, MySlot
<1>10. OwnerInv'  BY <1>0, <1>4, <1>5, <1>6, OwnerKept DEF StoreSecret, MySlot, Final
<1>11. ToldTheTruth'  BY DEF StoreSecret, ToldInv, ToldTheTruth
<1> QED BY <1>0, <1>4, <1>5, <1>7, <1>8, <1>9, <1>10, <1>11, StepOfCaller DEF StoreSecret, CountsTyped

(* The caller goes on, its slot untouched or without its signal.           *)
LEMMA GoesOn ==
  ASSUME Inv, NEW t \in Callers, NEW k \in Slots, k = caller[t].k,
         caller[t].pc \in Listening, NEW l \in CallerLabels, l \in Listening \cup {"consume"}, CallerGoes(t, l),
         \/ UNCHANGED slot /\ ~slot[k].signal
         \/ UNCHANGED slot /\ l \in Listening
         \/ slot[k].signal /\ slot' = [slot EXCEPT ![k].signal = FALSE],
         l = "consume" => slot[k].word.st \in Final,
         l = "block" => slot[k].word.st \in {"ADMITTED"} \cup Final,
         l = "consume" => slot[k].signal,
         UNCHANGED <<commands, owner, nextId, executed, told>>
  PROVE  Inv'
<1> USE DEF Inv, Typed
<1>0. caller[t].pc \in Holding  BY DEF Holding, Listening
<1>4. /\ slot'[k].word = slot[k].word /\ slot'[k].secret = slot[k].secret /\ slot'[k].result = slot[k].result
      /\ SlotFrame(k) /\ SlotTyped'
      /\ slot'[k].signal => slot[k].signal /\ l \in Listening
      /\ slot[k].signal \/ ~slot'[k].signal
  <2>1. CASE UNCHANGED slot /\ (~slot[k].signal \/ l \in Listening)  BY <2>1 DEF SlotFrame, SlotTyped
  <2>2. CASE slot[k].signal /\ slot' = [slot EXCEPT ![k].signal = FALSE]  BY <2>2, SignalFacts
  <2> QED BY <2>1, <2>2
<1>5. /\ caller'[t].pc = l /\ caller'[t].id = caller[t].id /\ caller'[t].k = k
      /\ CallerFrame(t) /\ CallerTyped'
  BY GoesFacts
<1>6. Mine(t) /\ Standing(t) /\ CallerOK(t) /\ SlotOK(k)
  BY <1>0, CallerFacts DEF Standing
<1>7. CallerOK(t)'  BY <1>0, <1>5, <1>6 DEF CallerOK, At, CallerFrame, Listening
<1>8. Standing(t)'
  BY <1>4, <1>5, <1>6 DEF Standing, Mine, MySlot, Listening
<1>9. SlotOK(k)'
  <2>1. CallerAt(k, slot[k].word.id, Holding)'
    BY <1>4, <1>5, <1>6 DEF CallerAt, Mine, MySlot, Holding, Listening
  <2>3. slot'[k].signal => CallerAt(k, slot[k].word.id, Listening)'
    BY <1>4, <1>5, <1>6 DEF CallerAt, Mine, MySlot
  <2> QED BY <1>4, <1>6, <2>1, <2>3 DEF SlotOK, Final, Mine, MySlot
<1>10. OwnerInv'  BY <1>0, <1>4, <1>5, <1>6, OwnerKept DEF MySlot, Final
<1>11. ToldTheTruth'  BY DEF ToldInv, ToldTheTruth
<1> QED BY <1>0, <1>4, <1>5, <1>7, <1>8, <1>9, <1>10, <1>11, StepOfCaller DEF CountsTyped, BeforeSend, Listening

LEMMA ListenKeeps ==
  ASSUME Inv, NEW t \in Callers, WaitSignalled(t) \/ WaitTimesOut(t) \/ Block(t)
  PROVE  Inv'
<1> PICK k \in Slots : k = caller[t].k  BY CallerFacts
<1>1. Standing(t) /\ SlotOK(k)  BY CallerFacts
<1>2. slot[k].signal => slot[k].word.st \in Final  BY <1>1 DEF SlotOK
<1>3. caller[t].pc \in Holding => (Decided(t) <=> slot[k].word.st \in Final)
  BY <1>1, CallerFacts DEF Standing, Mine, MySlot, Decided, In, Word, Final, WordType
<1>4. CASE WaitSignalled(t)
  <2>1. slot[k].signal /\ caller[t].pc = "wait"  BY <1>4 DEF WaitSignalled, MySlot, At
  <2>2. CallerGoes(t, "consume")  BY <1>2, <1>3, <1>4, <2>1 DEF WaitSignalled, Holding
  <2> QED BY <1>2, <1>4, <2>1, <2>2, GoesOn DEF WaitSignalled, TakeSignal, CallerLabels, Listening
<1>5. CASE WaitTimesOut(t)
  BY <1>5, GoesOn DEF WaitTimesOut, At, MySlot, CallerLabels, Listening
<1>6. CASE Block(t)
  <2>1. slot[k].signal /\ caller[t].pc = "block"  BY <1>6 DEF Block, MySlot, At
  <2>2. CallerGoes(t, "consume")  BY <1>2, <1>3, <1>6, <2>1 DEF Block, Holding
  <2> QED BY <1>2, <1>6, <2>1, <2>2, GoesOn DEF Block, TakeSignal, CallerLabels, Listening
<1> QED BY <1>4, <1>5, <1>6

LEMMA SendKeeps == ASSUME Inv, NEW t \in Callers, Send(t) PROVE Inv'
<1> USE DEF Inv, Typed
<1>0. caller[t].pc = "send" /\ caller[t].pc \in Holding /\ caller[t].pc \in BeforeSend
  BY DEF Send, At, Holding, BeforeSend
<1> PICK k \in Slots : k = caller[t].k  BY <1>0, HolderFacts
<1> PICK l \in {"wait", "cancel"} : CallerGoes(t, l)  BY DEF Send
<1>5. /\ caller'[t].pc = l /\ caller'[t].id = caller[t].id /\ caller'[t].k = k
      /\ CallerFrame(t) /\ CallerTyped'
  BY GoesFacts DEF CallerLabels
<1>6. Mine(t) /\ slot[k].word.st = "PENDING" /\ CallerOK(t) /\ SlotOK(k) /\ Standing(t)
  BY <1>0, CallerFacts DEF Standing, MySlot, Holding
<1>7. CallerOK(t)'  BY <1>0, <1>5, <1>6 DEF Send, CallerOK, At, CallerFrame
<1>8. Standing(t)'  BY <1>5, <1>6 DEF Send, Standing, Mine, MySlot, Holding
<1>9. SlotOK(k)'
  <2>1. CallerAt(k, slot[k].word.id, Holding)'
    BY <1>5, <1>6 DEF Send, CallerAt, Mine, MySlot, Holding
  <2> QED BY <1>6, <2>1 DEF Send, SlotOK, Final
<1>10. SlotFrame(k) /\ OwnerInv'
  <2>1. SlotFrame(k)  BY DEF Send, SlotFrame
  <2> QED BY <1>0, <1>5, <1>6, <2>1, OwnerKept DEF Send, MySlot, Final
<1>12. (\A u \in Callers \ {t} : CallerOK(u)' /\ Standing(u)') /\ \A j \in Slots \ {k} : SlotOK(j)'
  BY <1>0, <1>5, <1>10, OthersKept DEF Send
<1>13. CallersInv' /\ SlotsInv'
  <2>1. ASSUME NEW u \in Callers PROVE CallerOK(u)' /\ Standing(u)'
    <3>1. CASE u = t  BY <1>7, <1>8, <3>1
    <3>2. CASE u # t  BY <1>12, <3>2
    <3> QED BY <3>1, <3>2
  <2>2. ASSUME NEW j \in Slots PROVE SlotOK(j)'
    <3>1. CASE j = k  BY <1>9, <3>1
    <3>2. CASE j # k  BY <1>12, <3>2
    <3> QED BY <3>1, <3>2
  <2> QED BY <2>1, <2>2 DEF CallersInv, SlotsInv
<1>14. ASSUME NEW n, Sent(n) \/ n = caller[t].id PROVE Sent(n)'
  BY <1>0, <1>5, <1>14, HolderFacts DEF Send, Sent, CallerFrame, BeforeSend
<1>15. commands' \in Seq(Tokens) /\ Len(commands') <= QueueDepth
       /\ (\A i \in 1 .. Len(commands) : Sent(commands[i].id))'
  <2>1. CASE UNCHANGED commands
    <3>1. ASSUME NEW i \in 1 .. Len(commands) PROVE Sent(commands[i].id)'
      <4> PICK n : n = commands[i].id  OBVIOUS
      <4>1. Sent(n)'  BY <1>14, <3>1 DEF TokensInv
      <4> QED BY <2>1, <4>1 DEF Sent
    <3> QED BY <2>1, <3>1 DEF QueueTyped
  <2>2. CASE ~UNCHANGED commands
    <3> DEFINE e == [id |-> caller[t].id, k |-> caller[t].k, secret |-> caller[t].secret]
    <3>1. e \in Tokens /\ e.id = caller[t].id
      BY <1>0, CallerFacts, HolderFacts DEF Tokens, CallerType
    <3>2. commands' = Append(commands, e) /\ Len(commands) < QueueDepth  BY <2>2 DEF Send, RoomForToken
    <3> HIDE DEF e
    <3>3. commands' \in Seq(Tokens) /\ Len(commands') = Len(commands) + 1
          /\ \A i \in 1 .. Len(commands') : commands'[i] = IF i <= Len(commands) THEN commands[i] ELSE e
      BY <3>1, <3>2, AppendProperties DEF QueueTyped
    <3>4. ASSUME NEW i \in 1 .. Len(commands') PROVE Sent(commands[i].id)'
      <4> PICK n : n = commands'[i].id  OBVIOUS
      <4>1. Sent(n) \/ n = caller[t].id  BY <3>1, <3>3, <3>4 DEF TokensInv, QueueTyped
      <4>2. Sent(n)'  BY <1>14, <4>1
      <4> QED BY <4>2 DEF Sent
    <3> QED BY <3>2, <3>3, <3>4, SlotsAssumption DEF QueueTyped
  <2> QED BY <2>1, <2>2
<1>16. TokensInv'
  <2>1. ASSUME owner.pc = "admit" PROVE Sent(Cmd.id)'
    <3> PICK n : n = Cmd.id  OBVIOUS
    <3>1. Sent(n)'  BY <1>14, <2>1 DEF TokensInv
    <3> QED BY <3>1 DEF Sent, Cmd, Send
  <2> QED BY <1>15, <2>1 DEF TokensInv, Send
<1>17. ToldInv'  BY DEF Send, ToldInv, ToldTheTruth
<1> QED BY <1>5, <1>10, <1>13, <1>15, <1>16, <1>17 DEF Send, QueueTyped, CountsTyped, SlotTyped

LEMMA CancelKeeps == ASSUME Inv, NEW t \in Callers, Cancel(t) PROVE Inv'
<1> USE DEF Inv, Typed
<1>0. caller[t].pc = "cancel" /\ caller[t].pc \in Holding  BY DEF Cancel, At, Holding
<1> PICK k \in Slots : k = caller[t].k  BY <1>0, HolderFacts
<1>1. /\ Mine(t) /\ slot[k].word.id = caller[t].id /\ slot[k].word \in WordType
      /\ slot[k].word.st \in {"PENDING", "ADMITTED"} \cup Final /\ CallerOK(t) /\ SlotOK(k) /\ Standing(t)
  BY <1>0, CallerFacts DEF Standing, Mine, MySlot, Holding
<1>2. CASE ~In(t, "PENDING")
  <2>1. OwnerHasIt(t) /\ slot[k].word.st \in {"ADMITTED"} \cup Final
    BY <1>1, <1>2 DEF OwnerHasIt, Decided, In, MySlot, Word, WordType, Final
  <2>2. CallerGoes(t, "block") /\ UNCHANGED slot  BY <1>2, <2>1 DEF Cancel, AfterLostCancel
  <2> QED BY <1>0, <2>1, <2>2, GoesOn DEF Cancel, CallerLabels, Listening
<1>3. CASE In(t, "PENDING")
  <2>1. Word(caller[t].id, "CALLER_CANCELLED") \in WordType
    BY <1>0, WordTyped, HolderFacts DEF SlotStates
  <2>2. slot[k].word.st = "PENDING"  BY <1>3 DEF In, MySlot, Word
  <2>4. /\ slot'[k].word = Word(caller[t].id, "CALLER_CANCELLED") /\ slot'[k].secret = slot[k].secret
        /\ slot'[k].signal = slot[k].signal /\ slot'[k].result = slot[k].result
        /\ SlotFrame(k) /\ SlotTyped'
    BY <1>3, <2>1, WordFacts DEF Cancel
  <2>5. /\ caller'[t].pc = "wipe" /\ caller'[t].id = caller[t].id /\ caller'[t].k = k
        /\ CallerFrame(t) /\ CallerTyped'
    BY <1>3, GoesFacts DEF Cancel, CallerLabels
  <2>7. CallerOK(t)'  BY <1>0, <1>1, <2>5 DEF Cancel, CallerOK, At, CallerFrame
  <2>8. Standing(t)'  BY <1>1, <2>4, <2>5 DEF Standing, Mine, MySlot, Holding, Word
  <2>9. SlotOK(k)'
    <3>1. CallerAt(k, slot[k].word.id, Holding)'
      BY <1>1, <2>4, <2>5 DEF CallerAt, Word, Holding
    <3>2. caller[t].id # 0  BY <1>0, HolderFacts DEF Ids
    <3> QED BY <1>1, <2>2, <2>4, <3>1, <3>2 DEF Cancel, SlotOK, Word, Final
  <2>10. OwnerInv'  BY <1>0, <2>2, <2>4, <2>5, OwnerKept DEF Cancel, MySlot, Final
  <2>11. ToldTheTruth'  BY DEF Cancel, ToldInv, ToldTheTruth
  <2> QED BY <1>0, <2>4, <2>5, <2>7, <2>8, <2>9, <2>10, <2>11, StepOfCaller DEF Cancel, CountsTyped, BeforeSend
<1> QED BY <1>2, <1>3

LEMMA CancelWipesKeeps == ASSUME Inv, NEW t \in Callers, CancelWipes(t) PROVE Inv'
<1> USE DEF Inv, Typed
<1>0. caller[t].pc = "wipe" /\ caller[t].pc \in Holding  BY DEF CancelWipes, At, Holding
<1> PICK k \in Slots : k = caller[t].k  BY <1>0, HolderFacts
<1>4. /\ slot'[k].word = slot[k].word /\ slot'[k].secret = 0
      /\ slot'[k].signal = slot[k].signal /\ slot'[k].result = slot[k].result
      /\ SlotFrame(k) /\ SlotTyped'
  BY WipeFacts DEF CancelWipes
<1>5. /\ caller'[t].pc = "release" /\ caller'[t].id = caller[t].id /\ caller'[t].k = k
      /\ CallerFrame(t) /\ CallerTyped'
  BY GoesFacts DEF CancelWipes, CallerLabels
<1>6. Mine(t) /\ slot[k].word.st = "CALLER_CANCELLED" /\ CallerOK(t) /\ SlotOK(k)
  BY <1>0, CallerFacts DEF Standing, MySlot, Holding
<1>7. CallerOK(t)'  BY <1>0, <1>5, <1>6 DEF CancelWipes, CallerOK, At, CallerFrame
<1>8. Standing(t)'  BY <1>4, <1>5, <1>6 DEF Standing, Mine, MySlot, Holding
<1>9. SlotOK(k)'
  <2>1. CallerAt(k, slot[k].word.id, Holding)'
    BY <1>4, <1>5, <1>6 DEF CallerAt, Mine, MySlot, Holding
  <2> QED BY <1>4, <1>6, <2>1 DEF CancelWipes, SlotOK, Final
<1>10. OwnerInv'  BY <1>0, <1>4, <1>5, <1>6, OwnerKept DEF CancelWipes, MySlot, Final
<1>11. ToldTheTruth'  BY DEF CancelWipes, ToldInv, ToldTheTruth
<1> QED BY <1>0, <1>4, <1>5, <1>7, <1>8, <1>9, <1>10, <1>11, StepOfCaller DEF CancelWipes, CountsTyped, BeforeSend

LEMMA ConsumeKeeps == ASSUME Inv, NEW t \in Callers, Consume(t) PROVE Inv'
<1> USE DEF Inv, Typed
<1>0. caller[t].pc = "consume" /\ caller[t].pc \in Holding  BY DEF Consume, At, Holding
<1> PICK k \in Slots : k = caller[t].k  BY <1>0, HolderFacts
<1> DEFINE s == [slot[k] EXCEPT !.secret = 0, !.signal = FALSE]
<1> DEFINE c == [caller[t] EXCEPT !.pc = "free", !.ret = slot[k].result]
<1>1. slot[k] \in SlotType /\ caller[t] \in CallerType  BY DEF SlotTyped, CallerTyped
<1>2. /\ s \in SlotType /\ s.word = slot[k].word /\ s.secret = 0
      /\ s.signal = FALSE /\ s.result = slot[k].result
  BY <1>1, Ranges DEF SlotType
<1>3. c \in CallerType /\ c.pc = "free" /\ c.id = caller[t].id /\ c.k = k /\ c.ret = slot[k].result
  BY <1>1 DEF SlotType, CallerType, CallerLabels
<1>4. slot' = [slot EXCEPT ![k] = s] /\ caller' = [caller EXCEPT ![t] = c]  BY DEF Consume, MySlot
<1> HIDE DEF s, c
<1>5. slot'[k] = s /\ SlotFrame(k) /\ SlotTyped'  BY <1>2, <1>4, SlotFacts
<1>6. caller'[t] = c /\ CallerFrame(t) /\ CallerTyped'  BY <1>3, <1>4 DEF CallerTyped, CallerFrame
<1>7. Mine(t) /\ slot[k].word.st \in Final /\ CallerOK(t) /\ SlotOK(k)
  BY <1>0, CallerFacts DEF Standing, MySlot, Holding
<1>8. CallerOK(t)'  BY <1>0, <1>3, <1>6, <1>7 DEF Consume, CallerOK, At, CallerFrame
<1>9. Standing(t)'  BY <1>2, <1>3, <1>5, <1>6, <1>7 DEF Standing, Mine, MySlot, Holding
<1>10. SlotOK(k)'
  <2>1. CallerAt(k, slot[k].word.id, Holding)'
    BY <1>2, <1>3, <1>5, <1>6, <1>7 DEF CallerAt, Mine, MySlot, Holding
  <2>2. /\ slot'[k].word = slot[k].word /\ slot'[k].secret = 0
        /\ ~slot'[k].signal /\ slot'[k].result = slot[k].result
    BY <1>2, <1>5
  <2>3. UNCHANGED executed  BY DEF Consume
  <2> QED BY <1>7, <2>1, <2>2, <2>3 DEF SlotOK, Final
<1>11. ASSUME owner.pc \notin {"idle", "admit"}, Cmd.k = k, owner.pc \in {"expire_wipe", "give"} PROVE FALSE
  BY <1>0, <1>7, <1>11, HolderFacts DEF OwnerInv, CallerAt, Listening, Token, MySlot, Mine
<1>12. Cmd.k = k => owner.pc \in {"idle", "admit"}
  BY <1>7, <1>11 DEF OwnerInv, TokenIs, Token, Word, QueueTyped, OwnerType, OwnerLabels, Final
<1>13. OwnerInv'  BY <1>0, <1>5, <1>6, <1>12, OwnerKept DEF Consume
<1>14. ToldTheTruth'  BY DEF Consume, ToldInv, ToldTheTruth
<1> QED BY <1>0, <1>3, <1>5, <1>6, <1>8, <1>9, <1>10, <1>13, <1>14, StepOfCaller DEF Consume, CountsTyped, BeforeSend

(* A slot is released with the caller being told the truth.                *)
LEMMA Release ==
  ASSUME Inv, NEW t \in Callers, caller[t].pc \in {"release", "free"}, NEW r \in {"timeout", "done"},
         SetWord(caller[t].k, Free), Tell(t, r),
         r = "timeout" => caller[t].id \notin executed, r = "done" => caller[t].id \in executed,
         UNCHANGED <<commands, owner, nextId, executed>>
  PROVE  Inv'
<1> USE DEF Inv, Typed
<1>0. caller[t].pc \in Holding  BY DEF Holding
<1> PICK k \in Slots : k = caller[t].k  BY <1>0, HolderFacts
<1>1. /\ Mine(t) /\ slot[k].word.st \in {"CALLER_CANCELLED"} \cup Final /\ slot[k].secret = 0
      /\ SlotOK(k) /\ CallerOK(t)
  BY <1>0, CallerFacts DEF Standing, MySlot, Holding
<1>2. ~slot[k].signal
  BY <1>0, <1>1, HolderFacts DEF SlotOK, CallerAt, Listening, Mine, MySlot
<1>3. Free \in WordType  BY <1>0, WordTyped, HolderFacts DEF SlotStates
<1>4. /\ slot'[k].word = Free /\ slot'[k].secret = 0 /\ ~slot'[k].signal
      /\ SlotFrame(k) /\ SlotTyped'
  BY <1>1, <1>2, <1>3, WordFacts
<1>5. /\ caller'[t] = IdleCaller /\ CallerFrame(t) /\ CallerTyped'
      /\ told' \in [Ids -> RequestResults \cup {"nothing", "invalid"}]
      /\ \A n \in Ids : told'[n] = IF n = caller[t].id THEN r ELSE told[n]
  BY TellFacts DEF RequestResults
<1>6. CallerOK(t)'  BY <1>5 DEF CallerOK, At, IdleCaller, CountsTyped
<1>7. Standing(t)'  BY <1>5 DEF Standing, IdleCaller, Holding
<1>8. SlotOK(k)'  BY <1>4 DEF SlotOK, Free
<1>9. owner.pc \notin {"expire_wipe", "give"} \/ Cmd.k # k
  BY <1>0, <1>1, HolderFacts DEF OwnerInv, CallerAt, Listening, Token, MySlot, Mine
<1>10. Cmd.k = k => owner.pc \in {"idle", "admit"}
  BY <1>1, <1>9 DEF OwnerInv, TokenIs, Token, Word, QueueTyped, OwnerType, OwnerLabels, Final
<1>11. OwnerInv'  BY <1>0, <1>4, <1>5, <1>10, OwnerKept
<1>12. ToldTheTruth'  BY <1>5 DEF ToldInv, ToldTheTruth
<1>13. caller'[t].id = 0 /\ caller'[t].pc = "idle"  BY <1>5 DEF IdleCaller
<1> QED BY <1>0, <1>4, <1>5, <1>6, <1>7, <1>8, <1>11, <1>12, <1>13, StepOfCaller DEF BeforeSend

LEMMA ReleasesKeep ==
  ASSUME Inv, NEW t \in Callers, CancelReleases(t) \/ ConsumeReleases(t) \/ Leave(t)
  PROVE  Inv'
<1> USE DEF Inv, Typed
<1>1. Standing(t) /\ SlotOK(caller[t].k) /\ slot[caller[t].k].word \in WordType  BY CallerFacts
<1>2. CASE CancelReleases(t)
  <2>1. caller[t].pc = "release" /\ Mine(t) /\ MySlot(t).word.st = "CALLER_CANCELLED"
    BY <1>1, <1>2 DEF CancelReleases, At, Standing, Holding
  <2>2. WordAfterCancel(t) = Free  BY <1>1, <2>1 DEF WordAfterCancel, In, Mine, MySlot, Word, WordType
  <2>3. caller[t].id \notin executed  BY <1>1, <2>1 DEF SlotOK, MySlot, Mine
  <2> QED BY <1>2, <2>1, <2>2, <2>3, Release DEF CancelReleases
<1>3. CASE ConsumeReleases(t)
  <2>1. caller[t].pc = "free" /\ Mine(t) /\ MySlot(t).word.st \in Final /\ caller[t].ret = MySlot(t).result
    BY <1>1, <1>3 DEF ConsumeReleases, At, Standing, Holding
  <2>2. Decided(t)  BY <1>1, <2>1 DEF Decided, In, Mine, MySlot, Word, WordType, Final
  <2>3. /\ caller[t].ret \in {"timeout", "done"}
        /\ caller[t].ret = "timeout" => caller[t].id \notin executed
        /\ caller[t].ret = "done" => caller[t].id \in executed
    BY <1>1, <2>1 DEF SlotOK, MySlot, Mine, Final
  <2> QED BY <1>3, <2>1, <2>2, <2>3, Release DEF ConsumeReleases
<1>4. CASE Leave(t)  BY <1>1, <1>4 DEF Leave, At, Standing
<1> QED BY <1>2, <1>3, <1>4

-----------------------------------------------------------------------------
(* The steps before a caller has a slot.                                   *)
LEMMA NoSlotYet ==
  ASSUME Inv, NEW t \in Callers, caller[t].pc \in {"idle", "claim"}, CallerFrame(t),
         UNCHANGED <<slot, owner, executed>>
  PROVE  SlotsInv' /\ OwnerInv'
<1> USE DEF Inv, Typed
<1>1. ASSUME NEW k, NEW n, NEW labels \in {Holding, Listening}, CallerAt(k, n, labels)
      PROVE CallerAt(k, n, labels)'
  BY <1>1 DEF CallerAt, CallerFrame, Holding, Listening
<1>2. ASSUME NEW k \in Slots PROVE SlotOK(k)'
  BY <1>1 DEF SlotsInv, SlotOK
<1>3. OwnerInv'
  <2> PICK k, n : k = Cmd.k /\ n = Cmd.id  OBVIOUS
  <2>1. CallerAt(k, n, Listening) => CallerAt(k, n, Listening)'  BY <1>1
  <2> QED BY <2>1 DEF OwnerInv, TokenIs, Token, Cmd, CallerAt
<1> QED BY <1>2, <1>3 DEF SlotsInv

LEMMA ClaimKeeps == ASSUME Inv, NEW t \in Callers, Claim(t) PROVE Inv'
<1> USE DEF Inv, Typed
<1>0. caller[t].pc = "claim" /\ caller[t].pc \in BeforeSend  BY DEF Claim, At, BeforeSend
<1> PICK k \in Slots : k = caller[t].k  BY CallerFacts
<1>1. /\ CallerOK(t) /\ SlotOK(k) /\ caller[t].id \in Ids /\ caller[t].id \notin executed
      /\ slot[k] \in SlotType /\ caller[t] \in CallerType
  BY <1>0, CallerFacts DEF CallerOK, At, CallerType, Ids
<1>2. CASE slot[k].word = Free
  <2> DEFINE s == [slot[k] EXCEPT !.word = Word(caller[t].id, "CLAIMED"), !.secret = 0]
  <2>1. slot' = [slot EXCEPT ![k] = s] /\ CallerGoes(t, "drain")  BY <1>2 DEF Claim, MySlot
  <2>2. /\ s \in SlotType /\ s.word = Word(caller[t].id, "CLAIMED") /\ s.secret = 0
        /\ s.signal = slot[k].signal
    BY <1>1, WordTyped, Ranges DEF SlotType, SlotStates
  <2> HIDE DEF s
  <2>3. slot'[k] = s /\ SlotFrame(k) /\ SlotTyped'  BY <2>1, <2>2, SlotFacts
  <2>4. /\ caller'[t].pc = "drain" /\ caller'[t].id = caller[t].id /\ caller'[t].k = k
        /\ CallerFrame(t) /\ CallerTyped'
    BY <2>1, GoesFacts DEF CallerLabels
  <2>5. ~slot[k].signal  BY <1>1, <1>2 DEF SlotOK, Free, Final
  <2>6. UNCHANGED told  BY <1>2 DEF Claim, MySlot, Tell
  <2>7. CallerOK(t)'  BY <1>0, <1>1, <2>4, <2>6 DEF Claim, CallerOK, At, CallerFrame
  <2>8. Standing(t)'  BY <2>2, <2>3, <2>4 DEF Standing, Mine, MySlot, Holding, Word
  <2>9. SlotOK(k)'
    <3>1. CallerAt(k, slot[k].word.id, Holding)'
      BY <1>1, <2>2, <2>3, <2>4 DEF CallerAt, Holding, Word
    <3>2. slot'[k].word.id = caller[t].id /\ slot'[k].word.st = "CLAIMED" /\ caller[t].id # 0
      BY <1>1, <2>2, <2>3 DEF Word, Ids
    <3> QED BY <1>1, <2>2, <2>3, <2>5, <3>1, <3>2 DEF Claim, SlotOK, Final
  <2>10. OwnerInv'
    <3>1. Cmd.k = k => owner.pc \in {"idle", "admit"}
      BY <1>2 DEF OwnerInv, TokenIs, Token, Word, QueueTyped, OwnerType, OwnerLabels, Final, Free
    <3> QED BY <1>0, <2>3, <2>4, <3>1, OwnerKept DEF Claim
  <2>11. ToldTheTruth'  BY <2>6 DEF Claim, ToldInv, ToldTheTruth
  <2> QED BY <1>0, <1>2, <2>3, <2>4, <2>6, <2>7, <2>8, <2>9, <2>10, <2>11, StepOfCaller DEF Claim, CountsTyped
<1>3. CASE slot[k].word # Free /\ k < SlotCount
  <2> DEFINE c == [caller[t] EXCEPT !.k = k + 1]
  <2>1. caller' = [caller EXCEPT ![t] = c] /\ UNCHANGED <<slot, told>>
    BY <1>3, SlotsAssumption DEF Claim, MySlot
  <2>2. c \in CallerType /\ c.pc = "claim" /\ c.id = caller[t].id
    BY <1>0, <1>1, <1>3, SlotsAssumption DEF CallerType, Slots
  <2> HIDE DEF c
  <2>3. caller'[t] = c /\ CallerFrame(t) /\ CallerTyped'  BY <2>1, <2>2 DEF CallerTyped, CallerFrame
  <2>4. CallerOK(t)'  BY <1>0, <1>1, <2>1, <2>2, <2>3 DEF Claim, CallerOK, At, CallerFrame
  <2>5. Standing(t)'  BY <2>2, <2>3 DEF Standing, Holding
  <2>6. SlotsInv' /\ OwnerInv'  BY <1>0, <2>1, <2>3, NoSlotYet DEF Claim
  <2>7. ToldTheTruth'  BY <2>1 DEF Claim, ToldInv, ToldTheTruth
  <2>8. SlotFrame(k) /\ SlotTyped' /\ SlotOK(k)'  BY <2>1, <2>6 DEF SlotFrame, SlotTyped, SlotsInv
  <2> QED BY <1>0, <2>1, <2>2, <2>3, <2>4, <2>5, <2>6, <2>7, <2>8, StepOfCaller DEF Claim, CountsTyped
<1>4. CASE slot[k].word # Free /\ ~(k < SlotCount)
  <2>1. Tell(t, "timeout") /\ UNCHANGED slot  BY <1>4 DEF Claim, MySlot
  <2>2. /\ caller'[t] = IdleCaller /\ CallerFrame(t) /\ CallerTyped'
        /\ told' \in [Ids -> RequestResults \cup {"nothing", "invalid"}]
        /\ \A n \in Ids : told'[n] = IF n = caller[t].id THEN "timeout" ELSE told[n]
    BY <2>1, TellFacts DEF RequestResults
  <2>3. caller'[t].pc = "idle" /\ caller'[t].id = 0  BY <2>2 DEF IdleCaller
  <2>4. CallerOK(t)'  BY <2>3 DEF CallerOK, At, CountsTyped, Claim
  <2>5. Standing(t)'  BY <2>3 DEF Standing, Holding
  <2>6. SlotsInv' /\ OwnerInv'  BY <1>0, <2>1, <2>2, NoSlotYet DEF Claim
  <2>7. ToldTheTruth'  BY <1>1, <2>2 DEF Claim, ToldInv, ToldTheTruth
  <2>8. SlotFrame(k) /\ SlotTyped' /\ SlotOK(k)'  BY <2>1, <2>6 DEF SlotFrame, SlotTyped, SlotsInv
  <2> QED BY <1>0, <2>1, <2>2, <2>3, <2>4, <2>5, <2>6, <2>7, <2>8, StepOfCaller DEF Claim, BeforeSend
<1> QED BY <1>2, <1>3, <1>4

LEMMA CallKeeps == ASSUME Inv, NEW t \in Callers, NEW secret \in BOOLEAN, Call(t, secret) PROVE Inv'
<1> USE DEF Inv, Typed
<1> DEFINE c == [IdleCaller EXCEPT !.pc = "claim", !.id = nextId + 1, !.secret = secret]
<1>1. /\ caller[t].pc = "idle" /\ nextId' = nextId + 1 /\ nextId' \in Ids
      /\ caller' = [caller EXCEPT ![t] = c] /\ UNCHANGED <<slot, commands, owner, executed, told>>
  BY SlotsAssumption DEF Call, At, CountsTyped, Ids
<1>2. c \in CallerType /\ c.pc = "claim" /\ c.id = nextId + 1
  BY <1>1, Ranges DEF CallerType, IdleCaller, CallerLabels, RequestResults
<1> HIDE DEF c
<1>3. caller'[t].pc = "claim" /\ caller'[t].id = nextId + 1 /\ CallerFrame(t) /\ CallerTyped'
  BY <1>1, <1>2 DEF CallerTyped, CallerFrame
<1>4. SlotsInv' /\ OwnerInv'  BY <1>1, <1>3, NoSlotYet
<1>5. nextId \in Nat /\ \A u \in Callers : caller[u].id \in Nat /\ caller[u].id <= nextId
  BY CallerFacts DEF CountsTyped, CallerOK, CallerType
<1>6. ASSUME NEW u \in Callers PROVE CallerOK(u)' /\ Standing(u)'
  <2>1. CASE u = t
    <3>1. told[nextId + 1] = "nothing" /\ nextId + 1 \notin executed
      BY <1>1, <1>5 DEF ToldInv
    <3>2. \A v \in Callers : caller'[v].id = nextId + 1 => v = t  BY <1>3, <1>5 DEF CallerFrame
    <3> QED BY <1>1, <1>3, <1>5, <2>1, <3>1, <3>2 DEF CallerOK, Standing, At, Holding
  <2>2. CASE u # t
    <3>1. CallerOK(u)'
      BY <1>1, <1>3, <1>5, <2>2 DEF CallersInv, CallerOK, CallerFrame, At
    <3>2. Standing(u)'
      BY <1>1, <1>3, <2>2 DEF CallersInv, Standing, CallerFrame, Mine, MySlot
    <3> QED BY <3>1, <3>2
  <2> QED BY <2>1, <2>2
<1>7. ASSUME NEW n \in Ids, Sent(n) PROVE Sent(n)'
  BY <1>1, <1>3, <1>5, <1>7 DEF Sent, CallerFrame, Ids
<1>8. TokensInv'
  <2>1. ASSUME NEW i \in 1 .. Len(commands) PROVE Sent(commands[i].id)'
    <3>0. commands[i] \in Tokens  BY ElementOfSeq DEF QueueTyped
    <3> PICK n \in Ids : n = commands[i].id  BY <3>0 DEF Tokens
    <3>1. Sent(n)'  BY <1>7, <2>1 DEF TokensInv
    <3> QED BY <1>1, <3>1 DEF Sent
  <2>2. ASSUME owner.pc = "admit" PROVE Sent(Cmd.id)'
    <3> PICK n \in Ids : n = Cmd.id  BY <2>2 DEF QueueTyped, Tokens, Cmd
    <3>1. Sent(n)'  BY <1>7, <2>2 DEF TokensInv
    <3> QED BY <1>1, <3>1 DEF Sent, Cmd
  <2> QED BY <1>1, <2>1, <2>2 DEF TokensInv
<1>9. ToldInv'  BY <1>1, <1>5 DEF ToldInv, ToldTheTruth, Ids
<1> QED BY <1>1, <1>3, <1>4, <1>6, <1>8, <1>9 DEF CallersInv, QueueTyped, CountsTyped, SlotTyped, Ids

-----------------------------------------------------------------------------
(* The steps of the owner.                                                 *)
LEMMA OwnerFacts ==
  ASSUME Inv, owner.pc # "idle"
  PROVE  /\ Cmd \in Tokens /\ Cmd.k \in Slots /\ Cmd.id \in Ids
         /\ slot[Cmd.k] \in SlotType /\ Token \in WordType /\ SlotOK(Cmd.k)
  BY DEF Inv, Typed, QueueTyped, Cmd, Tokens, SlotTyped, SlotType, SlotsInv, Token

LEMMA OwnerGoesFacts ==
  ASSUME Inv, owner.pc # "idle", NEW l \in OwnerLabels, OwnerGoes(l), UNCHANGED commands
  PROVE  owner'.pc = l /\ Cmd' = Cmd /\ QueueTyped'
<1>1. owner' \in OwnerType /\ owner'.pc = l /\ owner'.cmd = owner.cmd
  BY DEF Inv, Typed, QueueTyped, OwnerType, OwnerGoes
<1> QED BY <1>1, OwnerFacts DEF Inv, Typed, QueueTyped, Cmd

(* The caller of the request in a slot.                                    *)
LEMMA SlotsCaller ==
  ASSUME Inv, NEW k \in Slots, slot[k].word.id # 0
  PROVE  \E t \in Callers : /\ caller[t].k = k /\ caller[t].id = slot[k].word.id
                            /\ caller[t].pc \in Holding /\ MySlot(t) = slot[k]
                            /\ Standing(t) /\ CallerOK(t)
                            /\ \A u \in Callers \ {t} : caller[u].id # slot[k].word.id
<1> PICK t \in Callers : caller[t].k = k /\ caller[t].id = slot[k].word.id /\ caller[t].pc \in Holding
  BY DEF Inv, SlotsInv, SlotOK, CallerAt
<1> QED BY CallerFacts, HolderFacts DEF MySlot

(* A step of the owner on slot k keeps the invariant if it keeps the parts *)
(* that speak of the owner, the slot and its caller.                       *)
LEMMA StepOfOwner ==
  ASSUME Inv, NEW k \in Slots, SlotFrame(k), SlotTyped', UNCHANGED <<caller, commands, nextId, told>>,
         \/ executed' = executed
         \/ executed' = executed \cup {slot[k].word.id} /\ slot[k].word.id \in Ids,
         QueueTyped', owner'.pc # "admit", OwnerInv', SlotOK(k)',
         \A t \in Callers : caller[t].k = k /\ caller[t].pc \in Holding => Standing(t)'
  PROVE  Inv'
<1> USE DEF Inv, Typed
<1>1. ASSUME NEW n, n \in executed', n \notin executed
      PROVE  /\ n \in Ids /\ n <= nextId /\ told[n] = "nothing"
             /\ \A t \in Callers : caller[t].pc # "idle" /\ caller[t].id = n => caller[t].k = k /\ caller[t].pc \in Holding
  <2>1. n = slot[k].word.id /\ n \in Ids /\ n # 0  BY <1>1 DEF Ids
  <2> QED BY <2>1, SlotsCaller, HolderFacts
<1>2. ASSUME NEW t \in Callers PROVE CallerOK(t)' /\ Standing(t)'
  <2>1. CallerOK(t)'
    <3>1. At(t, "claim") => caller[t].id \notin executed'
      BY <1>1 DEF CallersInv, CallerOK, At, Holding
    <3> QED BY <3>1 DEF CallersInv, CallerOK, At
  <2>2. CASE caller[t].k = k /\ caller[t].pc \in Holding  BY <2>1, <2>2
  <2>3. CASE caller[t].k # k /\ caller[t].pc \in Holding
    BY <2>1, <2>3, CallerFacts DEF Standing, Mine, MySlot, SlotFrame
  <2>4. CASE caller[t].pc \notin Holding
    BY <2>1, <2>4, CallerFacts DEF Standing, Holding
  <2> QED BY <2>2, <2>3, <2>4
<1>3. ASSUME NEW j \in Slots PROVE SlotOK(j)'
  <2>1. CASE j = k  BY <2>1
  <2>2. CASE j # k
    <3>1. slot'[j] = slot[j] /\ SlotOK(j)  BY <2>2 DEF SlotFrame, SlotsInv
    <3>2. slot[j].word.id \in executed' => slot[j].word.id \in executed \/ slot[j].word.id = 0
      BY <1>1, <2>2, SlotsCaller DEF Holding
    <3>3. \A n, labels : CallerAt(j, n, labels) => CallerAt(j, n, labels)'  BY DEF CallerAt
    <3>4. slot[j].word.id = 0 => slot[j].word.st = "FREE"  BY <3>1 DEF SlotOK
    <3>5. executed \subseteq executed'  OBVIOUS
    <3> QED BY <3>1, <3>2, <3>3, <3>4, <3>5 DEF SlotOK
  <2> QED BY <2>1, <2>2
<1>4. TokensInv'
  <2>1. ASSUME NEW i \in 1 .. Len(commands) PROVE Sent(commands[i].id)'
    BY DEF TokensInv, Sent
  <2> QED BY <2>1 DEF TokensInv
<1>5. CountsTyped' /\ ToldInv'
  <2>1. nextId \in Nat /\ MaxRequests \in Nat  BY SlotsAssumption DEF CountsTyped
  <2>2. executed' \subseteq Ids /\ executed' \subseteq 1 .. nextId
    <3> SUFFICES ASSUME NEW n \in executed' PROVE n \in Ids /\ n \in 1 .. nextId
      OBVIOUS
    <3>1. CASE n \in executed  BY <3>1 DEF ToldInv, CountsTyped
    <3>2. CASE n \notin executed
      <4>1. n \in Ids /\ n <= nextId  BY <1>1, <3>2
      <4> QED BY <2>1, <4>1 DEF Ids
    <3> QED BY <3>1, <3>2
  <2>3. ToldTheTruth'  BY <1>1 DEF ToldInv, ToldTheTruth
  <2> QED BY <2>2, <2>3 DEF ToldInv, CountsTyped
<1> QED BY <1>2, <1>3, <1>4, <1>5 DEF CallersInv, SlotsInv, CallerTyped

LEMMA DropKeeps ==
  ASSUME Inv, owner.pc # "idle", Drop, UNCHANGED <<caller, commands, nextId, executed, told>>
  PROVE  Inv'
<1> USE DEF Inv, Typed
<1>1. owner'.pc = "idle" /\ UNCHANGED slot /\ QueueTyped'
  BY DEF Drop, IdleOwner, QueueTyped, OwnerType, OwnerLabels
<1>2. OwnerInv'  BY <1>1 DEF OwnerInv
<1> PICK k \in Slots : k = Cmd.k  BY OwnerFacts
<1>3. SlotOK(k)'  BY <1>1 DEF SlotsInv, SlotOK, CallerAt
<1>4. \A t \in Callers : Standing(t)'  BY <1>1 DEF CallersInv, Standing, Mine, MySlot
<1> QED BY <1>1, <1>2, <1>3, <1>4, StepOfOwner DEF SlotFrame, SlotTyped

LEMMA DequeueKeeps == ASSUME Inv, Dequeue PROVE Inv'
<1> USE DEF Inv, Typed
<1>1. /\ commands \in Seq(Tokens) /\ commands # <<>> /\ commands' = Tail(commands)
      /\ owner' = [pc |-> "admit", cmd |-> Head(commands)] /\ UNCHANGED <<slot, caller, nextId, executed, told>>
  BY DEF Dequeue, QueueTyped
<1>2. /\ commands' \in Seq(Tokens) /\ Len(commands') = Len(commands) - 1
      /\ \A i \in 1 .. Len(commands') : commands'[i] = commands[i + 1]
      /\ Head(commands) = commands[1] /\ commands[1] \in Tokens /\ Len(commands) \in Nat /\ Len(commands) # 0
  BY <1>1, HeadTailProperties, EmptySeq, ElementOfSeq, LenProperties
<1>3. QueueTyped' /\ owner'.pc = "admit" /\ owner'.cmd = commands[1]
  BY <1>1, <1>2, SlotsAssumption DEF QueueTyped, OwnerType, OwnerLabels
<1>4. OwnerInv'  BY <1>3 DEF OwnerInv
<1>5. ASSUME NEW n, Sent(n) PROVE Sent(n)'  BY <1>1, <1>5 DEF Sent
<1>6. TokensInv'
  <2>1. ASSUME NEW i \in 1 .. Len(commands') PROVE Sent(commands[i].id)'
    <3> PICK n : n = commands'[i].id  OBVIOUS
    <3>1. Sent(n)  BY <1>2 DEF TokensInv
    <3> QED BY <1>5, <3>1 DEF Sent
  <2>2. Sent(Cmd.id)'
    <3> PICK n : n = commands[1].id  OBVIOUS
    <3>1. Sent(n)  BY <1>2 DEF TokensInv
    <3> QED BY <1>3, <1>5, <3>1 DEF Sent, Cmd
  <2> QED BY <2>1, <2>2 DEF TokensInv
<1>7. CallersInv' /\ SlotsInv' /\ ToldInv'
  BY <1>1 DEF CallersInv, CallerOK, Standing, At, Mine, MySlot, SlotsInv, SlotOK, CallerAt, ToldInv, ToldTheTruth
<1> QED BY <1>1, <1>3, <1>4, <1>6, <1>7 DEF SlotTyped, CallerTyped, CountsTyped

(* The request the owner expires or admits is pending, and its caller has  *)
(* gone past sending: it listens.                                          *)
LEMMA ExpireKeeps == ASSUME Inv, Expire PROVE Inv'
<1> USE DEF Inv, Typed
<1>0. owner.pc = "admit" /\ SlotMatches  BY DEF Expire
<1>1. CASE ~TokenIs("PENDING")  BY <1>0, <1>1, DropKeeps DEF Expire
<1>2. CASE TokenIs("PENDING")
  <2> PICK k \in Slots, n \in Ids : k = Cmd.k /\ n = Cmd.id  BY <1>0, OwnerFacts
  <2>1. slot[k].word.id = n /\ slot[k].word.st = "PENDING" /\ n # 0 /\ SlotOK(k) /\ Sent(n)
    BY <1>0, <1>2, OwnerFacts DEF TokenIs, Token, Word, Ids, TokensInv
  <2>2. /\ slot'[k].word = Word(n, "OWNER_EXPIRED") /\ slot'[k].secret = slot[k].secret
        /\ slot'[k].signal = slot[k].signal /\ slot'[k].result = slot[k].result
        /\ SlotFrame(k) /\ SlotTyped'
    BY <1>2, WordTyped, WordFacts DEF Expire, SlotStates
  <2>3. owner'.pc = "expire_wipe" /\ Cmd' = Cmd /\ QueueTyped'
    BY <1>0, <1>2, OwnerGoesFacts DEF Expire, OwnerLabels
  <2>4. \A t \in Callers : caller[t].k = k /\ caller[t].pc \in Holding =>
          caller[t].id = n /\ caller[t].pc \in {"wait", "cancel"}
    <3> SUFFICES ASSUME NEW t \in Callers, caller[t].k = k, caller[t].pc \in Holding
                 PROVE  caller[t].id = n /\ caller[t].pc \in {"wait", "cancel"}
      OBVIOUS
    <3>1. Standing(t) /\ caller[t].id = n  BY <2>1, CallerFacts DEF Standing, Mine, MySlot
    <3>2. caller[t].pc \notin BeforeSend  BY <2>1, <3>1 DEF Sent
    <3> QED BY <2>1, <3>1, <3>2 DEF Standing, MySlot, Holding, BeforeSend, Final
  <2>5. CallerAt(k, n, Listening) /\ CallerAt(k, n, Holding)
    BY <2>1, <2>4, SlotsCaller DEF CallerAt, Listening, Holding
  <2>6. ~slot[k].signal  BY <2>1 DEF SlotOK, Final
  <2>7. OwnerInv'
    BY <2>2, <2>3, <2>5, <2>6 DEF Expire, OwnerInv, Token, Word, Final, CallerAt
  <2>8. SlotOK(k)'
    BY <2>1, <2>2, <2>5, <2>6 DEF Expire, SlotOK, Word, Final, CallerAt
  <2>9. \A t \in Callers : caller[t].k = k /\ caller[t].pc \in Holding => Standing(t)'
    BY <2>2, <2>4 DEF Expire, Standing, Mine, MySlot, Word, Final
  <2> QED BY <2>1, <2>2, <2>3, <2>7, <2>8, <2>9, StepOfOwner DEF Expire
<1> QED BY <1>1, <1>2

LEMMA AdmitKeeps == ASSUME Inv, Admit PROVE Inv'
<1> USE DEF Inv, Typed
<1>0. owner.pc = "admit" /\ SlotMatches  BY DEF Admit
<1>1. CASE ~Admissible  BY <1>0, <1>1, DropKeeps DEF Admit
<1>2. CASE Admissible
  <2> PICK k \in Slots, n \in Ids : k = Cmd.k /\ n = Cmd.id  BY <1>0, OwnerFacts
  <2>1. slot[k].word.id = n /\ slot[k].word.st = "PENDING" /\ n # 0 /\ SlotOK(k) /\ Sent(n)
    BY <1>0, <1>2, OwnerFacts DEF Admissible, TokenIs, Token, Word, Ids, TokensInv
  <2>2. /\ slot'[k].word = Word(n, "ADMITTED") /\ slot'[k].secret = slot[k].secret
        /\ slot'[k].signal = slot[k].signal /\ slot'[k].result = slot[k].result
        /\ SlotFrame(k) /\ SlotTyped'
    BY <1>2, WordTyped, WordFacts DEF Admit, SlotStates
  <2>3. owner'.pc = "run" /\ Cmd' = Cmd /\ QueueTyped'
    BY <1>0, <1>2, OwnerGoesFacts DEF Admit, OwnerLabels
  <2>4. \A t \in Callers : caller[t].k = k /\ caller[t].pc \in Holding =>
          caller[t].id = n /\ caller[t].pc \in {"wait", "cancel"}
    <3> SUFFICES ASSUME NEW t \in Callers, caller[t].k = k, caller[t].pc \in Holding
                 PROVE  caller[t].id = n /\ caller[t].pc \in {"wait", "cancel"}
      OBVIOUS
    <3>1. Standing(t) /\ caller[t].id = n  BY <2>1, CallerFacts DEF Standing, Mine, MySlot
    <3>2. caller[t].pc \notin BeforeSend  BY <2>1, <3>1 DEF Sent
    <3> QED BY <2>1, <3>1, <3>2 DEF Standing, MySlot, Holding, BeforeSend, Final
  <2>5. CallerAt(k, n, Holding)
    BY <2>1, <2>4, SlotsCaller DEF CallerAt, Holding
  <2>6. ~slot[k].signal  BY <2>1 DEF SlotOK, Final
  <2>7. OwnerInv'  BY <2>2, <2>3 DEF Admit, OwnerInv, TokenIs, Token
  <2>8. SlotOK(k)'
    BY <2>1, <2>2, <2>5, <2>6 DEF Admit, SlotOK, Word, Final, CallerAt
  <2>9. \A t \in Callers : caller[t].k = k /\ caller[t].pc \in Holding => Standing(t)'
    BY <2>2, <2>4 DEF Admit, Standing, Mine, MySlot, Word, Final
  <2> QED BY <2>1, <2>2, <2>3, <2>7, <2>8, <2>9, StepOfOwner DEF Admit
<1> QED BY <1>1, <1>2

LEMMA CompleteKeeps == ASSUME Inv, Complete PROVE Inv'
<1> USE DEF Inv, Typed
<1>0. owner.pc = "complete" /\ TokenIs("ADMITTED")  BY DEF Complete, OwnerInv
<1> PICK k \in Slots, n \in Ids : k = Cmd.k /\ n = Cmd.id  BY <1>0, OwnerFacts
<1>1. /\ slot[k].word.id = n /\ slot[k].word.st = "ADMITTED" /\ n # 0 /\ SlotOK(k)
      /\ n \in executed /\ slot[k].result = "done" /\ slot[k].secret = 0
  BY <1>0, OwnerFacts DEF TokenIs, Token, Word, Ids, OwnerInv
<1>2. /\ slot'[k].word = Word(n, "COMPLETED") /\ slot'[k].secret = slot[k].secret
      /\ slot'[k].signal = slot[k].signal /\ slot'[k].result = slot[k].result
      /\ SlotFrame(k) /\ SlotTyped'
  BY <1>0, WordTyped, WordFacts DEF Complete, SlotStates
<1>3. owner'.pc = "give" /\ Cmd' = Cmd /\ QueueTyped'
  BY <1>0, OwnerGoesFacts DEF Complete, OwnerLabels
<1>4. \A t \in Callers : caller[t].k = k /\ caller[t].pc \in Holding =>
        caller[t].id = n /\ caller[t].pc \in Listening
  BY <1>1, CallerFacts DEF Standing, Mine, MySlot, Holding, Final, Listening
<1>5. CallerAt(k, n, Listening) /\ CallerAt(k, n, Holding)
  BY <1>1, <1>4, SlotsCaller DEF CallerAt, Listening, Holding
<1>6. ~slot[k].signal  BY <1>1 DEF SlotOK, Final
<1>7. OwnerInv'
  BY <1>2, <1>3, <1>5, <1>6 DEF Complete, OwnerInv, Token, Word, Final, CallerAt
<1>8. SlotOK(k)'
  BY <1>1, <1>2, <1>5, <1>6 DEF Complete, SlotOK, Word, Final, CallerAt
<1>9. \A t \in Callers : caller[t].k = k /\ caller[t].pc \in Holding => Standing(t)'
  BY <1>2, <1>4 DEF Complete, Standing, Mine, MySlot, Word, Final, Listening
<1> QED BY <1>1, <1>2, <1>3, <1>7, <1>8, <1>9, StepOfOwner DEF Complete

(* The owner writes its slot without touching the word.                    *)
LEMMA OwnerWrites ==
  ASSUME Inv, owner.pc \in {"expire_wipe", "run", "result"}, NEW s \in SlotType,
         slot' = [slot EXCEPT ![Cmd.k] = s], s.word = slot[Cmd.k].word, s.secret = 0,
         s.signal = slot[Cmd.k].signal, UNCHANGED <<caller, commands, nextId, told>>,
         OwnerGoes(CASE owner.pc = "expire_wipe" -> "give"
                     [] owner.pc = "run" -> "result"
                     [] owner.pc = "result" -> "complete"),
         executed' = IF owner.pc = "run" THEN executed \cup {Cmd.id} ELSE executed,
         owner.pc = "expire_wipe" => s.result = "timeout",
         owner.pc = "result" => s.result = "done"
  PROVE  Inv'
<1> USE DEF Inv, Typed
<1> PICK k \in Slots, n \in Ids : k = Cmd.k /\ n = Cmd.id  BY OwnerFacts
<1>1. /\ slot[k].word.id = n /\ n # 0 /\ SlotOK(k)
      /\ owner.pc = "expire_wipe" => slot[k].word.st = "OWNER_EXPIRED"
      /\ owner.pc # "expire_wipe" => slot[k].word.st = "ADMITTED"
  BY OwnerFacts DEF OwnerInv, TokenIs, Token, Word, Ids
<1>2. slot'[k] = s /\ SlotFrame(k) /\ SlotTyped'  BY SlotFacts
<1> PICK l \in {"give", "result", "complete"} :
      /\ OwnerGoes(l)
      /\ l = "give" <=> owner.pc = "expire_wipe"
      /\ l = "result" <=> owner.pc = "run"
      /\ l = "complete" <=> owner.pc = "result"
  OBVIOUS
<1>3. owner'.pc = l /\ Cmd' = Cmd /\ QueueTyped'  BY OwnerGoesFacts DEF OwnerLabels
<1>4. CallerAt(k, n, Holding)  BY <1>1 DEF SlotOK
<1>5. ~slot[k].signal
  BY <1>1 DEF OwnerInv, SlotOK, Final
<1>6. OwnerInv'
  <2>1. CASE l = "give"
    <3>1. slot'[k].word = slot[k].word /\ ~slot'[k].signal  BY <1>2, <1>5
    <3>2. CallerAt(k, n, Listening)'  BY <2>1 DEF OwnerInv, CallerAt
    <3> QED BY <1>1, <1>3, <2>1, <3>1, <3>2 DEF OwnerInv, Token, Final
  <2>2. CASE l # "give"
    <3>1. slot'[k].word = slot[k].word /\ slot'[k].secret = 0  BY <1>2
    <3>2. owner.pc = "result" => n \in executed  BY DEF OwnerInv
    <3>3. TokenIs("ADMITTED")  BY <2>2 DEF OwnerInv
    <3>4. TokenIs("ADMITTED")'  BY <1>3, <3>1, <3>3 DEF TokenIs, Token
    <3>5. n \in executed'  BY <2>2, <3>2
    <3>6. l = "complete" => slot'[k].result = "done"  BY <1>2
    <3> QED BY <1>3, <2>2, <3>1, <3>4, <3>5, <3>6 DEF OwnerInv
  <2> QED BY <2>1, <2>2
<1>7. SlotOK(k)'
  <2>1. slot'[k].word = slot[k].word /\ slot'[k].secret = 0 /\ ~slot'[k].signal /\ slot'[k].result = s.result
    BY <1>2, <1>5
  <2>2. CallerAt(k, n, Holding)'  BY <1>4 DEF CallerAt
  <2> QED BY <1>1, <2>1, <2>2 DEF SlotOK, CallerAt, Final
<1>8. ASSUME NEW t \in Callers, caller[t].k = k, caller[t].pc \in Holding PROVE Standing(t)'
  <2>1. slot'[k].word = slot[k].word /\ slot'[k].secret = 0  BY <1>2
  <2>2. slot[k].word.st = "OWNER_EXPIRED" => slot'[k].result = slot[k].result
    BY <1>1, <1>2 DEF SlotOK
  <2>3. Standing(t) /\ caller[t].pc # "publish"
    BY <1>1, <1>8, CallerFacts DEF Standing, MySlot
  <2> QED BY <1>1, <1>8, <2>1, <2>2, <2>3 DEF Standing, Mine, MySlot, Final
<1>9. executed' = executed \/ (executed' = executed \cup {slot[k].word.id} /\ slot[k].word.id \in Ids)
  BY <1>1
<1> QED BY <1>2, <1>3, <1>6, <1>7, <1>8, <1>9, StepOfOwner

LEMMA WritesKeep == ASSUME Inv, ExpireWipes \/ Execute \/ WriteResult PROVE Inv'
<1> USE DEF Inv, Typed
<1>0. owner.pc \in {"expire_wipe", "run", "result"}  BY DEF ExpireWipes, Execute, WriteResult
<1> PICK k \in Slots : k = Cmd.k  BY <1>0, OwnerFacts
<1>1. slot[k] \in SlotType  BY DEF SlotTyped
<1>2. CASE ExpireWipes
  <2> DEFINE s == [slot[k] EXCEPT !.secret = 0, !.result = "timeout"]
  <2>1. /\ s \in SlotType /\ s.word = slot[k].word /\ s.secret = 0 /\ s.signal = slot[k].signal
        /\ s.result = "timeout"
    BY <1>1, Ranges DEF SlotType, RequestResults
  <2>2. slot' = [slot EXCEPT ![k] = s] /\ owner.pc = "expire_wipe" /\ OwnerGoes("give")
    BY <1>2 DEF ExpireWipes, AfterExpiry
  <2> HIDE DEF s
  <2> QED BY <1>2, <2>1, <2>2, OwnerWrites DEF ExpireWipes
<1>3. CASE Execute
  <2> DEFINE s == [slot[k] EXCEPT !.secret = 0]
  <2>1. s \in SlotType /\ s.word = slot[k].word /\ s.secret = 0 /\ s.signal = slot[k].signal
    BY <1>1, Ranges DEF SlotType
  <2>2. slot' = [slot EXCEPT ![k] = s] /\ owner.pc = "run" /\ OwnerGoes("result")
    BY <1>3 DEF Execute, Wipe
  <2> HIDE DEF s
  <2> QED BY <1>3, <2>1, <2>2, OwnerWrites DEF Execute
<1>4. CASE WriteResult
  <2> DEFINE s == [slot[k] EXCEPT !.result = "done", !.secret = 0]
  <2>1. /\ s \in SlotType /\ s.word = slot[k].word /\ s.secret = 0 /\ s.signal = slot[k].signal
        /\ s.result = "done"
    BY <1>1, Ranges DEF SlotType, RequestResults
  <2>2. slot' = [slot EXCEPT ![k] = s] /\ owner.pc = "result" /\ OwnerGoes("complete")
    BY <1>4 DEF WriteResult
  <2> HIDE DEF s
  <2> QED BY <1>4, <2>1, <2>2, OwnerWrites DEF WriteResult
<1> QED BY <1>2, <1>3, <1>4

LEMMA GiveSignalKeeps == ASSUME Inv, GiveSignal PROVE Inv'
<1> USE DEF Inv, Typed
<1>0. owner.pc = "give"  BY DEF GiveSignal
<1> PICK k \in Slots, n \in Ids : k = Cmd.k /\ n = Cmd.id  BY <1>0, OwnerFacts
<1>1. slot[k].word.id = n /\ slot[k].word.st \in Final /\ CallerAt(k, n, Listening) /\ SlotOK(k)
  BY <1>0, OwnerFacts DEF OwnerInv, Token
<1>2. /\ slot'[k].word = slot[k].word /\ slot'[k].secret = slot[k].secret
      /\ slot'[k].signal /\ slot'[k].result = slot[k].result
      /\ SlotFrame(k) /\ SlotTyped'
  BY SignalFacts DEF GiveSignal
<1>3. owner'.pc = "idle" /\ QueueTyped'
  BY DEF GiveSignal, IdleOwner, QueueTyped, OwnerType, OwnerLabels
<1>4. OwnerInv'  BY <1>3 DEF OwnerInv
<1>5. SlotOK(k)'  BY <1>1, <1>2 DEF GiveSignal, SlotOK, CallerAt
<1>6. \A t \in Callers : caller[t].k = k /\ caller[t].pc \in Holding => Standing(t)'
  BY <1>2 DEF GiveSignal, CallersInv, Standing, Mine, MySlot
<1> QED BY <1>2, <1>3, <1>4, <1>5, <1>6, StepOfOwner DEF GiveSignal

-----------------------------------------------------------------------------
LEMMA InitInv == RequestInit => Inv
<1> SUFFICES ASSUME RequestInit PROVE Inv
  OBVIOUS
<1> USE DEF RequestInit
<1> DEFINE s == [word |-> Free, secret |-> 0, signal |-> FALSE, result |-> "none"]
<1>1. s \in SlotType /\ s.word = Free /\ s.secret = 0 /\ s.signal = FALSE
  BY Ranges DEF SlotType, WordType, Free, SlotStates, RequestResults
<1>2. slot = [k \in Slots |-> s]  OBVIOUS
<1> HIDE DEF s
<1>3. SlotTyped /\ SlotsInv
  <2>1. SlotTyped  BY <1>1, <1>2 DEF SlotTyped
  <2>2. ASSUME NEW k \in Slots PROVE SlotOK(k)
    <3>1. slot[k].word.id = 0 /\ slot[k].word.st = "FREE" /\ slot[k].secret = 0 /\ ~slot[k].signal
      BY <1>1, <1>2 DEF Free
    <3> QED BY <3>1 DEF SlotOK
  <2> QED BY <2>1, <2>2 DEF SlotsInv
<1>4. IdleCaller \in CallerType /\ IdleCaller.pc = "idle" /\ IdleCaller.id = 0
  BY Ranges DEF IdleCaller, CallerType, CallerLabels, RequestResults
<1>5. CallerTyped /\ \A t \in Callers : caller[t] = IdleCaller
  BY <1>4 DEF CallerTyped
<1>6. CountsTyped /\ ToldInv
  BY Ranges DEF CountsTyped, ToldInv, ToldTheTruth
<1>7. CallersInv
  BY <1>4, <1>5 DEF CallersInv, CallerOK, Standing, At, Holding
<1>8. QueueTyped /\ TokensInv /\ OwnerInv
  BY SlotsAssumption, EmptySeq DEF QueueTyped, TokensInv, OwnerInv, IdleOwner, OwnerType, OwnerLabels
<1> QED BY <1>3, <1>5, <1>6, <1>7, <1>8 DEF Inv, Typed

LEMMA CallerStepKeeps == ASSUME Inv, NEW t \in Callers, CallerStep(t) PROVE Inv'
  BY ClaimKeeps, DrainKeeps, PublishKeeps, StoreSecretKeeps, SendKeeps, ListenKeeps, CancelKeeps,
     CancelWipesKeeps, ConsumeKeeps, ReleasesKeep DEF CallerStep

LEMMA OwnerStepKeeps == ASSUME Inv, OwnerStep PROVE Inv'
<1>1. CASE Stale  BY <1>1, DropKeeps DEF Stale
<1> QED BY <1>1, DequeueKeeps, ExpireKeeps, AdmitKeeps, CompleteKeeps, WritesKeep, GiveSignalKeeps
    DEF OwnerStep

LEMMA Step == Inv /\ [RequestNext]_requestVars => Inv'
<1> SUFFICES ASSUME Inv, [RequestNext]_requestVars PROVE Inv'
  OBVIOUS
<1>1. CASE RequestNext  BY <1>1, CallerStepKeeps, CallKeeps, OwnerStepKeeps DEF RequestNext
<1>2. CASE UNCHANGED requestVars
  <2> USE <1>2 DEF requestVars
  <2>1. Typed'  BY DEF Inv, Typed, SlotTyped, CallerTyped, QueueTyped, CountsTyped
  <2>2. CallersInv' /\ SlotsInv'
    BY DEF Inv, CallersInv, CallerOK, Standing, At, Mine, MySlot, SlotsInv, SlotOK, CallerAt
  <2>3. TokensInv' /\ OwnerInv' /\ ToldInv'
    BY DEF Inv, TokensInv, Sent, Cmd, OwnerInv, TokenIs, Token, CallerAt, ToldInv, ToldTheTruth
  <2> QED BY <2>1, <2>2, <2>3 DEF Inv
<1> QED BY <1>1, <1>2

(* The invariant: whatever the interleaving of the callers and the Mesh    *)
(* task, whenever deadlines pass and however full slots and queue are, the *)
(* compare-and-swaps of meshcore_command_guard.h keep caller, slot, token  *)
(* and owner together.                                                     *)
THEOREM RequestInvariant == RequestSpec => []Inv
  BY InitInv, Step, PTL DEF RequestSpec

(* Lifecycle words, credentials, results, positions, tokens and the length *)
(* of the queue keep their types.                                          *)
THEOREM RequestTyping == RequestSpec => []RequestTypeOK
<1>1. Inv => RequestTypeOK  BY TypedIsTypeOK DEF Inv
<1> QED BY <1>1, RequestInvariant, PTL

(* A caller told ESP_ERR_TIMEOUT by meshcore_request_wait can repeat its   *)
(* command: it was not run and never will be; one told a result had its    *)
(* command run; none meets the state in which the slot is not its own.     *)
THEOREM ToldTheTruthHolds == RequestSpec => []ToldTheTruth
  BY InvImplies, RequestInvariant, PTL

(* No signal and no credentials of one request are found by the next       *)
(* request in its slot, whatever call timed out between them.              *)
THEOREM NothingLeaksHolds == RequestSpec => []NothingLeaks
  BY InvImplies, RequestInvariant, PTL

(* No request slot is lost: one that is not free belongs to a call that is *)
(* under way and will release it.                                          *)
THEOREM SlotHasItsCallerHolds == RequestSpec => []SlotHasItsCaller
  BY InvImplies, RequestInvariant, PTL
=============================================================================
