--------------------------- MODULE OwnerLoopProofs ---------------------------
(***************************************************************************)
(* For any length of the callback history and of the queues, any bursts of *)
(* the scheduler and any number of transmissions: no end of a transmission *)
(* is lost, credited to another one or overtaken by ordinary work; what a  *)
(* normal command waits for is bounded by the ACKs sent out of turn; and a *)
(* radio that went deaf is not forgotten.  The invariant has one part per  *)
(* question: RadioInv (where the report of the one active operation is),   *)
(* BurstInv (the scheduler's counters bound what a normal command has      *)
(* waited for), and WorkInv with DeafInv (what in the queues and in the    *)
(* loop's hands is still to restart reception).                            *)
(***************************************************************************)
EXTENDS OwnerLoop, SequenceTheorems, TLAPS

(* LaneTypeOK in named parts, with what it needs to be inductive: an       *)
(* interrupt under way has an operation.                                   *)
LoopLabels == {"take", "scan", "look", "recovery", "reserve", "restart", "choose",
               "validate", "run", "maintain"}
LaneType == [pending : SUBSET HistorySlots, reserved : BOOLEAN]
EntryType == [op : 0 .. MaxOperations, term : Terms]
ActiveType == [op : 0 .. MaxOperations, kind : {"none", "ack", "send", "dm"}]
IrqType == [pc : {"idle", "claim", "latch", "own", "store"}, op : 0 .. MaxOperations, how : Terms]
LoopType == [pc : LoopLabels, cmd : LaneCommands, pending : SUBSET HistorySlots, fromHeld : BOOLEAN, rx : BOOLEAN]
RxType == [recovery : BOOLEAN, listening : BOOLEAN]
BurstType == [radio : 0 .. RadioBurst, priority : 0 .. PriorityBurst]

RadioTyped ==
  /\ history \in [HistorySlots -> EntryType]
  /\ active \in ActiveType
  /\ origin \in 0 .. MaxOperations
  /\ irq \in IrqType
  /\ nextOp \in 0 .. MaxOperations
  /\ reported \in [Operations -> Terms] /\ ended \in [Operations -> Terms]
  /\ irq.pc # "idle" => irq.op \in Operations
LoopTyped == lane \in LaneType /\ loop \in LoopType /\ held \in LaneCommands
RxTyped == rx \in RxType /\ ackPending \in BOOLEAN
QueuesTyped ==
  /\ queues \in [Lanes -> Seq(LaneCommands)]
  /\ \A q \in Lanes : Len(queues[q]) <= LaneDepth
PassedType == [works : Nat, acks : 0 .. MaxAcksCounted]
BurstTyped == burst \in BurstType /\ passedOver \in PassedType
Typed == RadioTyped /\ LoopTyped /\ RxTyped /\ QueuesTyped /\ BurstTyped

LEMMA TypedIsTypeOK == Typed => LaneTypeOK
  BY DEF Typed, RadioTyped, LoopTyped, RxTyped, QueuesTyped, BurstTyped, LaneTypeOK, LoopLabels,
         LaneType, EntryType, ActiveType, IrqType, LoopType, RxType, BurstType, PassedType

LEMMA SlotRange == \A op \in Operations : SlotOf(op) \in HistorySlots
  BY LanesAssumption DEF SlotOf, HistorySlots, Operations

LEMMA Numbers ==
  /\ MaxOperations \in Nat /\ RadioBurst \in Nat /\ PriorityBurst \in Nat /\ LaneDepth \in Nat \ {0}
  /\ MaxAcksCounted \in Nat
  /\ 0 \in 0 .. MaxOperations /\ \A op \in Operations : op \in 1 .. MaxOperations /\ op # 0
  BY LanesAssumption DEF Operations

-----------------------------------------------------------------------------
(* What the operators that a step is built from change.                    *)
LEMMA LoopGoesFacts ==
  ASSUME Typed, NEW l \in LoopLabels, LoopGoes(l)
  PROVE  /\ loop' \in LoopType /\ loop'.pc = l /\ loop'.cmd = loop.cmd /\ loop'.pending = loop.pending
         /\ loop'.fromHeld = loop.fromHeld /\ loop'.rx = loop.rx
  BY DEF Typed, LoopTyped, LoopType, LoopGoes

LEMMA TopFacts ==
  /\ TopOfLoop \in LoopType /\ TopOfLoop.pc = "take" /\ TopOfLoop.cmd = NoCommand
  /\ TopOfLoop.fromHeld = FALSE /\ TopOfLoop.rx = FALSE /\ NoCommand \in LaneCommands
  BY DEF TopOfLoop, LoopType, LoopLabels, LaneCommands, Lanes, NoCommand

LEMMA AfterwardsFacts ==
  ASSUME NEW l \in LoopLabels, Afterwards(l)
  PROVE  /\ loop' \in LoopType /\ loop'.pc = l /\ loop'.cmd = NoCommand
         /\ loop'.fromHeld = FALSE /\ loop'.rx = FALSE
  BY TopFacts DEF Afterwards, LoopType

LEMMA EnqueueFacts ==
  ASSUME Typed, NEW q \in Lanes, NEW c \in LaneCommands, HasRoom(q), Enqueue(q, c)
  PROVE  /\ QueuesTyped'
         /\ \A p \in Lanes \ {q} : queues'[p] = queues[p]
         /\ queues'[q] # <<>>
         /\ Len(queues'[q]) = Len(queues[q]) + 1
         /\ \A k \in 1 .. Len(queues[q]) : queues'[q][k] = queues[q][k]
         /\ queues'[q][Len(queues[q]) + 1] = c
<1> DEFINE s == queues[q]
<1>1. s \in Seq(LaneCommands) /\ Len(s) < LaneDepth  BY DEF Typed, QueuesTyped, HasRoom
<1> DEFINE a == Append(s, c)
<1>2. queues' = [queues EXCEPT ![q] = a]  BY DEF Enqueue
<1>3. /\ a \in Seq(LaneCommands) /\ Len(a) = Len(s) + 1
      /\ \A k \in 1 .. Len(s) : a[k] = s[k]
      /\ a[Len(s) + 1] = c
  BY <1>1, AppendProperties, LenProperties
<1>4. a # <<>>  BY <1>1, <1>3, LenProperties, EmptySeq
<1>5. queues'[q] = a /\ \A p \in Lanes \ {q} : queues'[p] = queues[p]
  BY <1>2 DEF Typed, QueuesTyped
<1> HIDE DEF a
<1>6. QueuesTyped'
  BY <1>1, <1>2, <1>3, <1>5, LenProperties, Numbers DEF Typed, QueuesTyped
<1> QED BY <1>3, <1>4, <1>5, <1>6

LEMMA TailFacts ==
  ASSUME Typed, NEW q \in Lanes, queues[q] # <<>>, queues' = [queues EXCEPT ![q] = Tail(@)]
  PROVE  /\ QueuesTyped' /\ Head(queues[q]) \in LaneCommands /\ Head(queues[q]) = queues[q][1]
         /\ Len(queues[q]) \in Nat /\ Len(queues[q]) # 0
         /\ \A p \in Lanes \ {q} : queues'[p] = queues[p]
         /\ Len(queues'[q]) = Len(queues[q]) - 1
         /\ \A k \in 1 .. Len(queues[q]) - 1 : queues'[q][k] = queues[q][k + 1]
<1> DEFINE s == queues[q]
<1>1. s \in Seq(LaneCommands) /\ Len(s) <= LaneDepth /\ s # <<>>  BY DEF Typed, QueuesTyped
<1> DEFINE b == Tail(s)
<1>2. queues' = [queues EXCEPT ![q] = b]  OBVIOUS
<1>3. /\ b \in Seq(LaneCommands) /\ Len(b) = Len(s) - 1 /\ Head(s) = s[1] /\ Head(s) \in LaneCommands
      /\ \A k \in 1 .. Len(s) - 1 : b[k] = s[k + 1]
      /\ Len(s) \in Nat /\ Len(s) # 0
  BY <1>1, HeadTailProperties, LenProperties, EmptySeq
<1>5. queues'[q] = b /\ \A p \in Lanes \ {q} : queues'[p] = queues[p]
  BY <1>2 DEF Typed, QueuesTyped
<1> HIDE DEF b
<1>6. QueuesTyped'
  BY <1>1, <1>2, <1>3, <1>5, LenProperties, Numbers DEF Typed, QueuesTyped
<1> QED BY <1>3, <1>5, <1>6

-----------------------------------------------------------------------------
(* The types.                                                              *)
LEMMA StartsFacts ==
  ASSUME Typed, NEW kind \in {"ack", "send", "dm"}, Starts(kind)
  PROVE  /\ ~Busy /\ nextOp' = nextOp + 1 /\ nextOp' \in Operations
         /\ active'.op = nextOp' /\ active' \in ActiveType /\ origin' = nextOp'
         /\ history' = [history EXCEPT ![SlotOf(nextOp')] = [op |-> nextOp', term |-> "NONE"]]
         /\ history' \in [HistorySlots -> EntryType]
         /\ rx' \in RxType /\ rx'.recovery = rx.recovery
         /\ UNCHANGED <<ended, ackPending>>
<1> USE DEF Typed, RadioTyped
<1>1. nextOp' = nextOp + 1 /\ nextOp' \in Operations /\ nextOp' \in 0 .. MaxOperations
  BY Numbers DEF Starts, Operations
<1>2. active' \in ActiveType /\ active'.op = nextOp'  BY <1>1 DEF Starts, ActiveType
<1> DEFINE e == [op |-> nextOp', term |-> "NONE"]
<1>3. e \in EntryType  BY <1>1 DEF EntryType, Terms
<1>4. history' = [history EXCEPT ![SlotOf(nextOp')] = e]  BY DEF Starts
<1> HIDE DEF e
<1>5. history' \in [HistorySlots -> EntryType]  BY <1>3, <1>4
<1>6. rx' \in RxType /\ rx'.recovery = rx.recovery  BY DEF Starts, RxTyped, RxType
<1> QED BY <1>1, <1>2, <1>5, <1>6 DEF Starts

LEMMA EndsFacts ==
  ASSUME Typed, NEW op \in Operations, NEW how \in Terms, Ends(op, how)
  PROVE  /\ active' \in ActiveType /\ active'.op = 0 /\ RxTyped' /\ rx'.listening = TRUE
         /\ ended' \in [Operations -> Terms] /\ ended' = [ended EXCEPT ![op] = how]
  BY Numbers DEF Ends, Typed, RadioTyped, RxTyped, RxType, ActiveType, Silent

LEMMA RestartedFacts ==
  ASSUME Typed
  PROVE  RestartedRx \in RxType /\ (RestartedRx.listening \/ Busy)
  BY DEF Typed, RxTyped, RxType, RestartedRx

LEMMA PutBackFacts ==
  ASSUME Typed
  PROVE  PutBack \in RxType /\ PutBack.listening = rx.listening /\ PutBack.recovery = (rx.recovery \/ loop.rx)
<1>1. rx \in RxType /\ loop.rx \in BOOLEAN  BY DEF Typed, RxTyped, LoopTyped, LoopType
<1> QED BY <1>1 DEF PutBack, RxType

LEMMA RadioTypedKept ==
  ASSUME Typed, LaneNext
  PROVE  RadioTyped'
<1> USE DEF Typed, RadioTyped
<1>1. CASE \E kind \in {"send", "other"} : SendNormal(kind)  BY <1>1 DEF SendNormal, ghosts
<1>2. CASE \E kind \in {"send", "response"} : SendPriority(kind)
  BY <1>2 DEF SendPriority, ghosts
<1>3. CASE PacketArrives  BY <1>3 DEF PacketArrives, ghosts
<1>4. CASE \E how \in {"DONE", "TIMEOUT"} : Interrupt(how)
  BY <1>4, Numbers DEF Interrupt, ghosts, IrqType, Terms, Operations
<1>5. CASE IrqClaims
  <2>1. CASE OriginMatches
    <3>1. irq' \in IrqType /\ irq'.op = irq.op /\ irq.pc # "idle"  BY <1>5, <2>1 DEF IrqClaims, IrqType
    <3>2. irq.how \in Terms  BY DEF IrqType
    <3> QED BY <1>5, <2>1, <3>1, <3>2, Numbers DEF IrqClaims
  <2>2. CASE ~OriginMatches  BY <1>5, <2>2, Numbers DEF IrqClaims, NoIrq, IrqType, Terms
  <2> QED BY <2>1, <2>2
<1>6. CASE IrqLatches
  BY <1>6, Numbers DEF IrqLatches, ghosts, NoIrq, IrqType, Terms
<1>7. CASE IrqOwnsSlot \/ IrqStores
  <2> PICK term \in Terms :
        \/ /\ history' = [history EXCEPT ![SlotOf(irq.op)].term = term]
           /\ irq' \in {[irq EXCEPT !.pc = "store"], NoIrq}
        \/ UNCHANGED history /\ irq' = NoIrq
    BY <1>7 DEF IrqOwnsSlot, IrqStores, Terms, IrqType
  <2>1. irq.op \in Operations /\ irq.pc # "idle"  BY <1>7 DEF IrqOwnsSlot, IrqStores
  <2>2. irq' \in IrqType /\ (irq'.pc # "idle" => irq'.op \in Operations)
    BY <2>1, Numbers DEF IrqType, NoIrq, Terms
  <2>3. history' \in [HistorySlots -> EntryType]
    <3> DEFINE e == [history[SlotOf(irq.op)] EXCEPT !.term = term]
    <3>1. e \in EntryType  BY <2>1, SlotRange DEF EntryType
    <3>2. history' = [history EXCEPT ![SlotOf(irq.op)] = e] \/ UNCHANGED history  OBVIOUS
    <3> HIDE DEF e
    <3> QED BY <3>1, <3>2
  <2>4. UNCHANGED <<active, origin, nextOp, reported, ended>>  BY <1>7 DEF IrqOwnsSlot, IrqStores, ghosts
  <2> QED BY <2>2, <2>3, <2>4
<1>8. CASE LoopStep
  <2>1. CASE TakeTerminals \/ ScanIncomplete \/ LookForPending \/ TakeRecovery \/ Reserve
             \/ RestartReception \/ TakeHeld \/ Hold \/ Validate \/ RunEvent \/ RunOther
    BY <2>1 DEF TakeTerminals, ScanIncomplete, LookForPending, TakeRecovery, Reserve, RestartReception,
                TakeHeld, Hold, Validate, RunEvent, RunOther, ghosts
  <2>2. CASE ChooseWork  BY <2>2 DEF ChooseWork
  <2>3. CASE HandleTerminal
    <3> PICK k \in loop.pending :
          IF history[k].op = active.op THEN Ends(active.op, history[k].term)
          ELSE UNCHANGED <<active, ended, rx, ackPending>>
      BY <2>3 DEF HandleTerminal
    <3>1. history[k] \in EntryType  BY DEF LoopTyped, LoopType
    <3>2. CASE active.op \in Operations
      BY <2>3, <3>1, <3>2, EndsFacts DEF HandleTerminal, EntryType
    <3>3. CASE active.op \notin Operations
      <4>1. active.op = 0 /\ Ends(active.op, history[k].term) => active' = Silent /\ ended' = ended
        BY <3>3, Numbers DEF Ends, ActiveType, Operations
      <4> QED BY <2>3, <3>3, <4>1, Numbers DEF HandleTerminal, ActiveType, Silent, Operations
    <3> QED BY <3>2, <3>3
  <2>4. CASE RunSend
    <3>1. loop.cmd.kind \in {"ack", "send"}  BY <2>4 DEF RunSend, NeedsRadio
    <3>2. CASE Starts(loop.cmd.kind)
      BY <2>4, <3>1, <3>2, StartsFacts DEF RunSend, Operations
    <3>3. CASE ~Starts(loop.cmd.kind)  BY <2>4, <3>3 DEF RunSend
    <3> QED BY <3>2, <3>3
  <2>5. CASE MaintainRecovers
    <3>1. active.op \in Operations  BY <2>5, Numbers DEF MaintainRecovers, WatchdogRecovers, Busy, ActiveType, Operations
    <3> QED BY <2>5, <3>1, EndsFacts, Numbers DEF MaintainRecovers, Maintained, WatchdogRecovers, Terms
  <2>6. CASE MaintainSends
    BY <2>6, StartsFacts DEF MaintainSends, Maintained, MaintenanceSends, Operations
  <2>7. CASE MaintainRests  BY <2>7 DEF MaintainRests, Maintained
  <2> QED BY <1>8, <2>1, <2>2, <2>3, <2>4, <2>5, <2>6, <2>7 DEF LoopStep
<1> QED BY <1>1, <1>2, <1>3, <1>4, <1>5, <1>6, <1>7, <1>8 DEF LaneNext, IrqStep

LEMMA LoopTypedKept ==
  ASSUME Typed, LaneNext
  PROVE  LoopTyped'
<1> USE DEF LoopTyped
<1>0. lane \in LaneType /\ loop \in LoopType /\ held \in LaneCommands /\ NoCommand \in LaneCommands
  BY TopFacts DEF Typed
<1>1. CASE \E kind \in {"send", "other"} : SendNormal(kind)  BY <1>0, <1>1 DEF SendNormal
<1>2. CASE \E kind \in {"send", "response"} : SendPriority(kind)
  BY <1>0, <1>2 DEF SendPriority
<1>3. CASE PacketArrives  BY <1>0, <1>3 DEF PacketArrives
<1>4. CASE \E how \in {"DONE", "TIMEOUT"} : Interrupt(how)  BY <1>0, <1>4 DEF Interrupt
<1>5. CASE IrqClaims \/ IrqOwnsSlot \/ IrqStores  BY <1>0, <1>5 DEF IrqClaims, IrqOwnsSlot, IrqStores
<1>6. CASE IrqLatches
  BY <1>0, <1>6, SlotRange DEF IrqLatches, Typed, RadioTyped, LaneType
<1>7. CASE LoopStep
  <2>1. CASE TakeTerminals
    <3>1. lane' \in LaneType  BY <1>0, <2>1 DEF TakeTerminals, LaneType
    <3>2. loop' \in LoopType  BY <1>0, <2>1 DEF TakeTerminals, LaneType, LoopType, LoopLabels
    <3> QED BY <1>0, <2>1, <3>1, <3>2 DEF TakeTerminals
  <2>2. CASE ScanIncomplete
    <3>1. lane' \in LaneType  BY <1>0, <2>2 DEF ScanIncomplete, GivenBack, LaneType, LoopType
    <3> QED BY <1>0, <2>2, <3>1, LoopGoesFacts DEF ScanIncomplete, LoopLabels
  <2>3. CASE HandleTerminal  BY <1>0, <2>3, LoopGoesFacts DEF HandleTerminal, LoopLabels
  <2>4. CASE LookForPending
    BY <1>0, <2>4, LoopGoesFacts, AfterwardsFacts DEF LookForPending, LoopLabels
  <2>5. CASE TakeRecovery
    <3>1. rx.recovery \in BOOLEAN  BY DEF Typed, RxTyped, RxType
    <3>2. loop' \in LoopType  BY <1>0, <2>5, <3>1 DEF TakeRecovery, LoopType, LoopLabels
    <3> QED BY <1>0, <2>5, <3>2 DEF TakeRecovery
  <2>6. CASE Reserve
    <3>1. loop' \in LoopType  BY <2>6, LoopGoesFacts, TopFacts DEF Reserve, LoopLabels
    <3>2. lane' \in LaneType  BY <1>0, <2>6 DEF Reserve, LaneType
    <3> QED BY <1>0, <2>6, <3>1, <3>2 DEF Reserve
  <2>7. CASE RestartReception
    <3>1. loop' \in LoopType  BY <2>7, LoopGoesFacts, TopFacts DEF RestartReception, LoopLabels
    <3>2. lane' \in LaneType  BY <1>0, <2>7 DEF RestartReception, Release, LaneType
    <3> QED BY <1>0, <2>7, <3>1, <3>2 DEF RestartReception
  <2>8. CASE ChooseWork
    <3>1. CASE Choice = "none"  BY <1>0, <2>8, <3>1, LoopGoesFacts DEF ChooseWork, LoopLabels
    <3>2. CASE Choice # "none"
      <4>1. Choice \in Lanes /\ queues[Choice] # <<>>
        BY <3>2 DEF Choice, Urgent, Available, Lanes
      <4>2. Head(queues[Choice]) \in LaneCommands  BY <2>8, <3>2, <4>1, TailFacts DEF ChooseWork
      <4>3. loop' \in LoopType  BY <1>0, <2>8, <3>2, <4>2 DEF ChooseWork, LoopType, LoopLabels
      <4> QED BY <1>0, <2>8, <4>3 DEF ChooseWork
    <3> QED BY <3>1, <3>2
  <2>9. CASE TakeHeld
    <3>1. loop' \in LoopType  BY <1>0, <2>9 DEF TakeHeld, LoopType, LoopLabels
    <3> QED BY <1>0, <2>9, <3>1 DEF TakeHeld
  <2>10. CASE Hold
    <3>1. loop' \in LoopType  BY <2>10, AfterwardsFacts, TopFacts DEF Hold, LoopLabels
    <3>2. lane' \in LaneType  BY <1>0, <2>10 DEF Hold, Release, LaneType
    <3>3. held' \in LaneCommands  BY <1>0, <2>10 DEF Hold, LoopType
    <3> QED BY <3>1, <3>2, <3>3
  <2>11. CASE Validate
    <3>1. loop' \in LoopType  BY <2>11, LoopGoesFacts DEF Validate, LoopLabels
    <3> QED BY <1>0, <2>11, <3>1 DEF Validate
  <2>12. CASE RunEvent \/ RunSend \/ RunOther
    <3>1. loop' \in LoopType  BY <2>12, LoopGoesFacts DEF RunEvent, RunSend, RunOther, Runs, LoopLabels
    <3> QED BY <1>0, <2>12, <3>1 DEF RunEvent, RunSend, RunOther
  <2>13. CASE MaintainRecovers \/ MaintainSends \/ MaintainRests
    <3>1. loop' = TopOfLoop /\ lane' \in LaneType /\ held' = held
      BY <1>0, <2>13 DEF MaintainRecovers, MaintainSends, MaintainRests, Maintained, LaneType
    <3> QED BY <1>0, <3>1, TopFacts
  <2> QED BY <1>7, <2>1, <2>2, <2>3, <2>4, <2>5, <2>6, <2>7, <2>8, <2>9, <2>10, <2>11, <2>12, <2>13
      DEF LoopStep
<1> QED BY <1>1, <1>2, <1>3, <1>4, <1>5, <1>6, <1>7 DEF LaneNext, IrqStep

LEMMA RxTypedKept ==
  ASSUME Typed, LaneNext
  PROVE  RxTyped'
<1> USE DEF RxTyped
<1>0. rx \in RxType /\ ackPending \in BOOLEAN /\ rx.recovery \in BOOLEAN /\ rx.listening \in BOOLEAN
  BY DEF Typed, RxType
<1>1. CASE \E kind \in {"send", "other"} : SendNormal(kind)  BY <1>0, <1>1 DEF SendNormal
<1>2. CASE \E kind \in {"send", "response"} : SendPriority(kind)
  BY <1>0, <1>2 DEF SendPriority
<1>3. CASE PacketArrives
  <2> PICK on \in BOOLEAN :
        rx' = [rx EXCEPT !.listening = on] \/ rx' = [recovery |-> TRUE, listening |-> on]
    BY <1>3 DEF PacketArrives
  <2> DEFINE r1 == [rx EXCEPT !.listening = on]
  <2> DEFINE r2 == [recovery |-> TRUE, listening |-> on]
  <2>0. r1 \in RxType /\ r2 \in RxType /\ (rx' = r1 \/ rx' = r2)  BY <1>0 DEF RxType
  <2> HIDE DEF r1, r2
  <2>1. rx' \in RxType  BY <2>0
  <2> QED BY <1>0, <1>3, <2>1 DEF PacketArrives
<1>4. CASE \E how \in {"DONE", "TIMEOUT"} : Interrupt(how)  BY <1>0, <1>4 DEF Interrupt
<1>5. CASE IrqStep
  BY <1>0, <1>5 DEF IrqStep, IrqClaims, IrqLatches, IrqOwnsSlot, IrqStores
<1>6. CASE LoopStep
  <2>1. CASE TakeTerminals \/ ScanIncomplete \/ LookForPending \/ ChooseWork \/ TakeHeld \/ Hold \/ Validate
    BY <1>0, <2>1 DEF TakeTerminals, ScanIncomplete, LookForPending, ChooseWork, TakeHeld, Hold, Validate
  <2>2. CASE HandleTerminal
    <3> PICK k \in loop.pending :
          IF history[k].op = active.op THEN Ends(active.op, history[k].term)
          ELSE UNCHANGED <<active, ended, rx, ackPending>>
      BY <2>2 DEF HandleTerminal
    <3>1. CASE Ends(active.op, history[k].term)  BY <1>0, <3>1 DEF Ends, RxType
    <3>2. CASE UNCHANGED <<rx, ackPending>>  BY <1>0, <3>2
    <3> QED BY <3>1, <3>2
  <2>3. CASE TakeRecovery  BY <1>0, <2>3 DEF TakeRecovery, RxType, Busy
  <2>4. CASE Reserve  BY <1>0, <2>4, PutBackFacts DEF Reserve
  <2>5. CASE RestartReception  BY <1>0, <2>5, PutBackFacts, RestartedFacts DEF RestartReception
  <2>6. CASE RunEvent  BY <1>0, <2>6, RestartedFacts DEF RunEvent, ReservesAck
  <2>7. CASE RunSend
    <3>1. loop.cmd.kind \in {"ack", "send"}  BY <2>7 DEF RunSend, NeedsRadio
    <3> QED BY <1>0, <2>7, <3>1, RestartedFacts, StartsFacts DEF RunSend
  <2>8. CASE RunOther  BY <1>0, <2>8, RestartedFacts DEF RunOther
  <2>9. CASE MaintainRecovers  BY <1>0, <2>9 DEF MaintainRecovers, WatchdogRecovers, Ends, RxType
  <2>10. CASE MaintainSends  BY <1>0, <2>10, StartsFacts DEF MaintainSends, MaintenanceSends
  <2>11. CASE MaintainRests  BY <1>0, <2>11 DEF MaintainRests
  <2> QED BY <1>6, <2>1, <2>2, <2>3, <2>4, <2>5, <2>6, <2>7, <2>8, <2>9, <2>10, <2>11 DEF LoopStep
<1> QED BY <1>1, <1>2, <1>3, <1>4, <1>5, <1>6 DEF LaneNext

(* The queues: every element of a longer queue is an old one or the new    *)
(* command.                                                                *)
LEMMA AckFacts ==
  ASSUME Typed, ReservesAck
  PROVE  /\ QueuesTyped'
         /\ \A q \in Lanes \ {"priority"} : queues'[q] = queues[q]
         /\ Len(queues'["priority"]) = Len(queues["priority"]) + 1
         /\ 1 \in DOMAIN queues'["priority"] /\ queues'["priority"][1].kind = "ack"
<1> DEFINE c == [lane |-> "priority", kind |-> "ack"]
<1> DEFINE s == queues["priority"]
<1>1. /\ c \in LaneCommands /\ c.kind = "ack" /\ "priority" \in Lanes
      /\ s \in Seq(LaneCommands) /\ Len(s) < LaneDepth /\ Len(s) \in Nat
  BY LenProperties DEF Typed, QueuesTyped, ReservesAck, HasRoom, Lanes, LaneCommands
<1> DEFINE a == <<c>> \o s
<1>2. queues' = [queues EXCEPT !["priority"] = a]  BY DEF ReservesAck
<1> HIDE DEF c
<1>3. <<c>> \in Seq(LaneCommands) /\ Len(<<c>>) = 1 /\ <<c>>[1] = c  BY <1>1
<1>4. a \in Seq(LaneCommands) /\ Len(a) = Len(s) + 1 /\ a[1] = c
  BY <1>1, <1>3, ConcatProperties
<1>5. 1 \in DOMAIN a  BY <1>1, <1>4, LenProperties
<1> HIDE DEF a
<1>6. queues'["priority"] = a /\ \A q \in Lanes \ {"priority"} : queues'[q] = queues[q]
  BY <1>1, <1>2 DEF Typed, QueuesTyped
<1>7. QueuesTyped'
  BY <1>1, <1>2, <1>4, <1>6, Numbers DEF Typed, QueuesTyped
<1> QED BY <1>1, <1>4, <1>5, <1>6, <1>7

LEMMA ChoiceFacts ==
  ASSUME Choice # "none"
  PROVE  Choice \in Lanes /\ queues[Choice] # <<>>
  BY DEF Choice, Urgent, Available, Lanes

LEMMA QueuesTypedKept ==
  ASSUME Typed, LaneNext
  PROVE  QueuesTyped'
<1>0. QueuesTyped  BY DEF Typed
<1>1. CASE \E kind \in {"send", "other"} : SendNormal(kind)
  <2> PICK kind \in {"send", "other"} : SendNormal(kind)  BY <1>1
  <2>1. [lane |-> "normal", kind |-> kind] \in LaneCommands /\ "normal" \in Lanes  BY DEF LaneCommands, Lanes
  <2> QED BY <2>1, EnqueueFacts DEF SendNormal
<1>2. CASE \E kind \in {"send", "response"} : SendPriority(kind)
  <2>1. \A kind \in {"send", "response"} :
       [lane |-> "priority", kind |-> kind] \in LaneCommands /\ "priority" \in Lanes
    BY DEF LaneCommands, Lanes
  <2> QED BY <1>2, <2>1, EnqueueFacts DEF SendPriority
<1>3. CASE PacketArrives
  <2>1. [lane |-> "radio", kind |-> "event"] \in LaneCommands /\ "radio" \in Lanes  BY DEF LaneCommands, Lanes
  <2>2. CASE HasRoom("radio")  BY <1>3, <2>1, <2>2, EnqueueFacts DEF PacketArrives
  <2>3. CASE ~HasRoom("radio")  BY <1>0, <1>3, <2>3 DEF PacketArrives, QueuesTyped
  <2> QED BY <2>2, <2>3
<1>4. CASE UNCHANGED queues  BY <1>0, <1>4 DEF QueuesTyped
<1>5. CASE ChooseWork
  <2>1. CASE Choice = "none"  BY <1>4, <1>5, <2>1 DEF ChooseWork
  <2>2. CASE Choice # "none"  BY <1>5, <2>2, ChoiceFacts, TailFacts DEF ChooseWork
  <2> QED BY <2>1, <2>2
<1>6. CASE RunEvent
  <2>1. CASE ReservesAck  BY <2>1, AckFacts
  <2>2. CASE UNCHANGED queues  BY <1>4, <2>2
  <2> QED BY <1>6, <2>1, <2>2 DEF RunEvent
<1>7. CASE IrqStep \/ \E how \in {"DONE", "TIMEOUT"} : Interrupt(how)
  BY <1>4, <1>7 DEF IrqStep, IrqClaims, IrqLatches, IrqOwnsSlot, IrqStores, Interrupt
<1>8. CASE LoopStep /\ ~ChooseWork /\ ~RunEvent
  BY <1>4, <1>8 DEF LoopStep, TakeTerminals, ScanIncomplete, HandleTerminal, LookForPending, TakeRecovery,
     Reserve, RestartReception, TakeHeld, Hold, Validate, RunSend, RunOther,
     MaintainRecovers, MaintainSends, MaintainRests, Maintained
<1> QED BY <1>1, <1>2, <1>3, <1>5, <1>6, <1>7, <1>8 DEF LaneNext

(* The scheduler's counters and the ghost that counts: until the last ACK  *)
(* that it counts, the works run are behind the counters' weight and one   *)
(* full burst with its ACK for each.                                       *)
Weight(b) == b.priority * (RadioBurst + 1) + b.radio
FullWeight == (PriorityBurst + 1) * RadioBurst + PriorityBurst
Reached == IF passedOver.acks = MaxAcksCounted THEN FullWeight ELSE Weight(burst)
BurstInv == passedOver.works <= Reached + passedOver.acks * (RadioBurst + 1)

LEMMA WeightBound ==
  ASSUME NEW R \in Nat, NEW P \in Nat, NEW p \in 0 .. P, NEW r \in 0 .. R
  PROVE  p * (R + 1) + r <= (P + 1) * R + P
<1>1. (P - p) \in Nat /\ R + 1 \in Nat /\ (P - p) * (R + 1) \in Nat  OBVIOUS
<1>2. (P - p) * (R + 1) = P * (R + 1) - p * (R + 1)  OBVIOUS
<1>3. P * (R + 1) + R = (P + 1) * R + P  OBVIOUS
<1>4. p * (R + 1) \in Nat /\ P * (R + 1) \in Nat /\ (P + 1) * R \in Nat  OBVIOUS
<1> QED BY <1>1, <1>2, <1>3, <1>4

LEMMA WeightOf ==
  ASSUME NEW b \in BurstType
  PROVE  Weight(b) \in Nat /\ FullWeight \in Nat /\ Weight(b) <= FullWeight
<1>1. b.priority \in 0 .. PriorityBurst /\ b.radio \in 0 .. RadioBurst  BY DEF BurstType
<1>2. b.priority * (RadioBurst + 1) \in Nat /\ (PriorityBurst + 1) * RadioBurst \in Nat
  BY <1>1, Numbers
<1>3. b.priority * (RadioBurst + 1) + b.radio <= (PriorityBurst + 1) * RadioBurst + PriorityBurst
  BY <1>1, WeightBound, Numbers
<1>4. b.radio \in Nat  BY <1>1, Numbers
<1> QED BY <1>2, <1>3, <1>4, Numbers DEF Weight, FullWeight

(* One more of anything.                                                   *)
LEMMA OneMore ==
  ASSUME NEW n \in Nat, NEW R \in Nat
  PROVE  n * (R + 1) \in Nat /\ (n + 1) * (R + 1) = n * (R + 1) + R + 1
  OBVIOUS

(* A choice that passes the waiting command over adds one to the weight;   *)
(* an urgent ACK may take a radio burst from it.                           *)
LEMMA ChoiceWeighs ==
  ASSUME Typed, Available("normal"), Choice # "normal", burst' = BurstAfter(Choice)
  PROVE  /\ burst' \in BurstType
         /\ ~Urgent => Weight(burst') >= Weight(burst) + 1
         /\ Urgent => Weight(burst') + RadioBurst >= Weight(burst)
<1> DEFINE p == burst.priority
<1> DEFINE r == burst.radio
<1>0. /\ burst \in BurstType /\ p \in 0 .. PriorityBurst /\ r \in 0 .. RadioBurst /\ p \in Nat /\ r \in Nat
  BY Numbers DEF Typed, BurstTyped, BurstType
<1>1. Choice \in {"radio", "priority"}  BY DEF Choice
<1>2. CASE Choice = "radio"
  <2>1. ~Urgent /\ r < RadioBurst  BY <1>2 DEF Choice
  <2>2. burst' = [burst EXCEPT !.radio = BurstLeft(r, RadioBurst)]  BY <1>2 DEF BurstAfter
  <2>3. BurstLeft(r, RadioBurst) = r + 1 /\ r + 1 \in 0 .. RadioBurst  BY <1>0, <2>1, Numbers DEF BurstLeft
  <2>4. burst' \in BurstType /\ burst'.priority = p /\ burst'.radio = r + 1  BY <1>0, <2>2, <2>3 DEF BurstType
  <2>5. p * (RadioBurst + 1) \in Nat  BY <1>0, Numbers
  <2> QED BY <1>0, <2>1, <2>4, <2>5 DEF Weight
<1>3. CASE Choice = "priority"
  <2>1. burst' = [radio |-> 0, priority |-> BurstLeft(p, PriorityBurst)]  BY <1>3 DEF BurstAfter
  <2>2. BurstLeft(p, PriorityBurst) \in 0 .. PriorityBurst  BY <1>0, Numbers DEF BurstLeft
  <2>3. burst' \in BurstType /\ burst'.priority = BurstLeft(p, PriorityBurst) /\ burst'.radio = 0
    BY <1>0, <2>1, <2>2, Numbers DEF BurstType
  <2>4. p * (RadioBurst + 1) \in Nat /\ (p + 1) * (RadioBurst + 1) = p * (RadioBurst + 1) + RadioBurst + 1
    BY <1>0, OneMore, Numbers
  <2>5. CASE p < PriorityBurst
    <3>1. burst'.priority = p + 1  BY <2>3, <2>5 DEF BurstLeft
    <3>2. Weight(burst') = p * (RadioBurst + 1) + RadioBurst + 1  BY <2>3, <2>4, <3>1, Numbers DEF Weight
    <3> QED BY <1>0, <2>3, <2>4, <3>2, Numbers DEF Weight
  <2>6. CASE ~(p < PriorityBurst)
    <3>1. Urgent  BY <1>0, <1>3, <2>6, Numbers DEF Choice
    <3>2. burst'.priority = p  BY <2>3, <2>6 DEF BurstLeft
    <3> QED BY <1>0, <2>3, <2>4, <3>1, <3>2, Numbers DEF Weight
  <2> QED BY <2>5, <2>6
<1> QED BY <1>1, <1>2, <1>3

LEMMA BurstAfterTyped ==
  ASSUME Typed, burst' = BurstAfter(Choice)
  PROVE  burst' \in BurstType
<1>1. burst \in BurstType /\ burst.priority \in 0 .. PriorityBurst /\ burst.radio \in 0 .. RadioBurst
  BY DEF Typed, BurstTyped, BurstType
<1>2. /\ BurstLeft(burst.radio, RadioBurst) \in 0 .. RadioBurst
      /\ BurstLeft(burst.priority, PriorityBurst) \in 0 .. PriorityBurst
  BY <1>1, Numbers DEF BurstLeft
<1>3. Choice \in {"radio", "priority", "normal", "none"}  BY DEF Choice
<1>4. CASE Choice = "radio"  BY <1>1, <1>2, <1>4 DEF BurstAfter, BurstType
<1>5. CASE Choice = "priority"  BY <1>2, <1>5, Numbers DEF BurstAfter, BurstType
<1>6. CASE Choice \in {"normal", "none"}  BY <1>6, Numbers DEF BurstAfter, BurstType
<1> QED BY <1>3, <1>4, <1>5, <1>6

LEMMA BurstKept ==
  ASSUME Typed, BurstInv, LaneNext
  PROVE  BurstTyped' /\ BurstInv'
<1> DEFINE w == passedOver.works
<1> DEFINE a == passedOver.acks
<1>0. burst \in BurstType /\ passedOver \in PassedType /\ w \in Nat /\ a \in 0 .. MaxAcksCounted /\ a \in Nat
  BY Numbers DEF Typed, BurstTyped, PassedType
<1>1. CASE UNCHANGED <<burst, passedOver>>  BY <1>0, <1>1 DEF BurstTyped, BurstInv, Reached
<1>2. CASE ChooseWork
  <2>1. burst' \in BurstType  BY <1>2, BurstAfterTyped DEF ChooseWork
  <2>2. Weight(burst) \in Nat /\ Weight(burst') \in Nat /\ FullWeight \in Nat
        /\ Weight(burst) <= FullWeight /\ Weight(burst') <= FullWeight
    BY <1>0, <2>1, WeightOf
  <2>3. a * (RadioBurst + 1) \in Nat /\ (a + 1) * (RadioBurst + 1) = a * (RadioBurst + 1) + RadioBurst + 1
    BY <1>0, OneMore, Numbers
  <2>4. CASE passedOver' = NoneBefore
    <3>1. passedOver'.works = 0 /\ passedOver'.acks = 0 /\ passedOver' \in PassedType
      BY <2>4, Numbers DEF NoneBefore, PassedType
    <3>2. Reached' \in Nat  BY <2>2 DEF Reached, FullWeight
    <3>4. 0 <= Reached'  BY <3>2
    <3>6. passedOver'.acks * (RadioBurst + 1) \in Nat  BY <3>1, OneMore, Numbers
    <3>5. BurstInv'  BY <3>1, <3>2, <3>4, <3>6 DEF BurstInv
    <3> QED BY <2>1, <3>1, <3>5 DEF BurstTyped
  <2>5. CASE a = MaxAcksCounted /\ passedOver' = passedOver
    BY <1>0, <2>1, <2>5 DEF BurstTyped, BurstInv, Reached, FullWeight
  <2>6. CASE /\ Available("normal") /\ Choice # "normal" /\ a # MaxAcksCounted
             /\ passedOver' = [works |-> w + 1, acks |-> IF Urgent THEN a + 1 ELSE a]
    <3>1. w <= Weight(burst) + a * (RadioBurst + 1)  BY <2>6 DEF BurstInv, Reached
    <3>2. passedOver'.works = w + 1 /\ passedOver'.acks = (IF Urgent THEN a + 1 ELSE a)  BY <2>6
    <3>3. passedOver' \in PassedType  BY <1>0, <2>6, Numbers DEF PassedType
    <3>4. /\ ~Urgent => Weight(burst') >= Weight(burst) + 1
          /\ Urgent => Weight(burst') + RadioBurst >= Weight(burst)
      BY <1>2, <2>6, ChoiceWeighs DEF ChooseWork
    <3>5. Reached' \in Nat /\ Reached' >= Weight(burst')  BY <2>2 DEF Reached, FullWeight
    <3>6. CASE ~Urgent
      <4>1. passedOver'.acks = a /\ w + 1 <= Reached' + a * (RadioBurst + 1)
        BY <1>0, <2>2, <2>3, <3>1, <3>2, <3>4, <3>5, <3>6
      <4> QED BY <2>1, <3>2, <3>3, <4>1 DEF BurstTyped, BurstInv
    <3>7. CASE Urgent
      <4>1. passedOver'.acks = a + 1 /\ w + 1 <= Reached' + (a + 1) * (RadioBurst + 1)
        BY <1>0, <2>2, <2>3, <3>1, <3>2, <3>4, <3>5, <3>7, Numbers
      <4> QED BY <2>1, <3>2, <3>3, <4>1 DEF BurstTyped, BurstInv
    <3> QED BY <3>6, <3>7
  <2> QED BY <1>2, <2>4, <2>5, <2>6 DEF ChooseWork
<1>3. CASE ~ChooseWork
  <2>1. UNCHANGED <<burst, passedOver>>
    BY <1>3 DEF LaneNext, SendNormal, SendPriority, PacketArrives, Interrupt, IrqStep, IrqClaims, IrqLatches,
     IrqOwnsSlot, IrqStores, LoopStep, TakeTerminals, ScanIncomplete, HandleTerminal, LookForPending,
     TakeRecovery, Reserve, RestartReception, TakeHeld, Hold, Validate, RunEvent, RunSend, RunOther,
     MaintainRecovers, MaintainSends, MaintainRests, Maintained, ghosts
  <2> QED BY <1>1, <2>1
<1> QED BY <1>2, <1>3

LEMMA TypedKept == ASSUME Typed, BurstInv, LaneNext PROVE Typed'
  BY RadioTypedKept, LoopTypedKept, RxTypedKept, QueuesTypedKept, BurstKept DEF Typed

-----------------------------------------------------------------------------
(* Transmissions, interrupts and the lane.                                 *)
Reporting == {"latch", "own", "store"}
InTheLane(k) == k \in lane.pending \/ (LoopAt("scan") /\ k \in loop.pending)

(* At most the last operation is active; it is the one whose end is not    *)
(* recorded, and the driver has its origin until the interrupt task or the *)
(* watchdog takes it.                                                      *)
OperationsInv ==
  /\ \A op \in Operations : op > nextOp => reported[op] = "NONE" /\ ended[op] = "NONE"
  /\ active.op \in {0, nextOp}
  /\ \A op \in Operations : op <= nextOp => (ended[op] = "NONE" <=> op = active.op)
  /\ origin \in {0, active.op}
  /\ Busy => (origin # 0 <=> reported[active.op] = "NONE")
  /\ OutcomeIsTheRadios

(* From the claim to the end of its report the interrupt task has the      *)
(* active operation.                                                       *)
InterruptInv ==
  /\ irq.pc # "idle" => irq.op <= nextOp /\ irq.how \in {"DONE", "TIMEOUT"}
  /\ irq.pc \in Reporting => Busy /\ irq.op = active.op /\ reported[irq.op] = irq.how

(* The entry of the active operation in the callback history: empty until  *)
(* the interrupt task owns it, then half written, then the report.         *)
CallbackOK(e) ==
  /\ e.op = active.op
  /\ origin # 0 \/ irq.pc \in {"latch", "own"} => e.term = "NONE"
  /\ irq.pc = "store" => e.term = "WRITING"
  /\ e.term \in {"DONE", "TIMEOUT"} => e.term = reported[active.op]
CallbackInv == Busy => CallbackOK(history[SlotOf(active.op)])

(* A bit in the lane, or in the hands of the scan, is the active           *)
(* operation's; and when the origin is taken the bit is there, or still to *)
(* be set.                                                                 *)
BitsInv ==
  /\ \A k \in HistorySlots :
       InTheLane(k) => Busy /\ origin = 0 /\ k = SlotOf(active.op) /\ irq.pc # "latch"
  /\ Busy /\ origin = 0 => irq.pc = "latch" \/ InTheLane(SlotOf(active.op))
  /\ LoopAt("scan") => lane.pending = {} /\ loop.pending # {}

RadioInv == OperationsInv /\ InterruptInv /\ CallbackInv /\ BitsInv

(* The report of an unrecorded end is in the lane unless the interrupt task*)
(* has yet to put it there.                                                *)
LEMMA RadioImplies ==
  ASSUME Typed, RadioInv
  PROVE  /\ OutcomeIsTheRadios /\ TerminalIsOnItsWay
         /\ \A op \in Operations : reported[op] # "NONE" /\ ended[op] = "NONE" /\ lane.pending = {} =>
              LoopAt("scan") \/ (irq.op = op /\ irq.pc = "latch")
<1> USE DEF RadioInv
<1>1. OutcomeIsTheRadios  BY DEF OperationsInv
<1>2. ASSUME NEW op \in Operations, reported[op] # "NONE", ended[op] = "NONE"
      PROVE  /\ active.op = op /\ (irq.pc = "latch" \/ InTheLane(SlotOf(op)))
             /\ irq.pc = "latch" => irq.op = op
  <2>1. nextOp \in Nat /\ op \in Nat  BY Numbers DEF Typed, RadioTyped
  <2>2. active.op = op /\ Busy /\ origin = 0
    BY <1>2, <2>1, Numbers DEF OperationsInv, Busy
  <2> QED BY <2>2 DEF BitsInv, InterruptInv, Reporting
<1>3. TerminalIsOnItsWay
  <2> SUFFICES ASSUME NEW op \in Operations, reported[op] # "NONE", ended[op] = "NONE"
               PROVE  /\ active.op = op
                      /\ \/ irq.op = op /\ irq.pc \in {"latch", "own", "store"}
                         \/ SlotOf(op) \in lane.pending
                         \/ LoopAt("scan") /\ SlotOf(op) \in loop.pending
    BY DEF TerminalIsOnItsWay
  <2> QED BY <1>2 DEF InTheLane
<1> QED BY <1>1, <1>2, <1>3 DEF InTheLane

(* Steps that leave the radio's state alone.                               *)
LEMMA QuietSteps ==
  ASSUME Typed, RadioInv, UNCHANGED <<history, active, origin, irq, reported, ended, nextOp>>,
         lane'.pending = lane.pending,
         UNCHANGED loop \/ (~LoopAt("scan") /\ ~LoopAt("scan")')
  PROVE  RadioInv'
<1> USE DEF RadioInv
<1>1. OperationsInv'  BY DEF OperationsInv, OutcomeIsTheRadios, Busy
<1>2. InterruptInv'  BY DEF InterruptInv, Busy
<1>3. CallbackInv'  BY DEF CallbackInv, CallbackOK, Busy
<1>4. ASSUME NEW k PROVE InTheLane(k)' <=> InTheLane(k)  BY DEF InTheLane, LoopAt
<1>5. BitsInv'
  <2>1. InTheLane(SlotOf(active.op))' <=> InTheLane(SlotOf(active.op))  BY DEF InTheLane, LoopAt
  <2> QED BY <1>4, <2>1 DEF BitsInv, LoopAt, Busy
<1> QED BY <1>1, <1>2, <1>3, <1>5

(* The active operation and its entry.                                     *)
LEMMA BusyFacts ==
  ASSUME Typed, RadioInv, Busy
  PROVE  /\ active.op \in Operations /\ active.op = nextOp /\ active.op # 0 /\ ended[active.op] = "NONE"
         /\ SlotOf(active.op) \in HistorySlots /\ history[SlotOf(active.op)] \in EntryType
         /\ CallbackOK(history[SlotOf(active.op)])
<1>1. active.op \in Operations /\ active.op = nextOp /\ active.op # 0
  BY Numbers DEF Typed, RadioTyped, RadioInv, OperationsInv, Busy, Operations
<1>2. ended[active.op] = "NONE"  BY <1>1, Numbers DEF RadioInv, OperationsInv, Typed, RadioTyped
<1> QED BY <1>1, <1>2, SlotRange DEF Typed, RadioTyped, RadioInv, CallbackInv

(* The interrupt task.                                                     *)
LEMMA InterruptKeeps ==
  ASSUME Typed, RadioInv, NEW how \in {"DONE", "TIMEOUT"}, Interrupt(how)
  PROVE  RadioInv'
<1> USE DEF RadioInv, Interrupt, ghosts
<1>1. /\ irq'.pc = "claim" /\ irq'.op = origin /\ irq'.how = how /\ irq.pc = "idle" /\ origin # 0
      /\ UNCHANGED <<lane, history, active, origin, loop, nextOp, reported, ended>>
  OBVIOUS
<1>2. Busy /\ origin = active.op /\ origin = nextOp
  BY <1>1, BusyFacts DEF OperationsInv, Busy
<1>3. OperationsInv'  BY <1>1 DEF OperationsInv, OutcomeIsTheRadios, Busy
<1>4. InterruptInv'
  <2>1. nextOp \in Nat  BY DEF Typed, RadioTyped
  <2> QED BY <1>1, <1>2, <2>1 DEF InterruptInv, Reporting
<1>5. CallbackInv'  BY <1>1, <1>2 DEF CallbackInv, CallbackOK, Busy
<1>6. ASSUME NEW k PROVE ~InTheLane(k)'
  <2>1. origin # 0 /\ (k \in HistorySlots => ~InTheLane(k))  BY <1>1 DEF BitsInv
  <2>2. lane.pending \subseteq HistorySlots /\ loop.pending \subseteq HistorySlots
    BY DEF Typed, LoopTyped, LaneType, LoopType
  <2> QED BY <1>1, <2>1, <2>2 DEF InTheLane, LoopAt
<1>7. BitsInv'  BY <1>1, <1>6 DEF BitsInv, LoopAt, Busy
<1> QED BY <1>3, <1>4, <1>5, <1>7

LEMMA ClaimsKeeps ==
  ASSUME Typed, RadioInv, IrqClaims
  PROVE  RadioInv'
<1> USE DEF RadioInv
<1>0. irq.pc = "claim" /\ irq.op \in Operations /\ irq.how \in {"DONE", "TIMEOUT"} /\ irq.op # 0
  BY Numbers DEF IrqClaims, Typed, RadioTyped, InterruptInv
<1>1. CASE OriginMatches
  <2>1. /\ irq'.pc = "latch" /\ irq'.op = irq.op /\ irq'.how = irq.how /\ origin' = 0 /\ irq.op = origin
        /\ reported' = [reported EXCEPT ![irq.op] = irq.how]
        /\ UNCHANGED <<lane, history, active, loop, nextOp, ended>>
    BY <1>1 DEF IrqClaims, Typed, RadioTyped, IrqType, OriginMatches
  <2>2. /\ Busy /\ origin = active.op /\ ended[active.op] = "NONE" /\ irq.op = nextOp
        /\ CallbackOK(history[SlotOf(active.op)])
    BY <1>0, <2>1, BusyFacts DEF OperationsInv, Busy
  <2>3. /\ reported'[irq.op] = irq.how
        /\ \A op \in Operations \ {irq.op} : reported'[op] = reported[op]
    BY <1>0, <2>1 DEF Typed, RadioTyped
  <2>4. OperationsInv'
    <3>1. nextOp \in Nat  BY DEF Typed, RadioTyped
    <3> QED BY <1>0, <2>1, <2>2, <2>3, <3>1, Numbers DEF OperationsInv, OutcomeIsTheRadios, Busy
  <2>5. InterruptInv'
    <3>1. nextOp \in Nat  BY DEF Typed, RadioTyped
    <3> QED BY <1>0, <2>1, <2>2, <2>3, <3>1 DEF InterruptInv, Busy
  <2>6. CallbackInv'
    <3>1. history[SlotOf(active.op)].term = "NONE"  BY <1>0, <2>1, <2>2 DEF CallbackOK
    <3>2. SlotOf(active.op)' = SlotOf(active.op)  BY <2>1
    <3> QED BY <2>1, <2>2, <3>1, <3>2 DEF CallbackInv, CallbackOK, Busy
  <2>7. ASSUME NEW k PROVE ~InTheLane(k)'
    <3>1. origin # 0 /\ (k \in HistorySlots => ~InTheLane(k))  BY <1>0, <2>1 DEF BitsInv
    <3>2. lane.pending \subseteq HistorySlots /\ loop.pending \subseteq HistorySlots
      BY DEF Typed, LoopTyped, LaneType, LoopType
    <3> QED BY <2>1, <3>1, <3>2 DEF InTheLane, LoopAt
  <2>8. BitsInv'  BY <2>1, <2>7 DEF BitsInv, LoopAt, Busy
  <2> QED BY <2>4, <2>5, <2>6, <2>8
<1>2. CASE ~OriginMatches
  <2>1. irq' = NoIrq /\ UNCHANGED <<lane, history, active, origin, loop, nextOp, reported, ended>>
    BY <1>2 DEF IrqClaims
  <2>2. irq'.pc = "idle"  BY <2>1 DEF NoIrq
  <2>3. OperationsInv'  BY <2>1 DEF OperationsInv, OutcomeIsTheRadios, Busy
  <2>4. InterruptInv'  BY <2>2 DEF InterruptInv, Reporting
  <2>5. CallbackInv'  BY <2>1, <2>2 DEF CallbackInv, CallbackOK, Busy
  <2>6. ASSUME NEW k PROVE InTheLane(k)' <=> InTheLane(k)  BY <2>1 DEF InTheLane, LoopAt
  <2>7. BitsInv'
    <3>1. InTheLane(SlotOf(active.op))' <=> InTheLane(SlotOf(active.op))  BY <2>1 DEF InTheLane, LoopAt
    <3> QED BY <1>0, <2>1, <2>2, <2>6, <3>1 DEF BitsInv, LoopAt, Busy
  <2> QED BY <2>3, <2>4, <2>5, <2>7
<1> QED BY <1>1, <1>2

(* The interrupt task has a report of the active operation: what it does   *)
(* to the entry and the bit of the operation's slot.                       *)
LEMMA LatchKeeps ==
  ASSUME Typed, RadioInv, IrqLatches
  PROVE  RadioInv'
<1> USE DEF RadioInv
<1> PICK op \in Operations : op = irq.op  BY DEF IrqLatches, Typed, RadioTyped
<1> PICK k \in HistorySlots : k = SlotOf(op)  BY SlotRange
<1>1. /\ irq.pc = "latch" /\ Busy /\ op = active.op /\ origin = 0 /\ history[k].op = op
      /\ CallbackOK(history[k]) /\ reported[op] = irq.how
  <2>1. irq.pc = "latch" /\ Busy /\ op = active.op /\ reported[op] = irq.how /\ irq.how # "NONE"
    BY DEF IrqLatches, InterruptInv, Reporting
  <2> QED BY <2>1, BusyFacts DEF OperationsInv, CallbackOK, Busy
<1>2. /\ lane' = [lane EXCEPT !.pending = @ \cup {k}] /\ irq' = [irq EXCEPT !.pc = "own"]
      /\ UNCHANGED <<history, active, origin, loop, nextOp, reported, ended>>
  BY <1>1 DEF IrqLatches, ghosts
<1>3. /\ lane'.pending = lane.pending \cup {k} /\ irq'.pc = "own" /\ irq'.op = op /\ irq'.how = irq.how
  BY <1>2 DEF Typed, LoopTyped, RadioTyped, LaneType, IrqType
<1>4. OperationsInv'  BY <1>2 DEF OperationsInv, OutcomeIsTheRadios, Busy
<1>5. InterruptInv'  BY <1>1, <1>2, <1>3 DEF InterruptInv, Busy, Reporting
<1>6. CallbackInv'
  <2>1. history[k].term = "NONE"  BY <1>1 DEF CallbackOK
  <2>2. SlotOf(active.op)' = k  BY <1>1, <1>2
  <2> QED BY <1>1, <1>2, <1>3, <2>1, <2>2 DEF CallbackInv, CallbackOK, Busy
<1>7. BitsInv'
  <2>1. ~LoopAt("scan")
    BY <1>1 DEF BitsInv, InTheLane, Typed, LoopTyped, LoopType
  <2>2. \A j \in HistorySlots : InTheLane(j)' => j = k
    BY <1>1, <1>2, <1>3, <2>1 DEF BitsInv, InTheLane, LoopAt
  <2>3. InTheLane(k)'  BY <1>3 DEF InTheLane
  <2>4. SlotOf(active.op)' = k  BY <1>1, <1>2
  <2>5. InTheLane(SlotOf(active.op))'  BY <1>1, <1>2, <1>3 DEF InTheLane
  <2> QED BY <1>1, <1>2, <1>3, <2>1, <2>2, <2>4, <2>5 DEF BitsInv, LoopAt, Busy
<1> QED BY <1>4, <1>5, <1>6, <1>7

LEMMA PublishesKeep ==
  ASSUME Typed, RadioInv, IrqOwnsSlot \/ IrqStores
  PROVE  RadioInv'
<1> USE DEF RadioInv
<1> PICK op \in Operations : op = irq.op  BY DEF IrqOwnsSlot, IrqStores, Typed, RadioTyped
<1> PICK k \in HistorySlots : k = SlotOf(op)  BY SlotRange
<1>1. /\ irq.pc \in {"own", "store"} /\ Busy /\ op = active.op /\ origin = 0
      /\ CallbackOK(history[k]) /\ reported[op] = irq.how /\ history[k] \in EntryType
      /\ irq.how \in {"DONE", "TIMEOUT"}
  <2>1. irq.pc \in {"own", "store"} /\ Busy /\ op = active.op /\ reported[op] = irq.how /\ irq.how # "NONE"
        /\ irq.how \in {"DONE", "TIMEOUT"}
    BY DEF IrqOwnsSlot, IrqStores, InterruptInv, Reporting
  <2> QED BY <2>1, BusyFacts DEF OperationsInv, CallbackOK, Busy
<1> PICK e \in EntryType :
      /\ history' = [history EXCEPT ![k] = e] /\ e.op = history[k].op
      /\ irq.pc = "own" => e.term = "WRITING" /\ irq' = [irq EXCEPT !.pc = "store"]
      /\ irq.pc = "store" => e.term = irq.how /\ irq' = NoIrq
  <2>1. CASE IrqOwnsSlot
    <3> DEFINE e == [history[k] EXCEPT !.term = "WRITING"]
    <3>1. e \in EntryType /\ e.op = history[k].op /\ e.term = "WRITING"  BY <1>1 DEF EntryType, Terms
    <3>2. irq.pc = "own" /\ history[k].term = "NONE"  BY <1>1, <2>1 DEF IrqOwnsSlot, CallbackOK
    <3>3. history' = [history EXCEPT ![k] = e] /\ irq' = [irq EXCEPT !.pc = "store"]
      BY <2>1, <3>2 DEF IrqOwnsSlot
    <3> HIDE DEF e
    <3> QED BY <3>1, <3>2, <3>3
  <2>2. CASE IrqStores
    <3> DEFINE e == [history[k] EXCEPT !.term = irq.how]
    <3>1. e \in EntryType /\ e.op = history[k].op /\ e.term = irq.how  BY <1>1 DEF EntryType, Terms
    <3>3. irq.pc = "store" /\ history' = [history EXCEPT ![k] = e] /\ irq' = NoIrq  BY <2>2 DEF IrqStores
    <3> HIDE DEF e
    <3> QED BY <3>1, <3>3
  <2> QED BY <2>1, <2>2
<1>2. UNCHANGED <<lane, active, origin, loop, nextOp, reported, ended>> /\ history'[k] = e
  BY DEF IrqOwnsSlot, IrqStores, ghosts, Typed, RadioTyped
<1>3. /\ irq.pc = "own" => irq'.pc = "store" /\ irq'.op = op /\ irq'.how = irq.how
      /\ irq.pc = "store" => irq'.pc = "idle"
  BY DEF NoIrq, Typed, RadioTyped, IrqType
<1>4. OperationsInv'  BY <1>2 DEF OperationsInv, OutcomeIsTheRadios, Busy
<1>5. InterruptInv'  BY <1>1, <1>2, <1>3 DEF InterruptInv, Busy, Reporting
<1>6. CallbackInv'
  <2>1. SlotOf(active.op)' = k  BY <1>1, <1>2
  <2> QED BY <1>1, <1>2, <1>3, <2>1 DEF CallbackInv, CallbackOK, Busy
<1>7. BitsInv'
  <2>1. ASSUME NEW j PROVE InTheLane(j)' <=> InTheLane(j)  BY <1>2 DEF InTheLane, LoopAt
  <2>2. InTheLane(SlotOf(active.op))' <=> InTheLane(SlotOf(active.op))  BY <1>2 DEF InTheLane, LoopAt
  <2> QED BY <1>1, <1>2, <1>3, <2>1, <2>2 DEF BitsInv, LoopAt, Busy
<1> QED BY <1>4, <1>5, <1>6, <1>7

(* The steps of the loop.                                                  *)
LEMMA NothingInTheLane ==
  ASSUME Typed, RadioInv, ~Busy \/ origin # 0, UNCHANGED loop \/ ~LoopAt("scan")',
         lane'.pending = lane.pending
  PROVE  (\A k : ~InTheLane(k)') /\ ~LoopAt("scan") /\ ~LoopAt("scan")' /\ lane.pending = {}
<1>1. lane.pending \subseteq HistorySlots /\ loop.pending \subseteq HistorySlots
  BY DEF Typed, LoopTyped, LaneType, LoopType
<1>2. \A k \in HistorySlots : ~InTheLane(k)  BY DEF RadioInv, BitsInv
<1>3. lane.pending = {} /\ ~LoopAt("scan")  BY <1>1, <1>2 DEF InTheLane, RadioInv, BitsInv
<1> QED BY <1>3 DEF InTheLane, LoopAt

LEMMA StartKeeps ==
  ASSUME Typed, RadioInv, NEW kind \in {"ack", "send", "dm"}, Starts(kind),
         UNCHANGED <<irq, reported>>, lane'.pending = lane.pending, ~LoopAt("scan")'
  PROVE  RadioInv'
<1> USE DEF RadioInv
<1>1. /\ ~Busy /\ nextOp' = nextOp + 1 /\ nextOp' \in Operations /\ active'.op = nextOp' /\ origin' = nextOp'
      /\ history' = [history EXCEPT ![SlotOf(nextOp')] = [op |-> nextOp', term |-> "NONE"]]
      /\ UNCHANGED ended
  BY StartsFacts
<1> PICK op \in Operations : op = nextOp'  BY <1>1
<1>2. nextOp \in Nat /\ op = nextOp + 1 /\ op # 0 /\ reported[op] = "NONE" /\ ended[op] = "NONE"
  BY <1>1, Numbers DEF Typed, RadioTyped, OperationsInv
<1>3. \A p \in Operations : p <= nextOp => p # active.op  BY <1>1, Numbers DEF Busy
<1>4. OperationsInv'
  <2>1. \A p \in Operations : p > op => reported[p] = "NONE" /\ ended[p] = "NONE"
    BY <1>2, Numbers DEF OperationsInv
  <2>2. \A p \in Operations : p <= op => (ended[p] = "NONE" <=> p = op)
    BY <1>1, <1>2, <1>3, Numbers DEF OperationsInv
  <2>3. OutcomeIsTheRadios'  BY <1>1 DEF OperationsInv, OutcomeIsTheRadios
  <2>4. active'.op = op /\ origin' = op /\ op # 0 /\ reported'[op] = "NONE"  BY <1>1, <1>2
  <2> QED BY <1>1, <2>1, <2>2, <2>3, <2>4 DEF OperationsInv, Busy
<1>5. irq.pc \notin Reporting  BY <1>1 DEF InterruptInv
<1>6. InterruptInv'
  <2>1. irq.op \in Nat  BY Numbers DEF Typed, RadioTyped, IrqType
  <2> QED BY <1>1, <1>2, <1>5, <2>1 DEF InterruptInv
<1>7. CallbackInv'
  <2> DEFINE e == [op |-> op, term |-> "NONE"]
  <2>1. history' = [history EXCEPT ![SlotOf(op)] = e] /\ SlotOf(op) \in HistorySlots  BY <1>1, SlotRange
  <2>2. e.op = op /\ e.term = "NONE"  OBVIOUS
  <2> HIDE DEF e
  <2>3. history'[SlotOf(op)] = e  BY <2>1 DEF Typed, RadioTyped
  <2>4. SlotOf(active.op)' = SlotOf(op) /\ active'.op = op /\ irq' = irq  BY <1>1
  <2> QED BY <1>5, <2>2, <2>3, <2>4 DEF CallbackInv, CallbackOK, Reporting
<1>8. BitsInv'
  <2>1. (\A k : ~InTheLane(k)')  BY <1>1, NothingInTheLane
  <2>2. origin' # 0  BY <1>1, <1>2
  <2> QED BY <2>1, <2>2 DEF BitsInv
<1> QED BY <1>4, <1>6, <1>7, <1>8

(* The active operation ends as the radio reported it, or by the watchdog  *)
(* when it reported nothing.                                               *)
LEMMA EndKeeps ==
  ASSUME Typed, RadioInv, Busy, NEW how \in {"DONE", "TIMEOUT"}, Ends(active.op, how),
         how = IF reported[active.op] = "NONE" THEN "TIMEOUT" ELSE reported[active.op],
         irq.pc \notin Reporting, origin' = 0, lane'.pending = {}, ~LoopAt("scan")',
         UNCHANGED <<history, irq, nextOp, reported>>
  PROVE  RadioInv'
<1> USE DEF RadioInv
<1> PICK op \in Operations : op = active.op  BY BusyFacts
<1>1. /\ active'.op = 0 /\ ended' = [ended EXCEPT ![op] = how] /\ op = nextOp /\ op # 0 /\ nextOp \in Nat
  <2>1. how \in Terms  BY DEF Terms
  <2>2. active'.op = 0 /\ ended' = [ended EXCEPT ![op] = how]  BY <2>1, EndsFacts
  <2>3. op = nextOp /\ op # 0  BY BusyFacts
  <2>4. nextOp \in Nat  BY Numbers DEF Typed, RadioTyped
  <2> QED BY <2>2, <2>3, <2>4
<1>2. ended'[op] = how /\ \A p \in Operations \ {op} : ended'[p] = ended[p]
  BY <1>1 DEF Typed, RadioTyped
<1>3. OperationsInv'
  <2>1. OutcomeIsTheRadios'  BY <1>2 DEF OperationsInv, OutcomeIsTheRadios
  <2>2. \A p \in Operations : p > nextOp => reported[p] = "NONE" /\ ended'[p] = "NONE"
    BY <1>1, <1>2, Numbers DEF OperationsInv
  <2>3. \A p \in Operations : p <= nextOp => ended'[p] # "NONE" /\ p # 0
    BY <1>1, <1>2, Numbers DEF OperationsInv
  <2> QED BY <1>1, <2>1, <2>2, <2>3 DEF OperationsInv, Busy
<1>4. InterruptInv'  BY DEF InterruptInv
<1>5. CallbackInv'  BY <1>1 DEF CallbackInv, Busy
<1>6. BitsInv'
  <2>1. \A k : ~InTheLane(k)'  BY DEF InTheLane
  <2> QED BY <1>1, <2>1 DEF BitsInv, Busy
<1> QED BY <1>3, <1>4, <1>5, <1>6

LEMMA TerminalsKeep ==
  ASSUME Typed, RadioInv, TakeTerminals \/ ScanIncomplete
  PROVE  RadioInv'
<1> USE DEF RadioInv
<1>1. UNCHANGED <<history, active, origin, irq, reported, ended, nextOp>>
  BY DEF TakeTerminals, ScanIncomplete, ghosts
<1>2. /\ lane.pending \subseteq HistorySlots /\ loop.pending \subseteq HistorySlots
      /\ lane \in LaneType /\ loop \in LoopType
  BY DEF Typed, LoopTyped, LaneType, LoopType
<1>3. \A k : InTheLane(k)' <=> InTheLane(k)
  <2>1. CASE TakeTerminals
    <3>1. /\ ~LoopAt("scan") /\ lane'.pending = {} /\ loop'.pending = lane.pending
          /\ LoopAt("scan")' <=> lane.pending # {}
      BY <1>2, <2>1 DEF TakeTerminals, LoopAt, LaneType, LoopType
    <3> QED BY <3>1 DEF InTheLane
  <2>2. CASE ScanIncomplete
    <3>1. loop'.pc = "look"  BY <2>2, LoopGoesFacts DEF ScanIncomplete, LoopLabels
    <3>2. LoopAt("scan") /\ lane'.pending = lane.pending \cup loop.pending
      BY <1>2, <2>2 DEF ScanIncomplete, GivenBack, LaneType
    <3> QED BY <3>1, <3>2 DEF InTheLane, LoopAt
  <2> QED BY <2>1, <2>2
<1>4. LoopAt("scan")' => lane'.pending = {} /\ loop'.pending # {}
  <2>1. CASE TakeTerminals
    BY <1>2, <2>1 DEF TakeTerminals, LoopAt, LaneType, LoopType
  <2>2. CASE ScanIncomplete
    BY <2>2, LoopGoesFacts DEF ScanIncomplete, LoopLabels, LoopAt
  <2> QED BY <2>1, <2>2
<1>5. OperationsInv'  BY <1>1 DEF OperationsInv, OutcomeIsTheRadios, Busy
<1>6. InterruptInv' /\ CallbackInv'  BY <1>1 DEF InterruptInv, Busy, CallbackInv, CallbackOK
<1>7. BitsInv'
  <2>1. InTheLane(SlotOf(active.op))' <=> InTheLane(SlotOf(active.op))
    <3> PICK k : k = SlotOf(active.op)  OBVIOUS
    <3>1. InTheLane(k)' <=> InTheLane(k)  BY <1>3
    <3>2. SlotOf(active.op)' = k  BY <1>1
    <3> QED BY <3>1, <3>2 DEF InTheLane
  <2> QED BY <1>1, <1>3, <1>4, <2>1 DEF BitsInv, Busy
<1> QED BY <1>5, <1>6, <1>7

LEMMA HandleKeeps == ASSUME Typed, RadioInv, HandleTerminal PROVE RadioInv'
<1> USE DEF RadioInv
<1>1. LoopAt("scan") /\ loop.pending \subseteq HistorySlots /\ lane.pending = {} /\ lane' = lane
  BY DEF HandleTerminal, Typed, LoopTyped, LoopType, BitsInv
<1> PICK k \in loop.pending :
      /\ SlotComplete(k)
      /\ IF history[k].op = active.op THEN Ends(active.op, history[k].term)
         ELSE UNCHANGED <<active, ended, rx, ackPending>>
  BY DEF HandleTerminal
<1>2. Busy /\ origin = 0 /\ k = SlotOf(active.op) /\ irq.pc # "latch"
  BY <1>1 DEF BitsInv, InTheLane
<1>3. CallbackOK(history[k]) /\ history[k].term \in {"DONE", "TIMEOUT"}
  BY <1>2, BusyFacts DEF SlotComplete
<1>4. /\ history[k].op = active.op /\ history[k].term = reported[active.op] /\ irq.pc \notin Reporting
  BY <1>2, <1>3 DEF CallbackOK, Reporting
<1>5. loop'.pc = "maintain"  BY LoopGoesFacts DEF HandleTerminal, LoopLabels
<1> QED BY <1>1, <1>2, <1>3, <1>4, <1>5, EndKeeps DEF HandleTerminal, LoopAt

LEMMA RecoversKeeps == ASSUME Typed, RadioInv, MaintainRecovers PROVE RadioInv'
<1> USE DEF MaintainRecovers, Maintained, WatchdogRecovers
<1>1. Busy /\ origin # 0 /\ irq.pc \notin Reporting  BY BusyFacts DEF Reporting
<1>2. reported[active.op] = "NONE"  BY <1>1 DEF RadioInv, OperationsInv
<1>3. ~LoopAt("scan")'  BY TopFacts DEF LoopAt
<1>4. lane'.pending = lane.pending  BY DEF Typed, LoopTyped, LaneType
<1>5. lane'.pending = {}  BY <1>1, <1>3, <1>4, NothingInTheLane
<1> QED BY <1>1, <1>2, <1>3, <1>5, EndKeeps

LEMMA RadioKept == ASSUME Typed, RadioInv, LaneNext PROVE RadioInv'
<1>1. CASE (\E kind \in {"send", "other"} : SendNormal(kind)) \/ (\E kind \in {"send", "response"} : SendPriority(kind)) \/ PacketArrives
  BY <1>1, QuietSteps DEF SendNormal, SendPriority, PacketArrives, ghosts
<1>2. CASE (\E how \in {"DONE", "TIMEOUT"} : Interrupt(how)) \/ IrqStep
  BY <1>2, InterruptKeeps, ClaimsKeeps, LatchKeeps, PublishesKeep DEF IrqStep
<1>3. CASE LoopStep
  <2>0. lane \in LaneType /\ loop \in LoopType  BY DEF Typed, LoopTyped
  <2>1. CASE TakeTerminals \/ ScanIncomplete \/ HandleTerminal \/ MaintainRecovers
    BY <2>1, TerminalsKeep, HandleKeeps, RecoversKeeps
  <2>2. CASE LookForPending \/ TakeRecovery \/ TakeHeld \/ Validate \/ RunEvent \/ RunOther
    <3>1. lane' = lane /\ UNCHANGED <<history, active, origin, irq, reported, ended, nextOp>>
      BY <2>2 DEF LookForPending, TakeRecovery, TakeHeld, Validate, RunEvent, RunOther, ghosts
    <3>2. ~LoopAt("scan")
      BY <2>2 DEF LookForPending, TakeRecovery, TakeHeld, Validate, RunEvent, RunOther, Runs, LoopAt
    <3>3. ~LoopAt("scan")'
      <4>1. CASE LookForPending
        BY <4>1, LoopGoesFacts, AfterwardsFacts DEF LookForPending, LoopLabels, LoopAt
      <4>2. CASE TakeRecovery \/ TakeHeld
        BY <2>0, <4>2 DEF TakeRecovery, TakeHeld, LoopAt, LoopType
      <4>3. CASE Validate \/ RunEvent \/ RunOther
        BY <4>3, LoopGoesFacts DEF Validate, RunEvent, RunOther, Runs, LoopLabels, LoopAt
      <4> QED BY <2>2, <4>1, <4>2, <4>3
    <3> QED BY <3>1, <3>2, <3>3, QuietSteps
  <2>3. CASE Reserve \/ RestartReception
    <3>1. lane'.pending = lane.pending /\ UNCHANGED <<history, active, origin, irq, reported, ended, nextOp>>
      BY <2>0, <2>3 DEF Reserve, RestartReception, Release, LaneType, ghosts
    <3>2. ~LoopAt("scan")  BY <2>3 DEF Reserve, RestartReception, LoopAt
    <3>3. ~LoopAt("scan")'
      BY <2>3, LoopGoesFacts, TopFacts DEF Reserve, RestartReception, LoopLabels, LoopAt
    <3> QED BY <3>1, <3>2, <3>3, QuietSteps
  <2>4. CASE ChooseWork
    <3>1. lane' = lane /\ UNCHANGED <<history, active, origin, irq, reported, ended, nextOp>> /\ ~LoopAt("scan")
      BY <2>4 DEF ChooseWork, LoopAt
    <3>2. ~LoopAt("scan")'
      <4>1. CASE Choice = "none"  BY <2>4, <4>1, LoopGoesFacts DEF ChooseWork, LoopLabels, LoopAt
      <4>2. CASE Choice # "none"  BY <2>0, <2>4, <4>2 DEF ChooseWork, LoopAt, LoopType
      <4> QED BY <4>1, <4>2
    <3> QED BY <3>1, <3>2, QuietSteps
  <2>5. CASE Hold
    <3>1. lane'.pending = lane.pending /\ UNCHANGED <<history, active, origin, irq, reported, ended, nextOp>>
      BY <2>0, <2>5 DEF Hold, Release, LaneType, ghosts
    <3>2. ~LoopAt("scan") /\ ~LoopAt("scan")'
      BY <2>5, AfterwardsFacts, TopFacts DEF Hold, LoopLabels, LoopAt
    <3> QED BY <3>1, <3>2, QuietSteps
  <2>6. CASE RunSend
    <3>1. UNCHANGED <<irq, reported>> /\ lane' = lane /\ loop.cmd.kind \in {"ack", "send"} /\ ~LoopAt("scan")
      BY <2>6 DEF RunSend, NeedsRadio, Runs, LoopAt
    <3>2. ~LoopAt("scan")'  BY <2>6, LoopGoesFacts DEF RunSend, Runs, LoopLabels, LoopAt
    <3>3. CASE Starts(loop.cmd.kind)  BY <3>1, <3>2, <3>3, StartKeeps
    <3>4. CASE ~Starts(loop.cmd.kind)  BY <2>6, <3>1, <3>2, <3>4, QuietSteps DEF RunSend
    <3> QED BY <3>3, <3>4
  <2>7. CASE MaintainSends \/ MaintainRests
    <3>1. UNCHANGED <<irq, reported>> /\ lane'.pending = lane.pending /\ ~LoopAt("scan")
      BY <2>0, <2>7 DEF MaintainSends, MaintainRests, Maintained, LaneType, LoopAt
    <3>2. ~LoopAt("scan")'  BY <2>7, TopFacts DEF MaintainSends, MaintainRests, Maintained, LoopAt
    <3>3. CASE MaintainSends  BY <3>1, <3>2, <3>3, StartKeeps DEF MaintainSends, MaintenanceSends
    <3>4. CASE MaintainRests  BY <3>1, <3>2, <3>4, QuietSteps DEF MaintainRests
    <3> QED BY <2>7, <3>3, <3>4
  <2> QED BY <1>3, <2>1, <2>2, <2>3, <2>4, <2>5, <2>6, <2>7 DEF LoopStep
<1> QED BY <1>1, <1>2, <1>3 DEF LaneNext

-----------------------------------------------------------------------------
(* What is in hand and what is still to restart reception.                 *)
(* The radio queue holds events; and a command under validation is the held*)
(* one, or nothing is held.                                                *)
WorkInv ==
  /\ \A k \in 1 .. Len(queues["radio"]) : queues["radio"][k].kind = "event"
  /\ loop.fromHeld => loop.pc \in {"validate", "run", "maintain"}
  /\ LoopAt("validate") => held = IF loop.fromHeld THEN loop.cmd ELSE NoCommand

AckQueued == \E k \in DOMAIN queues["priority"] : queues["priority"][k].kind = "ack"
HeldRestarts == held.kind \in {"event", "ack"}
HandRestarts == loop.pc \in {"validate", "run"} /\ loop.cmd.kind \in {"event", "ack"}
Remembered ==
  \/ Busy \/ rx.recovery
  \/ loop.rx /\ loop.pc \in {"reserve", "restart"}
  \/ queues["radio"] # <<>>
  \/ AckQueued \/ HeldRestarts \/ HandRestarts

LEMMA RememberedIs == DeafRadioIsRemembered <=> (rx.listening \/ Remembered)
  BY DEF DeafRadioIsRemembered, Remembered, AckQueued, HeldRestarts, HandRestarts, InHand

LEMMA QueueFacts ==
  ASSUME Typed
  PROVE  /\ \A q \in Lanes : queues[q] \in Seq(LaneCommands) /\ Len(queues[q]) \in Nat
                             /\ DOMAIN queues[q] = 1 .. Len(queues[q])
         /\ lane \in LaneType /\ loop \in LoopType /\ held \in LaneCommands /\ rx \in RxType
         /\ loop.cmd \in LaneCommands /\ loop.rx \in BOOLEAN /\ loop.fromHeld \in BOOLEAN
         /\ rx.recovery \in BOOLEAN /\ rx.listening \in BOOLEAN
  BY LenProperties DEF Typed, QueuesTyped, LoopTyped, RxTyped, LoopType, RxType

LEMMA WorkKept == ASSUME Typed, WorkInv, LaneNext PROVE WorkInv'
<1> USE DEF WorkInv, LoopAt
<1>0. loop \in LoopType /\ held \in LaneCommands /\ "radio" \in Lanes /\ Len(queues["radio"]) \in Nat
  BY QueueFacts DEF Lanes
<1>1. CASE UNCHANGED <<loop, held>> /\ (UNCHANGED queues \/ queues'["radio"] = queues["radio"])
  BY <1>1
<1>2. CASE \E kind \in {"send", "other"} : SendNormal(kind)
  <2> PICK kind \in {"send", "other"} : SendNormal(kind)  BY <1>2
  <2>1. [lane |-> "normal", kind |-> kind] \in LaneCommands /\ "normal" \in Lanes  BY DEF LaneCommands, Lanes
  <2>2. queues'["radio"] = queues["radio"]  BY <2>1, <1>0, EnqueueFacts DEF SendNormal
  <2> QED BY <1>1, <2>2 DEF SendNormal
<1>3. CASE \E kind \in {"send", "response"} : SendPriority(kind)
  <2>1. \A kind \in {"send", "response"} :
       [lane |-> "priority", kind |-> kind] \in LaneCommands /\ "priority" \in Lanes
    BY DEF LaneCommands, Lanes
  <2>2. queues'["radio"] = queues["radio"]  BY <1>0, <1>3, <2>1, EnqueueFacts DEF SendPriority
  <2> QED BY <1>1, <1>3, <2>2 DEF SendPriority
<1>4. CASE PacketArrives
  <2> DEFINE c == [lane |-> "radio", kind |-> "event"]
  <2>1. c \in LaneCommands /\ "radio" \in Lanes /\ c.kind = "event" BY DEF LaneCommands, Lanes
  <2> HIDE DEF c
  <2>2. CASE HasRoom("radio")
    <3>1. Enqueue("radio", c) /\ UNCHANGED <<loop, held>>  BY <1>4, <2>2 DEF PacketArrives, c
    <3>2. /\ Len(queues'["radio"]) = Len(queues["radio"]) + 1
          /\ \A k \in 1 .. Len(queues["radio"]) : queues'["radio"][k] = queues["radio"][k]
          /\ queues'["radio"][Len(queues["radio"]) + 1] = c
      BY <2>1, <2>2, <3>1, EnqueueFacts
    <3>3. \A k \in 1 .. Len(queues'["radio"]) : queues'["radio"][k].kind = "event"
      BY <1>0, <2>1, <3>2
    <3> QED BY <3>1, <3>3
  <2>3. CASE ~HasRoom("radio")  BY <1>1, <1>4, <2>3 DEF PacketArrives
  <2> QED BY <2>2, <2>3
<1>5. CASE IrqStep \/ \E how \in {"DONE", "TIMEOUT"} : Interrupt(how)
  BY <1>1, <1>5 DEF IrqStep, IrqClaims, IrqLatches, IrqOwnsSlot, IrqStores, Interrupt
<1>6. CASE LoopStep
  <2>1. CASE UNCHANGED queues /\ loop'.fromHeld = FALSE /\ loop'.pc # "validate"
    BY <2>1
  <2>2. CASE TakeTerminals \/ TakeRecovery
    <3>1. /\ loop'.fromHeld = loop.fromHeld /\ loop'.pc # "validate" /\ UNCHANGED queues
          /\ ~loop.fromHeld
      BY <1>0, <2>2 DEF TakeTerminals, TakeRecovery, LoopType
    <3> QED BY <1>0, <2>1, <3>1
  <2>3. CASE ScanIncomplete \/ HandleTerminal \/ LookForPending \/ Reserve \/ RestartReception \/ Hold
    <3>0. ~loop.fromHeld \/ Hold  BY <2>3 DEF ScanIncomplete, HandleTerminal, LookForPending, Reserve, RestartReception
    <3>1. UNCHANGED queues
      BY <2>3 DEF ScanIncomplete, HandleTerminal, LookForPending, Reserve, RestartReception, Hold
    <3>2. loop'.fromHeld = FALSE /\ loop'.pc # "validate"
      <4>1. CASE ScanIncomplete \/ HandleTerminal
        BY <3>0, <4>1, <1>0, LoopGoesFacts DEF ScanIncomplete, HandleTerminal, LoopLabels, LoopType
      <4>2. CASE LookForPending
        BY <4>2, <1>0, LoopGoesFacts, AfterwardsFacts DEF LookForPending, LoopLabels, LoopType
      <4>3. CASE Reserve \/ RestartReception
        BY <4>3, <1>0, LoopGoesFacts, TopFacts DEF Reserve, RestartReception, LoopLabels, LoopType
      <4>4. CASE Hold  BY <4>4, TopFacts, AfterwardsFacts DEF Hold, LoopLabels
      <4> QED BY <2>3, <4>1, <4>2, <4>3, <4>4
    <3> QED BY <2>1, <3>1, <3>2
  <2>4. CASE ChooseWork
    <3>1. CASE Choice = "none"
      BY <1>0, <2>1, <2>4, <3>1, LoopGoesFacts DEF ChooseWork, LoopLabels, LoopType
    <3>2. CASE Choice # "none"
      <4>1. /\ loop'.fromHeld = loop.fromHeld /\ held = NoCommand /\ held' = held /\ ~loop.fromHeld
        BY <1>0, <2>4, <3>2 DEF ChooseWork, LoopType
      <4>2. Choice \in Lanes /\ queues[Choice] # <<>>  BY <3>2, ChoiceFacts
      <4>3. queues' = [queues EXCEPT ![Choice] = Tail(@)]  BY <2>4, <3>2 DEF ChooseWork
      <4>4. \A k \in 1 .. Len(queues'["radio"]) : queues'["radio"][k].kind = "event"
        <5>1. CASE Choice = "radio"
          <6>1. /\ Len(queues'["radio"]) = Len(queues["radio"]) - 1
                /\ \A k \in 1 .. Len(queues["radio"]) - 1 : queues'["radio"][k] = queues["radio"][k + 1]
            BY <4>2, <4>3, <5>1, TailFacts
          <6> QED BY <1>0, <6>1
        <5>2. CASE Choice # "radio"
          <6>1. queues'["radio"] = queues["radio"]  BY <1>0, <4>2, <4>3, <5>2, TailFacts
          <6> QED BY <6>1
        <5> QED BY <5>1, <5>2
      <4> QED BY <4>1, <4>4
    <3> QED BY <3>1, <3>2
  <2>5. CASE TakeHeld
    <3>1. loop'.fromHeld = TRUE /\ loop'.pc = "validate" /\ loop'.cmd = held /\ held' = held /\ UNCHANGED queues
      BY <1>0, <2>5 DEF TakeHeld, LoopType
    <3> QED BY <3>1
  <2>6. CASE Validate
    <3>1. loop'.pc = "run" /\ UNCHANGED queues  BY <2>6, LoopGoesFacts DEF Validate, LoopLabels
    <3> QED BY <3>1
  <2>7. CASE RunEvent \/ RunSend \/ RunOther
    <3>1. loop'.pc = "maintain"  BY <2>7, LoopGoesFacts DEF RunEvent, RunSend, RunOther, Runs, LoopLabels
    <3>2. UNCHANGED queues \/ queues'["radio"] = queues["radio"]
      BY <1>0, <2>7, AckFacts DEF RunEvent, RunSend, RunOther
    <3> QED BY <3>1, <3>2
  <2>8. CASE MaintainRecovers \/ MaintainSends \/ MaintainRests
    <3>1. loop' = TopOfLoop /\ UNCHANGED queues
      BY <2>8 DEF MaintainRecovers, MaintainSends, MaintainRests, Maintained
    <3> QED BY <2>1, <3>1, TopFacts
  <2> QED BY <1>6, <2>2, <2>3, <2>4, <2>5, <2>6, <2>7, <2>8 DEF LoopStep
<1> QED BY <1>2, <1>3, <1>4, <1>5, <1>6 DEF LaneNext

(* DeafRadioIsRemembered, by the kinds of what is queued, held and in hand.*)
DeafInv == rx.listening \/ Remembered

(* Steps that change neither the radio nor what is in hand: the queues     *)
(* only grow.                                                              *)
LEMMA QuietForRx ==
  ASSUME Typed, DeafInv, UNCHANGED <<active, rx, loop, held>>,
         queues["radio"] # <<>> => queues'["radio"] # <<>>, AckQueued => AckQueued'
  PROVE  DeafInv'
  BY DEF DeafInv, Remembered, Busy, HeldRestarts, HandRestarts

LEMMA SendsKeepAcks ==
  ASSUME Typed, NEW q \in Lanes, NEW c \in LaneCommands, HasRoom(q), Enqueue(q, c)
  PROVE  /\ queues["radio"] # <<>> => queues'["radio"] # <<>>
         /\ AckQueued => AckQueued'
<1>1. "radio" \in Lanes /\ "priority" \in Lanes  BY DEF Lanes
<1>2. /\ \A p \in Lanes : queues'[p] \in Seq(LaneCommands) /\ DOMAIN queues'[p] = 1 .. Len(queues'[p])
                          /\ Len(queues[p]) \in Nat
      /\ \A p \in Lanes : DOMAIN queues[p] = 1 .. Len(queues[p])
  BY EnqueueFacts, QueueFacts, LenProperties DEF QueuesTyped
<1>3. \A p \in Lanes : /\ Len(queues'[p]) >= Len(queues[p])
                       /\ \A k \in 1 .. Len(queues[p]) : queues'[p][k] = queues[p][k]
  BY <1>2, EnqueueFacts
<1>4. queues["radio"] # <<>> => queues'["radio"] # <<>>
  BY <1>1, EnqueueFacts
<1>5. ASSUME AckQueued PROVE AckQueued'
  <2> PICK k \in 1 .. Len(queues["priority"]) : queues["priority"][k].kind = "ack"
    BY <1>1, <1>2, <1>5 DEF AckQueued
  <2>1. k \in 1 .. Len(queues'["priority"]) /\ queues'["priority"][k].kind = "ack"
    BY <1>1, <1>2, <1>3
  <2> QED BY <1>1, <1>2, <2>1 DEF AckQueued
<1> QED BY <1>4, <1>5

LEMMA OutsideKeepsDeaf ==
  ASSUME Typed, DeafInv,
         \/ \E kind \in {"send", "other"} : SendNormal(kind)
         \/ (\E kind \in {"send", "response"} : SendPriority(kind)) \/ PacketArrives \/ IrqStep
         \/ \E how \in {"DONE", "TIMEOUT"} : Interrupt(how)
  PROVE  DeafInv'
<1>1. CASE \E kind \in {"send", "other"} : SendNormal(kind)
  <2> PICK kind \in {"send", "other"} : SendNormal(kind)  BY <1>1
  <2>1. [lane |-> "normal", kind |-> kind] \in LaneCommands /\ "normal" \in Lanes  BY DEF LaneCommands, Lanes
  <2> QED BY <2>1, SendsKeepAcks, QuietForRx DEF SendNormal
<1>2. CASE \E kind \in {"send", "response"} : SendPriority(kind)
  <2>1. \A kind \in {"send", "response"} :
       [lane |-> "priority", kind |-> kind] \in LaneCommands /\ "priority" \in Lanes
    BY DEF LaneCommands, Lanes
  <2> QED BY <1>2, <2>1, SendsKeepAcks, QuietForRx DEF SendPriority
<1>3. CASE PacketArrives
  <2> DEFINE c == [lane |-> "radio", kind |-> "event"]
  <2>1. c \in LaneCommands /\ "radio" \in Lanes  BY DEF LaneCommands, Lanes
  <2>2. CASE HasRoom("radio")
    <3>1. Enqueue("radio", c)  BY <1>3, <2>2 DEF PacketArrives
    <3> HIDE DEF c
    <3>2. queues'["radio"] # <<>>  BY <2>1, <2>2, <3>1, EnqueueFacts
    <3> QED BY <3>2 DEF DeafInv, Remembered
  <2>3. CASE ~HasRoom("radio")
    <3>1. rx'.recovery = TRUE  BY <1>3, <2>3 DEF PacketArrives
    <3> QED BY <3>1 DEF DeafInv, Remembered
  <2> QED BY <2>2, <2>3
<1>4. CASE IrqStep \/ \E how \in {"DONE", "TIMEOUT"} : Interrupt(how)
  <2>1. UNCHANGED <<active, rx, loop, held, queues>>
    BY <1>4 DEF IrqStep, IrqClaims, IrqLatches, IrqOwnsSlot, IrqStores, Interrupt
  <2> QED BY <2>1, QuietForRx DEF AckQueued
<1> QED BY <1>1, <1>2, <1>3, <1>4

(* A step that takes the loop from a position where nothing is in hand.    *)
LEMMA EmptyHanded ==
  ASSUME Typed, DeafInv, UNCHANGED <<active, held, queues>>, ~HandRestarts,
         loop.rx /\ loop.pc \in {"reserve", "restart"} =>
           rx'.recovery \/ (loop'.rx /\ loop'.pc \in {"reserve", "restart"}),
         rx'.listening = rx.listening, rx.recovery => rx'.recovery
  PROVE  DeafInv'
<1>1. AckQueued => AckQueued'  BY DEF AckQueued
<1> QED BY <1>1 DEF DeafInv, Remembered, Busy, HeldRestarts

LEMMA ChooseKeepsDeaf == ASSUME Typed, WorkInv, DeafInv, ChooseWork PROVE DeafInv'
<1>0. /\ loop.pc = "choose" /\ held = NoCommand /\ UNCHANGED <<active, held, rx>>
      /\ "radio" \in Lanes /\ "priority" \in Lanes /\ loop \in LoopType
  BY QueueFacts DEF ChooseWork, LoopAt, Lanes
<1>1. CASE Choice = "none"
  <2>1. UNCHANGED queues /\ loop'.pc = "maintain"
    BY <1>1, LoopGoesFacts DEF ChooseWork, LoopLabels
  <2> QED BY <1>0, <2>1, EmptyHanded DEF HandRestarts
<1>2. CASE Choice # "none"
  <2> PICK q \in Lanes : q = Choice  BY <1>2, ChoiceFacts
  <2>1. /\ queues[q] # <<>> /\ queues' = [queues EXCEPT ![q] = Tail(@)]
        /\ loop' = [loop EXCEPT !.pc = "validate", !.cmd = Head(queues[q])]
    BY <1>2, ChoiceFacts DEF ChooseWork
  <2>2. loop'.pc = "validate" /\ loop'.cmd = queues[q][1]
    BY <1>0, <2>1, TailFacts DEF LoopType
  <2>3. CASE q = "radio"
    <3>1. loop'.cmd.kind = "event"
      BY <2>1, <2>2, <2>3, TailFacts DEF WorkInv
    <3> QED BY <2>2, <3>1 DEF DeafInv, Remembered, HandRestarts
  <2>4. CASE q # "radio"
    <3>1. queues'["radio"] = queues["radio"]  BY <1>0, <2>1, <2>4, TailFacts
    <3>2. ASSUME AckQueued PROVE AckQueued' \/ HandRestarts'
      <4> PICK k \in 1 .. Len(queues["priority"]) : queues["priority"][k].kind = "ack"
        BY <1>0, <3>2, QueueFacts DEF AckQueued
      <4>1. CASE q # "priority"
        <5>1. queues'["priority"] = queues["priority"]  BY <1>0, <2>1, <4>1, TailFacts
        <5> QED BY <3>2, <5>1 DEF AckQueued
      <4>2. CASE q = "priority" /\ k = 1
        BY <2>2, <4>2 DEF HandRestarts
      <4>3. CASE q = "priority" /\ k # 1
        <5>1. /\ Len(queues'["priority"]) = Len(queues["priority"]) - 1 /\ Len(queues["priority"]) \in Nat
              /\ \A j \in 1 .. Len(queues["priority"]) - 1 : queues'["priority"][j] = queues["priority"][j + 1]
              /\ queues'["priority"] \in Seq(LaneCommands)
          BY <1>0, <2>1, <4>3, TailFacts DEF QueuesTyped
        <5>2. k - 1 \in 1 .. Len(queues'["priority"]) /\ queues'["priority"][k - 1].kind = "ack"
          BY <4>3, <5>1
        <5> QED BY <5>1, <5>2, LenProperties DEF AckQueued
      <4> QED BY <4>1, <4>2, <4>3
    <3>3. Busy' <=> Busy  BY <1>0 DEF Busy
    <3> QED BY <1>0, <3>1, <3>2, <3>3 DEF DeafInv, Remembered, HeldRestarts, HandRestarts
  <2> QED BY <2>3, <2>4
<1> QED BY <1>1, <1>2

LEMMA LoopKeepsDeaf == ASSUME Typed, WorkInv, DeafInv, LoopStep PROVE DeafInv'
<1>0. loop \in LoopType /\ rx \in RxType /\ rx.recovery \in BOOLEAN /\ rx.listening \in BOOLEAN
  BY QueueFacts
<1>1. CASE TakeTerminals \/ ScanIncomplete \/ LookForPending
  <2>1. UNCHANGED <<active, held, queues, rx>>
    BY <1>1 DEF TakeTerminals, ScanIncomplete, LookForPending, ghosts
  <2>2. loop.pc \in {"take", "scan", "look"}
    BY <1>1 DEF TakeTerminals, ScanIncomplete, LookForPending, LoopAt
  <2> QED BY <2>1, <2>2, EmptyHanded DEF HandRestarts
<1>2. CASE HandleTerminal
  <2> PICK k \in loop.pending :
        IF history[k].op = active.op THEN Ends(active.op, history[k].term)
        ELSE UNCHANGED <<active, ended, rx, ackPending>>
    BY <1>2 DEF HandleTerminal
  <2>1. UNCHANGED <<held, queues>> /\ loop.pc = "scan"  BY <1>2 DEF HandleTerminal, LoopAt
  <2>2. CASE Ends(active.op, history[k].term)
    <3>1. rx'.listening = TRUE  BY <2>2 DEF Ends
    <3> QED BY <3>1 DEF DeafInv
  <2>3. CASE UNCHANGED <<active, rx>>
    BY <2>1, <2>3, EmptyHanded DEF HandRestarts
  <2> QED BY <2>2, <2>3
<1>3. CASE TakeRecovery
  <2>1. /\ rx'.recovery = (rx.recovery /\ Busy) /\ rx'.listening = rx.listening
        /\ loop'.pc = "reserve" /\ loop'.rx = (rx.recovery /\ ~Busy)
        /\ UNCHANGED <<active, held, queues>> /\ loop.pc = "recovery"
    BY <1>0, <1>3 DEF TakeRecovery, RxType, LoopType, LoopAt
  <2>2. AckQueued' <=> AckQueued  BY <2>1 DEF AckQueued
  <2>3. Busy' <=> Busy  BY <2>1 DEF Busy
  <2> QED BY <2>1, <2>2, <2>3 DEF DeafInv, Remembered, HeldRestarts, HandRestarts
<1>4. CASE Reserve
  <2>1. UNCHANGED <<active, held, queues>> /\ loop.pc = "reserve"  BY <1>4 DEF Reserve, LoopAt
  <2>2. CASE UNCHANGED rx /\ LoopGoes(IF loop.rx THEN "restart" ELSE "choose")
    <3>1. loop.rx => loop'.rx /\ loop'.pc = "restart"  BY <2>2, LoopGoesFacts DEF LoopLabels
    <3> QED BY <2>1, <2>2, <3>1, EmptyHanded DEF HandRestarts
  <2>3. CASE rx' = PutBack
    <3>1. rx'.listening = rx.listening /\ (rx.recovery => rx'.recovery) /\ (loop.rx => rx'.recovery)
      BY <2>3, PutBackFacts
    <3>2. ~HandRestarts  BY <2>1 DEF HandRestarts
    <3>3. CASE rx.recovery \/ loop.rx  BY <3>1, <3>3 DEF DeafInv, Remembered
    <3>4. CASE ~(rx.recovery \/ loop.rx)  BY <2>1, <3>1, <3>2, <3>4, EmptyHanded
    <3> QED BY <3>3, <3>4
  <2> QED BY <1>4, <2>2, <2>3 DEF Reserve
<1>5. CASE RestartReception
  <2>1. UNCHANGED <<active, held, queues>> /\ loop.pc = "restart"  BY <1>5 DEF RestartReception, LoopAt
  <2>2. CASE rx' = RestartedRx
    BY <2>1, <2>2, RestartedFacts DEF DeafInv, Remembered, Busy
  <2>3. CASE rx' = PutBack
    <3>1. rx'.listening = rx.listening /\ (rx.recovery => rx'.recovery) /\ (loop.rx => rx'.recovery)
      BY <2>3, PutBackFacts
    <3>2. ~HandRestarts  BY <2>1 DEF HandRestarts
    <3>3. CASE rx.recovery \/ loop.rx  BY <3>1, <3>3 DEF DeafInv, Remembered
    <3>4. CASE ~(rx.recovery \/ loop.rx)  BY <2>1, <3>1, <3>2, <3>4, EmptyHanded
    <3> QED BY <3>3, <3>4
  <2> QED BY <1>5, <2>2, <2>3 DEF RestartReception
<1>6. CASE ChooseWork  BY <1>6, ChooseKeepsDeaf
<1>7. CASE TakeHeld
  <2>1. UNCHANGED <<active, held, queues, rx>> /\ loop.pc = "choose"  BY <1>7 DEF TakeHeld, LoopAt, ghosts
  <2> QED BY <2>1, EmptyHanded DEF HandRestarts
<1>8. CASE Hold
  <2>1. UNCHANGED <<active, queues, rx>> /\ loop.pc = "validate" /\ held' = loop.cmd
    BY <1>8 DEF Hold, LoopAt, ghosts
  <2>2. held = loop.cmd \/ held.kind = "none"  BY <2>1 DEF WorkInv, LoopAt, NoCommand
  <2>3. AckQueued' <=> AckQueued  BY <2>1 DEF AckQueued
  <2>4. Busy' <=> Busy  BY <2>1 DEF Busy
  <2> QED BY <2>1, <2>2, <2>3, <2>4 DEF DeafInv, Remembered, HeldRestarts, HandRestarts
<1>9. CASE Validate
  <2>1. UNCHANGED <<active, queues, rx>> /\ loop.pc = "validate"  BY <1>9 DEF Validate, LoopAt, ghosts
  <2>2. loop'.pc = "run" /\ loop'.cmd = loop.cmd  BY <1>9, LoopGoesFacts DEF Validate, LoopLabels
  <2>3. held = loop.cmd \/ held.kind = "none"  BY <2>1 DEF WorkInv, LoopAt, NoCommand
  <2>4. AckQueued' <=> AckQueued  BY <2>1 DEF AckQueued
  <2>5. Busy' <=> Busy  BY <2>1 DEF Busy
  <2> QED BY <2>1, <2>2, <2>3, <2>4, <2>5 DEF DeafInv, Remembered, HeldRestarts, HandRestarts
<1>10. CASE RunEvent
  <2>1. CASE ReservesAck
    <3>1. AckQueued'  BY <2>1, AckFacts DEF AckQueued
    <3> QED BY <3>1 DEF DeafInv, Remembered
  <2>2. CASE rx' = RestartedRx
    <3>1. Busy' <=> Busy  BY <1>10 DEF RunEvent, Busy
    <3> QED BY <2>2, <3>1, RestartedFacts DEF DeafInv, Remembered
  <2> QED BY <1>10, <2>1, <2>2 DEF RunEvent
<1>11. CASE RunSend
  <2>1. loop.cmd.kind \in {"ack", "send"} /\ loop.pc = "run" /\ UNCHANGED <<queues, held>>
    BY <1>11 DEF RunSend, NeedsRadio, Runs, LoopAt
  <2>2. CASE Starts(loop.cmd.kind)
    <3>1. Busy'  BY <2>1, <2>2, StartsFacts, Numbers DEF Busy
    <3> QED BY <3>1 DEF DeafInv, Remembered
  <2>3. CASE ~Starts(loop.cmd.kind) /\ loop.cmd.kind = "ack"
    <3>1. rx' = RestartedRx /\ UNCHANGED active  BY <1>11, <2>3 DEF RunSend
    <3> QED BY <3>1, RestartedFacts DEF DeafInv, Remembered, Busy
  <2>4. CASE ~Starts(loop.cmd.kind) /\ loop.cmd.kind # "ack"
    <3>1. UNCHANGED <<rx, active>>  BY <1>11, <2>4 DEF RunSend
    <3>2. ~HandRestarts  BY <2>1, <2>4 DEF HandRestarts
    <3> QED BY <2>1, <3>1, <3>2, EmptyHanded
  <2> QED BY <2>2, <2>3, <2>4
<1>12. CASE RunOther
  <2>1. loop.cmd.kind \in {"response", "other"} /\ loop.pc = "run" /\ UNCHANGED <<queues, held, active>>
    BY <1>12 DEF RunOther, Runs, LoopAt, ghosts
  <2>2. CASE UNCHANGED rx  BY <2>1, <2>2, EmptyHanded DEF HandRestarts
  <2>3. CASE rx' = RestartedRx
    BY <2>1, <2>3, RestartedFacts DEF DeafInv, Remembered, Busy
  <2> QED BY <1>12, <2>2, <2>3 DEF RunOther
<1>13. CASE MaintainRecovers
  <2>1. rx'.listening = TRUE  BY <1>13 DEF MaintainRecovers, WatchdogRecovers, Ends
  <2> QED BY <2>1 DEF DeafInv
<1>14. CASE MaintainSends
  <2>1. Busy'  BY <1>14, StartsFacts, Numbers DEF MaintainSends, MaintenanceSends, Busy
  <2> QED BY <2>1 DEF DeafInv, Remembered
<1>15. CASE MaintainRests
  <2>1. UNCHANGED <<active, held, queues, rx>> /\ loop.pc = "maintain"
    BY <1>15 DEF MaintainRests, Maintained, LoopAt
  <2> QED BY <2>1, EmptyHanded DEF HandRestarts
<1> QED BY <1>1, <1>2, <1>3, <1>4, <1>5, <1>6, <1>7, <1>8, <1>9, <1>10, <1>11, <1>12, <1>13, <1>14, <1>15
    DEF LoopStep

-----------------------------------------------------------------------------
LaneInv == Typed /\ RadioInv /\ BurstInv /\ WorkInv /\ DeafInv

LEMMA InitInv == LaneInit => LaneInv
<1> SUFFICES ASSUME LaneInit PROVE LaneInv
  OBVIOUS
<1> USE DEF LaneInit
<1>1. RadioTyped
  <2>1. history \in [HistorySlots -> EntryType]  BY Numbers DEF EntryType, Terms
  <2> QED BY <2>1, Numbers DEF RadioTyped, ActiveType, Silent, IrqType, NoIrq, Terms
<1>2. LoopTyped  BY TopFacts DEF LoopTyped, LaneType
<1>3. RxTyped  BY DEF RxTyped, RxType
<1>4. QueuesTyped /\ \A q \in Lanes : queues[q] = <<>>
  BY Numbers, EmptySeq DEF QueuesTyped
<1>5. BurstTyped /\ BurstInv /\ burst.radio = 0 /\ burst.priority = 0
  <2>1. burst.radio = 0 /\ burst.priority = 0 /\ burst \in BurstType  BY Numbers DEF BurstType
  <2>2. passedOver \in PassedType /\ passedOver.works = 0 /\ passedOver.acks = 0
    BY Numbers DEF PassedType, NoneBefore
  <2>3. Weight(burst) \in Nat /\ FullWeight \in Nat  BY <2>1, WeightOf
  <2> QED BY <2>1, <2>2, <2>3, Numbers DEF BurstTyped, BurstInv, Reached
<1>6. active.op = 0 /\ irq.pc = "idle" /\ loop.pc = "take" /\ ~loop.fromHeld /\ lane.pending = {} /\ rx.listening
  BY TopFacts DEF Silent, NoIrq
<1>7. RadioInv
  <2>1. OperationsInv  BY <1>6, Numbers DEF OperationsInv, OutcomeIsTheRadios, Busy
  <2>2. InterruptInv /\ CallbackInv  BY <1>6 DEF InterruptInv, CallbackInv, Busy, Reporting
  <2>3. BitsInv  BY <1>6 DEF BitsInv, InTheLane, LoopAt, Busy
  <2> QED BY <2>1, <2>2, <2>3 DEF RadioInv
<1>8. WorkInv
  <2>1. Len(queues["radio"]) = 0  BY <1>4, EmptySeq DEF Lanes
  <2> QED BY <1>6, <2>1 DEF WorkInv, LoopAt
<1>9. DeafInv  BY <1>6 DEF DeafInv
<1> QED BY <1>1, <1>2, <1>3, <1>4, <1>5, <1>7, <1>8, <1>9 DEF LaneInv, Typed

LEMMA StepInv == LaneInv /\ [LaneNext]_laneVars => LaneInv'
<1> SUFFICES ASSUME LaneInv, [LaneNext]_laneVars PROVE LaneInv'
  OBVIOUS
<1> USE DEF LaneInv
<1>1. CASE LaneNext
  <2>1. Typed'  BY <1>1, TypedKept
  <2>2. RadioInv' /\ WorkInv' /\ BurstInv'  BY <1>1, RadioKept, WorkKept, BurstKept
  <2>3. DeafInv'  BY <1>1, OutsideKeepsDeaf, LoopKeepsDeaf DEF LaneNext
  <2> QED BY <2>1, <2>2, <2>3
<1>2. CASE UNCHANGED laneVars
  <2> USE <1>2 DEF laneVars
  <2>1. Typed'
    BY DEF Typed, RadioTyped, LoopTyped, RxTyped, QueuesTyped, BurstTyped
  <2>2. RadioInv'  BY QuietSteps
  <2>3. BurstInv' /\ WorkInv'  BY DEF BurstInv, Reached, Weight, FullWeight, WorkInv, LoopAt
  <2>4. DeafInv'  BY QuietForRx DEF AckQueued
  <2> QED BY <2>1, <2>2, <2>3, <2>4
<1> QED BY <1>1, <1>2

(* The invariant: whatever order the interrupt task, the senders and       *)
(* meshcore_service_task interleave in, however late an interrupt comes and*)
(* whatever the watchdog takes back.                                       *)
THEOREM LaneInvariant == LaneSpec => []LaneInv
  BY InitInv, StepInv, PTL DEF LaneSpec

(* The lane word, the history, positions, commands, the lengths of the     *)
(* queues and the scheduler's counters keep their types.                   *)
THEOREM LaneTyping == LaneSpec => []LaneTypeOK
<1>1. LaneInv => LaneTypeOK  BY TypedIsTypeOK DEF LaneInv
<1> QED BY <1>1, LaneInvariant, PTL

(* An operation is recorded with the end the radio reported for it, or as  *)
(* timed out if it reported none, however late the interrupts of earlier   *)
(* operations are (meshcore_radio_terminal_matches and the origins of the  *)
(* patched driver).                                                        *)
THEOREM OutcomeHolds == LaneSpec => []OutcomeIsTheRadios
<1>1. LaneInv => OutcomeIsTheRadios  BY RadioImplies DEF LaneInv
<1> QED BY <1>1, LaneInvariant, PTL

(* A reported end that is not recorded yet is with the interrupt task, in  *)
(* the lane word, or among the bits being scanned, though the bits are     *)
(* cleared before the slots are read.                                      *)
THEOREM TerminalArrives == LaneSpec => []TerminalIsOnItsWay
<1>1. LaneInv => TerminalIsOnItsWay  BY RadioImplies DEF LaneInv
<1> QED BY <1>1, LaneInvariant, PTL

(* The two burst counters of d1l_mesh_owner_scheduler_choose bound what may*)
(* run before a waiting normal command, for every setting of the bursts;   *)
(* every ACK that is sent out of turn adds itself and one burst of radio   *)
(* events, and nothing bounds the number of those.                         *)
THEOREM NormalIsServed == LaneSpec => []NormalIsNotStarved
<1>1. LaneInv => NormalIsNotStarved
  <2> SUFFICES ASSUME LaneInv PROVE NormalIsNotStarved
    OBVIOUS
  <2>1. burst \in BurstType /\ passedOver.works \in Nat /\ passedOver.acks \in Nat
    BY Numbers DEF LaneInv, Typed, BurstTyped, PassedType
  <2>2. Weight(burst) \in Nat /\ FullWeight \in Nat /\ Weight(burst) <= FullWeight  BY <2>1, WeightOf
  <2>3. Reached \in Nat /\ Reached <= FullWeight  BY <2>2 DEF Reached
  <2>4. passedOver.acks * (RadioBurst + 1) \in Nat  BY <2>1, OneMore, Numbers
  <2>5. passedOver.works <= FullWeight + passedOver.acks * (RadioBurst + 1)
    BY <2>1, <2>2, <2>3, <2>4 DEF LaneInv, BurstInv
  <2> QED BY <2>5 DEF NormalIsNotStarved, FullWeight
<1> QED BY <1>1, LaneInvariant, PTL

(* While the radio does not listen, a transmission is active, a recovery is*)
(* asked for, or an event or ACK is queued, held or in hand that restarts  *)
(* reception.                                                              *)
THEOREM DeafnessIsRemembered == LaneSpec => []DeafRadioIsRemembered
<1>1. LaneInv => DeafRadioIsRemembered  BY RememberedIs DEF LaneInv, DeafInv
<1> QED BY <1>1, LaneInvariant, PTL

(* When a command passes validation after the reservation of the lane,     *)
(* every reported end is recorded or not yet in the lane.                  *)
THEOREM TerminalsFirst == LaneSpec => TerminalGoesFirst
<1>1. LaneInv /\ [LaneNext]_laneVars =>
        [LoopAt("validate") /\ loop'.pc = "run" =>
           \A op \in Operations :
             reported[op] # "NONE" =>
               ended[op] # "NONE" \/ (irq.op = op /\ irq.pc = "latch")]_laneVars
  <2> SUFFICES ASSUME LaneInv, LaneNext, LoopAt("validate"), loop'.pc = "run"
               PROVE  lane.pending = {}
    BY RadioImplies DEF LaneInv, LoopAt
  <2>1. CASE Validate  BY <2>1 DEF Validate, Validated, StillReserved
  <2>2. CASE Hold
    <3>1. loop'.pc \in {"maintain", "take"}
      BY <2>2, AfterwardsFacts, TopFacts DEF Hold, LoopLabels
    <3> QED BY <3>1
  <2>3. CASE LoopStep /\ ~Validate /\ ~Hold
    BY <2>3 DEF LoopStep, TakeTerminals, ScanIncomplete, HandleTerminal, LookForPending, TakeRecovery,
       Reserve, RestartReception, ChooseWork, TakeHeld, RunEvent, RunSend, RunOther, Runs,
       MaintainRecovers, MaintainSends, MaintainRests, Maintained, LoopAt
  <2>4. CASE ~LoopStep
    <3>1. loop' = loop
      BY <2>4 DEF LaneNext, SendNormal, SendPriority, PacketArrives, Interrupt, IrqStep, IrqClaims,
         IrqLatches, IrqOwnsSlot, IrqStores
    <3> QED BY <3>1 DEF LoopAt
  <2> QED BY <2>1, <2>2, <2>3, <2>4
<1> QED BY <1>1, LaneInvariant, PTL DEF LaneSpec, TerminalGoesFirst
==============================================================================
