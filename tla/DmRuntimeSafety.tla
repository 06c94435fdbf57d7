--------------------------- MODULE DmRuntimeSafety ---------------------------
(***************************************************************************)
(* The safety invariants of DmRuntime, proved for any number of messages,  *)
(* faults, clears and power losses, from where the task may be             *)
(* (DmRuntimeProofs).  Each is strengthened by what holds at the points    *)
(* where the task is about to use it.                                      *)
(***************************************************************************)
EXTENDS DmRuntimeProofs

(* The rows of the owner's session are where the owner is, or one revision *)
(* ahead after an ACK was admitted.                                        *)
Tracks(r) ==
  /\ r.hash = owner.hash
  /\ IF Suppresses
     THEN r.st = "ACKNOWLEDGED" /\ r.rev = owner.rev + 1
     ELSE r.st = owner.state /\ r.rev = owner.rev
Fresh(r) ==
  r.st = "QUEUED" /\ r.rev = 1 /\ r.hash = AckHash(used.sessions, 0)

RowInv ==
  /\ \A r \in rows \union saved : r.id <= used.sessions
  /\ \A r \in rows : r.id = owner.session => Tracks(r)
  /\ task.pc \in AdmitPcs => \A r \in rows : r.id = used.sessions => Fresh(r)
  /\ OpenRowsAreOwned

(* Where the owner's attempt must have been on the air.                    *)
SentPcs == {"txDone", "await"} \union RetryPcs
SentStates == {"TX_DONE", "AWAITING_ACK", "RETRY_WAIT"}
WasSent == op.kind = "DM" \/ task.pc \in SentPcs \/ owner.state \in SentStates

SentInv ==
  /\ \A s \in Sessions : \A a \in {0, 1} : s > used.sessions => sent[AckHash(s, a)] = 0
  /\ task.pc = "begin" => \A a \in {0, 1} : sent[AckHash(used.sessions, a)] = 0
  /\ task.pc \in SendPcs => sent[owner.hash] = 0
  /\ OwnerActive(owner) =>
       IF tx.attempt = 0 THEN sent[AckHash(owner.session, 1)] = 0
                         ELSE sent[AckHash(owner.session, 0)] = 1
  /\ WasSent => sent[owner.hash] = 1
  /\ AttemptsSentOnce

(* What was saved before the radio started, and what a shown ACK rests on. *)
SavedTx(session, rev) ==
  \/ session \notin Ids(rows)
  \/ \E r \in saved : /\ r.id = session /\ r.rev = rev
                      /\ r.st = "TX_ACTIVE" /\ r.hash = owner.hash
Acked(copy, session) == \E r \in copy : r.id = session /\ r.st = "ACKNOWLEDGED"

ShownIsSaved == \A r \in rows : ShowsAck(r) => Acked(saved, r.id)

CopyInv ==
  /\ task.pc = "send" => SavedTx(owner.session, owner.rev)
  /\ SavedBeforeSend
  /\ ShownIsSaved

SavedInv == card => CopyInv

(* Without the card, a delivery is of a message that only RAM knows.       *)
LiveInv ==
  ~card => /\ OwnerActive(owner) => owner.session \in live
           /\ task.pc \in AdmitPcs => used.sessions \in live

CreditInv ==
  /\ \A s \in Sessions : s > used.sessions \/ s = owner.session => credits[s] = 0
  /\ task.pc \in AdmitPcs => credits[used.sessions] = 0
  /\ LiveInv
  /\ card => \A s \in Sessions : credits[s] > 0 => s \in cleared \union live \/ Acked(rows, s)
  /\ AckCreditedOnceSaved

-----------------------------------------------------------------------------
(* Rows.                                                                   *)

(* What a transition does to the rows: those of the owner's session move   *)
(* together, all others stay.                                              *)
SessionRow(q, next, hash) ==
  /\ q.id = owner.session /\ q.st = next /\ q.rev = owner.rev + 1 /\ q.hash = hash

LEMMA SessionMoves ==
  ASSUME TypeInv, ControlInv, RowInv, ~Suppresses,
         NEW next \in DeliveryStates, NEW hash \in AckHashes,
         CasHolds(next), rows' = Moved(next, hash)
  PROVE  /\ OwnerActive(owner) /\ owner.state # "ACKNOWLEDGED"
         /\ \A q \in rows' : \/ q \in rows /\ q.id # owner.session
                             \/ SessionRow(q, next, hash)
         /\ \A r \in rows : \/ r \in rows' /\ r.id # owner.session
                            \/ /\ r.id = owner.session /\ r.st = owner.state
                               /\ \E q \in rows' : SessionRow(q, next, hash)
  <1>1. OwnerActive(owner) /\ owner.state # "ACKNOWLEDGED"
    BY CasMeansActive DEF ControlInv, DeliveryInv, Terminal
  <1>2. \A r \in rows : Current(r) <=> r.id = owner.session
    BY DEF RowInv, Tracks, Current
  <1>3. \A r \in rows : r.id = owner.session =>
          SessionRow(MovedRow(r, next, hash), next, hash) /\ r.st = owner.state
    BY MovedFields DEF SessionRow, RowInv, Tracks, TypeInv
  <1>4. /\ \A q \in rows' : \E r \in rows :
             q = IF r.id = owner.session THEN MovedRow(r, next, hash) ELSE r
        /\ \A r \in rows :
             IF r.id = owner.session THEN MovedRow(r, next, hash) \in rows'
                                     ELSE r \in rows'
    BY <1>2, MovedIsSet
  <1>5. QED BY <1>1, <1>3, <1>4

LEMMA PendingRows ==
  ASSUME TypeInv, ControlInv, RowInv, NEW next, NEW ret, NEW attempt,
         Pending(next, ret, attempt), ret # "refused"
  PROVE  LET hash == AckHash(owner.session, attempt)
         IN /\ OwnerActive(owner) /\ owner.state # "ACKNOWLEDGED"
            /\ \A q \in rows' : \/ q \in rows /\ q.id # owner.session
                                \/ SessionRow(q, next, hash)
            /\ \A r \in rows : \/ r \in rows' /\ r.id # owner.session
                               \/ /\ r.id = owner.session /\ r.st = owner.state
                                  /\ \E q \in rows' : SessionRow(q, next, hash)
            /\ Saves
  <1>1. /\ CasHolds(next) /\ rows' = Moved(next, AckHash(owner.session, attempt))
        /\ Saves /\ ~Suppresses /\ next \in DeliveryStates /\ attempt \in {0, 1}
    BY DEF Pending, MoveStep, Stored, Saves
  <1>2. AckHash(owner.session, attempt) \in AckHashes
    BY <1>1, CasMeansActive, HashIsHash DEF TypeInv, OwnerType, OwnerActive
  <1>3. QED BY <1>1, <1>2, SessionMoves

LEMMA InitRows == Init => RowInv
  BY DEF Init, RowInv, OpenRowsAreOwned, AdmitPcs

(* The rows and the owner stay as they are.                                *)
LEMMA RowsKept ==
  ASSUME RowInv, UNCHANGED <<rows, owner, boot>>, used'.sessions = used.sessions,
         saved' \in {saved, rows}, Suppresses' <=> Suppresses,
         \/ task.pc \notin AdmitPcs /\ task'.pc \notin AdmitPcs
         \/ task.pc \in AdmitPcs /\ task'.pc \in AdmitPcs
  PROVE  RowInv'
  BY DEF RowInv, Tracks, Fresh, OpenRowsAreOwned, AdmitPcs

LEMMA PendingRowsKept ==
  ASSUME TypeInv, ControlInv, RowInv, NEW next, NEW ret, NEW attempt,
         Pending(next, ret, attempt)
  PROVE  RowInv'
  <1>1. /\ task.pc \notin AdmitPcs /\ task'.pc \notin AdmitPcs
        /\ ~Suppresses /\ ~Suppresses' /\ used' = used /\ boot' = boot
    BY DEF Pending, PcStep, MoveStep, others
  <1>2. CASE ret = "refused"
    BY <1>1, <1>2, RowsKept DEF Pending, MoveStep, Stored, store
  <1>3. CASE ret # "refused"
    <2> DEFINE hash == AckHash(owner.session, attempt)
    <2>1. /\ OwnerActive(owner) /\ Saves
          /\ \A q \in rows' : \/ q \in rows /\ q.id # owner.session
                              \/ SessionRow(q, next, hash)
      BY <1>3, PendingRows
    <2>2. \/ Terminal(next) /\ owner' = NoOwner
          \/ /\ ~Terminal(next)
             /\ owner'.session = owner.session /\ owner'.rev = owner.rev + 1
             /\ owner'.hash = hash /\ owner'.state = next
      BY <1>3 DEF Pending, MoveStep
    <2> HIDE DEF hash
    <2>3. owner.session <= used.sessions
      BY <2>1 DEF ControlInv, DeliveryInv
    <2>4. \A r \in rows' \union saved' : r.id <= used'.sessions
      BY <1>1, <2>1, <2>3 DEF RowInv, SessionRow, Saves
    <2>5. \A r \in rows' : r.id # NoSession
      BY RowIsTyped, PendingTyped DEF TypeInv
    <2>6. ASSUME NEW r \in rows', r.id = owner'.session PROVE Tracks(r)'
      BY <1>1, <2>1, <2>2, <2>5, <2>6, NothingIsTyped DEF SessionRow, Tracks
    <2>7. OpenRowsAreOwned'
      BY <1>1, <2>1, <2>2 DEF RowInv, OpenRowsAreOwned, SessionRow, AdmitPcs
    <2>8. QED BY <1>1, <2>4, <2>6, <2>7 DEF RowInv
  <1>4. QED BY <1>2, <1>3

LEMMA SendDmRows ==
  ASSUME TypeInv, ControlInv, RowInv, HandleSendDm
  PROVE  RowInv'
  <1>1. PICK n : NewRow(n, used'.sessions) /\ rows' = rows \union {n}
    BY SendDmKeeps
  <1>2. /\ used'.sessions = used.sessions + 1 /\ used.sessions \in Nat
        /\ Saves /\ task'.pc \in AdmitPcs /\ ~OwnerActive(owner)
        /\ UNCHANGED <<owner, boot>>
    BY SendDmKeeps DEF delivery, others, TypeInv, UsedType
  <1>3. ASSUME NEW r \in rows \union saved
        PROVE  r.id <= used.sessions /\ r.id \in Nat \ {0}
    BY RowIsTyped DEF RowInv, TypeInv
  <1>4. \A r \in rows' \union saved' : r.id <= used'.sessions
    BY <1>1, <1>2, <1>3 DEF NewRow, Saves
  <1>5. \A r \in rows' : r.id # owner'.session
    BY <1>1, <1>2, <1>3 DEF NewRow, OwnerActive, NoSession
  <1>6. \A r \in rows' : r.id = used'.sessions => Fresh(r)'
    BY <1>1, <1>2, <1>3 DEF NewRow, Fresh
  <1>7. task.pc \notin AdmitPcs
    BY DEF HandleSendDm, Ready, At, AdmitPcs
  <1>8. OpenRowsAreOwned'
    BY <1>1, <1>2, <1>7 DEF RowInv, OpenRowsAreOwned, NewRow, AdmitPcs
  <1>9. QED BY <1>4, <1>5, <1>6, <1>8 DEF RowInv

LEMMA DetachRows ==
  ASSUME TypeInv, ControlInv, RowInv, RecordDetachedFailure
  PROVE  RowInv'
  <1>1. /\ task.pc \in AdmitPcs /\ task'.pc \notin AdmitPcs /\ Saves
        /\ UNCHANGED <<owner, boot, used>>
    BY DetachKeeps DEF delivery, others, AdmitPcs, Tails
  <1>2. owner'.session = NoSession
    BY <1>1, NothingIsTyped DEF ControlInv, PcInv
  <1>3. \A q \in rows' : \/ q \in rows /\ ~Detached(q)
                         \/ \E r \in rows : Detached(r) /\ FailedRow(q, r)
    BY DetachKeeps
  <1>4. \A r \in rows' \union saved' : r.id <= used'.sessions
    BY <1>1, <1>3 DEF RowInv, FailedRow, Saves
  <1>5. \A r \in rows' : r.id # owner'.session
    BY <1>2, <1>3, RowIsTyped DEF FailedRow, TypeInv
  <1>6. \A r \in rows : r.id = used.sessions => Detached(r)
    BY <1>1 DEF RowInv, Fresh, Detached
  <1>7. OpenRowsAreOwned'
    BY <1>1, <1>2, <1>3, <1>6, RowIsTyped
       DEF RowInv, OpenRowsAreOwned, FailedRow, Terminal, TypeInv, ControlInv, PcInv
  <1>8. QED BY <1>1, <1>4, <1>5, <1>7 DEF RowInv

LEMMA NextRows ==
  ASSUME TypeInv, ControlInv, RowInv, [Next]_vars
  PROVE  RowInv'
  <1> USE DEF Tails, IdlePcs, AdmitPcs
  <1>0. \A r \in rows : r \in RowType /\ r.id # NoSession /\ r.id \in Nat
    BY RowIsTyped DEF TypeInv
  <1>1. CASE PendingAction
    BY <1>1, ActionIsPending, PendingRowsKept
  <1>2. CASE Waits
    <2>1. task.pc \notin AdmitPcs
      BY <1>2 DEF Waits, IdlePoll, BusQuiet, WatchdogNotDue, WatchdogRefused,
           MaintenanceCut, NoOrphan, NothingToReconcile, DeadlineNotDue, RxMessage,
           ReplyNotSent, Ready, At
    <2>2. QED
      BY <1>2, <2>1, WaitsKeep, RowsKept DEF store, delivery, others, Suppresses
  <1>3. CASE EndsOperation
    <2>1. task.pc \notin AdmitPcs
      BY <1>3 DEF EndsOperation, TakeTerminal, BusFault, WatchdogRecovers, At
    <2>2. task'.pc \notin AdmitPcs
      BY <1>3, EndKeeps
    <2>3. QED
      BY <1>3, <2>1, <2>2, EndKeeps, RowsKept DEF store, delivery, others, Suppresses
  <1>4. CASE HandleSendDm
    BY <1>4, SendDmRows
  <1>5. CASE RecordDetachedFailure
    BY <1>5, DetachRows
  <1>6. CASE RadioNotStarted
    BY <1>6, NotStartedKeeps, RowsKept DEF store, delivery, others, Suppresses
  <1>7. CASE BeginPending
    <2>1. /\ task.pc = "begin" /\ owner = NoOwner /\ task'.pc = "reserve"
          /\ ~Suppresses' /\ UNCHANGED <<rows, saved, boot, used>>
      BY <1>7, BeginKeeps DEF ControlInv, PcInv, store, others, Suppresses
    <2>2. \A r \in rows : r.id = owner'.session => Tracks(r)'
      BY <1>7, <2>1, BeginKeeps DEF RowInv, Fresh, Tracks
    <2>3. OpenRowsAreOwned'
      BY <1>0, <1>7, <2>1, BeginKeeps, NothingIsTyped DEF RowInv, OpenRowsAreOwned
    <2>4. QED BY <2>1, <2>2, <2>3 DEF RowInv
  <1>8. CASE Send
    BY <1>8, SendKeeps, RowsKept DEF store, delivery, Suppresses
  <1>9. CASE SendReply
    BY <1>9, ReplyKeeps, RowsKept DEF store, delivery, others, Suppresses
  <1>10. ASSUME NEW h \in AckHashes, RxAck(h) PROVE RowInv'
    <2>1. /\ task.pc = "loop" /\ task'.pc = "bus" /\ ~Suppresses
          /\ UNCHANGED <<saved, owner, boot, used>> /\ OwnerActive(owner)
      BY <1>10, RxAckKeeps DEF others
    <2>2. CASE UNCHANGED <<rows, mask>> /\ ~Suppresses'
      BY <2>1, <2>2, RowsKept
    <2>3. CASE /\ CasHolds("ACKNOWLEDGED") /\ rows' = Moved("ACKNOWLEDGED", owner.hash)
               /\ Suppresses'
      <3>1. owner.hash \in AckHashes /\ "ACKNOWLEDGED" \in DeliveryStates
        BY <2>1, HashIsHash
           DEF ControlInv, DeliveryInv, TypeInv, OwnerType, OwnerActive, TxType,
               DeliveryStates
      <3>2. \A q \in rows' : \/ q \in rows /\ q.id # owner.session
                             \/ SessionRow(q, "ACKNOWLEDGED", owner.hash)
        BY <2>1, <2>3, <3>1, SessionMoves
      <3>3. owner.session <= used.sessions
        BY <2>1 DEF ControlInv, DeliveryInv
      <3>4. \A r \in rows' \union saved' : r.id <= used'.sessions
        BY <2>1, <3>2, <3>3 DEF RowInv, SessionRow
      <3>5. \A r \in rows' : r.id = owner'.session => Tracks(r)'
        BY <2>1, <2>3, <3>2 DEF Tracks, SessionRow
      <3>6. OpenRowsAreOwned'
        BY <2>1, <3>2 DEF RowInv, OpenRowsAreOwned, SessionRow
      <3>7. QED BY <2>1, <3>4, <3>5, <3>6 DEF RowInv
    <2>4. QED BY <1>10, <2>2, <2>3, RxAckKeeps
  <1>11. CASE FinalizeAck
    <2>1. /\ task.pc = "reconcile" /\ task'.pc = "deadline" /\ owner' = NoOwner
          /\ Suppresses /\ UNCHANGED <<rows, saved, boot, used>>
      BY <1>11, FinalizeKeeps DEF store
    <2>2. \A r \in rows : r.id = owner.session => Terminal(r.st)
      BY <2>1 DEF RowInv, Tracks, Terminal
    <2>3. OpenRowsAreOwned'
      BY <1>0, <2>1, <2>2, NothingIsTyped DEF RowInv, OpenRowsAreOwned
    <2>4. QED BY <1>0, <2>1, <2>3, NothingIsTyped DEF RowInv
  <1>12. CASE DeadlineFails \/ RetryAsFlood
    <2>1. task.pc \notin AdmitPcs
      BY <1>12 DEF DeadlineFails, RetryAsFlood, DeadlineDue, At
    <2>2. task'.pc \notin AdmitPcs /\ ~Suppresses /\ ~Suppresses'
      BY <1>12, DeadlineKeeps DEF Suppresses
    <2>3. QED BY <1>12, <2>1, <2>2, DeadlineKeeps, RowsKept DEF store, others
  <1>13. CASE DriverEnds
    BY <1>13, RowsKept DEF DriverEnds, store, delivery, others, Suppresses
  <1>14. ASSUME NEW ok \in BOOLEAN, WorkerFlush(ok) PROVE RowInv'
    <2>1. saved' \in {saved, rows}
      BY <1>14, FlushSaves DEF WorkerFlush, Saves, TypeInv
    <2>2. QED BY <1>14, <2>1, RowsKept DEF WorkerFlush, delivery, others, Suppresses
  <1>15. CASE Clear
    BY <1>15, ClearKeeps DEF RowInv, OpenRowsAreOwned
  <1>16. CASE Crash
    <2>1. /\ \A q \in rows' : \E r \in saved : q.id = r.id
          /\ owner' = NoOwner /\ boot' = used.sessions /\ saved' = saved
          /\ used'.sessions = used.sessions /\ task'.pc = "loop"
      BY <1>16, CrashKeeps
    <2>2. \A r \in rows' : r.id <= used.sessions
      BY <2>1 DEF RowInv
    <2>3. \A r \in rows' : r.id # NoSession
      BY <1>16, CrashKeeps, RowIsTyped
    <2>4. QED
      BY <2>1, <2>2, <2>3, NothingIsTyped DEF RowInv, OpenRowsAreOwned
  <1>17. CASE UNCHANGED vars
    BY <1>17, RowsKept DEF vars, store, delivery, others, Suppresses
  <1>18. QED
    BY NextCases, <1>1, <1>2, <1>3, <1>4, <1>5, <1>6, <1>7, <1>8, <1>9, <1>10, <1>11,
       <1>12, <1>13, <1>14, <1>15, <1>16, <1>17

LEMMA RowsTracked == Spec => [](TypeInv /\ ControlInv /\ RowInv)
  <1>1. Init => RowInv
    BY InitRows
  <1>2. TypeInv /\ ControlInv /\ RowInv /\ [Next]_vars => RowInv'
    BY NextRows
  <1>3. QED BY Controlled, <1>1, <1>2, PTL DEF Spec

(* The owner and its row never drift apart, so a transition is refused     *)
(* only when the row is gone (transition_delivery_internal).               *)
THEOREM OwnerAndRowAgree == Spec => []OwnerTracksRow
  <1>1. ControlInv /\ RowInv => OwnerTracksRow
    BY DEF ControlInv, DeliveryInv, RowInv, Tracks, OwnerTracksRow
  <1>2. QED BY RowsTracked, <1>1, PTL

(* A row whose outcome is open is somebody's: the owner's, the admission's *)
(* or the last boot's.                                                     *)
THEOREM NoMessageForgotten == Spec => []OpenRowsAreOwned
  <1>1. RowInv => OpenRowsAreOwned
    BY DEF RowInv
  <1>2. QED BY RowsTracked, <1>1, PTL

-----------------------------------------------------------------------------
(* Transmissions.                                                          *)

LEMMA InitSent == Init => SentInv
  BY HashIsHash, NothingIsTyped
     DEF Init, SentInv, WasSent, SentPcs, SentStates, AttemptsSentOnce, SendPcs, RetryPcs, NoOwner

(* Neither the owner nor the counts move.                                  *)
LEMMA SentKept ==
  ASSUME SentInv, UNCHANGED <<owner, sent>>, tx'.attempt = tx.attempt,
         used'.sessions = used.sessions,
         task'.pc = "begin" => task.pc = "begin",
         task'.pc \in SendPcs => task.pc \in SendPcs,
         op'.kind = "DM" => op.kind = "DM",
         task'.pc \in SentPcs =>
           task.pc \in SentPcs \/ op.kind = "DM" \/ owner.state \in SentStates
  PROVE  SentInv'
  BY DEF SentInv, WasSent, SentPcs, SentStates, AttemptsSentOnce, OwnerActive

(* The owner is released.                                                  *)
LEMMA SentReleased ==
  ASSUME SentInv, sent' = sent, owner' = NoOwner, op'.kind # "DM",
         used'.sessions = used.sessions, task'.pc \in Tails \union IdlePcs
  PROVE  SentInv'
  BY NothingIsTyped DEF SentInv, WasSent, SentPcs, SentStates, AttemptsSentOnce, Tails, IdlePcs, SendPcs, RetryPcs, NoOwner

LEMMA PendingSentKept ==
  ASSUME TypeInv, ControlInv, SentInv, NEW next, NEW ret, NEW attempt,
         Pending(next, ret, attempt)
  PROVE  SentInv'
  <1>1. /\ sent' = sent /\ used' = used /\ op' = NoOp
        /\ PcStep(next, ret, attempt) /\ MoveStep(next, ret, attempt)
    BY DEF Pending, others, radio
  <1>2. op'.kind # "DM" /\ task'.pc # "begin" /\ task'.pc # "txDone"
    BY <1>1, NothingIsTyped DEF PcStep, AdmitPcs
  <1>3. task.pc \in RetryPcs => tx.attempt = 0
    BY DEF ControlInv, PcInv
  <1>4. OwnerActive(owner) => owner.hash = AckHash(owner.session, tx.attempt)
    BY DEF ControlInv, DeliveryInv
  <1>5. CASE ret = "refused"
    <2>1. owner' = owner /\ tx'.attempt = tx.attempt
      BY <1>1, <1>5 DEF MoveStep
    <2>2. task'.pc \in SentPcs => task.pc \in SentPcs
      BY <1>1 DEF PcStep, SentPcs, RetryPcs
    <2>3. task'.pc \notin SendPcs
      BY <1>1, <1>5 DEF PcStep
    <2>4. QED BY <1>1, <1>2, <2>1, <2>2, <2>3, SentKept
  <1>6. CASE ret # "refused" /\ Terminal(next)
    <2>1. owner' = NoOwner /\ tx' = NoTx
      BY <1>1, <1>6 DEF MoveStep
    <2>2. task'.pc \notin SendPcs \union SentPcs
      BY <1>1, <1>2, <1>6, <2>1 DEF PcStep, SentPcs, RetryPcs, NoOwner
    <2>3. QED
      BY <1>1, <1>2, <2>1, <2>2, NothingIsTyped
         DEF SentInv, WasSent, SentPcs, SentStates, AttemptsSentOnce, NoOwner
  <1>7. CASE ret # "refused" /\ ~Terminal(next)
    <2>1. /\ owner'.session = owner.session /\ owner'.state = next
          /\ owner'.hash = AckHash(owner.session, attempt) /\ tx'.attempt = attempt
          /\ OwnerActive(owner)
      BY <1>1, <1>7, CasMeansActive DEF MoveStep, Stored
    <2>2. \/ attempt = tx.attempt /\ owner'.hash = owner.hash
          \/ /\ task.pc = "retryTx" /\ attempt = 1 /\ tx.attempt = 0
             /\ owner.hash = AckHash(owner.session, 0)
      BY <1>1, <1>3, <1>4, <2>1 DEF PcStep, RetryPcs
    <2>3. sent[owner.hash] = 1 \/ task.pc \notin SentPcs
      BY DEF SentInv, WasSent, SentPcs
    <2>4. task'.pc \in SendPcs => sent[owner'.hash] = 0
      BY <1>1, <1>3, <2>1, <2>2 DEF PcStep, SentInv, SendPcs, RetryPcs
    <2>5. OwnerActive(owner') =>
            IF attempt = 0 THEN sent[AckHash(owner.session, 1)] = 0
                           ELSE sent[AckHash(owner.session, 0)] = 1
      BY <2>1, <2>2, <2>3 DEF SentInv, WasSent, SentPcs, RetryPcs
    <2>6. task'.pc \in SentPcs \/ owner'.state \in SentStates =>
            sent[owner'.hash] = 1
      BY <1>1, <1>2, <2>1, <2>2, <2>3 DEF PcStep, SentPcs, SentStates, RetryPcs
    <2>7. QED
      BY <1>1, <1>2, <2>1, <2>4, <2>5, <2>6
         DEF SentInv, WasSent, SentPcs, SentStates, AttemptsSentOnce
  <1>8. QED BY <1>5, <1>6, <1>7

LEMMA SendSent ==
  ASSUME TypeInv, ControlInv, SentInv, Send
  PROVE  SentInv'
  <1>1. /\ UNCHANGED <<owner, tx>> /\ OwnerActive(owner) /\ task'.pc \in Tails
        /\ used'.sessions = used.sessions /\ task.pc = "send"
        /\ sent' = [sent EXCEPT ![owner.hash] = @ + 1] /\ owner.hash \in AckHashes
    BY SendKeeps DEF delivery
  <1>2. /\ owner.hash = AckHash(owner.session, tx.attempt)
        /\ owner.session \in Sessions /\ tx.attempt \in {0, 1}
        /\ owner.session <= used.sessions
    BY <1>1 DEF ControlInv, DeliveryInv, TypeInv, OwnerType, TxType, OwnerActive
  <1>3. sent \in [AckHashes -> Nat] /\ sent[owner.hash] = 0
    BY <1>1 DEF TypeInv, SentInv, SendPcs
  <1>4. \A h \in AckHashes : sent'[h] = IF h = owner.hash THEN 1 ELSE sent[h]
    BY <1>1, <1>3
  <1>5. \A s \in Sessions : \A a \in {0, 1} :
          /\ AckHash(s, a) \in AckHashes
          /\ AckHash(s, a) = owner.hash => s = owner.session /\ a = tx.attempt
    BY <1>2, HashIsHash, HashInjective
  <1>6. \A s \in Sessions : \A a \in {0, 1} :
          s > used.sessions => sent'[AckHash(s, a)] = 0
    <2>1. used.sessions \in Nat /\ Sessions \subseteq Nat
      BY RuntimeBoundsAssumption DEF TypeInv, UsedType, Sessions
    <2>2. QED BY <1>2, <1>4, <1>5, <2>1 DEF SentInv
  <1>7. IF tx.attempt = 0 THEN sent'[AckHash(owner.session, 1)] = 0
                          ELSE sent'[AckHash(owner.session, 0)] = 1
    BY <1>1, <1>2, <1>4, <1>5 DEF SentInv
  <1>8. sent'[owner.hash] = 1
    BY <1>1, <1>4
  <1>9. AttemptsSentOnce'
    <2>1. \A h \in AckHashes : sent'[h] <= 1
      BY <1>4 DEF SentInv, AttemptsSentOnce
    <2>2. ASSUME NEW s \in Sessions
          PROVE  sent'[AckHash(s, 1)] <= sent'[AckHash(s, 0)]
      <3>1. sent[AckHash(s, 1)] <= sent[AckHash(s, 0)]
        BY DEF SentInv, AttemptsSentOnce
      <3>2. CASE AckHash(s, 1) = owner.hash
        BY <1>4, <1>5, <1>7, <3>2
      <3>3. CASE AckHash(s, 1) # owner.hash /\ AckHash(s, 0) = owner.hash
        BY <1>4, <1>5, <2>1, <3>3
      <3>4. CASE AckHash(s, 1) # owner.hash /\ AckHash(s, 0) # owner.hash
        BY <1>4, <1>5, <3>1, <3>4
      <3>5. QED BY <3>2, <3>3, <3>4
    <2>3. QED BY <2>1, <2>2 DEF AttemptsSentOnce
  <1>10. QED
    BY <1>1, <1>6, <1>7, <1>8, <1>9
       DEF SentInv, WasSent, SentPcs, SentStates, Tails, SendPcs, RetryPcs

LEMMA NextSent ==
  ASSUME TypeInv, ControlInv, SentInv, [Next]_vars
  PROVE  SentInv'
  <1> USE DEF Tails, IdlePcs, AdmitPcs, SendPcs, RetryPcs, SentPcs
  <1>1. CASE PendingAction
    BY <1>1, ActionIsPending, PendingSentKept
  <1>2. CASE Waits
    BY <1>2, WaitsKeep, SentKept DEF delivery, radio, others
  <1>3. CASE EndsOperation
    BY <1>3, EndKeeps, SentKept, NothingIsTyped DEF delivery, others
  <1>4. CASE HandleSendDm
    <2>1. /\ UNCHANGED <<owner, tx, op, sent>> /\ ~OwnerActive(owner) /\ op = NoOp
          /\ used'.sessions = used.sessions + 1 /\ used'.sessions \in Sessions
          /\ task'.pc \in AdmitPcs
      BY <1>4, SendDmKeeps DEF delivery, radio, others
    <2>2. used.sessions \in Nat /\ Sessions \subseteq Nat
      BY RuntimeBoundsAssumption DEF TypeInv, UsedType, Sessions
    <2>3. owner = NoOwner
      BY <2>1 DEF ControlInv, DeliveryInv
    <2>4. QED
      BY <2>1, <2>2, <2>3, NothingIsTyped 
         DEF SentInv, WasSent, SentStates, AttemptsSentOnce, NoOwner
  <1>5. CASE RecordDetachedFailure
    BY <1>5, DetachKeeps, SentKept DEF delivery, radio, others
  <1>6. CASE RadioNotStarted
    BY <1>6, NotStartedKeeps, SentKept DEF delivery, radio, others
  <1>7. CASE BeginPending
    <2>1. /\ sent' = sent /\ used' = used /\ op' = op /\ op = NoOp
          /\ task.pc = "begin" /\ task'.pc = "reserve"
      BY <1>7, BeginKeeps DEF others, radio, ControlInv, PcInv, QuietPcs
    <2>2. QED
      BY <1>7, <2>1, BeginKeeps, NothingIsTyped
         DEF SentInv, WasSent, SentStates, AttemptsSentOnce
  <1>8. CASE Send
    BY <1>8, SendSent
  <1>9. CASE SendReply
    BY <1>9, ReplyKeeps, SentKept DEF delivery, others
  <1>10. ASSUME NEW h \in AckHashes, RxAck(h) PROVE SentInv'
    BY <1>10, RxAckKeeps, SentKept DEF radio, others
  <1>11. CASE FinalizeAck
    <2>1. op = NoOp
      BY <1>11, FinalizeKeeps DEF ControlInv, PcInv, QuietPcs
    <2>2. QED BY <1>11, <2>1, FinalizeKeeps, SentReleased, NothingIsTyped DEF radio
  <1>12. CASE DeadlineFails \/ RetryAsFlood
    BY <1>12, DeadlineKeeps, SentKept DEF others, radio, SentStates
  <1>13. CASE DriverEnds
    BY <1>13, SentKept DEF DriverEnds, delivery, others
  <1>14. ASSUME NEW ok \in BOOLEAN, WorkerFlush(ok) PROVE SentInv'
    BY <1>14, SentKept DEF WorkerFlush, delivery, radio, others
  <1>15. CASE Clear
    BY <1>15, ClearKeeps, SentKept DEF delivery, radio
  <1>16. CASE Crash
    BY <1>16, CrashKeeps, SentReleased, NothingIsTyped
  <1>17. CASE UNCHANGED vars
    BY <1>17, SentKept DEF vars, delivery, radio, others
  <1>18. QED
    BY NextCases, <1>1, <1>2, <1>3, <1>4, <1>5, <1>6, <1>7, <1>8, <1>9, <1>10, <1>11,
       <1>12, <1>13, <1>14, <1>15, <1>16, <1>17

(* Each attempt of a message is on the air at most once, the flood retry   *)
(* only after the direct attempt.                                          *)
THEOREM SentAtMostOnce == Spec => []AttemptsSentOnce
  <1>1. Init => SentInv
    BY InitSent
  <1>2. TypeInv /\ ControlInv /\ SentInv /\ [Next]_vars => SentInv'
    BY NextSent
  <1>3. SentInv => AttemptsSentOnce
    BY DEF SentInv
  <1>4. QED BY Controlled, <1>1, <1>2, <1>3, PTL DEF Spec

-----------------------------------------------------------------------------
(* What is saved.                                                          *)

LEMMA InitSaved == Init => SavedInv
  BY NothingIsTyped DEF Init, SavedInv, CopyInv, SavedBeforeSend, ShownIsSaved

(* A flush on the card never takes back an ACK that readers see.           *)
LEMMA ShownStays ==
  ASSUME card, ShownIsSaved, Saves,
         \A q \in rows' : q.st = "ACKNOWLEDGED" =>
           \E r \in rows : r.id = q.id /\ r.st = "ACKNOWLEDGED"
  PROVE  ShownIsSaved'
  <1> SUFFICES ASSUME NEW q \in rows', ShowsAck(q)'
               PROVE  Acked(saved, q.id)'
    BY DEF ShownIsSaved
  <1>1. q.st = "ACKNOWLEDGED" /\ q.id \notin mask'
    BY DEF ShowsAck
  <1>2. CASE saved' = rows'
    BY <1>1, <1>2 DEF Acked
  <1>3. CASE saved' = saved /\ mask' = mask
    BY <1>1, <1>3 DEF ShownIsSaved, ShowsAck, Acked
  <1>4. QED BY <1>2, <1>3 DEF Saves

(* Neither the rows nor the owner move while the radio is about to be, or  *)
(* is, at work.                                                            *)
LEMMA SavedKept ==
  ASSUME CopyInv, UNCHANGED <<store, owner>>,
         task'.pc = "send" => task.pc = "send",
         op'.kind = "DM" => op' = op
  PROVE  CopyInv'
  BY DEF CopyInv, SavedTx, SavedBeforeSend, ShownIsSaved, ShowsAck, Acked, store

LEMMA PendingSavedKept ==
  ASSUME TypeInv, ControlInv, RowInv, card, CopyInv, NEW next, NEW ret, NEW attempt,
         Pending(next, ret, attempt)
  PROVE  CopyInv'
  <1>1. /\ op' = NoOp /\ PcStep(next, ret, attempt) /\ MoveStep(next, ret, attempt)
        /\ next # "ACKNOWLEDGED"
    BY DEF Pending, radio
  <1>2. SavedBeforeSend'
    BY <1>1, NothingIsTyped DEF SavedBeforeSend
  <1>3. CASE ret = "refused"
    <2>1. UNCHANGED <<store, owner>> /\ task'.pc # "send"
      BY <1>1, <1>3 DEF MoveStep, Stored, PcStep, SendPcs
    <2>2. QED BY <1>1, <2>1, SavedKept, NothingIsTyped
  <1>4. CASE ret # "refused"
    <2> DEFINE hash == AckHash(owner.session, attempt)
    <2>1. /\ Saves
          /\ \A q \in rows' : \/ q \in rows /\ q.id # owner.session
                              \/ SessionRow(q, next, hash)
      BY <1>4, PendingRows
    <2>2. ShownIsSaved'
      BY <1>1, <2>1, ShownStays DEF SessionRow, CopyInv
    <2>3. ASSUME task'.pc = "send" PROVE SavedTx(owner.session, owner.rev)'
      <3>1. /\ next = "TX_ACTIVE" /\ saved' = rows'
            /\ owner'.session = owner.session /\ owner'.rev = owner.rev + 1
            /\ owner'.hash = hash
        BY <1>1, <1>4, <2>3 DEF PcStep, MoveStep, SendPcs
      <3> HIDE DEF hash
      <3>2. QED BY <2>1, <3>1 DEF SavedTx, SessionRow, Ids
    <2>4. QED BY <1>2, <2>2, <2>3 DEF CopyInv
  <1>5. QED BY <1>3, <1>4

LEMMA CrashCopied ==
  ASSUME TypeInv, Crash
  PROVE  CopyInv'
  <1>1. \A q \in rows' : \E r \in saved :
          q.id = r.id /\ (q.st = "ACKNOWLEDGED" => r.st = "ACKNOWLEDGED")
    BY CrashKeeps
  <1>2. saved' = saved /\ op' = NoOp /\ task'.pc # "send"
    BY CrashKeeps
  <1>3. ShownIsSaved'
    BY <1>1, <1>2 DEF ShownIsSaved, ShowsAck, Acked
  <1>4. QED BY <1>2, <1>3, NothingIsTyped DEF CopyInv, SavedBeforeSend

LEMMA NextCopied ==
  ASSUME TypeInv, ControlInv, RowInv, card, CopyInv, [Next]_vars
  PROVE  CopyInv'
  <1> USE DEF Tails, IdlePcs, AdmitPcs, SendPcs
  <1>1. CASE PendingAction
    BY <1>1, ActionIsPending, PendingSavedKept
  <1>2. CASE Waits
    BY <1>2, WaitsKeep, SavedKept DEF delivery, radio
  <1>3. CASE EndsOperation
    BY <1>3, EndKeeps, SavedKept, NothingIsTyped DEF delivery
  <1>4. CASE HandleSendDm
    <2>1. PICK n : NewRow(n, used'.sessions) /\ rows' = rows \union {n}
      BY <1>4, SendDmKeeps
    <2>2. Saves /\ op' = NoOp /\ task'.pc # "send"
      BY <1>4, SendDmKeeps DEF radio
    <2>3. ShownIsSaved'
      BY <2>1, <2>2, ShownStays DEF NewRow, CopyInv
    <2>4. QED BY <2>2, <2>3, NothingIsTyped DEF CopyInv, SavedBeforeSend
  <1>5. CASE RecordDetachedFailure
    <2>1. /\ \A q \in rows' : q \in rows \/ q.st = "FAILED_QUEUE"
          /\ Saves /\ op' = op /\ task.pc = "detach" /\ task'.pc # "send"
      BY <1>5, DetachKeeps DEF FailedRow, radio
    <2>2. op = NoOp
      BY <2>1 DEF ControlInv, PcInv, QuietPcs
    <2>3. ShownIsSaved'
      BY <2>1, ShownStays DEF CopyInv
    <2>4. QED BY <2>1, <2>2, <2>3, NothingIsTyped DEF CopyInv, SavedBeforeSend
  <1>6. CASE RadioNotStarted
    BY <1>6, NotStartedKeeps, SavedKept DEF delivery, radio
  <1>7. CASE BeginPending
    <2>1. op' = op /\ op = NoOp /\ UNCHANGED store /\ task'.pc # "send"
      BY <1>7, BeginKeeps DEF radio, ControlInv, PcInv, QuietPcs
    <2>2. QED
      BY <2>1, NothingIsTyped
         DEF CopyInv, SavedBeforeSend, ShownIsSaved, ShowsAck, Acked, store
  <1>8. CASE Send
    <2>1. /\ UNCHANGED <<store, owner>> /\ task.pc = "send" /\ task'.pc # "send"
          /\ op'.session = owner.session /\ op'.rev = owner.rev
      BY <1>8, SendKeeps DEF delivery
    <2>2. QED
      BY <2>1 DEF CopyInv, SavedTx, SavedBeforeSend, ShownIsSaved, ShowsAck, Acked, store
  <1>9. CASE SendReply
    BY <1>9, ReplyKeeps, SavedKept DEF delivery
  <1>10. ASSUME NEW h \in AckHashes, RxAck(h) PROVE CopyInv'
    <2>1. /\ OwnerActive(owner) /\ owner.state = "AWAITING_ACK" /\ ~Suppresses
          /\ task'.pc # "send" /\ UNCHANGED <<saved, owner, op>>
      BY <1>10, RxAckKeeps DEF radio
    <2>2. op.kind # "DM"
      BY <2>1 DEF ControlInv, DeliveryInv, OperationIsOwned, TerminalMatches
    <2>3. CASE UNCHANGED <<rows, mask>>
      BY <2>1, <2>2, <2>3, SavedKept DEF store
    <2>4. CASE /\ CasHolds("ACKNOWLEDGED") /\ rows' = Moved("ACKNOWLEDGED", owner.hash)
               /\ mask' = mask \union {owner.session}
      <3>1. owner.hash \in AckHashes /\ "ACKNOWLEDGED" \in DeliveryStates
        BY <2>1, HashIsHash
           DEF ControlInv, DeliveryInv, TypeInv, OwnerType, OwnerActive, TxType,
               DeliveryStates
      <3>2. \A q \in rows' : \/ q \in rows /\ q.id # owner.session
                             \/ q.id = owner.session
        BY <2>1, <2>4, <3>1, SessionMoves DEF SessionRow
      <3>3. ShownIsSaved'
        BY <2>1, <2>4, <3>2 DEF CopyInv, ShownIsSaved, ShowsAck, Acked
      <3>4. QED BY <2>1, <2>2, <3>3 DEF CopyInv, SavedBeforeSend
    <2>5. QED BY <1>10, <2>3, <2>4, RxAckKeeps
  <1>11. CASE FinalizeAck
    <2>1. op' = op /\ op = NoOp /\ UNCHANGED store /\ task'.pc # "send"
      BY <1>11, FinalizeKeeps DEF radio, ControlInv, PcInv, QuietPcs
    <2>2. QED
      BY <2>1, NothingIsTyped
         DEF CopyInv, SavedBeforeSend, ShownIsSaved, ShowsAck, Acked, store
  <1>12. CASE DeadlineFails \/ RetryAsFlood
    BY <1>12, DeadlineKeeps, SavedKept DEF radio
  <1>13. CASE DriverEnds
    BY <1>13, SavedKept DEF DriverEnds, delivery
  <1>14. ASSUME NEW ok \in BOOLEAN, WorkerFlush(ok) PROVE CopyInv'
    <2>1. /\ Saves /\ UNCHANGED <<rows, task, owner, op>> /\ task.pc # "send"
      BY <1>14, FlushSaves DEF WorkerFlush, Quiesced, delivery, radio
    <2>2. ShownIsSaved'
      BY <2>1, ShownStays DEF CopyInv
    <2>3. ASSUME op.kind = "DM", op.session \in Ids(rows)
          PROVE  \E r \in rows : /\ r.id = op.session /\ r.rev = op.rev
                                 /\ r.st = "TX_ACTIVE" /\ r.hash = owner.hash
      BY <2>3 DEF RowInv, Tracks, ControlInv, DeliveryInv, OperationIsOwned,
                  TerminalMatches, Ids
    <2>4. SavedBeforeSend'
      BY <2>1, <2>3 DEF CopyInv, SavedBeforeSend, Saves
    <2>5. QED BY <2>1, <2>2, <2>4 DEF CopyInv
  <1>15. CASE Clear
    BY <1>15, ClearKeeps
       DEF CopyInv, SavedTx, SavedBeforeSend, ShownIsSaved, Ids
  <1>16. CASE Crash
    BY <1>16, CrashCopied
  <1>17. CASE UNCHANGED vars
    BY <1>17, SavedKept DEF vars, delivery, radio
  <1>18. QED
    BY NextCases, <1>1, <1>2, <1>3, <1>4, <1>5, <1>6, <1>7, <1>8, <1>9, <1>10, <1>11,
       <1>12, <1>13, <1>14, <1>15, <1>16, <1>17

(* The card moves only while the power is off.                             *)
LEMMA CardStays ==
  ASSUME TypeInv, ControlInv, [Next]_vars, ~Crash
  PROVE  card' = card
  <1>1. CASE PendingAction
    BY <1>1, ActionIsPending DEF Pending, others
  <1>2. CASE Waits \/ EndsOperation
    BY <1>2, WaitsKeep, EndKeeps DEF others
  <1>3. CASE HandleSendDm \/ RecordDetachedFailure \/ RadioNotStarted \/ BeginPending
    BY <1>3, SendDmKeeps, DetachKeeps, NotStartedKeeps, BeginKeeps DEF others
  <1>4. CASE Send \/ SendReply \/ FinalizeAck \/ DeadlineFails \/ RetryAsFlood
    BY <1>4, SendKeeps, ReplyKeeps, FinalizeKeeps, DeadlineKeeps DEF others
  <1>5. CASE \E h \in AckHashes : RxAck(h)
    BY <1>5, RxAckKeeps DEF others
  <1>6. CASE DriverEnds \/ Clear
    BY <1>6, ClearKeeps DEF DriverEnds, others
  <1>7. CASE \E ok \in BOOLEAN : WorkerFlush(ok)
    BY <1>7 DEF WorkerFlush, others
  <1>8. CASE UNCHANGED vars
    BY <1>8 DEF vars, others
  <1>9. QED BY NextCases, <1>1, <1>2, <1>3, <1>4, <1>5, <1>6, <1>7, <1>8

LEMMA NextSaved ==
  ASSUME TypeInv, ControlInv, RowInv, SavedInv, [Next]_vars
  PROVE  SavedInv'
  <1>1. CASE Crash
    BY <1>1, CrashCopied DEF SavedInv
  <1>2. CASE ~Crash
    BY <1>2, CardStays, NextCopied DEF SavedInv
  <1>3. QED BY <1>1, <1>2

LEMMA SavedFollows == Spec => [](TypeInv /\ ControlInv /\ RowInv /\ SavedInv)
  <1>1. Init => SavedInv
    BY InitSaved
  <1>2. TypeInv /\ ControlInv /\ RowInv /\ SavedInv /\ [Next]_vars => SavedInv'
    BY NextSaved
  <1>3. QED BY RowsTracked, <1>1, <1>2, PTL DEF Spec

(* With the card in the slot, the row that says TX_ACTIVE is on it before  *)
(* the radio starts, whatever the worker, a clear or a failed flush do in  *)
(* between.                                                                *)
THEOREM SavedFirst == Spec => []SavedBeforeSendOnCard
  <1>1. SavedInv => SavedBeforeSendOnCard
    BY DEF SavedInv, CopyInv, SavedBeforeSendOnCard
  <1>2. QED BY SavedFollows, <1>1, PTL

-----------------------------------------------------------------------------
(* The effects of an ACK.                                                  *)

LEMMA InitCredit == Init => CreditInv
  BY RuntimeBoundsAssumption, NothingIsTyped
     DEF Init, CreditInv, LiveInv, AckCreditedOnceSaved, AdmitPcs

(* Nothing is credited, and no row enters or leaves ACKNOWLEDGED except    *)
(* the owner's.                                                            *)
LEMMA CreditKept ==
  ASSUME TypeInv, CreditInv, UNCHANGED <<card, credits, cleared, boot, live>>,
         used'.sessions = used.sessions,
         saved' \in {saved, rows'}, ~card => saved' = saved,
         owner'.session \in {owner.session, NoSession},
         task'.pc \in AdmitPcs => task.pc \in AdmitPcs,
         \A r \in rows : r.st = "ACKNOWLEDGED" =>
           \E q \in rows' : q.id = r.id /\ q.st = "ACKNOWLEDGED",
         \A q \in rows' : q.st = "ACKNOWLEDGED" /\ q.id # owner'.session =>
           \E r \in rows : r.id = q.id /\ r.st = "ACKNOWLEDGED" /\ r.id # owner.session
  PROVE  CreditInv'
  <1>1. \A s \in Sessions : s # NoSession
    BY RuntimeBoundsAssumption DEF Sessions, NoSession
  <1>2. \A s \in Sessions : Acked(rows, s) => Acked(rows, s)'
    BY DEF Acked
  <1>3. card => \A s \in Sessions :
                  credits[s] > 0 => s \in cleared \union live \/ Acked(rows, s)'
    BY <1>2 DEF CreditInv
  <1>4. \A s \in Sessions : credits[s] > 0 =>
          credits[s] = 1 /\ (s \in cleared \union live \/ Acked(saved, s)')
    BY <1>3 DEF CreditInv, AckCreditedOnceSaved, Acked
  <1>5. \A q \in rows' : q.st = "ACKNOWLEDGED" /\ q.id > boot /\ q.id # owner'.session
          => credits[q.id] = 1
    BY DEF CreditInv, AckCreditedOnceSaved
  <1>6. AckCreditedOnceSaved'
    BY <1>4, <1>5 DEF AckCreditedOnceSaved, Acked
  <1>7. LiveInv'
    BY DEF CreditInv, LiveInv, OwnerActive
  <1>8. QED BY <1>1, <1>3, <1>6, <1>7 DEF CreditInv

LEMMA SameRowsCredit ==
  ASSUME TypeInv, CreditInv,
         UNCHANGED <<rows, owner, card, credits, cleared, boot, live>>,
         used'.sessions = used.sessions,
         saved' \in {saved, rows}, ~card => saved' = saved,
         task'.pc \in AdmitPcs => task.pc \in AdmitPcs
  PROVE  CreditInv'
  BY CreditKept

LEMMA PendingCreditKept ==
  ASSUME TypeInv, ControlInv, RowInv, CreditInv, NEW next, NEW ret, NEW attempt,
         Pending(next, ret, attempt)
  PROVE  CreditInv'
  <1>1. /\ UNCHANGED <<card, credits, cleared, boot, live, used>> /\ task'.pc \notin AdmitPcs
        /\ MoveStep(next, ret, attempt) /\ next # "ACKNOWLEDGED"
    BY DEF Pending, PcStep, others
  <1>2. CASE ret = "refused"
    BY <1>1, <1>2, SameRowsCredit DEF MoveStep, Stored, store
  <1>3. CASE ret # "refused"
    <2>1. owner'.session \in {owner.session, NoSession}
      BY <1>1, <1>3, NothingIsTyped DEF MoveStep
    <2>2. /\ owner.state # "ACKNOWLEDGED" /\ saved' \in {saved, rows'}
          /\ ~card => saved' = saved
          /\ \A q \in rows' : \/ q \in rows /\ q.id # owner.session
                              \/ q.st = next
          /\ \A r \in rows : r \in rows' \/ r.st = owner.state
      BY <1>3, PendingRows DEF Saves, SessionRow
    <2>3. QED BY <1>1, <2>1, <2>2, CreditKept
  <1>4. QED BY <1>2, <1>3

LEMMA NextCredit ==
  ASSUME TypeInv, ControlInv, RowInv, SavedInv, CreditInv, [Next]_vars
  PROVE  CreditInv'
  <1> USE DEF Tails, IdlePcs, AdmitPcs
  <1>0. /\ \A r \in rows : r.id \in Sessions
        /\ \A s \in Sessions : s # NoSession /\ s \in Nat
        /\ used.sessions \in Nat /\ credits \in [Sessions -> Nat]
    BY RowIsTyped, RuntimeBoundsAssumption DEF TypeInv, UsedType, Sessions, NoSession
  <1>1. CASE PendingAction
    BY <1>1, ActionIsPending, PendingCreditKept
  <1>2. CASE Waits
    BY <1>2, WaitsKeep, SameRowsCredit DEF store, delivery, others
  <1>3. CASE EndsOperation
    BY <1>3, EndKeeps, SameRowsCredit DEF store, delivery, others
  <1>4. CASE HandleSendDm
    <2>1. PICK n : NewRow(n, used'.sessions) /\ rows' = rows \union {n}
      BY <1>4, SendDmKeeps
    <2>2. /\ UNCHANGED <<card, credits, cleared, boot, owner>> /\ Saves
          /\ used'.sessions = used.sessions + 1 /\ used'.sessions \in Sessions
          /\ live \subseteq live' /\ ~OwnerActive(owner)
          /\ ~card => used'.sessions \in live'
      BY <1>4, SendDmKeeps DEF delivery
    <2>3. /\ \A r \in rows : r \in rows'
          /\ \A q \in rows' : q \in rows \/ q.st = "QUEUED"
      BY <2>1 DEF NewRow
    <2>4. card => \A s \in Sessions :
                    credits[s] > 0 => s \in cleared \union live' \/ Acked(rows, s)'
      BY <2>2, <2>3 DEF CreditInv, Acked
    <2>5. AckCreditedOnceSaved'
      BY <2>2, <2>3, <2>4 DEF CreditInv, AckCreditedOnceSaved, Acked, Saves
    <2>6. LiveInv'
      BY <2>2 DEF LiveInv, OwnerActive
    <2>7. QED BY <1>0, <2>2, <2>4, <2>5, <2>6 DEF CreditInv
  <1>5. CASE RecordDetachedFailure
    <2>1. /\ \A q \in rows' : q \in rows \/ q.st = "FAILED_QUEUE"
          /\ \A r \in rows : r \in rows' \/ r.st = "QUEUED"
          /\ Saves /\ task'.pc \notin AdmitPcs /\ UNCHANGED <<owner, used>>
          /\ UNCHANGED <<card, credits, cleared, boot, live>>
      BY <1>5, DetachKeeps DEF FailedRow, Detached, delivery, others
    <2>2. QED BY <2>1, CreditKept DEF Saves
  <1>6. CASE RadioNotStarted
    BY <1>6, NotStartedKeeps, SameRowsCredit DEF store, delivery, others
  <1>7. CASE BeginPending
    <2>1. /\ UNCHANGED <<rows, saved, card, credits, cleared, boot, live, used>>
          /\ owner'.session = used.sessions /\ task.pc = "begin" /\ task'.pc = "reserve"
          /\ owner = NoOwner
      BY <1>7, BeginKeeps DEF store, others, ControlInv, PcInv
    <2>2. QED
      BY <1>0, <2>1, NothingIsTyped DEF CreditInv, LiveInv, AckCreditedOnceSaved, Acked
  <1>8. CASE Send
    BY <1>8, SendKeeps, SameRowsCredit DEF store, delivery
  <1>9. CASE SendReply
    BY <1>9, ReplyKeeps, SameRowsCredit DEF store, delivery, others
  <1>10. ASSUME NEW h \in AckHashes, RxAck(h) PROVE CreditInv'
    <2>1. /\ OwnerActive(owner) /\ owner.state = "AWAITING_ACK" /\ ~Suppresses
          /\ task'.pc \notin AdmitPcs /\ UNCHANGED <<saved, owner, used>>
          /\ UNCHANGED <<card, credits, cleared, boot, live>>
      BY <1>10, RxAckKeeps DEF others
    <2>2. CASE UNCHANGED <<rows, mask>>
      BY <2>1, <2>2, SameRowsCredit
    <2>3. CASE CasHolds("ACKNOWLEDGED") /\ rows' = Moved("ACKNOWLEDGED", owner.hash)
      <3>1. owner.hash \in AckHashes /\ "ACKNOWLEDGED" \in DeliveryStates
        BY <2>1, HashIsHash
           DEF ControlInv, DeliveryInv, TypeInv, OwnerType, OwnerActive, TxType,
               DeliveryStates
      <3>2. /\ \A q \in rows' : \/ q \in rows /\ q.id # owner.session
                               \/ q.id = owner.session
            /\ \A r \in rows : r \in rows' \/ r.st = owner.state
        BY <2>1, <2>3, <3>1, SessionMoves DEF SessionRow
      <3>3. QED BY <2>1, <3>2, CreditKept
    <2>4. QED BY <1>10, <2>2, <2>3, RxAckKeeps
  <1>11. CASE FinalizeAck
    <2>1. /\ owner.session \in Sessions /\ owner' = NoOwner
          /\ credits' = [credits EXCEPT ![owner.session] = @ + 1]
          /\ UNCHANGED <<rows, saved, card, cleared, boot, live, used>>
          /\ task'.pc \notin AdmitPcs /\ OwnerActive(owner)
      BY <1>11, FinalizeKeeps DEF store
    <2>2. /\ \A s \in Sessions : credits'[s] = IF s = owner.session THEN 1 ELSE credits[s]
          /\ owner.session <= used.sessions
      BY <1>0, <2>1 DEF CreditInv, ControlInv, DeliveryInv
    <2>3. /\ Acked(rows, owner.session)
          /\ owner.session \in live \/ Acked(saved, owner.session)
      <3>1. \E r \in rows : r.id = owner.session /\ ShowsAck(r)
        BY <1>11, FinalizeKeeps
      <3>2. CASE card
        BY <3>1, <3>2 DEF SavedInv, CopyInv, ShownIsSaved, ShowsAck, Acked
      <3>3. CASE ~card
        BY <2>1, <3>1, <3>3 DEF CreditInv, LiveInv, ShowsAck, Acked
      <3>4. QED BY <3>2, <3>3
    <2>4. AckCreditedOnceSaved'
      BY <1>0, <2>1, <2>2, <2>3 DEF CreditInv, AckCreditedOnceSaved, Acked
    <2>5. LiveInv'
      BY <2>1, NothingIsTyped DEF LiveInv
    <2>6. QED
      BY <1>0, <2>1, <2>2, <2>3, <2>4, <2>5, NothingIsTyped DEF CreditInv, Acked
  <1>12. CASE DeadlineFails \/ RetryAsFlood
    BY <1>12, DeadlineKeeps, SameRowsCredit DEF store, others
  <1>13. CASE DriverEnds
    BY <1>13, SameRowsCredit DEF DriverEnds, store, delivery, others
  <1>14. ASSUME NEW ok \in BOOLEAN, WorkerFlush(ok) PROVE CreditInv'
    BY <1>14, FlushSaves, SameRowsCredit
       DEF WorkerFlush, Saves, TypeInv, delivery, others
  <1>15. CASE Clear
    <2>1. /\ rows' = {} /\ cleared' = cleared \union Ids(rows)
          /\ used'.sessions = used.sessions
          /\ ~card => saved' = saved
          /\ UNCHANGED <<task, owner, card, credits, boot, live>>
      BY <1>15, ClearKeeps DEF delivery
    <2>2. card => \A s \in Sessions : credits[s] > 0 => s \in cleared' \union live
      BY <2>1 DEF CreditInv, Acked, Ids
    <2>3. AckCreditedOnceSaved'
      <3>1. AckCreditedOnceSaved
        BY DEF CreditInv
      <3>2. CASE card
        BY <2>1, <2>2, <3>1, <3>2 DEF AckCreditedOnceSaved
      <3>3. CASE ~card
        BY <2>1, <3>1, <3>3 DEF AckCreditedOnceSaved
      <3>4. QED BY <3>2, <3>3
    <2>4. LiveInv'
      BY <2>1 DEF CreditInv, LiveInv, OwnerActive
    <2>5. card' => \A s \in Sessions :
                    credits'[s] > 0 => s \in cleared' \union live' \/ Acked(rows, s)'
      BY <2>1, <2>2
    <2>6. QED BY <2>1, <2>3, <2>4, <2>5 DEF CreditInv
  <1>16. CASE Crash
    <2>1. /\ owner' = NoOwner /\ boot' = used.sessions /\ task'.pc = "loop"
          /\ UNCHANGED <<saved, credits, cleared, live>> /\ used'.sessions = used.sessions
          /\ \A q \in rows' : \E r \in saved : q.id = r.id
      BY <1>16, CrashKeeps
    <2>2. card' => \A r \in saved : r.st = "ACKNOWLEDGED" => r \in rows'
      BY <1>16 DEF Crash, NormalizedDelivery, InterruptedByReboot
    <2>3. \A q \in rows' : ~(q.id > boot')
      <3>1. \A r \in saved : r.id <= used.sessions /\ r.id \in Nat
        BY RowIsTyped DEF RowInv, TypeInv
      <3>2. QED BY <1>0, <2>1, <3>1
    <2>4. card' => \A s \in Sessions :
                     credits[s] > 0 => s \in cleared \union live \/ Acked(rows, s)'
      BY <2>2 DEF CreditInv, AckCreditedOnceSaved, Acked
    <2>5. QED
      BY <1>0, <2>1, <2>3, <2>4, NothingIsTyped
         DEF CreditInv, LiveInv, AckCreditedOnceSaved
  <1>17. CASE UNCHANGED vars
    BY <1>17, SameRowsCredit DEF vars, store, delivery, others
  <1>18. QED
    BY NextCases, <1>1, <1>2, <1>3, <1>4, <1>5, <1>6, <1>7, <1>8, <1>9, <1>10, <1>11,
       <1>12, <1>13, <1>14, <1>15, <1>16, <1>17

(* The effects of an ACK run once for a message, and for one sent with the *)
(* card in the slot only when the ACK is on the card.                      *)
THEOREM CreditedOnce == Spec => []AckCreditedOnceSaved
  <1>1. Init => CreditInv
    BY InitCredit
  <1>2. TypeInv /\ ControlInv /\ RowInv /\ SavedInv /\ CreditInv /\ [Next]_vars
          => CreditInv'
    BY NextCredit
  <1>3. CreditInv => AckCreditedOnceSaved
    BY DEF CreditInv
  <1>4. QED BY SavedFollows, <1>1, <1>2, <1>3, PTL DEF Spec
=============================================================================
