-------------------------- MODULE DmRuntimeRefines ---------------------------
(***************************************************************************)
(* DmRuntime implements DmOutcome, for any number of messages, faults,     *)
(* clears and power losses.  Beyond the invariants of DmRuntimeSafety it   *)
(* takes that an ACK not yet shown is the owner's, and that an             *)
(* acknowledged row was transmitted.                                       *)
(***************************************************************************)
EXTENDS DmRuntimeSafety

OutcomeInv ==
  /\ \A r \in rows : r.st = "ACKNOWLEDGED" /\ r.id \in mask => r.id = owner.session
  /\ \A r \in rows \union saved :
       r.st = "ACKNOWLEDGED" => sent[AckHash(r.id, 0)] = 1

Inv == TypeInv /\ ControlInv /\ RowInv /\ SentInv /\ SavedInv /\ CreditInv /\ OutcomeInv

(* The parts of OutcomeOf.                                                 *)
Has(s) == \E r \in rows : r.id = s
HasAck(s) == \E r \in rows : r.id = s /\ ShowsAck(r)
HasFailure(s) == \E r \in rows : r.id = s /\ r.st # "ACKNOWLEDGED" /\ Terminal(r.st)

LEMMA OutcomeIs ==
  ASSUME NEW s
  PROVE  OutcomeOf(s) = IF s > used.sessions THEN "unsent"
                        ELSE IF ~Has(s) THEN "forgotten"
                        ELSE IF HasAck(s) THEN "acknowledged"
                        ELSE IF HasFailure(s) THEN "failed" ELSE "open"
  BY DEF OutcomeOf, Has, HasAck, HasFailure, Ids

LEMMA OutcomeIsNext ==
  ASSUME NEW s
  PROVE  OutcomeOf(s)' = IF s > used'.sessions THEN "unsent"
                         ELSE IF ~Has(s)' THEN "forgotten"
                         ELSE IF HasAck(s)' THEN "acknowledged"
                         ELSE IF HasFailure(s)' THEN "failed" ELSE "open"
  BY DEF OutcomeOf, Has, HasAck, HasFailure, Ids

LEMMA OutcomeStays ==
  ASSUME NEW s, used'.sessions = used.sessions,
         Has(s)' <=> Has(s), HasAck(s)' <=> HasAck(s), HasFailure(s)' <=> HasFailure(s)
  PROVE  OutcomeOf(s)' = OutcomeOf(s)
  BY OutcomeIs, OutcomeIsNext

SameOutcomes == \A s \in Sessions : OutcomeOf(s)' = OutcomeOf(s)
Only(m, result) ==
  \A s \in Sessions : OutcomeOf(s)' = IF s = m THEN result ELSE OutcomeOf(s)

-----------------------------------------------------------------------------
(* The steps of DmOutcome under the mapping.                               *)
LEMMA AbstractStutters ==
  ASSUME SameOutcomes, UNCHANGED <<card, sent, credits>>, CurrentMessage' = CurrentMessage
  PROVE  UNCHANGED Abstract!vars
  BY DEF SameOutcomes, Abstract!vars

LEMMA AbstractSubmits ==
  ASSUME NEW m \in Sessions, CurrentMessage = NoSession, OutcomeOf(m) = "unsent",
         Only(m, "open"), CurrentMessage' = m, UNCHANGED <<card, sent, credits>>
  PROVE  Abstract!Submit(m)
  BY DEF Only, Abstract!Submit, Abstract!Decide

LEMMA AbstractAcknowledges ==
  ASSUME NEW m \in Sessions, CurrentMessage = m, OutcomeOf(m) = "open",
         sent[AckHash(m, 0)] + sent[AckHash(m, 1)] > 0,
         Only(m, "acknowledged"), CurrentMessage' = m, UNCHANGED <<card, sent, credits>>
  PROVE  Abstract!Acknowledge(m)
  BY DEF Only, Abstract!Acknowledge, Abstract!Decide

LEMMA AbstractFails ==
  ASSUME NEW m \in Sessions, CurrentMessage = m, OutcomeOf(m) = "open",
         Only(m, "failed"), CurrentMessage' = NoSession, UNCHANGED <<card, sent, credits>>
  PROVE  Abstract!Fail(m)
  BY DEF Only, Abstract!Fail, Abstract!Decide

LEMMA AbstractAbandons ==
  ASSUME NEW m \in Sessions, CurrentMessage = m, OutcomeOf(m) = "forgotten",
         SameOutcomes, CurrentMessage' = NoSession, UNCHANGED <<card, sent, credits>>
  PROVE  Abstract!Abandon(m)
  BY DEF SameOutcomes, Abstract!Abandon

LEMMA AbstractCredits ==
  ASSUME NEW m \in Sessions, CurrentMessage = m, OutcomeOf(m) = "acknowledged",
         SameOutcomes, CurrentMessage' = NoSession, UNCHANGED <<card, sent>>,
         credits[m] = 0, credits \in [Sessions -> Nat],
         credits' = [credits EXCEPT ![m] = @ + 1]
  PROVE  Abstract!Credit(m)
  <1>1. /\ ~(credits[m] > 0)
        /\ \A s \in Sessions : (credits'[s] > 0) <=> (s = m \/ credits[s] > 0)
    OBVIOUS
  <1> DEFINE before == [s \in Sessions |-> credits[s] > 0]
             after  == [s \in Sessions |-> credits'[s] > 0]
  <1>2. \A s \in Sessions : after[s] = [before EXCEPT ![m] = TRUE][s]
    BY <1>1, Zenon
  <1>3. after = [before EXCEPT ![m] = TRUE]
    BY <1>2, Zenon
  <1>4. ~before[m]
    BY <1>1
  <1>5. QED BY <1>3, <1>4 DEF SameOutcomes, Abstract!Credit

LEMMA AbstractForgets ==
  ASSUME \A s \in Sessions : OutcomeOf(s)' = IF OutcomeOf(s) = "unsent"
                                             THEN "unsent" ELSE "forgotten",
         CurrentMessage' = CurrentMessage, UNCHANGED <<card, sent, credits>>
  PROVE  Abstract!Forget
  BY DEF Abstract!Forget

-----------------------------------------------------------------------------
(* OutcomeInv is inductive.                                                *)
LEMMA InitOutcome == Init => OutcomeInv
  BY DEF Init, OutcomeInv

(* Nothing is masked or acknowledged anew, and sent only grows.            *)
LEMMA OutcomeKept ==
  ASSUME TypeInv, OutcomeInv, UNCHANGED sent, saved' \in {saved, rows'},
         \A q \in rows' : q.st = "ACKNOWLEDGED" =>
           \E r \in rows : /\ r.id = q.id /\ r.st = "ACKNOWLEDGED"
                           /\ q.id \in mask' => r.id \in mask
                           /\ r.id # owner.session \/ owner'.session = owner.session
  PROVE  OutcomeInv'
  BY DEF OutcomeInv

LEMMA SameRowsOutcome ==
  ASSUME TypeInv, OutcomeInv, UNCHANGED <<rows, sent>>, saved' \in {saved, rows},
         mask' \subseteq mask, owner'.session = owner.session
  PROVE  OutcomeInv'
  BY DEF OutcomeInv

LEMMA PendingOutcome ==
  ASSUME Inv, NEW next, NEW ret, NEW attempt, Pending(next, ret, attempt)
  PROVE  OutcomeInv'
  <1>1. /\ UNCHANGED <<sent, used>> /\ MoveStep(next, ret, attempt)
        /\ next # "ACKNOWLEDGED"
    BY DEF Pending, others
  <1>2. CASE ret = "refused"
    BY <1>1, <1>2, SameRowsOutcome DEF MoveStep, Stored, store, Inv
  <1>3. CASE ret # "refused"
    <2>1. /\ Saves
          /\ \A q \in rows' : (q \in rows /\ q.id # owner.session) \/ q.st = next
      BY <1>3, PendingRows DEF SessionRow, Inv
    <2>2. saved' \in {saved, rows'} /\ mask' \subseteq mask
      BY <2>1 DEF Saves
    <2>3. QED BY <1>1, <2>1, <2>2, OutcomeKept DEF Inv
  <1>4. QED BY <1>2, <1>3

(* An ACK is only taken for an attempt that was transmitted.               *)
LEMMA RxAckOutcome ==
  ASSUME Inv, NEW h \in AckHashes, RxAck(h)
  PROVE  OutcomeInv'
  <1>1. /\ OwnerActive(owner) /\ owner.state = "AWAITING_ACK" /\ ~Suppresses
        /\ UNCHANGED <<saved, owner, sent>>
    BY RxAckKeeps DEF others, Inv
  <1>2. CASE UNCHANGED <<rows, mask>>
    BY <1>1, <1>2, SameRowsOutcome DEF Inv
  <1>3. CASE /\ CasHolds("ACKNOWLEDGED") /\ rows' = Moved("ACKNOWLEDGED", owner.hash)
             /\ mask' = mask \union {owner.session}
    <2>1. owner.hash \in AckHashes /\ "ACKNOWLEDGED" \in DeliveryStates
      BY <1>1, HashIsHash
         DEF Inv, ControlInv, DeliveryInv, TypeInv, OwnerType, OwnerActive, TxType,
             DeliveryStates
    <2>2. \A q \in rows' : (q \in rows /\ q.id # owner.session) \/ q.id = owner.session
      BY <1>1, <1>3, <2>1, SessionMoves DEF SessionRow, Inv
    <2>3. sent[owner.hash] = 1
      BY <1>1 DEF Inv, SentInv, WasSent, SentStates
    <2>4. owner.hash = AckHash(owner.session, tx.attempt) /\ tx.attempt \in {0, 1}
      BY <1>1 DEF Inv, ControlInv, DeliveryInv, TypeInv, TxType
    <2>5. sent[AckHash(owner.session, 0)] = 1
      BY <1>1, <2>3, <2>4 DEF Inv, SentInv
    <2>6. QED BY <1>1, <1>3, <2>2, <2>5 DEF Inv, OutcomeInv
  <1>4. QED BY <1>2, <1>3, RxAckKeeps DEF Inv

LEMMA SendOutcome ==
  ASSUME Inv, Send
  PROVE  OutcomeInv'
  <1>1. /\ UNCHANGED <<rows, saved, mask, owner>>
        /\ owner.hash \in AckHashes /\ sent' = [sent EXCEPT ![owner.hash] = @ + 1]
    BY SendKeeps DEF Inv, store, delivery
  <1>2. sent[owner.hash] = 0
    BY DEF Inv, SentInv, SendPcs, Send, At
  <1>3. \A r \in rows \union saved :
          r.st = "ACKNOWLEDGED" => sent'[AckHash(r.id, 0)] = 1
    <2>1. \A r \in rows \union saved : AckHash(r.id, 0) \in AckHashes
      BY RowIsTyped, HashIsHash DEF Inv, TypeInv
    <2>2. \A r \in rows \union saved :
            r.st = "ACKNOWLEDGED" => sent[AckHash(r.id, 0)] = 1
      BY DEF Inv, OutcomeInv
    <2>3. sent \in [AckHashes -> Nat]
      BY DEF Inv, TypeInv
    <2>4. \A h \in AckHashes : sent[h] = 1 => sent'[h] = 1
      BY <1>1, <1>2, <2>3
    <2>5. QED BY <2>1, <2>2, <2>4
  <1>4. QED BY <1>1, <1>3 DEF Inv, OutcomeInv

LEMMA NextOutcome ==
  ASSUME Inv, [Next]_vars
  PROVE  OutcomeInv'
  <1> USE DEF Inv
  <1>1. CASE PendingAction
    BY <1>1, ActionIsPending, PendingOutcome
  <1>2. CASE Waits
    BY <1>2, WaitsKeep, SameRowsOutcome DEF store, delivery, others
  <1>3. CASE EndsOperation
    BY <1>3, EndKeeps, SameRowsOutcome DEF store, delivery, others
  <1>4. CASE HandleSendDm
    <2>1. PICK n : NewRow(n, used'.sessions) /\ rows' = rows \union {n}
      BY <1>4, SendDmKeeps
    <2>2. Saves /\ UNCHANGED <<sent, owner>>
      BY <1>4, SendDmKeeps DEF delivery, others
    <2>3. \A q \in rows' : q \in rows \/ q.st = "QUEUED"
      BY <2>1 DEF NewRow
    <2>4. saved' \in {saved, rows'} /\ mask' \subseteq mask
      BY <2>2 DEF Saves
    <2>5. QED BY <2>2, <2>3, <2>4, OutcomeKept
  <1>5. CASE RecordDetachedFailure
    <2>1. /\ \A q \in rows' : q \in rows \/ q.st = "FAILED_QUEUE"
          /\ Saves /\ UNCHANGED <<sent, owner>>
      BY <1>5, DetachKeeps DEF FailedRow, delivery, others
    <2>2. saved' \in {saved, rows'} /\ mask' \subseteq mask
      BY <2>1 DEF Saves
    <2>3. QED BY <2>1, <2>2, OutcomeKept
  <1>6. CASE RadioNotStarted
    BY <1>6, NotStartedKeeps, SameRowsOutcome DEF store, delivery, others
  <1>7. CASE BeginPending
    <2>1. UNCHANGED <<rows, saved, mask, sent>> /\ owner = NoOwner
      BY <1>7, BeginKeeps DEF store, others, ControlInv, PcInv, AdmitPcs
    <2>2. \A r \in rows : r.id # NoSession
      BY RowIsTyped DEF TypeInv
    <2>3. \A r \in rows : ~(r.st = "ACKNOWLEDGED" /\ r.id \in mask)
      BY <2>1, <2>2, NothingIsTyped DEF OutcomeInv
    <2>4. QED BY <2>1, <2>3 DEF OutcomeInv
  <1>8. CASE Send
    BY <1>8, SendOutcome
  <1>9. CASE SendReply
    BY <1>9, ReplyKeeps, SameRowsOutcome DEF store, delivery, others
  <1>10. ASSUME NEW h \in AckHashes, RxAck(h) PROVE OutcomeInv'
    BY <1>10, RxAckOutcome
  <1>11. CASE FinalizeAck
    <2>1. /\ UNCHANGED <<rows, saved, mask, sent>>
          /\ \E r \in rows : r.id = owner.session /\ ShowsAck(r)
      BY <1>11, FinalizeKeeps DEF store
    <2>2. owner.session \notin mask
      BY <2>1 DEF ShowsAck
    <2>3. QED BY <2>1, <2>2 DEF OutcomeInv
  <1>12. CASE DeadlineFails \/ RetryAsFlood
    BY <1>12, DeadlineKeeps, SameRowsOutcome DEF store, others
  <1>13. CASE DriverEnds
    BY <1>13, SameRowsOutcome DEF DriverEnds, store, delivery, others
  <1>14. ASSUME NEW ok \in BOOLEAN, WorkerFlush(ok) PROVE OutcomeInv'
    <2>1. Saves /\ UNCHANGED <<rows, owner, sent>>
      BY <1>14, FlushSaves DEF WorkerFlush, TypeInv, delivery, others
    <2>2. saved' \in {saved, rows} /\ mask' \subseteq mask
      BY <2>1 DEF Saves
    <2>3. QED BY <2>1, <2>2, SameRowsOutcome
  <1>15. CASE Clear
    BY <1>15, ClearKeeps DEF delivery, OutcomeInv
  <1>16. CASE Crash
    BY <1>16, CrashKeeps DEF OutcomeInv
  <1>17. CASE UNCHANGED vars
    BY <1>17, SameRowsOutcome DEF vars, store, delivery, others
  <1>18. QED
    BY NextCases, <1>1, <1>2, <1>3, <1>4, <1>5, <1>6, <1>7, <1>8, <1>9, <1>10, <1>11,
       <1>12, <1>13, <1>14, <1>15, <1>16, <1>17

-----------------------------------------------------------------------------
(* Each step of DmRuntime is a step of DmOutcome or a stutter.             *)

(* Flushing shows no more rows than before, unless the owner's ACK waits.  *)
LEMMA QuietFlush ==
  ASSUME Inv, NEW m, m = owner.session => ~Suppresses, Saves,
         used'.sessions = used.sessions,
         \A q \in rows' : q.id = m => q \in rows,
         \A r \in rows : r.id = m => r \in rows'
  PROVE  OutcomeOf(m)' = OutcomeOf(m)
  <1>1. \A r \in rows : r.id = m /\ r.st = "ACKNOWLEDGED" => r.id \notin mask
    <2>1. CASE m = owner.session
      <3>1. \A r \in rows : r.id = m => r.st = owner.state /\ r.id # NoSession
        BY <2>1, RowIsTyped DEF Inv, RowInv, Tracks, TypeInv
      <3>2. OwnerActive(owner) => owner.state # "ACKNOWLEDGED"
        BY DEF Inv, ControlInv, DeliveryInv, Terminal
      <3>3. QED BY <2>1, <3>1, <3>2 DEF OwnerActive
    <2>2. CASE m # owner.session
      BY <2>2 DEF Inv, OutcomeInv
    <2>3. QED BY <2>1, <2>2
  <1>2. mask' \subseteq mask
    BY DEF Saves
  <1>3. Has(m)' <=> Has(m)
    BY DEF Has
  <1>4. HasAck(m)' <=> HasAck(m)
    BY <1>1, <1>2 DEF HasAck, ShowsAck
  <1>5. HasFailure(m)' <=> HasFailure(m)
    BY DEF HasFailure
  <1>6. QED BY <1>3, <1>4, <1>5, OutcomeStays

(* The store as it is.                                                     *)
LEMMA SameStoreShown ==
  ASSUME UNCHANGED <<rows, mask>>, used'.sessions = used.sessions
  PROVE  SameOutcomes
  <1>1. ASSUME NEW s \in Sessions PROVE OutcomeOf(s)' = OutcomeOf(s)
    <2>1. Has(s)' <=> Has(s)
      BY DEF Has
    <2>2. HasAck(s)' <=> HasAck(s)
      BY DEF HasAck, ShowsAck
    <2>3. HasFailure(s)' <=> HasFailure(s)
      BY DEF HasFailure
    <2>4. QED BY <2>1, <2>2, <2>3, OutcomeStays
  <1>2. QED BY <1>1 DEF SameOutcomes

LEMMA SameStore ==
  ASSUME UNCHANGED store, used'.sessions = used.sessions
  PROVE  SameOutcomes
  BY SameStoreShown DEF store

(* The owner's message while it is being delivered.                        *)
LEMMA OwnerIsCurrent ==
  ASSUME Inv, OwnerActive(owner)
  PROVE  /\ CurrentMessage = owner.session /\ owner.session \in Sessions
         /\ owner.session <= used.sessions
         /\ OutcomeOf(owner.session) # "unsent"
         /\ ~Suppresses => OutcomeOf(owner.session) \in {"open", "forgotten"}
         /\ ~Suppresses /\ Has(owner.session) => OutcomeOf(owner.session) = "open"
  <1>1. /\ owner.session \in Sessions /\ owner.session <= used.sessions
        /\ ~Terminal(owner.state) /\ owner.state # "ACKNOWLEDGED"
        /\ owner.session \in Nat /\ used.sessions \in Nat
    BY RuntimeBoundsAssumption
       DEF Inv, TypeInv, OwnerType, OwnerActive, ControlInv, DeliveryInv, Terminal,
           Sessions, UsedType
  <1>2. CurrentMessage = owner.session
    BY DEF CurrentMessage
  <1>3. ASSUME ~Suppresses PROVE ~HasAck(owner.session) /\ ~HasFailure(owner.session)
    BY <1>1, <1>3 DEF HasAck, HasFailure, ShowsAck, Inv, RowInv, Tracks
  <1>4. ~(owner.session > used.sessions)
    BY <1>1
  <1>5. QED BY <1>1, <1>2, <1>3, <1>4, OutcomeIs

LEMMA PendingRefines ==
  ASSUME Inv, NEW next, NEW ret, NEW attempt, Pending(next, ret, attempt)
  PROVE  [Abstract!Next]_(Abstract!vars)
  <1>0. PICK m : m = owner.session
    OBVIOUS
  <1>1. /\ UNCHANGED <<card, sent, credits, used>> /\ MoveStep(next, ret, attempt)
        /\ next # "ACKNOWLEDGED" /\ ~Suppresses
        /\ task.pc \notin AdmitPcs /\ task'.pc \notin AdmitPcs
    BY DEF Pending, others, PcStep
  <1>2. CASE ret = "refused"
    <2>1. UNCHANGED store /\ owner' = owner
      BY <1>1, <1>2 DEF MoveStep, Stored
    <2>2. CurrentMessage' = CurrentMessage
      BY <1>1, <2>1 DEF CurrentMessage, AdmitPcs
    <2>3. SameOutcomes
      BY <1>1, <2>1, SameStore
    <2>4. QED BY <1>1, <2>2, <2>3, AbstractStutters
  <1>3. CASE ret # "refused"
    <2>1. /\ OwnerActive(owner) /\ Saves
          /\ \A q \in rows' : (q \in rows /\ q.id # m) \/ (q.id = m /\ q.st = next)
          /\ \A r \in rows : \/ r \in rows' /\ r.id # m
                             \/ r.id = m /\ \E q \in rows' : q.id = m /\ q.st = next
      <3>1. TypeInv /\ ControlInv /\ RowInv
        BY DEF Inv
      <3> DEFINE hash == AckHash(owner.session, attempt)
      <3>2. /\ OwnerActive(owner) /\ Saves
            /\ \A q \in rows' : \/ q \in rows /\ q.id # owner.session
                                \/ SessionRow(q, next, hash)
            /\ \A r \in rows : \/ r \in rows' /\ r.id # owner.session
                               \/ /\ r.id = owner.session
                                  /\ \E q \in rows' : SessionRow(q, next, hash)
        BY <1>3, <3>1, PendingRows
      <3> HIDE DEF hash
      <3>3. \A q : SessionRow(q, next, hash) => q.id = m /\ q.st = next
        BY <1>0 DEF SessionRow
      <3>4. \A r \in rows : \/ r \in rows' /\ r.id # m
                            \/ r.id = m /\ \E q \in rows' : q.id = m /\ q.st = next
        BY <1>0, <3>2, <3>3
      <3>5. \A q \in rows' : (q \in rows /\ q.id # m) \/ (q.id = m /\ q.st = next)
        BY <1>0, <3>2, <3>3
      <3>6. QED BY <3>2, <3>4, <3>5
    <2>2. \E r \in rows : r.id = m
      BY <1>0, <1>1, <1>3 DEF MoveStep, Stored, CasHolds, Current
    <2>3. /\ CurrentMessage = m /\ m \in Sessions /\ m <= used.sessions
          /\ OutcomeOf(m) = "open"
      BY <1>0, <1>1, <2>1, <2>2, OwnerIsCurrent DEF Has
    <2>4. ASSUME NEW s \in Sessions, s # m PROVE OutcomeOf(s)' = OutcomeOf(s)
      BY <1>0, <1>1, <2>1, <2>4, QuietFlush
    <2>5. /\ Has(m)' /\ ~HasAck(m)' /\ (HasFailure(m)' <=> Terminal(next))
      <3>1. \E q \in rows' : q.id = m /\ q.st = next
        BY <2>1, <2>2
      <3>2. \A q \in rows' : q.id = m => q.st = next
        BY <2>1
      <3>3. QED BY <1>1, <3>1, <3>2 DEF Has, HasAck, HasFailure, ShowsAck
    <2>6. ~(m > used'.sessions)
      <3>1. m \in Nat /\ used.sessions \in Nat
        BY <2>3, RuntimeBoundsAssumption DEF Inv, TypeInv, UsedType, Sessions
      <3>2. QED BY <1>1, <2>3, <3>1
    <2>7. CASE Terminal(next)
      <3>1. Only(m, "failed")
        <4>1. OutcomeOf(m)' = "failed"
          BY <2>5, <2>6, <2>7, OutcomeIsNext
        <4>2. QED BY <2>4, <4>1 DEF Only
      <3>2. CurrentMessage' = NoSession
        BY <1>1, <1>3, <2>7, NothingIsTyped DEF MoveStep, CurrentMessage, AdmitPcs
      <3>3. Abstract!Fail(m)
        BY <1>1, <2>3, <3>1, <3>2, AbstractFails
      <3>4. QED BY <2>3, <3>3 DEF Abstract!Next
    <2>8. CASE ~Terminal(next)
      <3>1. SameOutcomes
        <4>1. OutcomeOf(m)' = "open"
          BY <2>5, <2>6, <2>8, OutcomeIsNext
        <4>2. QED BY <2>3, <2>4, <4>1 DEF SameOutcomes
      <3>2. CurrentMessage' = CurrentMessage
        BY <1>0, <1>1, <1>3, <2>1, <2>3, <2>8 DEF MoveStep, CurrentMessage, OwnerActive
      <3>3. QED BY <1>1, <3>1, <3>2, AbstractStutters
    <2>9. QED BY <2>7, <2>8
  <1>4. QED BY <1>2, <1>3

LEMMA SendDmRefines ==
  ASSUME Inv, HandleSendDm
  PROVE  [Abstract!Next]_(Abstract!vars)
  <1>1. PICK m : m = used'.sessions
    OBVIOUS
  <1>2. /\ m \in Sessions /\ m = used.sessions + 1 /\ used.sessions \in Nat
        /\ ~OwnerActive(owner) /\ owner' = owner /\ UNCHANGED <<card, sent, credits>>
        /\ task.pc = "loop" /\ task'.pc \in AdmitPcs /\ Saves
    BY <1>1, SendDmKeeps DEF Inv, TypeInv, UsedType, delivery, others, HandleSendDm, Ready, At
  <1>3. PICK n : n.id = m /\ n.st = "QUEUED" /\ rows' = rows \union {n}
    BY <1>1, SendDmKeeps DEF NewRow, Inv
  <1>4. \A r \in rows : r.id <= used.sessions /\ r.id \in Nat /\ r.id \in Sessions
    BY RowIsTyped DEF Inv, RowInv, TypeInv
  <1>5. OutcomeOf(m) = "unsent"
    BY <1>2, OutcomeIs
  <1>6. OutcomeOf(m)' = "open"
    <2>1. Has(m)'
      BY <1>3 DEF Has
    <2>2. \A r \in rows' : r.id = m => r = n
      BY <1>2, <1>3, <1>4
    <2>3. ~HasAck(m)' /\ ~HasFailure(m)'
      BY <1>3, <2>2 DEF HasAck, HasFailure, ShowsAck, Terminal
    <2>4. ~(m > used'.sessions)
      BY <1>1, <1>2
    <2>5. QED BY <2>1, <2>3, <2>4, OutcomeIsNext
  <1>7. ASSUME NEW s \in Sessions, s # m PROVE OutcomeOf(s)' = OutcomeOf(s)
    <2>1. s \in Nat /\ s # NoSession
      BY RuntimeBoundsAssumption DEF Sessions, NoSession
    <2>2. (s > used'.sessions) <=> (s > used.sessions)
      BY <1>1, <1>2, <1>7, <2>1
    <2>3. \A r \in rows : r.id = s /\ r.st = "ACKNOWLEDGED" => r.id \notin mask
      BY <1>2, <2>1 DEF Inv, OutcomeInv, OwnerActive
    <2>4. \A r \in rows' : r.id = s <=> r \in rows /\ r.id = s
      BY <1>3, <1>7
    <2>5. rows \subseteq rows' /\ mask' \subseteq mask
      BY <1>2, <1>3 DEF Saves
    <2>6. Has(s)' <=> Has(s)
      BY <2>4, <2>5 DEF Has
    <2>7. HasAck(s)' <=> HasAck(s)
      BY <2>3, <2>4, <2>5 DEF HasAck, ShowsAck
    <2>8. HasFailure(s)' <=> HasFailure(s)
      BY <2>4, <2>5 DEF HasFailure
    <2>9. QED BY <2>2, <2>6, <2>7, <2>8, OutcomeIs, OutcomeIsNext
  <1>8. CurrentMessage = NoSession /\ CurrentMessage' = m
    BY <1>1, <1>2 DEF CurrentMessage, AdmitPcs
  <1>9. Only(m, "open")
    BY <1>6, <1>7 DEF Only
  <1>10. Abstract!Submit(m)
    BY <1>2, <1>5, <1>8, <1>9, AbstractSubmits
  <1>11. QED BY <1>2, <1>10 DEF Abstract!Next

(* The row of a message no owner was bound to fails, or a clear took it.   *)
LEMMA DetachRefines ==
  ASSUME Inv, RecordDetachedFailure
  PROVE  [Abstract!Next]_(Abstract!vars)
  <1>1. PICK m : m = used.sessions
    OBVIOUS
  <1>2. /\ task.pc = "detach" /\ task'.pc \notin AdmitPcs /\ Saves
        /\ UNCHANGED <<owner, card, sent, credits, used>> /\ owner = NoOwner
        /\ used.sessions # 0 /\ used.sessions \in Nat /\ used.sessions <= MaxSessions
    BY DetachKeeps
       DEF Inv, ControlInv, PcInv, AdmitPcs, TypeInv, UsedType, delivery, others, Tails
  <1>3. m \in Sessions /\ ~(m > used.sessions) /\ m # owner.session /\ m # NoSession
    BY <1>1, <1>2, NothingIsTyped, RuntimeBoundsAssumption DEF Sessions, NoSession
  <1>4. CurrentMessage = m /\ CurrentMessage' = NoSession
    BY <1>1, <1>2, NothingIsTyped DEF CurrentMessage, AdmitPcs
  <1>5. \A r \in rows : r.id = m <=> Detached(r)
    BY <1>1, <1>2 DEF Inv, RowInv, AdmitPcs, Fresh, Detached
  <1>6. /\ \A q \in rows' : \/ q \in rows /\ q.id # m
                            \/ /\ q.id = m /\ q.st = "FAILED_QUEUE"
                               /\ \E r \in rows : r.id = m
        /\ \A r \in rows : \/ r \in rows' /\ r.id # m
                           \/ r.id = m /\ \E q \in rows' : q.id = m /\ q.st = "FAILED_QUEUE"
    BY <1>5, DetachKeeps DEF FailedRow, Inv
  <1>7. ASSUME NEW s \in Sessions, s # m PROVE OutcomeOf(s)' = OutcomeOf(s)
    BY <1>2, <1>6, <1>7, QuietFlush, NothingIsTyped DEF Sessions, NoSession
  <1>8. CASE \E r \in rows : r.id = m
    <2>1. OutcomeOf(m) = "open"
      <3>1. \A r \in rows : r.id = m => r.st = "QUEUED"
        BY <1>5 DEF Detached
      <3>2. Has(m) /\ ~HasAck(m) /\ ~HasFailure(m)
        BY <1>8, <3>1 DEF Has, HasAck, HasFailure, ShowsAck, Terminal
      <3>3. QED BY <1>3, <3>2, OutcomeIs
    <2>2. OutcomeOf(m)' = "failed"
      <3>1. Has(m)' /\ ~HasAck(m)' /\ HasFailure(m)'
        BY <1>6, <1>8 DEF Has, HasAck, HasFailure, ShowsAck, Terminal
      <3>2. QED BY <1>2, <1>3, <3>1, OutcomeIsNext
    <2>3. Only(m, "failed")
      BY <1>7, <2>2 DEF Only
    <2>4. Abstract!Fail(m)
      BY <1>2, <1>3, <1>4, <2>1, <2>3, AbstractFails
    <2>5. QED BY <1>3, <2>4 DEF Abstract!Next
  <1>9. CASE ~\E r \in rows : r.id = m
    <2>1. ~Has(m) /\ ~Has(m)'
      BY <1>6, <1>9 DEF Has
    <2>2. OutcomeOf(m) = "forgotten" /\ OutcomeOf(m)' = "forgotten"
      BY <1>2, <1>3, <2>1, OutcomeIs, OutcomeIsNext
    <2>3. SameOutcomes
      BY <1>7, <2>2 DEF SameOutcomes
    <2>4. Abstract!Abandon(m)
      BY <1>2, <1>3, <1>4, <2>2, <2>3, AbstractAbandons
    <2>5. QED BY <1>3, <2>4 DEF Abstract!Next
  <1>10. QED BY <1>8, <1>9

LEMMA SendRefines ==
  ASSUME Inv, Send
  PROVE  [Abstract!Next]_(Abstract!vars)
  <1>1. PICK m : m = owner.session
    OBVIOUS
  <1>2. /\ OwnerActive(owner) /\ UNCHANGED <<rows, saved, mask, owner, card, credits>>
        /\ used'.sessions = used.sessions /\ task.pc = "send" /\ ~Suppresses
        /\ sent' = [sent EXCEPT ![owner.hash] = @ + 1] /\ owner.hash \in AckHashes
    BY SendKeeps DEF Inv, store, delivery, ControlInv, PcInv, Tails, IdlePcs
  <1>3. /\ CurrentMessage = m /\ m \in Sessions
        /\ OutcomeOf(m) \in {"open", "forgotten"}
    BY <1>1, <1>2, OwnerIsCurrent
  <1>4. SameOutcomes /\ CurrentMessage' = CurrentMessage
    BY <1>2, SameStore DEF store, CurrentMessage
  <1>5. /\ sent[owner.hash] = 0 /\ sent \in [AckHashes -> Nat]
        /\ owner.hash = AckHash(m, tx.attempt) /\ tx.attempt \in {0, 1}
    BY <1>1, <1>2 DEF Inv, SentInv, SendPcs, TypeInv, ControlInv, DeliveryInv, TxType
  <1>6. \A s \in Sessions : \A a \in {0, 1} :
          /\ AckHash(s, a) \in AckHashes
          /\ AckHash(s, a) = owner.hash <=> s = m /\ a = tx.attempt
    BY <1>3, <1>5, HashIsHash, HashInjective
  <1>7. /\ \A s \in Sessions : s # m =>
             /\ sent'[AckHash(s, 0)] = sent[AckHash(s, 0)]
             /\ sent'[AckHash(s, 1)] = sent[AckHash(s, 1)]
        /\ sent'[AckHash(m, 0)] + sent'[AckHash(m, 1)]
             = sent[AckHash(m, 0)] + sent[AckHash(m, 1)] + 1
    <2>1. /\ sent[AckHash(m, 0)] \in Nat /\ sent[AckHash(m, 1)] \in Nat
          /\ AckHash(m, 0) \in AckHashes /\ AckHash(m, 1) \in AckHashes
      BY <1>3, <1>5, <1>6
    <2>2. CASE tx.attempt = 0
      <3>1. /\ sent'[AckHash(m, 0)] = sent[AckHash(m, 0)] + 1
            /\ sent'[AckHash(m, 1)] = sent[AckHash(m, 1)]
        BY <1>2, <1>3, <1>5, <1>6, <2>1, <2>2
      <3>2. QED BY <1>2, <1>5, <1>6, <2>1, <3>1
    <2>3. CASE tx.attempt = 1
      <3>1. /\ sent'[AckHash(m, 1)] = sent[AckHash(m, 1)] + 1
            /\ sent'[AckHash(m, 0)] = sent[AckHash(m, 0)]
        BY <1>2, <1>3, <1>5, <1>6, <2>1, <2>3
      <3>2. QED BY <1>2, <1>5, <1>6, <2>1, <3>1
    <2>4. QED BY <1>5, <2>2, <2>3
  <1>8. sent[AckHash(m, 0)] + sent[AckHash(m, 1)] < 2
    BY <1>2, <1>3, <1>5, <1>6 DEF Inv, SentInv, AttemptsSentOnce
  <1>9. Abstract!Transmit(m)
    <2> DEFINE before == [s \in Sessions |-> sent[AckHash(s, 0)] + sent[AckHash(s, 1)]]
               after == [s \in Sessions |-> sent'[AckHash(s, 0)] + sent'[AckHash(s, 1)]]
    <2>1. \A s \in Sessions : after[s] = [before EXCEPT ![m] = @ + 1][s]
      BY <1>3, <1>7
    <2>2. after = [before EXCEPT ![m] = @ + 1]
      BY <2>1, Zenon
    <2>3. before[m] < 2
      BY <1>3, <1>8
    <2>4. QED BY <1>2, <1>3, <1>4, <2>2, <2>3 DEF Abstract!Transmit, SameOutcomes
  <1>10. QED BY <1>3, <1>9 DEF Abstract!Next

(* A flush by the worker decides the owner's message if its ACK waits.     *)
LEMMA WorkerRefines ==
  ASSUME Inv, NEW ok \in BOOLEAN, WorkerFlush(ok)
  PROVE  [Abstract!Next]_(Abstract!vars)
  <1>1. /\ Saves /\ UNCHANGED <<rows, owner, tx, card, sent, credits, task, used>>
    BY FlushSaves DEF WorkerFlush, Inv, TypeInv, delivery, others
  <1>2. CurrentMessage' = CurrentMessage
    BY <1>1 DEF CurrentMessage
  <1>3. CASE ~Suppresses
    <2>1. SameOutcomes
      BY <1>1, <1>3, QuietFlush DEF SameOutcomes
    <2>2. QED BY <1>1, <1>2, <2>1, AbstractStutters
  <1>4. CASE Suppresses /\ mask' = mask
    <2>1. SameOutcomes
      BY <1>1, <1>4, SameStoreShown
    <2>2. QED BY <1>1, <1>2, <2>1, AbstractStutters
  <1>5. CASE Suppresses /\ mask' = {}
    <2>1. PICK m : m = owner.session
      OBVIOUS
    <2>2. /\ OwnerActive(owner) /\ CurrentMessage = m /\ m \in Sessions
          /\ m <= used.sessions /\ OutcomeOf(m) # "unsent"
      BY <1>5, <2>1, OwnerIsCurrent DEF Inv, ControlInv, DeliveryInv
    <2>3. ASSUME NEW s \in Sessions, s # m PROVE OutcomeOf(s)' = OutcomeOf(s)
      BY <1>1, <2>1, <2>3, QuietFlush
    <2>4. \A r \in rows : r.id = m => r.st = "ACKNOWLEDGED"
      BY <1>5, <2>1 DEF Inv, RowInv, Tracks
    <2>5. CASE OutcomeOf(m)' = OutcomeOf(m)
      <3>1. SameOutcomes
        BY <2>3, <2>5 DEF SameOutcomes
      <3>2. QED BY <1>1, <1>2, <3>1, AbstractStutters
    <2>6. CASE OutcomeOf(m)' # OutcomeOf(m)
      <3>1. Has(m) /\ Has(m)' /\ ~HasFailure(m) /\ ~HasFailure(m)' /\ HasAck(m)'
        <4>1. (Has(m)' <=> Has(m)) /\ ~HasFailure(m) /\ ~HasFailure(m)'
          BY <1>1, <2>4 DEF Has, HasFailure
        <4>2. HasAck(m)' <=> Has(m)
          BY <1>1, <1>5, <2>4 DEF Has, HasAck, ShowsAck
        <4>3. HasAck(m) => Has(m)
          BY DEF Has, HasAck
        <4>4. Has(m)
          BY <1>1, <2>6, <4>1, <4>2, <4>3, OutcomeStays
        <4>5. QED BY <4>1, <4>2, <4>4
      <3>2. OutcomeOf(m) = "open" /\ OutcomeOf(m)' = "acknowledged"
        BY <1>1, <2>2, <2>6, <3>1, OutcomeIs, OutcomeIsNext
      <3>3. sent[AckHash(m, 0)] + sent[AckHash(m, 1)] > 0
        <4>1. sent[AckHash(m, 0)] = 1
          BY <2>4, <3>1 DEF Has, Inv, OutcomeInv
        <4>2. sent[AckHash(m, 1)] \in Nat
          BY <2>2, HashIsHash DEF Inv, TypeInv
        <4>3. QED BY <4>1, <4>2
      <3>4. Only(m, "acknowledged")
        BY <2>3, <3>2 DEF Only
      <3>5. Abstract!Acknowledge(m)
        BY <1>1, <1>2, <2>2, <3>2, <3>3, <3>4, AbstractAcknowledges
      <3>6. QED BY <2>2, <3>5 DEF Abstract!Next
    <2>7. QED BY <2>5, <2>6
  <1>6. QED BY <1>1, <1>3, <1>4, <1>5 DEF Saves

LEMMA RxAckRefines ==
  ASSUME Inv, NEW h \in AckHashes, RxAck(h)
  PROVE  [Abstract!Next]_(Abstract!vars)
  <1>1. PICK m : m = owner.session
    OBVIOUS
  <1>2. /\ OwnerActive(owner) /\ owner.state = "AWAITING_ACK" /\ ~Suppresses
        /\ UNCHANGED <<saved, owner, card, sent, credits, used>>
        /\ task.pc = "loop" /\ task'.pc = "bus"
    BY RxAckKeeps DEF others, Inv
  <1>3. CurrentMessage' = CurrentMessage
    BY <1>2 DEF CurrentMessage
  <1>4. CASE UNCHANGED <<rows, mask>>
    <2>1. SameOutcomes
      BY <1>2, <1>4, SameStore DEF store
    <2>2. QED BY <1>2, <1>3, <2>1, AbstractStutters
  <1>5. CASE /\ CasHolds("ACKNOWLEDGED") /\ rows' = Moved("ACKNOWLEDGED", owner.hash)
             /\ mask' = mask \union {owner.session}
    <2>1. owner.hash \in AckHashes /\ "ACKNOWLEDGED" \in DeliveryStates
      BY <1>2, HashIsHash
         DEF Inv, ControlInv, DeliveryInv, TypeInv, OwnerType, OwnerActive, TxType,
             DeliveryStates
    <2>2. /\ \A q \in rows' : \/ q \in rows /\ q.id # m
                              \/ q.id = m /\ q.st = "ACKNOWLEDGED"
          /\ \A r \in rows : \/ r \in rows' /\ r.id # m
                             \/ r.id = m /\ \E q \in rows' : q.id = m
      <3>1. \A q : SessionRow(q, "ACKNOWLEDGED", owner.hash) =>
              q.id = m /\ q.st = "ACKNOWLEDGED"
        BY <1>1 DEF SessionRow
      <3>2. QED BY <1>1, <1>2, <1>5, <2>1, <3>1, SessionMoves DEF Inv
    <2>3. ASSUME NEW s \in Sessions, s # m PROVE OutcomeOf(s)' = OutcomeOf(s)
      <3>1. s \in mask' <=> s \in mask
        BY <1>1, <1>5, <2>3
      <3>2. Has(s)' <=> Has(s)
        BY <2>2, <2>3 DEF Has
      <3>3. HasAck(s)' <=> HasAck(s)
        BY <2>2, <2>3, <3>1 DEF HasAck, ShowsAck
      <3>4. HasFailure(s)' <=> HasFailure(s)
        BY <2>2, <2>3 DEF HasFailure
      <3>5. QED BY <1>2, <3>2, <3>3, <3>4, OutcomeStays
    <2>4. OutcomeOf(m) = "open" /\ m <= used.sessions /\ m \in Sessions
      <3>1. \E r \in rows : r.id = m
        BY <1>1, <1>5 DEF CasHolds, Current
      <3>2. QED BY <1>1, <1>2, <3>1, OwnerIsCurrent DEF Has
    <2>5. OutcomeOf(m)' = "open"
      <3>1. \E q \in rows' : q.id = m
        BY <1>1, <1>5, <2>2 DEF CasHolds, Current
      <3>2. m \in mask'
        BY <1>1, <1>5
      <3>3. Has(m)' /\ ~HasAck(m)' /\ ~HasFailure(m)'
        BY <2>2, <3>1, <3>2 DEF Has, HasAck, HasFailure, ShowsAck
      <3>4. ~(m > used'.sessions)
        BY <1>2, <2>4, RuntimeBoundsAssumption DEF Inv, TypeInv, UsedType, Sessions
      <3>5. QED BY <3>3, <3>4, OutcomeIsNext
    <2>6. SameOutcomes
      BY <2>3, <2>4, <2>5 DEF SameOutcomes
    <2>7. QED BY <1>2, <1>3, <2>6, AbstractStutters
  <1>6. QED BY <1>4, <1>5, RxAckKeeps DEF Inv

LEMMA FinalizeRefines ==
  ASSUME Inv, FinalizeAck
  PROVE  [Abstract!Next]_(Abstract!vars)
  <1>1. PICK m : m = owner.session
    OBVIOUS
  <1>2. /\ OwnerActive(owner) /\ UNCHANGED <<rows, saved, mask, card, sent, used>>
        /\ \E r \in rows : r.id = m /\ ShowsAck(r)
        /\ credits' = [credits EXCEPT ![m] = @ + 1] /\ owner' = NoOwner
        /\ task'.pc = "deadline"
    BY <1>1, FinalizeKeeps DEF Inv, store
  <1>3. /\ CurrentMessage = m /\ m \in Sessions /\ OutcomeOf(m) # "unsent"
    BY <1>1, <1>2, OwnerIsCurrent
  <1>4. OutcomeOf(m) = "acknowledged"
    BY <1>2, <1>3, OutcomeIs DEF Has, HasAck
  <1>5. SameOutcomes
    BY <1>2, SameStore DEF store
  <1>6. CurrentMessage' = NoSession
    BY <1>2, NothingIsTyped DEF CurrentMessage
  <1>7. credits[m] = 0 /\ credits \in [Sessions -> Nat]
    BY <1>1, <1>3 DEF Inv, CreditInv, TypeInv
  <1>8. Abstract!Credit(m)
    BY <1>2, <1>3, <1>4, <1>5, <1>6, <1>7, AbstractCredits
  <1>9. QED BY <1>3, <1>8 DEF Abstract!Next

LEMMA ClearRefines ==
  ASSUME Inv, Clear
  PROVE  [Abstract!Next]_(Abstract!vars)
  <1>1. /\ rows' = {} /\ used'.sessions = used.sessions
        /\ UNCHANGED <<task, owner, card, sent, credits>>
    BY ClearKeeps DEF Inv, delivery
  <1>2. CurrentMessage' = CurrentMessage
    BY <1>1 DEF CurrentMessage
  <1>3. ASSUME NEW s \in Sessions
        PROVE  OutcomeOf(s)' = IF OutcomeOf(s) = "unsent" THEN "unsent" ELSE "forgotten"
    <2>1. ~Has(s)'
      BY <1>1 DEF Has
    <2>2. QED BY <1>1, <2>1, OutcomeIs, OutcomeIsNext
  <1>4. Abstract!Forget
    BY <1>1, <1>2, <1>3, AbstractForgets
  <1>5. QED BY <1>4 DEF Abstract!Next

(* An ACK shown with the card in the slot is on it, and what is there as   *)
(* acknowledged was sent.                                                  *)
LEMMA CrashRefines ==
  ASSUME Inv, Crash
  PROVE  [Abstract!Next]_(Abstract!vars)
  <1>1. /\ used'.sessions = used.sessions /\ UNCHANGED <<saved, sent, credits>>
        /\ mask' = {} /\ owner' = NoOwner /\ task'.pc = "loop" /\ card' \in BOOLEAN
        /\ \A q \in rows' : \E r \in saved :
              q.id = r.id /\ (q.st = "ACKNOWLEDGED" => r.st = "ACKNOWLEDGED")
        /\ ~card' => rows' = {}
    BY CrashKeeps DEF Inv
  <1>2. card' => \A r \in saved : r.st = "ACKNOWLEDGED" => r \in rows'
    BY DEF Crash, NormalizedDelivery, InterruptedByReboot
  <1>3. CurrentMessage' = NoSession
    BY <1>1, NothingIsTyped DEF CurrentMessage
  <1>4. ASSUME NEW s \in Sessions
        PROVE  /\ OutcomeOf(s)' \in Abstract!Outcomes
               /\ OutcomeOf(s) = "unsent" => OutcomeOf(s)' = "unsent"
               /\ OutcomeOf(s) # "unsent" => OutcomeOf(s)' # "unsent"
               /\ OutcomeOf(s) # "unsent" /\ ~card' => OutcomeOf(s)' = "forgotten"
               /\ OutcomeOf(s) = "acknowledged" /\ card /\ card' =>
                    OutcomeOf(s)' = "acknowledged"
               /\ OutcomeOf(s)' = "acknowledged" =>
                    sent[AckHash(s, 0)] + sent[AckHash(s, 1)] > 0
    <2>1. (s > used'.sessions) <=> (s > used.sessions)
      BY <1>1
    <2>2. ASSUME card, card' PROVE HasAck(s) => HasAck(s)' /\ Has(s)'
      <3>1. HasAck(s) => Acked(saved, s)
        BY <2>2 DEF HasAck, Inv, SavedInv, CopyInv, ShownIsSaved
      <3>2. Acked(saved, s) => HasAck(s)' /\ Has(s)'
        BY <1>1, <1>2, <2>2 DEF Acked, Has, HasAck, ShowsAck
      <3>3. QED BY <3>1, <3>2
    <2>3. HasAck(s)' => sent[AckHash(s, 0)] + sent[AckHash(s, 1)] > 0
      <3>1. HasAck(s)' => sent[AckHash(s, 0)] = 1
        BY <1>1 DEF HasAck, ShowsAck, Inv, OutcomeInv
      <3>2. sent[AckHash(s, 1)] \in Nat
        BY HashIsHash DEF Inv, TypeInv
      <3>3. QED BY <3>1, <3>2
    <2>4. ~card' => ~Has(s)'
      BY <1>1 DEF Has
    <2>5. QED BY <2>1, <2>2, <2>3, <2>4, OutcomeIs, OutcomeIsNext DEF Abstract!Outcomes
  <1>5. ASSUME NEW s \in Sessions
        PROVE  OutcomeOf(s)' \in
                 CASE OutcomeOf(s) = "unsent" -> {"unsent"}
                   [] OutcomeOf(s) # "unsent" /\ ~card' -> {"forgotten"}
                   [] OutcomeOf(s) = "acknowledged" /\ card /\ card' -> {"acknowledged"}
                   [] OTHER -> {"open", "failed", "forgotten"}
                     \union (IF sent[AckHash(s, 0)] + sent[AckHash(s, 1)] > 0
                             THEN {"acknowledged"} ELSE {})
    <2>1. CASE OutcomeOf(s) = "unsent"
      BY <1>4, <2>1
    <2>2. CASE OutcomeOf(s) # "unsent" /\ ~card'
      BY <1>4, <2>2
    <2>3. CASE OutcomeOf(s) = "acknowledged" /\ card /\ card'
      BY <1>4, <2>3
    <2>4. CASE /\ OutcomeOf(s) # "unsent" /\ card'
               /\ ~(OutcomeOf(s) = "acknowledged" /\ card)
      <3>1. OutcomeOf(s)' \in Abstract!Outcomes \ {"unsent"}
        BY <1>4, <2>4
      <3>2. QED BY <1>4, <2>4, <3>1 DEF Abstract!Outcomes
    <2>5. QED BY <2>1, <2>2, <2>3, <2>4
  <1>6. Abstract!Reboot
    BY <1>1, <1>3, <1>4, <1>5 DEF Abstract!Reboot, Abstract!AfterReboot
  <1>7. QED BY <1>6 DEF Abstract!Next

LEMMA NextRefines ==
  ASSUME Inv, [Next]_vars
  PROVE  [Abstract!Next]_(Abstract!vars)
  <1>1. CASE PendingAction
    BY <1>1, ActionIsPending, PendingRefines DEF Inv
  <1>2. CASE Waits \/ EndsOperation
    <2>1. /\ UNCHANGED <<store, owner, card, sent, credits>> /\ used'.sessions = used.sessions
          /\ task'.pc \notin AdmitPcs
      BY <1>2, WaitsKeep, EndKeeps DEF Inv, delivery, others, AdmitPcs, Tails, IdlePcs
    <2>2. task.pc \notin AdmitPcs
      BY <1>2 DEF Waits, EndsOperation, AdmitPcs, At, Ready, IdlePoll, BusQuiet,
           WatchdogNotDue, WatchdogRefused, MaintenanceCut, NoOrphan, NothingToReconcile,
           DeadlineNotDue, RxMessage, ReplyNotSent, TakeTerminal, BusFault, WatchdogRecovers
    <2>3. SameOutcomes /\ CurrentMessage' = CurrentMessage
      BY <2>1, <2>2, SameStore DEF CurrentMessage, AdmitPcs
    <2>4. QED BY <2>1, <2>3, AbstractStutters
  <1>3. CASE HandleSendDm
    BY <1>3, SendDmRefines
  <1>4. CASE RecordDetachedFailure
    BY <1>4, DetachRefines
  <1>5. CASE RadioNotStarted \/ BeginPending
    <2>1. /\ UNCHANGED <<store, card, sent, credits>> /\ used'.sessions = used.sessions
          /\ task.pc = "begin" /\ owner = NoOwner
          /\ \/ task'.pc = "detach" /\ owner' = owner
             \/ owner'.session = used.sessions /\ OwnerActive(owner')
      BY <1>5, NotStartedKeeps, BeginKeeps
         DEF Inv, delivery, others, ControlInv, PcInv, AdmitPcs
    <2>2. SameOutcomes /\ CurrentMessage' = CurrentMessage
      BY <2>1, SameStore, NothingIsTyped DEF CurrentMessage
    <2>3. QED BY <2>1, <2>2, AbstractStutters
  <1>6. CASE Send
    BY <1>6, SendRefines
  <1>7. CASE SendReply
    <2>1. /\ UNCHANGED <<store, owner, card, sent, credits>> /\ used'.sessions = used.sessions
          /\ task.pc = "loop" /\ task'.pc = "bus"
      BY <1>7, ReplyKeeps DEF Inv, delivery, others
    <2>2. SameOutcomes /\ CurrentMessage' = CurrentMessage
      BY <2>1, SameStore DEF CurrentMessage
    <2>3. QED BY <2>1, <2>2, AbstractStutters
  <1>8. ASSUME NEW h \in AckHashes, RxAck(h) PROVE [Abstract!Next]_(Abstract!vars)
    BY <1>8, RxAckRefines
  <1>9. CASE FinalizeAck
    BY <1>9, FinalizeRefines
  <1>10. CASE DeadlineFails \/ RetryAsFlood
    <2>1. /\ UNCHANGED <<store, owner, card, sent, credits>> /\ used'.sessions = used.sessions
          /\ OwnerActive(owner)
      BY <1>10, DeadlineKeeps DEF Inv, others
    <2>2. SameOutcomes /\ CurrentMessage' = CurrentMessage
      BY <2>1, SameStore DEF CurrentMessage
    <2>3. QED BY <2>1, <2>2, AbstractStutters
  <1>11. CASE DriverEnds
    <2>1. UNCHANGED <<store, owner, card, sent, credits, used, task>>
      BY <1>11 DEF DriverEnds, delivery, others
    <2>2. SameOutcomes /\ CurrentMessage' = CurrentMessage
      BY <2>1, SameStore DEF CurrentMessage
    <2>3. QED BY <2>1, <2>2, AbstractStutters
  <1>12. ASSUME NEW ok \in BOOLEAN, WorkerFlush(ok) PROVE [Abstract!Next]_(Abstract!vars)
    BY <1>12, WorkerRefines
  <1>13. CASE Clear
    BY <1>13, ClearRefines
  <1>14. CASE Crash
    BY <1>14, CrashRefines
  <1>15. CASE UNCHANGED vars
    <2>1. UNCHANGED <<store, owner, card, sent, credits, used, task>>
      BY <1>15 DEF vars, delivery, others
    <2>2. SameOutcomes /\ CurrentMessage' = CurrentMessage
      BY <2>1, SameStore DEF CurrentMessage
    <2>3. QED BY <2>1, <2>2, AbstractStutters
  <1>16. QED
    BY NextCases, <1>1, <1>2, <1>3, <1>4, <1>5, <1>6, <1>7, <1>8, <1>9, <1>10, <1>11,
       <1>12, <1>13, <1>14, <1>15

LEMMA InitRefines == Init => Abstract!Init
  <1> SUFFICES ASSUME Init PROVE Abstract!Init
    OBVIOUS
  <1>1. \A s \in Sessions : /\ AckHash(s, 0) \in AckHashes /\ AckHash(s, 1) \in AckHashes
                            /\ s > 0
    BY HashIsHash, RuntimeBoundsAssumption DEF Sessions
  <1>2. \A s \in Sessions : OutcomeOf(s) = "unsent"
    BY <1>1, OutcomeIs DEF Init
  <1>3. CurrentMessage = NoSession
    BY NothingIsTyped DEF Init, CurrentMessage
  <1>4. \A s \in Sessions : /\ sent[AckHash(s, 0)] + sent[AckHash(s, 1)] = 0
                            /\ ~(credits[s] > 0)
    BY <1>1 DEF Init
  <1>5. [s \in Sessions |-> credits[s] > 0] = [s \in Sessions |-> FALSE]
    <2>1. \A s \in Sessions : (credits[s] > 0) = FALSE
      BY <1>4
    <2>2. QED BY <2>1, Zenon
  <1>6. card \in BOOLEAN
    BY DEF Init
  <1>7. QED BY <1>2, <1>3, <1>4, <1>5, <1>6 DEF Abstract!Init

LEMMA AllInvariant == Spec => []Inv
  <1>1. Init => TypeInv /\ ControlInv /\ RowInv /\ SentInv /\ SavedInv /\ CreditInv
                /\ OutcomeInv
    BY InitTyped, InitControl, InitRows, InitSent, InitSaved, InitCredit, InitOutcome
  <1>2. Inv /\ [Next]_vars => Inv'
    BY NextTyped, NextControlled, NextRows, NextSent, NextSaved, NextCredit, NextOutcome
       DEF Inv
  <1>3. QED BY <1>1, <1>2, PTL DEF Spec, Inv

(* The runtime is an implementation of DmOutcome.                          *)
THEOREM RuntimeKeepsPromise == Spec => KeepsPromise
  <1>1. Init => Abstract!Init
    BY InitRefines
  <1>2. Inv /\ [Next]_vars => [Abstract!Next]_(Abstract!vars)
    BY NextRefines
  <1>3. QED BY AllInvariant, <1>1, <1>2, PTL DEF Spec, KeepsPromise, Abstract!Spec
=============================================================================
