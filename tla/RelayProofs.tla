---------------------------- MODULE RelayProofs ----------------------------
(***************************************************************************)
(* What the notifier and the relay guarantee for every number of events,   *)
(* overlapping requests, answers and failures.                             *)
(***************************************************************************)
EXTENDS Relay, FiniteLemmas, SequenceTheorems

\* The notifier between the submission of an event and its receipt: it works
\* on an event of the outbox, and waits only for a request of that event.
PassIsBound ==
    /\ npc \in {"wait", "message", "put", "close"} => event \in outbox
    /\ npc \in {"message", "put", "close"} => ack \in Status
    /\ npc = "message" => mode = "host"
    /\ ack \in Handlers =>
         npc = "wait" /\ handler[ack] # Free /\ handler[ack].event = event

\* The page in hand is what follows the cursor, and until its checkpoint is
\* begun no checkpoint is torn.
PageIsNext ==
    /\ npc \in {"store", "stored", "advanced"} =>
         /\ page # <<>>
         /\ Cursor + Len(page) <= Len(decisions)
         /\ \A i \in 1 .. Len(page) : page[i] = decisions[Cursor + i]
    /\ npc \in {"store", "stored"} => tornCheckpoints = {}
    /\ npc = "stored" => Pending # {}

\* Behind every checkpoint, complete or torn, all decisions are stored.
Covered ==
    \A c \in checkpoints \union tornCheckpoints :
        \A i \in 1 .. c : decisions[i] \in inbox

HostInv == TypeOK /\ PassIsBound /\ PageIsNext /\ Covered

\* A request that has claimed its event and has not stored the outcome.
Busy(h) ==
    /\ handler[h] # Free
    /\ handler[h].pc \in {"count", "limit", "send", "store", "reject"}

\* Requests that have been counted and whose message is not sent yet.
Sending == {h \in Handlers : handler[h] # Free /\ handler[h].pc = "send"}

\* A claim belongs to one request, and before its message there was none.
ClaimIsExclusive ==
    mode = "sms" =>
        /\ \A h \in Handlers : Busy(h) =>
             /\ row[EventOf(h)].delivery = "claimed"
             /\ handler[h].pc # "store" => sends[EventOf(h)] = 0
        /\ \A g, h \in Handlers :
             Busy(g) /\ Busy(h) /\ EventOf(g) = EventOf(h) => g = h
        /\ \A e \in Events : row[e].delivery \in {"absent", "pending"} => sends[e] = 0

\* What the worker, its database and its answers say was sent has been sent.
SentIsTrue ==
    /\ mode = "sms" =>
         /\ \A h \in Handlers : Busy(h) /\ handler[h].pc = "store" => sends[EventOf(h)] > 0
         /\ \A e \in Events : row[e].delivery \in {"accepted", "delivered"} => sends[e] > 0
    /\ npc \in {"put", "close"} \/ (npc = "wait" /\ mode = "sms") =>
         (ack \in {"accepted", "duplicate"} => sends[event] > 0)

\* A message in the making is counted before it is sent.
CountedFirst ==
    mode = "sms" =>
        /\ SumFunctionOnSet(sends, Events) + Cardinality(Sending) <= counted
        /\ counted - urgent <= SmsLimit - SmsReserve

-----------------------------------------------------------------------------
(***************************************************************************)
(* What the steps of a request do to the handlers and to the answer.       *)
(***************************************************************************)

Requests == [Handlers -> Request \union {Free}]

\* A request has an event and a place in the code, a free handler has neither.
LEMMA RequestFields ==
    ASSUME TypeOK, NEW h \in Handlers
    PROVE  /\ handler \in Requests
           /\ handler[h] # Free =>
                /\ handler[h] \in Request
                /\ EventOf(h) \in Events
                /\ handler[h].duplicate \in BOOLEAN
                /\ handler[h].pc \in {"read", "insert", "update", "count", "limit",
                                      "send", "store", "reject"}
           /\ handler[h] = Free => handler[h].pc = "free"
  BY DEF TypeOK, Requests, Request, Free, EventOf

\* Answer frees the handler; the host hears it if it still waits.
LEMMA AnswerEffect ==
    ASSUME handler \in Requests, NEW h \in Handlers, NEW status, Answer(h, status)
    PROVE  /\ handler' \in Requests
           /\ handler'[h] = Free
           /\ \A g \in Handlers \ {h} : handler'[g] = handler[g]
           /\ ack' = IF ack = h THEN status ELSE ack
  BY DEF Answer, Requests

\* ToStep moves the request within the code and leaves the rest of it.
LEMMA ToStepEffect ==
    ASSUME handler \in Requests, NEW h \in Handlers, handler[h] \in Request,
           NEW pc \in {"read", "insert", "update", "count", "limit", "send", "store",
                       "reject"},
           ToStep(h, pc)
    PROVE  /\ handler' \in Requests
           /\ handler'[h] \in Request /\ handler'[h] # Free
           /\ handler'[h].pc = pc
           /\ handler'[h].event = handler[h].event
           /\ \A g \in Handlers \ {h} : handler'[g] = handler[g]
           /\ ack' = ack
<1>1. /\ handler' = [handler EXCEPT ![h] = [handler[h] EXCEPT !.pc = pc]]
      /\ ack' = ack
  BY DEF ToStep
<1>2. /\ [handler[h] EXCEPT !.pc = pc] \in Request
      /\ [handler[h] EXCEPT !.pc = pc].pc = pc
      /\ [handler[h] EXCEPT !.pc = pc].event = handler[h].event
  BY DEF Request
<1>3. [handler[h] EXCEPT !.pc = pc] # Free
  BY <1>2 DEF Free
<1> QED BY <1>1, <1>2, <1>3 DEF Requests

\* What every step of request h may do, a failing one included.
RequestMoves(h) ==
    /\ handler[h] \in Request /\ handler[h] # Free
    /\ handler' \in Requests
    /\ \A g \in Handlers \ {h} : handler'[g] = handler[g]
    /\ handler'[h] # Free =>
         handler'[h] \in Request /\ handler'[h].event = handler[h].event /\ ack' = ack
    /\ handler'[h] = Free =>
         IF ack = h THEN ack' \in Status \union {"error"} ELSE ack' = ack

\* The types of what the worker writes.
WorkerTyped ==
    /\ row \in [Events -> Row]
    /\ counted \in 0 .. SmsLimit
    /\ urgent \in 0 .. counted
    /\ sends \in [Events -> 0 .. 2]

LEMMA RequestMovesByAnswer ==
    ASSUME TypeOK, NEW h \in Handlers, handler[h] # Free,
           NEW status \in Status \union {"error"}, Answer(h, status)
    PROVE  RequestMoves(h)
  BY RequestFields, AnswerEffect DEF RequestMoves

LEMMA RequestMovesByStep ==
    ASSUME TypeOK, NEW h \in Handlers, handler[h] # Free,
           NEW pc \in {"read", "insert", "update", "count", "limit", "send", "store",
                       "reject"},
           ToStep(h, pc)
    PROVE  RequestMoves(h)
  BY RequestFields, ToStepEffect DEF RequestMoves

\* The columns of a row can be written one by one.
LEMMA RowWritten ==
    ASSUME NEW r \in Row
    PROVE  /\ \A d \in DeliveryState : [r EXCEPT !.delivery = d] \in Row
           /\ \A d \in DeliveryState : [r EXCEPT !.delivery = d, !.identified = TRUE] \in Row
           /\ \A d \in DeliveryState, f \in {"none", "rejected", "limit", "finalized"} :
                [r EXCEPT !.delivery = d, !.final = f] \in Row
           /\ [r EXCEPT !.decided = TRUE] \in Row
  BY DEF Row

LEMMA RequestEffect ==
    ASSUME TypeOK, NEW h \in Handlers, AcceptStep(h) \/ AcceptFails(h)
    PROVE  RequestMoves(h) /\ WorkerTyped'
<1> DEFINE e == EventOf(h)
<1>0. handler[h] # Free
  <2>1. handler[h] = Free => handler[h].pc = "free"
    BY RequestFields
  <2> QED BY <2>1 DEF AcceptStep, AcceptFails, ReadRow, InsertRow, RegisterForHost, Claim,
                CountMessage, StoreFailure, Send, StoreAccepted
<1>a. WorkerTyped /\ e \in Events /\ row[e] \in Row
  BY <1>0, RequestFields DEF TypeOK, WorkerTyped
<1>b. OneMore(sends[e]) \in 0 .. 2
  BY <1>a DEF OneMore, WorkerTyped
<1>c. [sends EXCEPT ![e] = OneMore(@)] \in [Events -> 0 .. 2]
  BY <1>a, <1>b DEF WorkerTyped
<1>d. Accepted(h) \in Status
  BY DEF Accepted, Status
<1> USE DEF DeliveryState
<1>1. CASE ReadRow(h)
  <2>1. WorkerTyped'
    BY <1>1, <1>a DEF ReadRow, WorkerTyped
  <2>2. CASE ToStep(h, "insert")
    BY <1>0, <2>1, <2>2, RequestMovesByStep
  <2>3. CASE Settled(row[e]) # None /\ Answer(h, Settled(row[e]))
    <3>1. Settled(row[e]) \in Status \union {"error"}
      BY <2>3 DEF Settled, Status
    <3> QED BY <1>0, <2>1, <2>3, <3>1, RequestMovesByAnswer
  <2>4. CASE /\ handler' = [handler EXCEPT ![h].pc = "update", ![h].duplicate = TRUE]
             /\ UNCHANGED ack
    <3> DEFINE q == [handler[h] EXCEPT !.pc = "update", !.duplicate = TRUE]
    <3>1. handler' = [handler EXCEPT ![h] = q]
      BY <1>0, <2>4, RequestFields DEF Requests
    <3>2. q \in Request /\ q.event = handler[h].event /\ q.pc = "update"
      BY <1>0, RequestFields DEF Request
    <3>3. q # Free
      BY <3>2 DEF Free
    <3>4. handler \in Requests /\ handler[h] \in Request /\ ack' = ack
      BY <1>0, <2>4, RequestFields
    <3> HIDE DEF q
    <3>5. /\ handler' \in Requests /\ handler'[h] = q
          /\ \A g \in Handlers \ {h} : handler'[g] = handler[g]
      BY <3>1, <3>2, <3>4 DEF Requests
    <3> QED BY <1>0, <2>1, <3>2, <3>3, <3>4, <3>5 DEF RequestMoves
  <2> QED BY <1>1, <2>2, <2>3, <2>4 DEF ReadRow
<1>2. CASE InsertRow(h)
  <2>1. WorkerTyped'
    BY <1>2, <1>a, RowWritten DEF InsertRow, WorkerTyped
  <2> QED BY <1>0, <1>2, <2>1, RequestMovesByAnswer, RequestMovesByStep DEF InsertRow
<1>3. CASE RegisterForHost(h)
  <2>1. WorkerTyped'
    BY <1>3, <1>a, RowWritten DEF RegisterForHost, WorkerTyped
  <2> QED BY <1>0, <1>3, <1>d, <2>1, RequestMovesByAnswer DEF RegisterForHost
<1>4. CASE Claim(h)
  <2>1. WorkerTyped'
    BY <1>4, <1>a, RowWritten DEF Claim, WorkerTyped
  <2> QED BY <1>0, <1>4, <2>1, RequestMovesByAnswer, RequestMovesByStep DEF Claim
<1>5. CASE CountMessage(h)
  <2>1. AttemptLimit(e) \in 0 .. SmsLimit
    BY RelayAssumption DEF AttemptLimit
  <2>2. row' = row /\ sends' = sends
        /\ \/ counted' = counted /\ urgent' = urgent
           \/ /\ counted < AttemptLimit(e)
              /\ counted' = counted + 1
              /\ urgent' \in {urgent, urgent + 1}
    BY <1>5 DEF CountMessage
  <2>3. SmsLimit \in Nat
    BY RelayAssumption
  <2>4. counted' \in 0 .. SmsLimit /\ urgent' \in 0 .. counted'
    BY <1>a, <2>1, <2>2, <2>3 DEF WorkerTyped
  <2>5. WorkerTyped'
    BY <1>a, <2>2, <2>4 DEF WorkerTyped
  <2> QED BY <1>0, <1>5, <2>5, RequestMovesByStep DEF CountMessage
<1>6. ASSUME NEW pc, NEW final \in {"limit", "rejected"}, NEW status \in {"error", "rejected"},
             StoreFailure(h, pc, final, status)
      PROVE  RequestMoves(h) /\ WorkerTyped'
  <2>1. WorkerTyped'
    BY <1>6, <1>a, RowWritten DEF StoreFailure, WorkerTyped
  <2> QED BY <1>0, <1>6, <2>1, RequestMovesByAnswer DEF StoreFailure, Status
<1>7. CASE Send(h)
  <2>1. WorkerTyped'
    BY <1>7, <1>a, <1>c DEF Send, WorkerTyped
  <2> QED BY <1>0, <1>7, <2>1, RequestMovesByStep DEF Send
<1>8. CASE StoreAccepted(h)
  <2>1. WorkerTyped'
    BY <1>8, <1>a, RowWritten DEF StoreAccepted, WorkerTyped
  <2> QED BY <1>0, <1>8, <1>d, <2>1, RequestMovesByAnswer DEF StoreAccepted
<1>9. CASE AcceptFails(h)
  <2>1. row' \in {row, [row EXCEPT ![e].delivery = "pending"]}
    BY <1>9 DEF AcceptFails
  <2>2. row' \in [Events -> Row]
    BY <1>a, <2>1, RowWritten DEF WorkerTyped
  <2>3. sends' \in {sends, [sends EXCEPT ![e] = OneMore(@)]}
        /\ UNCHANGED <<counted, urgent>>
    BY <1>9 DEF AcceptFails
  <2>4. sends' \in [Events -> 0 .. 2]
    BY <1>a, <1>c, <2>3 DEF WorkerTyped
  <2>5. WorkerTyped'
    BY <1>a, <2>2, <2>3, <2>4 DEF WorkerTyped
  <2> QED BY <1>0, <1>9, <2>5, RequestMovesByAnswer DEF AcceptFails
<1> QED BY <1>1, <1>2, <1>3, <1>4, <1>5, <1>6, <1>7, <1>8, <1>9 DEF AcceptStep

-----------------------------------------------------------------------------
(***************************************************************************)
(* The types, the notifier's pass and the cursor.                          *)
(***************************************************************************)

\* The cursor is the largest complete checkpoint, or 0.
LEMMA CursorIsLargest ==
    ASSUME TypeOK
    PROVE  /\ Cursor \in checkpoints \union {0}
           /\ Cursor \in 0 .. Len(decisions)
           /\ \A c \in checkpoints : c <= Cursor
<1>1. Len(decisions) \in Nat
  BY DEF TypeOK
<1>2. checkpoints \union {0} \in SUBSET (0 .. Len(decisions)) /\ checkpoints \union {0} # {}
  BY <1>1 DEF TypeOK
<1>3. /\ Cursor \in checkpoints \union {0}
      /\ \A c \in checkpoints \union {0} : c <= Cursor
  BY <1>1, <1>2, MaxOfNats DEF Cursor
<1> QED BY <1>2, <1>3

\* The next decision of a page that is not stored entirely.
LEMMA NextIsPending ==
    ASSUME TypeOK, Pending # {}
    PROVE  /\ Min(Pending) \in Pending
           /\ NextDecision \in Decision
           /\ NextDecision \notin inbox
<1>1. Pending \in SUBSET Nat
  BY DEF Pending
<1>2. Min(Pending) \in Pending
  BY <1>1, MinOfNats
<1> QED BY <1>2 DEF Pending, NextDecision, TypeOK

\* Steps that leave the page, the inbox and the checkpoints alone.
LEMMA PollFrame ==
    ASSUME PageIsNext, Covered,
           UNCHANGED <<checkpoints, tornCheckpoints, decisions, inbox, page>>,
           npc' \in {"store", "stored", "advanced"} => npc' = npc
    PROVE  PageIsNext' /\ Covered'
  BY DEF PageIsNext, Covered, Cursor, Pending

LEMMA RequestKeepsHost ==
    ASSUME HostInv, NEW h \in Handlers, AcceptStep(h) \/ AcceptFails(h)
    PROVE  HostInv'
<1> USE DEF HostInv
<1>1. RequestMoves(h) /\ WorkerTyped'
  BY RequestEffect
<1>2. UNCHANGED <<now, mode, hostVars, npc, left, passTime, event, page, decisions,
                  processed, checking>>
      /\ faults' \in 0 .. MaxFaults
  BY RelayAssumption DEF AcceptStep, AcceptFails, Fault, TypeOK
<1>3. ack \in Handlers \union Status \union {"error", None}
  BY DEF TypeOK
<1>4. ack' \in Handlers \union Status \union {"error", None}
  BY <1>1, <1>3 DEF RequestMoves
<1>5. TypeOK'
  BY <1>1, <1>2, <1>4 DEF TypeOK, RequestMoves, Requests, WorkerTyped, hostVars
<1>6. ack' \in Handlers =>
        ack' = ack /\ handler'[ack] # Free /\ handler'[ack].event = event /\ npc = "wait"
  BY <1>1, RelayAssumption DEF RequestMoves, PassIsBound
<1>7. ack \in Status => ack' = ack
  BY <1>1, RelayAssumption DEF RequestMoves
<1>8. PassIsBound'
  BY <1>2, <1>6, <1>7 DEF PassIsBound, hostVars
<1>9. PageIsNext' /\ Covered'
  BY <1>2, PollFrame DEF hostVars
<1> QED BY <1>5, <1>8, <1>9

\* The clock, the projector, the provider's reports and the importer.
LEMMA SurroundingsKeepHost ==
    ASSUME HostInv,
           \/ Tick
           \/ \E e \in Events : Emit(e) \/ Finalized(e)
           \/ \E w \in Webhooks : ReceiveAnswer(w) \/ AnswerFails(w)
           \/ ImportInbox
    PROVE  HostInv'
<1> USE DEF HostInv
<1>1. UNCHANGED <<checkpoints, tornCheckpoints, decisions, inbox, passVars, handler>>
      /\ outbox \subseteq outbox'
      /\ mode' = mode
  BY DEF Tick, Emit, Finalized, ReceiveAnswer, AnswerFails, ImportInbox, hostVars,
         passVars, workerVars
<1>2. PageIsNext' /\ Covered' /\ PassIsBound'
  BY <1>1, PollFrame DEF PassIsBound, passVars
<1>3. ASSUME Tick PROVE TypeOK'
  <2>1. now' \in 0 .. MaxTime /\ passTime \in 0 .. now'
    BY <1>3, RelayAssumption DEF Tick, TypeOK
  <2> QED BY <1>3, <2>1 DEF Tick, TypeOK, hostVars, passVars, workerVars
<1>4. ASSUME NEW e \in Events, Emit(e) PROVE TypeOK'
  BY <1>4, RelayAssumption DEF Emit, TypeOK, passVars, workerVars
<1>5. ASSUME NEW e \in Events, Finalized(e) PROVE TypeOK'
  <2>1. PICK state \in {"delivered", "failed"} :
          row' = [row EXCEPT ![e].delivery = state, ![e].final = "finalized"]
    BY <1>5 DEF Finalized
  <2>2. row' = [row EXCEPT ![e] = [row[e] EXCEPT !.delivery = state, !.final = "finalized"]]
    BY <2>1 DEF TypeOK
  <2>3. row' \in [Events -> Row]
    BY <2>2, RowWritten DEF TypeOK, DeliveryState
  <2> QED BY <1>5, <2>3 DEF Finalized, TypeOK, passVars, hostVars
<1>6. ASSUME NEW w \in Webhooks, ReceiveAnswer(w) PROVE TypeOK'
  <2>1. checking' \in [Webhooks -> 0 .. Overlap] /\ processed' \subseteq Webhooks
    <3>1. \/ checking' = [checking EXCEPT ![w] = @ + 1] /\ processed' = processed
          \/ checking' = checking /\ processed' = processed \union {w}
      BY <1>6 DEF ReceiveAnswer
    <3>2. checking[w] \in 0 .. Overlap /\ checking[w] < Overlap /\ Overlap \in Nat
      BY <1>6, RelayAssumption DEF ReceiveAnswer, TypeOK
    <3>3. checking[w] + 1 \in 0 .. Overlap
      BY <3>2
    <3> QED BY <3>1, <3>3 DEF TypeOK
  <2> QED BY <1>6, <2>1 DEF ReceiveAnswer, TypeOK, passVars, hostVars
<1>7. ASSUME NEW w \in Webhooks, AnswerFails(w) PROVE TypeOK'
  BY <1>7, RelayAssumption, SMTT(20) DEF AnswerFails, Fault, TypeOK, passVars, hostVars
<1>8. ASSUME ImportInbox PROVE TypeOK'
  BY <1>8, <1>2 DEF ImportInbox, TypeOK, passVars, workerVars
<1> QED BY <1>2, <1>3, <1>4, <1>5, <1>6, <1>7, <1>8

\* A recorded decision is appended: what the cursor has passed stays.
LEMMA CommitKeepsHost ==
    ASSUME HostInv, NEW w \in Webhooks, CommitAnswer(w)
    PROVE  HostInv'
<1> USE DEF HostInv
<1> DEFINE d == AnswerOf[w]
<1>1. d \in Decision /\ d.event \in Events
  BY RelayAssumption DEF Decision
<1>2. UNCHANGED <<now, mode, faults, hostVars, passVars, handler, counted, urgent, sends>>
  BY DEF CommitAnswer
<1>3. checking' \in [Webhooks -> 0 .. Overlap]
  <2>1. checking \in [Webhooks -> 0 .. Overlap] /\ Overlap \in Nat
    BY RelayAssumption DEF TypeOK
  <2>2. checking[w] - 1 \in 0 .. Overlap
    <3>1. checking[w] > 0
      BY DEF CommitAnswer
    <3> QED BY <2>1, <3>1
  <2>3. checking' = [checking EXCEPT ![w] = checking[w] - 1]
    BY DEF CommitAnswer
  <2> QED BY <2>1, <2>2, <2>3
<1>4. CASE UNCHANGED <<processed, decisions, row>>
  <2>1. TypeOK' /\ PassIsBound'
    BY <1>2, <1>3, <1>4 DEF TypeOK, PassIsBound, hostVars, passVars
  <2> QED BY <1>2, <1>4, <2>1, PollFrame DEF hostVars, passVars
<1>5. CASE /\ processed' = processed \union {w}
           /\ decisions' = Append(decisions, d)
           /\ row' = [row EXCEPT ![d.event].decided = TRUE]
  <2>1. decisions \in Seq(Decision) /\ Len(decisions) \in Nat
    BY DEF TypeOK
  <2>2. /\ decisions' \in Seq(Decision)
        /\ Len(decisions') = Len(decisions) + 1
        /\ \A i \in 1 .. Len(decisions) : decisions'[i] = decisions[i]
    BY <1>1, <1>5, <2>1
  <2>3. row' \in [Events -> Row]
    BY <1>1, <1>5, RowWritten DEF TypeOK
  <2>4. /\ checkpoints \subseteq 1 .. Len(decisions')
        /\ tornCheckpoints \subseteq 1 .. Len(decisions')
    BY <2>1, <2>2 DEF TypeOK
  <2>5. TypeOK'
    BY <1>2, <1>3, <1>5, <2>2, <2>3, <2>4 DEF TypeOK, hostVars, passVars
  <2>6. PassIsBound'
    BY <1>2 DEF PassIsBound, hostVars, passVars
  <2>7. Cursor \in 0 .. Len(decisions) /\ Cursor' = Cursor
    BY <1>2, CursorIsLargest DEF Cursor, hostVars
  <2>8. PageIsNext'
    <3>1. Pending' = Pending
      BY <1>2 DEF Pending, hostVars, passVars
    <3>2. Len(page) \in Nat
      BY DEF TypeOK
    <3>3. Cursor + Len(page) <= Len(decisions) =>
            /\ Cursor + Len(page) <= Len(decisions')
            /\ \A i \in 1 .. Len(page) : decisions'[Cursor + i] = decisions[Cursor + i]
      BY <2>1, <2>2, <2>7, <3>2, SMTT(20)
    <3> QED BY <1>2, <2>7, <3>1, <3>3 DEF PageIsNext, hostVars, passVars
  <2>9. Covered'
    <3>1. \A c \in checkpoints \union tornCheckpoints : \A i \in 1 .. c :
            decisions'[i] = decisions[i]
      BY <2>1, <2>2 DEF TypeOK
    <3> QED BY <1>2, <3>1 DEF Covered, hostVars
  <2> QED BY <2>5, <2>6, <2>8, <2>9
<1> QED BY <1>4, <1>5 DEF CommitAnswer

DeliveryStep ==
    \/ StartPass
    \/ ReceiptRaises
    \/ \E e \in Events : PutExpired(e) \/ Submit(e)
    \/ LoseAnswer \/ SubmitFailed \/ SubmitAccepted
    \/ SendMessage \/ SendMessageFails
    \/ OpenReceipt \/ CloseReceipt

\* A submitted event is handled by a handler that was free.
LEMMA SubmitTakesHandler ==
    ASSUME TypeOK, NEW e \in Events, Submit(e)
    PROVE  /\ ack' \in Handlers
           /\ handler[ack'] = Free
           /\ handler' \in Requests
           /\ handler'[ack'] # Free /\ handler'[ack'].event = e /\ handler'[ack'].pc = "read"
           /\ \A g \in Handlers \ {ack'} : handler'[g] = handler[g]
<1> DEFINE q == [pc |-> "read", event |-> e, duplicate |-> FALSE]
<1>1. ack' \in FreeHandlers /\ handler' = [handler EXCEPT ![ack'] = q]
  BY DEF Submit
<1>2. q \in Request /\ q # Free /\ q.event = e /\ q.pc = "read"
  <2>1. q.pc = "read" /\ Free.pc = "free"
    BY DEF Free
  <2> QED BY <2>1 DEF Request
<1> QED BY <1>1, <1>2 DEF FreeHandlers, TypeOK, Requests

\* The events, receipts and requests that the notifier delivers.
LEMMA DeliveryTyped ==
    ASSUME HostInv, DeliveryStep
    PROVE  TypeOK'
<1> USE DEF HostInv
<1>1. CASE StartPass
  BY <1>1 DEF StartPass, TypeOK, hostVars, workerVars
<1>2. CASE ReceiptRaises
  BY <1>2 DEF ReceiptRaises, EndPass, TypeOK, hostVars, workerVars
<1>3. ASSUME NEW e \in Events, PutExpired(e) PROVE TypeOK'
  BY <1>3 DEF PutExpired, FirstLeft, TypeOK, Status, hostVars, workerVars
<1>4. ASSUME NEW e \in Events, Submit(e) PROVE TypeOK'
  <2>1. ack' \in Handlers /\ handler' \in Requests
    BY <1>4, SubmitTakesHandler
  <2> QED BY <1>4, <2>1 DEF Submit, FirstLeft, TypeOK, Requests, hostVars
<1>5. CASE LoseAnswer
  BY <1>5, RelayAssumption DEF LoseAnswer, GiveUp, Fault, TypeOK, hostVars, workerVars
<1>6. CASE SubmitFailed
  BY <1>6 DEF SubmitFailed, GiveUp, TypeOK, hostVars, workerVars
<1>7. CASE SubmitAccepted
  BY <1>7 DEF SubmitAccepted, TypeOK, hostVars, workerVars
<1>8. CASE SendMessage \/ SendMessageFails
  <2>1. event \in Events
    BY <1>8 DEF SendMessage, SendMessageFails, PassIsBound, TypeOK
  <2>2. sends' \in {sends, [sends EXCEPT ![event] = OneMore(@)]}
    BY <1>8 DEF SendMessage, SendMessageFails
  <2>3. OneMore(sends[event]) \in 0 .. 2
    BY <2>1 DEF OneMore, TypeOK
  <2>4. sends' \in [Events -> 0 .. 2]
    BY <2>1, <2>2, <2>3 DEF TypeOK
  <2>5. CASE SendMessage
    BY <2>4, <2>5 DEF SendMessage, TypeOK, hostVars, workerVars
  <2>6. CASE SendMessageFails
    <3>1. faults' \in 0 .. MaxFaults
      BY <2>6, RelayAssumption DEF SendMessageFails, Fault, TypeOK
    <3> QED BY <2>4, <2>6, <3>1 DEF SendMessageFails, GiveUp, TypeOK, hostVars, workerVars
  <2> QED BY <1>8, <2>5, <2>6
<1>9. CASE OpenReceipt
  BY <1>9 DEF OpenReceipt, PassIsBound, TypeOK, workerVars
<1>10. CASE CloseReceipt
  BY <1>10 DEF CloseReceipt, GiveUp, PassIsBound, TypeOK, workerVars
<1> QED BY <1>1, <1>2, <1>3, <1>4, <1>5, <1>6, <1>7, <1>8, <1>9, <1>10 DEF DeliveryStep

LEMMA DeliveryKeepsHost ==
    ASSUME HostInv, DeliveryStep
    PROVE  HostInv'
<1> USE DEF HostInv
<1>1. TypeOK'
  BY DeliveryTyped
<1>2. /\ UNCHANGED <<checkpoints, tornCheckpoints, decisions, inbox>>
      /\ npc' \notin {"store", "stored", "advanced"}
  BY DEF DeliveryStep, StartPass, ReceiptRaises, PutExpired, Submit, LoseAnswer,
         SubmitFailed, SubmitAccepted, SendMessage, SendMessageFails, OpenReceipt,
         CloseReceipt, EndPass, GiveUp, hostVars, workerVars
<1>3. PageIsNext' /\ Covered'
  BY <1>2 DEF PageIsNext, Covered
<1>4. PassIsBound'
  <2>1. CASE StartPass \/ ReceiptRaises \/ LoseAnswer \/ SubmitFailed \/ CloseReceipt
             \/ SendMessageFails
    <3>1. CASE StartPass
      BY RelayAssumption, <3>1 DEF StartPass, PassIsBound, hostVars, workerVars
    <3>2. npc' \in {"idle", "deliver"} /\ ack' = None
          => PassIsBound'
      BY RelayAssumption DEF PassIsBound
    <3> QED BY <2>1, <3>1, <3>2 DEF ReceiptRaises, LoseAnswer, SubmitFailed,
               CloseReceipt, SendMessageFails, EndPass, GiveUp
  <2>2. ASSUME NEW e \in Events, PutExpired(e) PROVE PassIsBound'
    BY RelayAssumption, <2>2 DEF PutExpired, FirstLeft, PassIsBound, TypeOK, Status, hostVars
  <2>3. ASSUME NEW e \in Events, Submit(e) PROVE PassIsBound'
    BY <2>3, SubmitTakesHandler DEF Submit, FirstLeft, PassIsBound, TypeOK, hostVars
  <2>4. CASE SubmitAccepted
    BY RelayAssumption, <2>4 DEF SubmitAccepted, PassIsBound, hostVars, workerVars
  <2>5. CASE SendMessage
    BY RelayAssumption, <2>5 DEF SendMessage, PassIsBound, hostVars, workerVars
  <2>6. CASE OpenReceipt
    BY RelayAssumption, <2>6 DEF OpenReceipt, PassIsBound, workerVars
  <2> QED BY <2>1, <2>2, <2>3, <2>4, <2>5, <2>6 DEF DeliveryStep
<1> QED BY <1>1, <1>3, <1>4

PollStep ==
    \/ Poll \/ PollRaises
    \/ OpenDecision \/ CloseDecision \/ DecisionCollides
    \/ OpenCheckpoint \/ CloseCheckpoint
    \/ NotifierDies

\* A page holds the decisions that follow the cursor it was asked for.
LEMMA PageFollows ==
    ASSUME TypeOK, PageAfter(Cursor) # <<>>
    PROVE  /\ PageAfter(Cursor) \in Seq(Decision)
           /\ Cursor + Len(PageAfter(Cursor)) <= Len(decisions)
           /\ \A i \in 1 .. Len(PageAfter(Cursor)) :
                PageAfter(Cursor)[i] = decisions[Cursor + i]
<1> DEFINE n == Len(decisions)
           last == Min({Cursor + PageLimit, n})
<1>1. n \in Nat /\ Cursor \in 0 .. n /\ PageLimit \in Nat /\ decisions \in Seq(Decision)
  <2>1. decisions \in Seq(Decision)
    BY DEF TypeOK
  <2>2. Len(decisions) \in Nat
    BY <2>1
  <2>3. Cursor \in 0 .. Len(decisions)
    BY CursorIsLargest
  <2> QED BY <2>1, <2>2, <2>3, RelayAssumption
<1>2. {Cursor + PageLimit, n} \in SUBSET Nat
  BY <1>1
<1>3. last \in {Cursor + PageLimit, n} /\ last <= n
  <2> DEFINE ends == {Cursor + PageLimit, n}
  <2>1. ends \in SUBSET Nat /\ ends # {} /\ n \in ends
    BY <1>2
  <2> HIDE DEF ends
  <2>2. Min(ends) \in ends /\ Min(ends) <= n
    BY <2>1, MinOfNats
  <2> QED BY <2>2 DEF ends
<1>4. last \in Nat /\ Cursor <= last
  BY <1>1, <1>3
<1>5. PageAfter(Cursor) = SubSeq(decisions, Cursor + 1, last)
  BY DEF PageAfter
<1> HIDE DEF n, last
<1>6. n = Len(decisions)
  BY DEF n
<1>7. /\ SubSeq(decisions, Cursor + 1, last) \in Seq(Decision)
      /\ Len(SubSeq(decisions, Cursor + 1, last)) = last - Cursor
      /\ \A i \in 1 .. (last - Cursor) :
           SubSeq(decisions, Cursor + 1, last)[i] = decisions[Cursor + i]
  <2>1. \A i \in (Cursor + 1) .. last : decisions[i] \in Decision
    BY <1>1, <1>3, <1>4, <1>6
  <2>2. Cursor \in Int /\ Cursor + 1 \in Int /\ last \in Int
    BY <1>1, <1>4
  <2>3. /\ SubSeq(decisions, Cursor + 1, last) \in Seq(Decision)
        /\ Len(SubSeq(decisions, Cursor + 1, last)) =
             IF Cursor + 1 <= last THEN last - (Cursor + 1) + 1 ELSE 0
        /\ \A i \in 1 .. last - (Cursor + 1) + 1 :
             SubSeq(decisions, Cursor + 1, last)[i] = decisions[(Cursor + 1) + i - 1]
    BY <2>1, <2>2, SubSeqProperties
  <2> DEFINE c == Cursor
             sub == SubSeq(decisions, c + 1, last)
  <2>4. c \in Nat /\ last \in Nat /\ c <= last
    BY <1>1, <1>4
  <2>5. /\ Len(sub) = IF c + 1 <= last THEN last - (c + 1) + 1 ELSE 0
        /\ \A i \in 1 .. last - (c + 1) + 1 : sub[i] = decisions[(c + 1) + i - 1]
    BY <2>3
  <2> HIDE DEF c, sub
  <2>6. last - (c + 1) + 1 = last - c /\ (~ (c + 1 <= last) => last - c = 0)
    BY <2>4
  <2>7. Len(sub) = last - c
    BY <2>5, <2>6
  <2>8. \A i \in 1 .. (last - c) : sub[i] = decisions[c + i]
    <3> TAKE i \in 1 .. (last - c)
    <3>1. (c + 1) + i - 1 = c + i /\ i \in 1 .. last - (c + 1) + 1
      BY <2>4
    <3> QED BY <2>5, <3>1
  <2> QED BY <2>3, <2>7, <2>8 DEF c, sub
<1>8. PageAfter(Cursor) \in Seq(Decision) /\ Len(PageAfter(Cursor)) = last - Cursor
  BY <1>5, <1>7
<1>9. Cursor + Len(PageAfter(Cursor)) <= Len(decisions)
  BY <1>1, <1>3, <1>4, <1>6, <1>8
<1>10. \A i \in 1 .. Len(PageAfter(Cursor)) : PageAfter(Cursor)[i] = decisions[Cursor + i]
  <2>1. \A i \in 1 .. (last - Cursor) :
          SubSeq(decisions, Cursor + 1, last)[i] = decisions[Cursor + i]
    BY <1>7
  <2> QED BY <1>5, <1>8, <2>1, Zenon
<1> QED BY <1>8, <1>9, <1>10

\* The page in hand is stored: so is everything up to the next checkpoint.
LEMMA StoredToTheNextCursor ==
    ASSUME TypeOK, PageIsNext, Covered, npc = "store", Pending = {}
    PROVE  /\ Cursor + Len(page) \in 1 .. Len(decisions)
           /\ \A i \in 1 .. (Cursor + Len(page)) : decisions[i] \in inbox
<1>1. Cursor \in checkpoints \union {0} /\ Cursor \in 0 .. Len(decisions)
  BY CursorIsLargest
<1>2. page \in Seq(Decision) /\ Len(page) \in Nat /\ Len(decisions) \in Nat
  BY DEF TypeOK
<1>3. page # <<>> /\ Cursor + Len(page) <= Len(decisions)
      /\ \A i \in 1 .. Len(page) : page[i] = decisions[Cursor + i]
  BY DEF PageIsNext
<1>4. Len(page) # 0
  BY <1>2, <1>3
<1>5. ASSUME NEW i \in 1 .. (Cursor + Len(page)) PROVE decisions[i] \in inbox
  <2>1. CASE i <= Cursor
    BY <1>1, <2>1 DEF Covered
  <2>2. CASE i > Cursor
    <3>1. i - Cursor \in 1 .. Len(page) /\ Cursor + (i - Cursor) = i
      BY <1>1, <1>2, <2>2
    <3>2. page[i - Cursor] = decisions[i]
      BY <1>3, <3>1
    <3>3. page[i - Cursor] \in inbox
      BY <3>1 DEF Pending
    <3> QED BY <3>2, <3>3
  <2> QED BY <1>1, <2>1, <2>2
<1> QED BY <1>1, <1>2, <1>3, <1>4, <1>5

LEMMA PollKeepsHost ==
    ASSUME HostInv, PollStep
    PROVE  HostInv'
<1> USE DEF HostInv
<1>1. CASE Poll
  <2>1. CASE PageAfter(Cursor) = <<>>
    BY <1>1, <2>1, RelayAssumption
       DEF Poll, EndPass, TypeOK, PassIsBound, PageIsNext, Covered, hostVars, workerVars
  <2>2. CASE PageAfter(Cursor) # <<>>
    <3>1. /\ page' = PageAfter(Cursor)
          /\ npc' = "store"
          /\ tornCheckpoints = {}
          /\ npc = "deliver"
          /\ UNCHANGED <<now, mode, faults, hostVars, left, passTime, event, ack,
                         workerVars, sends>>
      BY <1>1, <2>2 DEF Poll, DeliveryDone
    <3>2. TypeOK'
      BY <2>2, <3>1, PageFollows DEF TypeOK, hostVars, workerVars
    <3>3. PassIsBound'
      BY <3>1 DEF PassIsBound, hostVars, workerVars
    <3>4. PageIsNext'
      <4>1. Cursor' = Cursor
        BY <3>1 DEF Cursor, hostVars
      <4> QED BY <2>2, <3>1, <4>1, PageFollows DEF PageIsNext, hostVars, workerVars
    <3>5. Covered'
      BY <3>1 DEF Covered, hostVars, workerVars
    <3> QED BY <3>2, <3>3, <3>4, <3>5
  <2> QED BY <2>1, <2>2
<1>2. CASE PollRaises \/ DecisionCollides
  <2>1. EndPass /\ UNCHANGED <<now, mode, faults, hostVars, workerVars, sends>>
    BY <1>2 DEF PollRaises, DecisionCollides
  <2> QED BY <2>1, RelayAssumption
          DEF EndPass, TypeOK, PassIsBound, PageIsNext, Covered, hostVars, workerVars
<1>3. CASE OpenDecision
  <2>1. NextDecision \in Decision \ inbox
    BY <1>3, NextIsPending DEF OpenDecision
  <2>2. TypeOK'
    BY <1>3, <2>1 DEF OpenDecision, TypeOK, workerVars
  <2>3. PassIsBound'
    BY <1>3, RelayAssumption DEF OpenDecision, PassIsBound, workerVars
  <2>4. Cursor' = Cursor /\ Pending' = Pending
    BY <1>3 DEF OpenDecision, Cursor, Pending
  <2>5. PageIsNext' /\ Covered'
    BY <1>3, <2>4 DEF OpenDecision, PageIsNext, Covered, workerVars
  <2> QED BY <2>2, <2>3, <2>5
<1>4. CASE CloseDecision
  <2>1. NextDecision \in Decision
    BY <1>4, NextIsPending DEF CloseDecision, PageIsNext
  <2>2. TypeOK'
    BY <1>4, <2>1 DEF CloseDecision, TypeOK, workerVars
  <2>3. PassIsBound'
    BY <1>4, RelayAssumption DEF CloseDecision, PassIsBound, workerVars
  <2>4. Cursor' = Cursor
    BY <1>4 DEF CloseDecision, Cursor
  <2>5. PageIsNext' /\ Covered'
    BY <1>4, <2>4 DEF CloseDecision, PageIsNext, Covered, workerVars
  <2> QED BY <2>2, <2>3, <2>5
<1>5. CASE OpenCheckpoint
  <2>1. npc = "store" /\ Pending = {} /\ tornCheckpoints = {}
    BY <1>5 DEF OpenCheckpoint, PageIsNext
  <2>2. tornCheckpoints' = {Cursor + Len(page)}
    BY <1>5, <2>1 DEF OpenCheckpoint
  <2>3. TypeOK'
    BY <1>5, <2>1, <2>2, StoredToTheNextCursor DEF OpenCheckpoint, TypeOK, workerVars
  <2>4. PassIsBound'
    BY <1>5, RelayAssumption DEF OpenCheckpoint, PassIsBound, workerVars
  <2>5. Cursor' = Cursor
    BY <1>5 DEF OpenCheckpoint, Cursor
  <2>6. PageIsNext'
    BY <1>5, <2>5 DEF OpenCheckpoint, PageIsNext, workerVars
  <2>7. Covered'
    BY <1>5, <2>1, <2>2, StoredToTheNextCursor DEF OpenCheckpoint, Covered, workerVars
  <2> QED BY <2>3, <2>4, <2>6, <2>7
<1>6. CASE CloseCheckpoint
  BY <1>6, RelayAssumption
     DEF CloseCheckpoint, EndPass, TypeOK, PassIsBound, PageIsNext, Covered, workerVars
<1>7. CASE NotifierDies
  <2>1. /\ tornReceipts' \subseteq tornReceipts
        /\ tornInbox' \subseteq tornInbox
        /\ tornCheckpoints' \subseteq tornCheckpoints
        /\ faults' \in 0 .. MaxFaults
    BY <1>7, RelayAssumption DEF NotifierDies, Fault, TypeOK
  <2> QED BY <1>7, <2>1, RelayAssumption
          DEF NotifierDies, EndPass, TypeOK, PassIsBound, PageIsNext, Covered, workerVars
<1> QED BY <1>1, <1>2, <1>3, <1>4, <1>5, <1>6, <1>7 DEF PollStep

LEMMA HostInitially == Init => HostInv
<1> SUFFICES ASSUME Init PROVE HostInv
  OBVIOUS
<1>1. TypeOK
  BY RelayAssumption DEF Init, TypeOK, NoRow, Row, DeliveryState
<1> QED BY <1>1, RelayAssumption DEF Init, HostInv, PassIsBound, PageIsNext, Covered

LEMMA HostInductive == HostInv /\ [Next]_vars => HostInv'
<1> SUFFICES ASSUME HostInv, [Next]_vars PROVE HostInv'
  OBVIOUS
<1>1. CASE \E h \in Handlers : AcceptStep(h) \/ AcceptFails(h)
  BY <1>1, RequestKeepsHost
<1>2. CASE \/ Tick
           \/ \E e \in Events : Emit(e) \/ Finalized(e)
           \/ \E w \in Webhooks : ReceiveAnswer(w) \/ AnswerFails(w)
           \/ ImportInbox
  BY <1>2, SurroundingsKeepHost
<1>3. CASE \E w \in Webhooks : CommitAnswer(w)
  BY <1>3, CommitKeepsHost
<1>4. CASE DeliveryStep
  BY <1>4, DeliveryKeepsHost
<1>5. CASE PollStep
  BY <1>5, PollKeepsHost
<1>6. CASE UNCHANGED vars
  BY <1>6, PollFrame DEF HostInv, TypeOK, PassIsBound, vars, hostVars, passVars, workerVars
<1> QED BY <1>1, <1>2, <1>3, <1>4, <1>5, <1>6
        DEF Next, NotifierStep, WorkerStep, DeliveryStep, PollStep

LEMMA HostInvariance == Spec => []HostInv
  BY HostInitially, HostInductive, PTL DEF Spec

(***************************************************************************)
(* Every variable keeps its type: counters stay within their bounds, a     *)
(* torn file is one of an event, decision or checkpoint that exists, and   *)
(* the cursor never names a decision the relay does not have.              *)
(***************************************************************************)
THEOREM RelayTypeCorrect == Spec => []TypeOK
<1>1. HostInv => TypeOK
  BY DEF HostInv
<1> QED BY <1>1, HostInvariance, PTL

(***************************************************************************)
(* poll_decisions stores a whole page before it advances the cursor: every *)
(* decision before the cursor is in the inbox, whatever page size, torn    *)
(* file or interrupted run.                                                *)
(***************************************************************************)
THEOREM CursorBehindInbox == Spec => []NothingSkipped
<1>1. HostInv => NothingSkipped
  <2> SUFFICES ASSUME HostInv PROVE NothingSkipped
    OBVIOUS
  <2>1. Cursor \in checkpoints \union {0}
    BY CursorIsLargest DEF HostInv
  <2> QED BY <2>1 DEF HostInv, Covered, NothingSkipped
<1> QED BY <1>1, HostInvariance, PTL

(***************************************************************************)
(* The decisions table has one row per event: two answers, or one answer   *)
(* that arrives twice, leave one decision, however many handlers check     *)
(* them at the same time.                                                  *)
(***************************************************************************)
THEOREM OneDecision == Spec => []OneDecisionPerEvent
<1>1. Init => OneDecisionPerEvent
  BY DEF Init, OneDecisionPerEvent
<1>2. OneDecisionPerEvent /\ HostInv /\ [Next]_vars => OneDecisionPerEvent'
  <2> SUFFICES ASSUME OneDecisionPerEvent, HostInv, [Next]_vars PROVE OneDecisionPerEvent'
    OBVIOUS
  <2>1. CASE UNCHANGED decisions
    BY <2>1 DEF OneDecisionPerEvent
  <2>2. ASSUME NEW w \in Webhooks, CommitAnswer(w) PROVE OneDecisionPerEvent'
    <3>1. CASE UNCHANGED decisions
      BY <3>1 DEF OneDecisionPerEvent
    <3>2. CASE ~ Decided(AnswerOf[w].event) /\ decisions' = Append(decisions, AnswerOf[w])
      <4>1. decisions \in Seq(Decision) /\ Len(decisions) \in Nat
        BY DEF HostInv, TypeOK
      <4>2. /\ Len(decisions') = Len(decisions) + 1
            /\ \A i \in 1 .. Len(decisions) :
                 decisions'[i] = decisions[i] /\ decisions[i].event # AnswerOf[w].event
            /\ decisions'[Len(decisions) + 1] = AnswerOf[w]
        BY <3>2, <4>1 DEF Decided
      <4> QED BY <4>1, <4>2 DEF OneDecisionPerEvent
    <3> QED BY <2>2, <3>1, <3>2 DEF CommitAnswer
  <2>3. UNCHANGED decisions \/ \E w \in Webhooks : CommitAnswer(w)
    BY DEF Next, NotifierStep, WorkerStep, Tick, Emit, Finalized, ReceiveAnswer,
           AnswerFails, ImportInbox, AcceptStep, AcceptFails, StartPass, ReceiptRaises,
           PutExpired, Submit, LoseAnswer, SubmitFailed, SubmitAccepted, SendMessage,
           SendMessageFails, OpenReceipt, CloseReceipt, Poll, PollRaises, OpenDecision,
           CloseDecision, DecisionCollides, OpenCheckpoint, CloseCheckpoint,
           NotifierDies, vars, workerVars
  <2> QED BY <2>1, <2>2, <2>3
<1> QED BY <1>1, <1>2, HostInvariance, PTL DEF Spec

-----------------------------------------------------------------------------
(***************************************************************************)
(* The messages the worker sends.                                          *)
(***************************************************************************)

DeliveryOf(e) == row[e].delivery

\* What a step of request h does when the worker sends the messages, in terms
\* of the claim on its event, the counter and the provider.
Prepares(h) ==
    /\ ~ Busy(h)'
    /\ UNCHANGED <<sends, counted, urgent>>
    /\ \/ row'[EventOf(h)].delivery = DeliveryOf(EventOf(h))
       \/ DeliveryOf(EventOf(h)) = "absent" /\ row'[EventOf(h)].delivery = "pending"

Claims(h) ==
    /\ handler[h].pc = "update"
    /\ handler'[h].pc = "count"
    /\ UNCHANGED <<sends, counted, urgent>>
    /\ DeliveryOf(EventOf(h)) = "pending"
    /\ row'[EventOf(h)].delivery = "claimed"

Counts(h) ==
    /\ handler[h].pc = "count"
    /\ UNCHANGED <<row, sends>>
    /\ \/ /\ handler'[h].pc = "send"
          /\ counted < AttemptLimit(EventOf(h))
          /\ counted' = counted + 1
          /\ urgent' = IF EventOf(h) \in Priority THEN urgent + 1 ELSE urgent
       \/ handler'[h].pc = "limit" /\ UNCHANGED <<counted, urgent>>

Sends(h) ==
    /\ handler[h].pc = "send"
    /\ handler'[h] = Free \/ handler'[h].pc = "store"
    /\ sends' = [sends EXCEPT ![EventOf(h)] = OneMore(@)]
    /\ UNCHANGED <<row, counted, urgent>>

Rejects(h) ==
    /\ handler[h].pc = "send"
    /\ handler'[h].pc = "reject"
    /\ UNCHANGED <<row, sends, counted, urgent>>

Ends(h) ==
    /\ Busy(h)
    /\ handler'[h] = Free
    /\ UNCHANGED <<sends, counted, urgent>>
    /\ \/ row'[EventOf(h)].delivery = "failed"
       \/ handler[h].pc = "store" /\ row'[EventOf(h)].delivery = "accepted"
       \/ handler[h].pc \in {"count", "send"} /\ row'[EventOf(h)].delivery = "pending"

SmsMoves(h) ==
    /\ RequestMoves(h)
    /\ \A f \in Events \ {EventOf(h)} : row'[f] = row[f]
    /\ Prepares(h) \/ Claims(h) \/ Counts(h) \/ Sends(h) \/ Rejects(h) \/ Ends(h)
    /\ ack' # ack /\ ack' \in {"accepted", "duplicate"} =>
         /\ ack = h
         /\ \/ DeliveryOf(EventOf(h)) \in {"accepted", "delivered"}
            \/ Busy(h) /\ handler[h].pc = "store"

LEMMA SmsStep ==
    ASSUME TypeOK, mode = "sms", NEW h \in Handlers, AcceptStep(h) \/ AcceptFails(h)
    PROVE  SmsMoves(h)
<1> DEFINE e == EventOf(h)
<1>1. RequestMoves(h)
  BY RequestEffect
<1>2. /\ handler \in Requests /\ handler[h] \in Request /\ handler[h] # Free
      /\ e \in Events /\ row[e] \in Row /\ row \in [Events -> Row]
  BY <1>1, RequestFields DEF RequestMoves, TypeOK
<1>3. Free.pc = "free"
  BY DEF Free
<1>4. CASE ReadRow(h)
  <2>1. row' = row /\ UNCHANGED <<sends, counted, urgent>> /\ handler[h].pc = "read"
    BY <1>4 DEF ReadRow
  <2>2. CASE ToStep(h, "insert")
    BY <1>1, <1>2, <2>1, <2>2, ToStepEffect DEF SmsMoves, Prepares, Busy, DeliveryOf
  <2>3. CASE Settled(row[e]) # None /\ Answer(h, Settled(row[e]))
    <3>1. Settled(row[e]) \in {"accepted", "duplicate"}
          => row[e].delivery \in {"accepted", "delivered"}
      BY <2>3, RelayAssumption DEF Settled, Status
    <3> QED BY <1>1, <1>2, <2>1, <2>3, <3>1, AnswerEffect
            DEF SmsMoves, Prepares, Busy, DeliveryOf
  <2>4. CASE /\ handler' = [handler EXCEPT ![h].pc = "update", ![h].duplicate = TRUE]
             /\ UNCHANGED ack
    <3>1. handler'[h].pc = "update"
      BY <1>2, <2>4 DEF Requests, Request
    <3> QED BY <1>1, <1>2, <2>1, <2>4, <3>1 DEF SmsMoves, Prepares, Busy, DeliveryOf
  <2> QED BY <1>4, <2>2, <2>3, <2>4 DEF ReadRow
<1>5. CASE InsertRow(h)
  <2>1. CASE row[e] = NoRow /\ row' = [row EXCEPT ![e].delivery = "pending"]
             /\ ToStep(h, "update")
    <3>1. row[e].delivery = "absent" /\ row'[e].delivery = "pending"
          /\ \A f \in Events \ {e} : row'[f] = row[f]
      BY <1>2, <2>1 DEF NoRow, Row
    <3> QED BY <1>1, <1>2, <1>5, <2>1, <3>1, ToStepEffect
            DEF InsertRow, SmsMoves, Prepares, Busy, DeliveryOf
  <2>2. CASE Answer(h, "error") /\ row' = row
    BY <1>1, <1>2, <1>5, <2>2, AnswerEffect
       DEF InsertRow, SmsMoves, Prepares, Busy, DeliveryOf
  <2> QED BY <1>5, <2>1, <2>2 DEF InsertRow
<1>6. CASE Claim(h)
  <2>1. CASE row[e].delivery = "pending" /\ row' = [row EXCEPT ![e].delivery = "claimed"]
             /\ ToStep(h, "count")
    <3>1. row'[e].delivery = "claimed" /\ \A f \in Events \ {e} : row'[f] = row[f]
      BY <1>2, <2>1 DEF Row
    <3> QED BY <1>1, <1>2, <1>6, <2>1, <3>1, ToStepEffect
            DEF Claim, SmsMoves, Claims, DeliveryOf
  <2>2. CASE Answer(h, "error") /\ row' = row
    BY <1>1, <1>2, <1>6, <2>2, AnswerEffect DEF Claim, SmsMoves, Prepares, Busy, DeliveryOf
  <2> QED BY <1>6, <2>1, <2>2 DEF Claim
<1>7. CASE CountMessage(h)
  BY <1>1, <1>2, <1>7, ToStepEffect DEF CountMessage, SmsMoves, Counts
<1>8. ASSUME NEW pc \in {"limit", "reject"}, NEW final, NEW status \in {"error", "rejected"},
             StoreFailure(h, pc, final, status)
      PROVE  SmsMoves(h)
  <2>1. row'[e].delivery = "failed" /\ \A f \in Events \ {e} : row'[f] = row[f]
    BY <1>2, <1>8 DEF StoreFailure, Row
  <2>2. Busy(h) /\ handler'[h] = Free /\ UNCHANGED <<sends, counted, urgent>>
    BY <1>2, <1>8, AnswerEffect DEF StoreFailure, Busy
  <2>3. ack' \notin {"accepted", "duplicate"} \/ ack' = ack
    BY <1>2, <1>8, AnswerEffect DEF StoreFailure
  <2> QED BY <1>1, <2>1, <2>2, <2>3 DEF SmsMoves, Ends
<1>9. CASE Send(h)
  BY <1>1, <1>2, <1>9, ToStepEffect DEF Send, SmsMoves, Sends, Rejects
<1>10. CASE StoreAccepted(h)
  <2>1. row'[e].delivery = "accepted" /\ \A f \in Events \ {e} : row'[f] = row[f]
    BY <1>2, <1>10 DEF StoreAccepted, Row
  <2>2. Busy(h) /\ handler[h].pc = "store" /\ handler'[h] = Free
        /\ UNCHANGED <<sends, counted, urgent>>
        /\ (ack' # ack => ack = h)
    BY <1>2, <1>10, AnswerEffect DEF StoreAccepted, Busy
  <2> QED BY <1>1, <2>1, <2>2 DEF SmsMoves, Ends
<1>11. CASE AcceptFails(h)
  <2>1. handler'[h] = Free /\ UNCHANGED <<counted, urgent>> /\ ack' \in {ack, "error"}
        /\ ~ Busy(h)'
    BY <1>2, <1>11, AnswerEffect DEF AcceptFails, Busy
  <2>2. CASE UNCHANGED <<row, sends>>
    BY <1>1, <2>1, <2>2 DEF SmsMoves, Prepares, DeliveryOf
  <2>3. CASE /\ handler[h].pc \in {"count", "send"}
             /\ row' = [row EXCEPT ![e].delivery = "pending"]
             /\ UNCHANGED sends
    <3>1. row'[e].delivery = "pending" /\ \A f \in Events \ {e} : row'[f] = row[f]
      BY <1>2, <2>3 DEF Row
    <3> QED BY <1>1, <1>2, <2>1, <2>3, <3>1 DEF SmsMoves, Ends, Busy
  <2>4. CASE /\ handler[h].pc = "send"
             /\ sends' = [sends EXCEPT ![e] = OneMore(@)]
             /\ UNCHANGED row
    BY <1>1, <2>1, <2>4 DEF SmsMoves, Sends
  <2> QED BY <1>11, <2>2, <2>3, <2>4 DEF AcceptFails
<1> QED BY <1>4, <1>5, <1>6, <1>7, <1>8, <1>9, <1>10, <1>11 DEF AcceptStep, RegisterForHost

\* The claim that SmsMoves keeps: at most one request works for an event, and
\* as long as it has not sent the message no one has.
SmsInv == ClaimIsExclusive /\ AtMostOneSms /\ SentIsTrue /\ ReceiptMeansSent /\ CountedFirst

LEMMA ClaimStays ==
    ASSUME TypeOK, ClaimIsExclusive, AtMostOneSms, mode = "sms", mode' = mode,
           NEW h \in Handlers, SmsMoves(h)
    PROVE  ClaimIsExclusive' /\ AtMostOneSms'
<1> DEFINE e == EventOf(h)
<1>1. /\ handler[h] # Free /\ e \in Events
      /\ \A g \in Handlers \ {h} : handler'[g] = handler[g] /\ (Busy(g)' <=> Busy(g))
      /\ handler'[h] # Free => handler'[h].event = e
      /\ \A f \in Events \ {e} : row'[f] = row[f]
  BY DEF SmsMoves, RequestMoves, Busy, EventOf, Request
<1>2. sends \in [Events -> 0 .. 2] /\ DeliveryOf(e) \in DeliveryState
  BY <1>1 DEF TypeOK, DeliveryOf, Row
<1>3. /\ \A g \in Handlers : Busy(g) =>
           /\ row[EventOf(g)].delivery = "claimed"
           /\ handler[g].pc # "store" => sends[EventOf(g)] = 0
      /\ \A f, g \in Handlers : Busy(f) /\ Busy(g) /\ EventOf(f) = EventOf(g) => f = g
      /\ \A f \in Events : row[f].delivery \in {"absent", "pending"} => sends[f] = 0
      /\ \A f \in Events : sends[f] <= 1
  BY DEF ClaimIsExclusive, AtMostOneSms
<1>4. Free.pc = "free"
  BY DEF Free
<1>5. \A g \in Handlers : Busy(g)' => handler'[g] # Free
  BY DEF Busy
<1> DEFINE A == \A g \in Handlers : Busy(g)' =>
                  /\ row'[handler'[g].event].delivery = "claimed"
                  /\ handler'[g].pc # "store" => sends'[handler'[g].event] = 0
           B == \A f, g \in Handlers :
                  Busy(f)' /\ Busy(g)' /\ handler'[f].event = handler'[g].event => f = g
           C == \A f \in Events : row'[f].delivery \in {"absent", "pending"} => sends'[f] = 0
           D == \A f \in Events : sends'[f] <= 1
<1>6. A /\ B /\ C /\ D => ClaimIsExclusive' /\ AtMostOneSms'
  BY <1>1 DEF ClaimIsExclusive, AtMostOneSms, EventOf
<1>7. \A g \in Handlers : EventOf(g) = handler[g].event
  BY DEF EventOf
<1>8. Busy(h) => \A g \in Handlers \ {h} : Busy(g) => handler[g].event # e
  BY <1>3, <1>7
<1>9. DeliveryOf(e) # "claimed" => \A g \in Handlers : Busy(g) => handler[g].event # e
  BY <1>3, <1>7 DEF DeliveryOf
<1>e. \A g \in Handlers : Busy(g) => handler[g].event \in Events
  BY RequestFields, <1>7 DEF Busy
<1>10. CASE Prepares(h)
  <2>0. ASSUME NEW g \in Handlers, Busy(g)'
        PROVE  /\ Busy(g) /\ handler'[g] = handler[g]
               /\ row'[handler[g].event].delivery = "claimed"
    <3>1. g # h /\ Busy(g) /\ handler'[g] = handler[g] /\ handler[g].event \in Events
      BY <1>1, <1>e, <1>10, <2>0 DEF Prepares
    <3>2. CASE handler[g].event = e
      BY <1>3, <1>7, <1>10, <3>1, <3>2 DEF Prepares, DeliveryOf
    <3>3. CASE handler[g].event # e
      BY <1>1, <1>3, <1>7, <3>1, <3>3
    <3> QED BY <3>1, <3>2, <3>3
  <2>1. A
    BY <1>3, <1>7, <1>10, <2>0 DEF Prepares
  <2>2. B
    BY <1>1, <1>3, <1>7, <1>10 DEF Prepares
  <2>3. C /\ D
    BY <1>1, <1>3, <1>10 DEF Prepares, DeliveryOf
  <2> QED BY <1>6, <2>1, <2>2, <2>3
<1>11. CASE Claims(h)
  <2>1. \A g \in Handlers \ {h} : Busy(g) => handler[g].event # e
    BY <1>9, <1>11 DEF Claims
  <2>2. A
    <3>1. handler'[h].event = e /\ sends[e] = 0 /\ sends' = sends
          /\ row'[e].delivery = "claimed"
      BY <1>1, <1>3, <1>4, <1>11 DEF Claims, DeliveryOf
    <3>2. ASSUME NEW g \in Handlers \ {h}, Busy(g)'
          PROVE  /\ row'[handler'[g].event].delivery = "claimed"
                 /\ handler'[g].pc # "store" => sends'[handler'[g].event] = 0
      BY <1>1, <1>3, <1>7, <1>e, <2>1, <3>1, <3>2
    <3> QED BY <3>1, <3>2
  <2>3. B
    BY <1>1, <1>3, <1>5, <1>7, <2>1
  <2>4. C /\ D
    BY <1>1, <1>3, <1>11 DEF Claims
  <2> QED BY <1>6, <2>2, <2>3, <2>4
<1>12. CASE Counts(h) \/ Rejects(h)
  <2>1. Busy(h) /\ handler[h].pc # "store" /\ row' = row /\ sends' = sends
    BY <1>1, <1>12 DEF Counts, Rejects, Busy
  <2>2. A
    BY <1>1, <1>3, <1>5, <1>7, <2>1
  <2>3. B
    BY <1>1, <1>3, <1>5, <1>7, <1>8, <2>1
  <2> QED BY <1>3, <1>6, <2>1, <2>2, <2>3
<1>13. CASE Sends(h)
  <2>1. Busy(h) /\ row' = row /\ row[e].delivery = "claimed" /\ sends[e] = 0
    BY <1>1, <1>3, <1>7, <1>13 DEF Sends, Busy
  <2>2. sends'[e] = 1 /\ \A f \in Events \ {e} : sends'[f] = sends[f]
    BY <1>1, <1>2, <1>13, <2>1 DEF Sends, OneMore
  <2>3. Busy(h)' => handler'[h].pc = "store"
    BY <1>5, <1>13 DEF Sends
  <2>5. A
    BY <1>1, <1>3, <1>5, <1>7, <1>8, <1>e, <2>1, <2>2, <2>3
  <2>6. B
    BY <1>1, <1>3, <1>5, <1>7, <1>8, <2>1
  <2>7. C /\ D
    BY <1>3, <2>1, <2>2
  <2> QED BY <1>6, <2>5, <2>6, <2>7
<1>14. CASE Ends(h)
  <2>1. Busy(h) /\ ~ Busy(h)' /\ sends' = sends
    BY <1>5, <1>14 DEF Ends
  <2>2. \A g \in Handlers : Busy(g)' =>
          g # h /\ Busy(g) /\ handler'[g] = handler[g] /\ handler[g].event # e
          /\ handler[g].event \in Events
    BY <1>1, <1>8, <1>e, <2>1
  <2>3. A
    BY <1>1, <1>3, <1>7, <2>1, <2>2
  <2>4. B
    BY <1>3, <1>7, <2>2
  <2>5. C /\ D
    BY <1>1, <1>3, <1>7, <1>14, <2>1 DEF Ends
  <2> QED BY <1>6, <2>3, <2>4, <2>5
<1> QED BY <1>10, <1>11, <1>12, <1>13, <1>14 DEF SmsMoves

\* A message that was sent stays sent.
LEMMA SentStaysSent ==
    ASSUME TypeOK, NEW x,
           sends' \in {sends, [sends EXCEPT ![x] = OneMore(@)]}
    PROVE  \A e \in Events : sends[e] > 0 => sends'[e] > 0
<1>1. \A e \in Events : sends[e] \in 0 .. 2
  BY DEF TypeOK
<1>2. \A e \in Events : sends'[e] \in {sends[e], OneMore(sends[e])}
  BY DEF TypeOK
<1> QED BY <1>1, <1>2 DEF OneMore

LEMMA SentStays ==
    ASSUME TypeOK, PassIsBound, SentIsTrue, mode = "sms", mode' = mode,
           NEW h \in Handlers, SmsMoves(h), UNCHANGED <<npc, event, outbox>>
    PROVE  SentIsTrue'
<1> DEFINE e == EventOf(h)
<1>1. /\ handler[h] # Free /\ e \in Events
      /\ \A g \in Handlers \ {h} : handler'[g] = handler[g]
      /\ handler'[h] # Free => handler'[h].event = e
      /\ \A f \in Events \ {e} : row'[f] = row[f]
  BY DEF SmsMoves, RequestMoves, EventOf, Request
<1>2. \A f \in Events : sends[f] > 0 => sends'[f] > 0
  <2>1. sends' \in {sends, [sends EXCEPT ![e] = OneMore(@)]}
    BY DEF SmsMoves, Prepares, Claims, Counts, Sends, Rejects, Ends
  <2> QED BY <2>1, SentStaysSent
<1>3. \A g \in Handlers : Busy(g) /\ handler[g].pc = "store" =>
        handler[g].event \in Events /\ sends[handler[g].event] > 0
  BY RequestFields DEF SentIsTrue, Busy, EventOf
<1>4. \A f \in Events : row[f].delivery \in {"accepted", "delivered"} => sends[f] > 0
  BY DEF SentIsTrue
<1>5. Free.pc = "free"
  BY DEF Free
<1>6. Busy(h)' /\ handler'[h].pc = "store" => sends'[e] > 0
  <2>1. Busy(h)' /\ handler'[h].pc = "store" => Sends(h)
    BY <1>5 DEF SmsMoves, Prepares, Claims, Counts, Rejects, Ends, Busy
  <2>2. Sends(h) => sends'[e] = OneMore(sends[e]) /\ sends[e] \in 0 .. 2
    BY <1>1 DEF Sends, TypeOK
  <2> QED BY <2>1, <2>2 DEF OneMore
<1>7. \A g \in Handlers : Busy(g)' /\ handler'[g].pc = "store" => sends'[handler'[g].event] > 0
  <2>1. ASSUME NEW g \in Handlers \ {h}, Busy(g)', handler'[g].pc = "store"
        PROVE  sends'[handler'[g].event] > 0
    BY <1>1, <1>2, <1>3, <2>1 DEF Busy
  <2>2. Busy(h)' => handler'[h] # Free
    BY DEF Busy
  <2> QED BY <1>1, <1>6, <2>1, <2>2
<1>8. row'[e].delivery \in {"accepted", "delivered"} => sends'[e] > 0
  <2>1. /\ row'[e].delivery \in {"accepted", "delivered"}
        => \/ row[e].delivery \in {"accepted", "delivered"}
           \/ Busy(h) /\ handler[h].pc = "store"
    BY <1>5 DEF SmsMoves, Prepares, Claims, Counts, Sends, Rejects, Ends, DeliveryOf
  <2> QED BY <1>1, <1>2, <1>3, <1>4, <2>1 DEF EventOf
<1>9. \A f \in Events : row'[f].delivery \in {"accepted", "delivered"} => sends'[f] > 0
  BY <1>1, <1>2, <1>4, <1>8
<1>10. npc \in {"wait", "put", "close"} /\ ack' \in {"accepted", "duplicate"} => sends'[event] > 0
  <2> SUFFICES ASSUME npc \in {"wait", "put", "close"}, ack' \in {"accepted", "duplicate"}
               PROVE  sends'[event] > 0
    OBVIOUS
  <2>1. event \in Events
    BY DEF PassIsBound, TypeOK
  <2>2. CASE ack' = ack
    BY <1>2, <2>1, <2>2 DEF SentIsTrue
  <2>3. CASE ack' # ack
    <3>1. ack = h /\ \/ row[e].delivery \in {"accepted", "delivered"}
                     \/ Busy(h) /\ handler[h].pc = "store"
      BY <2>3 DEF SmsMoves, DeliveryOf
    <3>2. event = e
      BY <3>1 DEF PassIsBound, EventOf
    <3> QED BY <1>1, <1>2, <1>3, <1>4, <3>1, <3>2 DEF EventOf
  <2> QED BY <2>2, <2>3
<1> QED BY <1>7, <1>9, <1>10 DEF SentIsTrue, EventOf

-----------------------------------------------------------------------------

LEMMA SendsAreNumbers ==
    ASSUME TypeOK
    PROVE  \A f \in Events : sends[f] \in Nat
<1> TAKE f \in Events
<1>1. sends[f] \in 0 .. 2
  BY DEF TypeOK
<1> QED BY <1>1

\* One more message makes the sum one larger.
LEMMA OneMessageMore ==
    ASSUME TypeOK, NEW e \in Events, sends[e] = 0,
           sends' = [sends EXCEPT ![e] = OneMore(@)]
    PROVE  SumFunctionOnSet(sends', Events) = SumFunctionOnSet(sends, Events) + 1
<1> PICK after : after = sends'
  OBVIOUS
<1>1. after[e] = sends[e] + 1 /\ \A f \in Events \ {e} : after[f] = sends[f]
  BY DEF TypeOK, OneMore
<1>2. IsFiniteSet(Events) /\ \A f \in Events : sends[f] \in Nat
  BY SendsAreNumbers, RelayAssumption
<1>3. Sum(after, Events) = Sum(sends, Events) + 1
  <2>1. Bumped(sends, after, e, Events)
    BY <1>1 DEF Bumped
  <2> QED BY <1>2, <2>1, SumBump
<1> QED BY <1>3 DEF Sum

LEMMA CountStays ==
    ASSUME TypeOK, ClaimIsExclusive, CountedFirst, mode = "sms", mode' = mode,
           NEW h \in Handlers, SmsMoves(h)
    PROVE  CountedFirst'
<1> DEFINE e == EventOf(h)
           n == Cardinality(Sending)
           total == SumFunctionOnSet(sends, Events)
<1>1. /\ handler[h] # Free /\ e \in Events
      /\ \A g \in Handlers \ {h} : handler'[g] = handler[g]
  BY DEF SmsMoves, RequestMoves, EventOf, Request
<1>2. IsFiniteSet(Sending) /\ n \in Nat
  BY RelayAssumption, FS_Subset, FS_CardinalityType DEF Sending
<1>3. total \in Nat
  <2> QED BY SendsAreNumbers, RelayAssumption, SumNat DEF Sum
<1>4. Free.pc = "free"
  BY DEF Free
<1>5. /\ total + n <= counted /\ counted - urgent <= SmsLimit - SmsReserve
      /\ counted \in Nat /\ urgent \in Nat /\ SmsLimit \in Nat /\ SmsReserve \in Nat
  BY RelayAssumption DEF CountedFirst, TypeOK
<1>6. CASE ~ Counts(h) /\ ~ Sends(h)
  <2>1. UNCHANGED <<sends, counted, urgent>> /\ handler'[h].pc # "send"
    BY <1>4, <1>6 DEF SmsMoves, Prepares, Claims, Rejects, Ends, Busy
  <2>2. Sending' \in SUBSET Sending
    BY <1>1, <2>1 DEF Sending
  <2>3. Cardinality(Sending') \in Nat /\ Cardinality(Sending') <= n
    BY <1>2, <2>2, FS_Subset, FS_CardinalityType
  <2> HIDE DEF n, total
  <2>4. SumFunctionOnSet(sends', Events) = total
    BY <2>1 DEF total
  <2>5. total + Cardinality(Sending') <= counted
    BY <1>2, <1>3, <1>5, <2>3
  <2> QED BY <1>5, <2>1, <2>4, <2>5 DEF CountedFirst
<1>7. CASE Counts(h)
  <2>1. CASE handler'[h].pc = "limit" /\ UNCHANGED <<counted, urgent>>
    <3>1. Sending' = Sending /\ sends' = sends
      BY <1>1, <1>7, <2>1 DEF Sending, Counts
    <3> QED BY <1>5, <2>1, <3>1 DEF CountedFirst
  <2>2. CASE /\ handler'[h].pc = "send"
             /\ counted < AttemptLimit(e)
             /\ counted' = counted + 1
             /\ urgent' = IF e \in Priority THEN urgent + 1 ELSE urgent
    <3>1. Sending' = Sending \union {h} /\ h \notin Sending /\ sends' = sends
      BY <1>1, <1>4, <1>7, <2>2 DEF Sending, Counts
    <3>2. Cardinality(Sending') = n + 1
      BY <1>2, <3>1, FS_AddElement
    <3>3. counted' - urgent' <= SmsLimit - SmsReserve
      <4>1. CASE e \in Priority
        BY <1>5, <2>2, <4>1
      <4>2. CASE e \notin Priority
        <5>1. counted < SmsLimit - SmsReserve
          BY <2>2, <4>2 DEF AttemptLimit
        <5> QED BY <1>5, <2>2, <4>2, <5>1
      <4> QED BY <4>1, <4>2
    <3> HIDE DEF n, total
    <3>4. SumFunctionOnSet(sends', Events) = total
      BY <3>1 DEF total
    <3>5. total + (n + 1) <= counted'
      BY <1>2, <1>3, <1>5, <2>2
    <3> QED BY <3>2, <3>3, <3>4, <3>5 DEF CountedFirst
  <2> QED BY <1>7, <2>1, <2>2 DEF Counts
<1>8. CASE Sends(h)
  <2>1. h \in Sending /\ Busy(h) /\ handler[h].pc # "store"
    BY <1>1, <1>8 DEF Sends, Sending, Busy
  <2>2. sends[e] = 0
    BY <2>1 DEF ClaimIsExclusive
  <2>3. handler'[h].pc # "send"
    BY <1>4, <1>8 DEF Sends
  <2>4. Sending' = Sending \ {h}
    BY <1>1, <2>3 DEF Sending
  <2>5. Cardinality(Sending') = n - 1
    BY <1>2, <2>1, <2>4, FS_RemoveElement
  <2>6. SumFunctionOnSet(sends', Events) = total + 1
    BY <1>1, <1>8, <2>2, OneMessageMore DEF Sends
  <2>7. UNCHANGED <<counted, urgent>>
    BY <1>8 DEF Sends
  <2> HIDE DEF n, total
  <2>8. (total + 1) + (n - 1) <= counted
    BY <1>2, <1>3, <1>5
  <2> QED BY <1>5, <2>5, <2>6, <2>7, <2>8 DEF CountedFirst
<1> QED BY <1>6, <1>7, <1>8

\* A request keeps all of it, in the host mode too.
LEMMA RequestKeepsSms ==
    ASSUME HostInv, SmsInv, NEW h \in Handlers, AcceptStep(h) \/ AcceptFails(h)
    PROVE  SmsInv'
<1> USE DEF HostInv, SmsInv
<1>1. UNCHANGED <<mode, hostVars, npc, event>>
  BY DEF AcceptStep, AcceptFails
<1>2. sends' \in {sends, [sends EXCEPT ![EventOf(h)] = OneMore(@)]}
  BY DEF AcceptStep, AcceptFails, ReadRow, InsertRow, RegisterForHost, Claim, CountMessage,
         StoreFailure, Send, StoreAccepted
<1>3. \A e \in Events : sends[e] > 0 => sends'[e] > 0
  BY <1>2, SentStaysSent
<1>4. ReceiptMeansSent'
  BY <1>1, <1>3 DEF ReceiptMeansSent, hostVars
<1>5. CASE mode = "sms"
  <2>1. SmsMoves(h)
    BY <1>5, SmsStep
  <2> QED BY <1>1, <1>4, <1>5, <2>1, ClaimStays, SentStays, CountStays DEF hostVars
<1>6. CASE mode # "sms"
  <2>1. RequestMoves(h)
    BY RequestEffect
  <2>2. ack \in Status => ack' = ack
    BY <2>1, RelayAssumption DEF RequestMoves
  <2>3. npc \in {"put", "close"} => ack \in Status /\ event \in Events
    BY DEF PassIsBound, TypeOK
  <2> QED BY <1>1, <1>3, <1>4, <1>6, <2>2, <2>3
          DEF ClaimIsExclusive, AtMostOneSms, SentIsTrue, CountedFirst
<1> QED BY <1>5, <1>6

\* What the notifier knows when it leaves the worker's database alone.
LEMMA PassKeepsSms ==
    ASSUME HostInv, SmsInv,
           UNCHANGED <<mode, handler, row, counted, urgent, sends>>,
           \/ UNCHANGED <<receipts, npc, event, ack>>
           \/ UNCHANGED receipts /\ npc' \notin {"put", "close", "wait"}
           \/ \E e \in Events : PutExpired(e)
           \/ SubmitAccepted \/ OpenReceipt \/ CloseReceipt
    PROVE  SmsInv'
<1> USE DEF HostInv, SmsInv
<1>1. ClaimIsExclusive' /\ AtMostOneSms' /\ CountedFirst'
  BY DEF ClaimIsExclusive, AtMostOneSms, CountedFirst, Sending, Busy, EventOf
<1>2. mode' = "sms" =>
         /\ \A h \in Handlers : Busy(h)' /\ handler'[h].pc = "store" => sends'[EventOf(h)'] > 0
         /\ \A e \in Events : row'[e].delivery \in {"accepted", "delivered"} => sends'[e] > 0
  BY DEF SentIsTrue, Busy, EventOf
<1>3. CASE \/ UNCHANGED <<receipts, npc, event, ack>>
           \/ UNCHANGED receipts /\ npc' \notin {"put", "close", "wait"}
  BY <1>1, <1>2, <1>3 DEF SentIsTrue, ReceiptMeansSent
<1>4. ASSUME NEW e \in Events, PutExpired(e) PROVE SmsInv'
  BY <1>1, <1>2, <1>4 DEF PutExpired, SentIsTrue, ReceiptMeansSent, hostVars
<1>5. CASE SubmitAccepted
  <2>1. npc' = "put" => mode = "sms" \/ ack = "rejected"
    BY <1>5, RelayAssumption DEF SubmitAccepted, TypeOK
  <2>2. npc = "wait" /\ npc' \in {"message", "put"}
        /\ UNCHANGED <<event, ack, receipts>>
    BY <1>5 DEF SubmitAccepted, hostVars
  <2> QED BY <1>1, <1>2, <2>1, <2>2 DEF SentIsTrue, ReceiptMeansSent
<1>6. CASE OpenReceipt
  BY <1>1, <1>2, <1>6 DEF OpenReceipt, SentIsTrue, ReceiptMeansSent
<1>7. CASE CloseReceipt
  <2>1. ReceiptMeansSent'
    BY <1>7 DEF CloseReceipt, SentIsTrue, ReceiptMeansSent, TypeOK
  <2> QED BY <1>1, <1>2, <1>7, <2>1, RelayAssumption DEF CloseReceipt, GiveUp, SentIsTrue
<1> QED BY <1>3, <1>4, <1>5, <1>6, <1>7

LEMMA SubmitKeepsSms ==
    ASSUME HostInv, SmsInv, NEW e \in Events, Submit(e)
    PROVE  SmsInv'
<1> USE DEF HostInv, SmsInv
<1>1. /\ ack' \in Handlers
      /\ handler[ack'] = Free
      /\ handler'[ack'].pc = "read"
      /\ \A g \in Handlers \ {ack'} : handler'[g] = handler[g]
  BY SubmitTakesHandler
<1>2. UNCHANGED <<mode, hostVars, row, counted, urgent, sends>>
  BY DEF Submit
<1>3. \A g \in Handlers : Busy(g)' => Busy(g) /\ handler'[g] = handler[g]
  BY <1>1 DEF Busy
<1>4. Sending' = Sending
  BY <1>1 DEF Sending, Free
<1>5. ack' \notin {"accepted", "duplicate"}
  BY <1>1, RelayAssumption DEF Status
<1> QED BY <1>2, <1>3, <1>4, <1>5
        DEF ClaimIsExclusive, AtMostOneSms, SentIsTrue, ReceiptMeansSent, CountedFirst,
            EventOf, hostVars

\* The host's own messages; the worker sends none.
LEMMA MessageKeepsSms ==
    ASSUME HostInv, SmsInv, SendMessage \/ SendMessageFails
    PROVE  SmsInv'
<1> USE DEF HostInv, SmsInv
<1>1. mode # "sms" /\ mode' = mode /\ receipts' = receipts
  BY DEF SendMessage, SendMessageFails, PassIsBound, hostVars
<1>2. sends' \in {sends, [sends EXCEPT ![event] = OneMore(@)]}
  BY DEF SendMessage, SendMessageFails
<1>3. \A e \in Events : sends[e] > 0 => sends'[e] > 0
  BY <1>2, SentStaysSent
<1>4. SentIsTrue'
  <2>1. CASE SendMessage
    <3>1. event \in Events /\ event' = event
      BY <2>1 DEF SendMessage, PassIsBound, TypeOK
    <3>2. sends'[event] = OneMore(sends[event]) /\ sends[event] \in 0 .. 2
      BY <2>1, <3>1 DEF SendMessage, TypeOK
    <3>3. sends'[event] > 0
      BY <3>2 DEF OneMore
    <3> QED BY <1>1, <3>1, <3>3 DEF SentIsTrue
  <2>2. CASE SendMessageFails
    BY <1>1, <2>2 DEF SendMessageFails, GiveUp, SentIsTrue
  <2> QED BY <2>1, <2>2
<1> QED BY <1>1, <1>3, <1>4 DEF ClaimIsExclusive, AtMostOneSms, ReceiptMeansSent, CountedFirst

\* A delivery report and a decision are written to the event's row.
LEMMA RowWritesKeepSms ==
    ASSUME HostInv, SmsInv,
           (\E e \in Events : Finalized(e)) \/ (\E w \in Webhooks : CommitAnswer(w))
    PROVE  SmsInv'
<1> USE DEF HostInv, SmsInv
<1>1. UNCHANGED <<mode, hostVars, passVars, handler, counted, urgent, sends>>
  BY DEF Finalized, CommitAnswer
<1>2. \A f \in Events :
        \/ row'[f].delivery = row[f].delivery
        \/ /\ row[f].delivery = "accepted"
           /\ row'[f].delivery \in {"delivered", "failed"}
           /\ sends[f] > 0
  <2>1. ASSUME NEW e \in Events, Finalized(e), NEW f \in Events
        PROVE  \/ row'[f].delivery = row[f].delivery
               \/ /\ row[f].delivery = "accepted"
                  /\ row'[f].delivery \in {"delivered", "failed"}
                  /\ sends[f] > 0
    <3>1. PICK state \in {"delivered", "failed"} :
            row' = [row EXCEPT ![e].delivery = state, ![e].final = "finalized"]
      BY <2>1 DEF Finalized
    <3>2. row[e] \in Row /\ row \in [Events -> Row]
      BY DEF TypeOK
    <3>3. row'[e].delivery = state /\ (f # e => row'[f] = row[f])
      BY <3>1, <3>2 DEF Row
    <3> QED BY <2>1, <3>3 DEF Finalized
  <2>2. ASSUME NEW w \in Webhooks, CommitAnswer(w), NEW f \in Events
        PROVE  row'[f].delivery = row[f].delivery
    <3>1. row[f] \in Row /\ row \in [Events -> Row] /\ AnswerOf[w].event \in Events
      BY RelayAssumption DEF TypeOK
    <3>2. row' = row \/ row' = [row EXCEPT ![AnswerOf[w].event].decided = TRUE]
      BY <2>2 DEF CommitAnswer
    <3> QED BY <3>1, <3>2 DEF Row
  <2> QED BY <2>1, <2>2
<1>3. ClaimIsExclusive' /\ AtMostOneSms' /\ CountedFirst'
  <2>1. \A h \in Handlers : Busy(h) => EventOf(h) \in Events
    BY RequestFields DEF Busy
  <2> QED BY <1>1, <1>2, <2>1
          DEF ClaimIsExclusive, AtMostOneSms, CountedFirst, Sending, Busy, EventOf
<1>4. SentIsTrue' /\ ReceiptMeansSent'
  BY <1>1, <1>2 DEF SentIsTrue, ReceiptMeansSent, Busy, EventOf, hostVars, passVars
<1> QED BY <1>3, <1>4

LEMMA SmsInductive == HostInv /\ SmsInv /\ [Next]_vars => SmsInv'
<1> SUFFICES ASSUME HostInv, SmsInv, [Next]_vars PROVE SmsInv'
  OBVIOUS
<1>1. CASE \E h \in Handlers : AcceptStep(h) \/ AcceptFails(h)
  BY <1>1, RequestKeepsSms
<1>2. CASE \E e \in Events : Submit(e)
  BY <1>2, SubmitKeepsSms
<1>3. CASE SendMessage \/ SendMessageFails
  BY <1>3, MessageKeepsSms
<1>4. CASE (\E e \in Events : Finalized(e)) \/ (\E w \in Webhooks : CommitAnswer(w))
  BY <1>4, RowWritesKeepSms
<1>5. CASE \/ Tick \/ ImportInbox
           \/ \E e \in Events : Emit(e)
           \/ \E w \in Webhooks : ReceiveAnswer(w) \/ AnswerFails(w)
           \/ UNCHANGED vars
  <2>1. UNCHANGED <<mode, handler, row, counted, urgent, sends, receipts, npc, event, ack>>
    BY <1>5 DEF Tick, ImportInbox, Emit, ReceiveAnswer, AnswerFails, vars, hostVars,
                passVars, workerVars
  <2> QED BY <2>1, PassKeepsSms
<1>6. CASE \/ StartPass \/ ReceiptRaises \/ LoseAnswer \/ SubmitFailed \/ PollStep
  <2>1. UNCHANGED <<mode, handler, row, counted, urgent, sends, receipts>>
        /\ npc' \notin {"put", "close", "wait"}
    BY <1>6 DEF StartPass, ReceiptRaises, LoseAnswer, SubmitFailed, PollStep, Poll, PollRaises,
                OpenDecision, CloseDecision, DecisionCollides, OpenCheckpoint,
                CloseCheckpoint, NotifierDies, EndPass, GiveUp, hostVars, workerVars
  <2> QED BY <2>1, PassKeepsSms
<1>7. CASE \/ \E e \in Events : PutExpired(e)
           \/ SubmitAccepted \/ OpenReceipt \/ CloseReceipt
  <2>1. UNCHANGED <<mode, handler, row, counted, urgent, sends>>
    BY <1>7 DEF PutExpired, SubmitAccepted, OpenReceipt, CloseReceipt, workerVars
  <2> QED BY <1>7, <2>1, PassKeepsSms
<1> QED BY <1>1, <1>2, <1>3, <1>4, <1>5, <1>6, <1>7
        DEF Next, NotifierStep, WorkerStep, PollStep

LEMMA SmsInitially == Init => SmsInv
<1> SUFFICES ASSUME Init PROVE SmsInv
  OBVIOUS
<1>1. \A h \in Handlers : ~ Busy(h)
  BY DEF Init, Busy
<1>2. Sending = {} /\ \A e \in Events : sends[e] = 0
  BY DEF Init, Sending
<1>3. SumFunctionOnSet(sends, Events) = 0
  <2>1. \A x \in Events : sends[x] \in Nat
    BY <1>2
  <2>2. \A S \in SUBSET Events : IsFiniteSet(S) /\ Sum(sends, S) \in Nat
    BY <1>2, RelayAssumption, FS_Subset, SumNat
  <2> DEFINE X == {S \in SUBSET Events : Sum(sends, S) = 0}
  <2>3. {} \in X
    BY RelayAssumption, SumUnfold
  <2>4. ASSUME NEW S \in SUBSET Events, NEW x \in Events, S \in X, x \notin S
        PROVE  S \union {x} \in X
    <3>1. Sum(sends, S \union {x}) = sends[x] + Sum(sends, S)
      BY <1>2, <2>2, <2>4, SumAdd
    <3> QED BY <1>2, <2>4, <3>1
  <2> HIDE DEF X
  <2>5. Events \in X
    BY <2>3, <2>4, RelayAssumption, SubsetInduction
  <2> QED BY <2>5 DEF X, Sum
<1>4. CountedFirst
  <2>1. Cardinality(Sending) = 0
    BY <1>2, FS_EmptySet
  <2> QED BY <1>3, <2>1, RelayAssumption DEF Init, CountedFirst
<1>5. ClaimIsExclusive /\ AtMostOneSms
  BY <1>1, <1>2 DEF ClaimIsExclusive, AtMostOneSms
<1>6. SentIsTrue /\ ReceiptMeansSent
  BY <1>1, RelayAssumption DEF Init, SentIsTrue, ReceiptMeansSent, NoRow, Status
<1> QED BY <1>4, <1>5, <1>6 DEF SmsInv

LEMMA SmsInvariance == Spec => []SmsInv
  BY HostInvariance, SmsInitially, SmsInductive, PTL DEF Spec

(***************************************************************************)
(* UPDATE ... WHERE delivery_state = 'pending' is what stands between two  *)
(* requests for one event: the worker sends at most one message for it,    *)
(* however many requests overlap, are repeated or die.                     *)
(***************************************************************************)
THEOREM WorkerSendsOnce == Spec => []AtMostOneSms
<1>1. SmsInv => AtMostOneSms
  BY DEF SmsInv
<1> QED BY <1>1, SmsInvariance, PTL

(***************************************************************************)
(* A receipt of an accepted event, a duplicate included, is written only   *)
(* after a message was sent, by the worker or by the host.                 *)
(***************************************************************************)
THEOREM ReceiptsAreTrue == Spec => []ReceiptMeansSent
<1>1. SmsInv => ReceiptMeansSent
  BY DEF SmsInv
<1> QED BY <1>1, SmsInvariance, PTL

(***************************************************************************)
(* The worker counts a message before it sends it and never uncounts one:  *)
(* the month's messages stay within the count, and the reserve is kept for *)
(* the events with priority.                                               *)
(***************************************************************************)
THEOREM ReserveIsKept == Spec => []ReserveKept
<1>1. HostInv /\ SmsInv => ReserveKept
  <2> SUFFICES ASSUME HostInv, SmsInv, mode = "sms" PROVE
          /\ SumFunctionOnSet(sends, Events) <= counted
          /\ counted - urgent <= SmsLimit - SmsReserve
    BY DEF ReserveKept
  <2>1. SumFunctionOnSet(sends, Events) \in Nat
    BY SendsAreNumbers, RelayAssumption, SumNat DEF Sum, HostInv
  <2>2. Cardinality(Sending) \in Nat
    BY RelayAssumption, FS_Subset, FS_CardinalityType DEF Sending
  <2>3. SumFunctionOnSet(sends, Events) + Cardinality(Sending) <= counted
        /\ counted - urgent <= SmsLimit - SmsReserve
        /\ counted \in Nat
    BY DEF SmsInv, CountedFirst, HostInv, TypeOK
  <2> QED BY <2>1, <2>2, <2>3
<1> QED BY <1>1, HostInvariance, SmsInvariance, PTL

=============================================================================
