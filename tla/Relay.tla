------------------------------- MODULE Relay -------------------------------
(***************************************************************************)
(* The way of an event to the operator's phone and of the answer back:     *)
(* the notifier on the host (src/iou_ai/notifier.py, notify_cli.py), the   *)
(* relay worker and its database (relay/cloudflare/src/index.js), and the  *)
(* importer of the decision inbox (decision_cli.py).                       *)
(*                                                                         *)
(* Every run of the notifier first submits the events that have no receipt *)
(* and then fetches one page of decisions.  In "host" mode the relay only  *)
(* registers an event and the host sends the message; in "sms" mode the    *)
(* worker sends it.  The host may give up on a request that the worker is  *)
(* still handling, so that several handlers of one event overlap: each is  *)
(* a member of Handlers, and a step of a handler is one statement on the   *)
(* database or one call of the provider.  One notifier runs at a time (its *)
(* timer starts a oneshot unit).                                           *)
(***************************************************************************)
EXTENDS Naturals, Sequences, FiniteSets, FiniteSetsExt

CONSTANTS
    Events,         \* event digests
    Approvals,      \* those that ask for a decision
    Priority,       \* those that may use the reserved messages
    Rank,           \* [Events -> place in the order of delivery]
    ExpiresAt,      \* [Approvals -> the end of the response window]
    Modes,          \* deployments: "host", "sms"
    Handlers,       \* running acceptEvent requests
    Webhooks,       \* webhook ids of the operator's answers
    AnswerOf,       \* [Webhooks -> the decision the answer stands for]
    SmsLimit,       \* messages in a month
    SmsReserve,     \* those kept for priority events
    PageLimit,      \* decisions in a page
    Workload,       \* bound: [Modes -> the events that are written]
    Overlap,        \* bound: deliveries of one webhook handled at a time
    MaxTime,        \* bound: the clock stops here
    MaxFaults,      \* bound: failures of disk, network, database or provider
    None

\* The statuses a request is answered with and a receipt may have.
Status == {"accepted", "duplicate", "rejected", "expired"}

ASSUME RelayAssumption ==
    /\ IsFiniteSet(Events) /\ IsFiniteSet(Handlers)
    /\ Priority \subseteq Events
    /\ Approvals \subseteq Priority
    /\ Rank \in [Events -> Nat]
    /\ ExpiresAt \in [Approvals -> Nat]
    /\ Modes \subseteq {"host", "sms"}
    /\ Workload \in [Modes -> SUBSET Events]
    /\ AnswerOf \in [Webhooks -> [event : Approvals, action : {"approve", "deny"}]]
    /\ SmsLimit \in Nat
    /\ SmsReserve \in 0 .. SmsLimit
    /\ PageLimit \in Nat \ {0}
    /\ Overlap \in Nat \ {0}
    /\ MaxTime \in Nat
    /\ MaxFaults \in Nat
    /\ None \notin Events \union Handlers \union Status \union {"error"}
    /\ Handlers \cap (Status \union {"error"}) = {}

VARIABLES
    now,
    mode,           \* the deployment
    faults,
    \* the host
    outbox,         \* events the projector has written
    receipts,       \* [Events -> the status of the receipt, or None]
    tornReceipts,   \* receipt files that are not complete
    inbox,          \* decisions that are stored
    tornInbox,      \* decisions whose files are not complete
    checkpoints,    \* cursor checkpoints
    tornCheckpoints,
    archived,       \* decisions import_signed has accepted
    \* the running notifier
    npc, left, passTime, event, ack, page,
    \* the worker and its database
    handler,        \* [Handlers -> the running request]
    row,            \* [Events -> the event's row]
    counted,        \* this month's attempted_count
    decisions,      \* the table of decisions, in sequence order
    processed,      \* webhook ids that were recorded
    checking,       \* [Webhooks -> deliveries between their reads and the commit]
    \* history
    sends,          \* [Events -> messages the provider has sent, up to 2]
    urgent          \* attempts counted for events with priority

hostVars == <<outbox, receipts, tornReceipts, inbox, tornInbox, checkpoints,
              tornCheckpoints, archived>>
passVars == <<npc, left, passTime, event, ack, page>>
workerVars == <<handler, row, counted, urgent, decisions, processed, checking>>
vars == <<now, mode, faults, hostVars, passVars, workerVars, sends>>

Decision == [event : Approvals, action : {"approve", "deny"}]

DeliveryState == {"absent", "pending", "claimed", "accepted", "delivered", "failed"}

\* final is telnyx_final_status, identified whether telnyx_message_id is set.
Row == [delivery : DeliveryState, identified : BOOLEAN,
        final : {"none", "rejected", "limit", "finalized"}, decided : BOOLEAN]

NoRow == [delivery |-> "absent", identified |-> FALSE, final |-> "none", decided |-> FALSE]

Free == [pc |-> "free"]

Request == [pc : {"read", "insert", "update", "count", "limit", "send", "store", "reject"},
            event : Events, duplicate : BOOLEAN]

TypeOK ==
    /\ now \in 0 .. MaxTime
    /\ mode \in Modes
    /\ faults \in 0 .. MaxFaults
    /\ outbox \subseteq Events
    /\ receipts \in [Events -> Status \union {None}]
    /\ tornReceipts \subseteq outbox
    /\ inbox \subseteq Decision
    /\ tornInbox \subseteq Decision \ inbox
    /\ checkpoints \subseteq 1 .. Len(decisions)
    /\ tornCheckpoints \subseteq 1 .. Len(decisions)
    /\ archived \subseteq inbox
    /\ npc \in {"idle", "deliver", "wait", "message", "put", "close",
                "poll", "store", "stored", "advance", "advanced"}
    /\ left \subseteq outbox
    /\ passTime \in 0 .. now
    /\ event \in Events \union {None}
    /\ ack \in Handlers \union Status \union {"error", None}
    /\ page \in Seq(Decision)
    /\ handler \in [Handlers -> Request \union {Free}]
    /\ row \in [Events -> Row]
    /\ counted \in 0 .. SmsLimit
    /\ urgent \in 0 .. counted
    /\ decisions \in Seq(Decision)
    /\ processed \subseteq Webhooks
    /\ checking \in [Webhooks -> 0 .. Overlap]
    /\ sends \in [Events -> 0 .. 2]

Init ==
    /\ now = 0
    /\ mode \in Modes
    /\ faults = 0
    /\ outbox = {}
    /\ receipts = [e \in Events |-> None]
    /\ tornReceipts = {} /\ inbox = {} /\ tornInbox = {}
    /\ checkpoints = {} /\ tornCheckpoints = {} /\ archived = {}
    /\ npc = "idle"
    /\ left = {}
    /\ passTime = 0
    /\ event = None
    /\ ack = None
    /\ page = <<>>
    /\ handler = [h \in Handlers |-> Free]
    /\ row = [e \in Events |-> NoRow]
    /\ counted = 0
    /\ urgent = 0
    /\ decisions = <<>>
    /\ processed = {}
    /\ checking = [w \in Webhooks |-> 0]
    /\ sends = [e \in Events |-> 0]

Tick ==
    /\ now < MaxTime
    /\ now' = now + 1
    /\ UNCHANGED <<mode, faults, hostVars, passVars, workerVars, sends>>

\* The projector writes an event.
Emit(e) ==
    /\ e \in Workload[mode] \ outbox
    /\ outbox' = outbox \union {e}
    /\ UNCHANGED <<now, mode, faults, receipts, tornReceipts, inbox, tornInbox, checkpoints,
                   tornCheckpoints, archived, passVars, workerVars, sends>>

Fault == faults < MaxFaults /\ faults' = faults + 1

OneMore(n) == IF n < 2 THEN n + 1 ELSE n

-----------------------------------------------------------------------------
(***************************************************************************)
(* acceptEvent, one request h for one event.                               *)
(***************************************************************************)

\* The answer reaches the host if it is still waiting for this request.
Answer(h, status) ==
    /\ handler' = [handler EXCEPT ![h] = Free]
    /\ ack' = IF ack = h THEN status ELSE ack

ToStep(h, pc) == handler' = [handler EXCEPT ![h].pc = pc] /\ UNCHANGED ack

EventOf(h) == handler[h].event

\* The statuses an existing row is answered with at once.
Settled(r) ==
    CASE r.delivery \in {"accepted", "delivered"} /\ r.identified -> "duplicate"
      [] r.delivery = "failed" /\ r.final = "rejected" -> "rejected"
      [] r.delivery = "failed" /\ r.final = "limit" -> "error"
      [] OTHER -> None

ReadRow(h) ==
    LET r == row[EventOf(h)]
    IN  /\ handler[h].pc = "read"
        /\ IF r = NoRow THEN ToStep(h, "insert")
           ELSE IF Settled(r) # None THEN Answer(h, Settled(r))
           ELSE /\ handler' = [handler EXCEPT ![h].pc = "update", ![h].duplicate = TRUE]
                /\ UNCHANGED ack
        /\ UNCHANGED <<row, counted, urgent, sends>>

\* A row that another request inserted meanwhile is a conflict.
InsertRow(h) ==
    /\ handler[h].pc = "insert"
    /\ IF row[EventOf(h)] = NoRow
       THEN /\ row' = [row EXCEPT ![EventOf(h)].delivery = "pending"]
            /\ ToStep(h, "update")
       ELSE Answer(h, "error") /\ UNCHANGED row
    /\ UNCHANGED <<counted, urgent, sends>>

Accepted(h) == IF handler[h].duplicate THEN "duplicate" ELSE "accepted"

\* UPDATE events ... WHERE delivery_state = 'pending', host mode.
RegisterForHost(h) ==
    LET e == EventOf(h)
    IN  /\ mode = "host"
        /\ handler[h].pc = "update"
        /\ IF row[e].delivery = "pending"
           THEN /\ row' = [row EXCEPT ![e].delivery = "accepted", ![e].identified = TRUE]
                /\ Answer(h, Accepted(h))
           ELSE Answer(h, "error") /\ UNCHANGED row
        /\ UNCHANGED <<counted, urgent, sends>>

\* A faulty variant: the claim does not look at the state of the delivery.
ClaimAlways(h) ==
    /\ mode = "sms"
    /\ handler[h].pc = "update"
    /\ row' = [row EXCEPT ![EventOf(h)].delivery = "claimed"]
    /\ ToStep(h, "count")
    /\ UNCHANGED <<counted, urgent, sends>>

\* UPDATE events SET delivery_state = 'claimed' WHERE ... 'pending'.
Claim(h) ==
    LET e == EventOf(h)
    IN  /\ mode = "sms"
        /\ handler[h].pc = "update"
        /\ IF row[e].delivery = "pending"
           THEN row' = [row EXCEPT ![e].delivery = "claimed"] /\ ToStep(h, "count")
           ELSE Answer(h, "error") /\ UNCHANGED row
        /\ UNCHANGED <<counted, urgent, sends>>

\* A faulty variant: the reserve is open to everyone.
AttemptLimitForAll(e) == SmsLimit

AttemptLimit(e) == IF e \in Priority THEN SmsLimit ELSE SmsLimit - SmsReserve

CountMessage(h) ==
    /\ handler[h].pc = "count"
    /\ IF counted < AttemptLimit(EventOf(h))
       THEN /\ counted' = counted + 1
            /\ urgent' = IF EventOf(h) \in Priority THEN urgent + 1 ELSE urgent
            /\ ToStep(h, "send")
       ELSE ToStep(h, "limit") /\ UNCHANGED <<counted, urgent>>
    /\ UNCHANGED <<row, sends>>

\* A terminal result is stored and answered.
StoreFailure(h, pc, final, status) ==
    /\ handler[h].pc = pc
    /\ row' = [row EXCEPT ![EventOf(h)].delivery = "failed", ![EventOf(h)].final = final]
    /\ Answer(h, status)
    /\ UNCHANGED <<counted, urgent, sends>>

\* The provider's definite acceptance or rejection.
Send(h) ==
    /\ handler[h].pc = "send"
    /\ \/ /\ sends' = [sends EXCEPT ![EventOf(h)] = OneMore(@)]
          /\ ToStep(h, "store")
       \/ ToStep(h, "reject") /\ UNCHANGED sends
    /\ UNCHANGED <<row, counted, urgent>>

StoreAccepted(h) ==
    LET e == EventOf(h)
    IN  /\ handler[h].pc = "store"
        /\ row' = [row EXCEPT ![e].delivery = "accepted", ![e].identified = TRUE]
        /\ Answer(h, Accepted(h))
        /\ UNCHANGED <<counted, urgent, sends>>

AcceptStep(h) ==
    /\ \/ ReadRow(h)
       \/ InsertRow(h)
       \/ RegisterForHost(h)
       \/ Claim(h)
       \/ CountMessage(h)
       \/ StoreFailure(h, "limit", "limit", "error")
       \/ Send(h)
       \/ StoreAccepted(h)
       \/ StoreFailure(h, "reject", "rejected", "rejected")
    /\ UNCHANGED <<now, mode, faults, hostVars, npc, left, passTime, event, page,
                   decisions, processed, checking>>

(***************************************************************************)
(* A statement fails, before or after it took effect, or the worker is     *)
(* stopped: 503.  Only after a failed count the claim is given back.  A    *)
(* provider that does not answer may have sent the message.                *)
(***************************************************************************)
AcceptFails(h) ==
    LET e == EventOf(h)
    IN  /\ handler[h] # Free
        /\ Fault
        /\ \/ UNCHANGED <<row, sends>>
           \/ /\ handler[h].pc \in {"count", "send"}
              /\ row' = [row EXCEPT ![e].delivery = "pending"]
              /\ UNCHANGED sends
           \/ /\ handler[h].pc = "send"
              /\ sends' = [sends EXCEPT ![e] = OneMore(@)]
              /\ UNCHANGED row
        /\ Answer(h, "error")
        /\ UNCHANGED <<now, mode, hostVars, npc, left, passTime, event, page,
                       counted, urgent, decisions, processed, checking>>

(***************************************************************************)
(* message.finalized.  A report that overtakes the storing of the message  *)
(* id finds no row and is recorded all the same.                           *)
(***************************************************************************)
Finalized(e) ==
    /\ mode = "sms"
    /\ sends[e] > 0
    /\ row[e].identified
    /\ row[e].delivery = "accepted"
    /\ \E state \in {"delivered", "failed"} :
         row' = [row EXCEPT ![e].delivery = state, ![e].final = "finalized"]
    /\ UNCHANGED <<now, mode, faults, hostVars, passVars, handler, counted, urgent,
                   decisions, processed, checking, sends>>

-----------------------------------------------------------------------------
(***************************************************************************)
(* receiveTelegram and receiveTelnyx.  The provider delivers an answer     *)
(* until it gets a 200, possibly twice at the same time.                   *)
(***************************************************************************)

\* The answer's event is open: registered, undecided and inside its window.
Open(e) == row[e] # NoRow /\ ~ row[e].decided /\ now <= ExpiresAt[e]

ReceiveAnswer(w) ==
    LET e == AnswerOf[w].event
    IN  /\ sends[e] > 0
        /\ w \notin processed
        /\ checking[w] < Overlap
        /\ \/ /\ Open(e)
              /\ checking' = [checking EXCEPT ![w] = @ + 1]
              /\ UNCHANGED processed
           \/ /\ ~ Open(e)          \* recordIgnoredWebhook
              /\ processed' = processed \union {w}
              /\ UNCHANGED checking
        /\ UNCHANGED <<now, mode, faults, hostVars, passVars, handler, row, counted, urgent,
                       decisions, sends>>

Decided(e) == \E i \in 1 .. Len(decisions) : decisions[i].event = e

\* A faulty variant: the table does not keep event digests apart.
CommitAnswerUnchecked(w) ==
    LET d == AnswerOf[w]
    IN  /\ checking[w] > 0
        /\ checking' = [checking EXCEPT ![w] = @ - 1]
        /\ \/ /\ w \notin processed
              /\ processed' = processed \union {w}
              /\ decisions' = Append(decisions, d)
              /\ row' = [row EXCEPT ![d.event].decided = TRUE]
           \/ w \in processed /\ UNCHANGED <<processed, decisions, row>>
        /\ UNCHANGED <<now, mode, faults, hostVars, passVars, handler, counted, urgent, sends>>

(***************************************************************************)
(* The batch: it takes effect as a whole, or a unique key (webhook id or   *)
(* event digest) that exists already rolls it back.                        *)
(***************************************************************************)
CommitAnswer(w) ==
    LET d == AnswerOf[w]
    IN  /\ checking[w] > 0
        /\ checking' = [checking EXCEPT ![w] = @ - 1]
        /\ \/ /\ w \notin processed
              /\ ~ Decided(d.event)
              /\ processed' = processed \union {w}
              /\ decisions' = Append(decisions, d)
              /\ row' = [row EXCEPT ![d.event].decided = TRUE]
           \/ /\ w \in processed \/ Decided(d.event)
              /\ UNCHANGED <<processed, decisions, row>>
        /\ UNCHANGED <<now, mode, faults, hostVars, passVars, handler, counted, urgent, sends>>

\* The handler dies before its batch: the provider tries again.
AnswerFails(w) ==
    /\ checking[w] > 0
    /\ Fault
    /\ checking' = [checking EXCEPT ![w] = @ - 1]
    /\ UNCHANGED <<now, mode, hostVars, passVars, handler, row, counted, urgent,
                   decisions, processed, sends>>

-----------------------------------------------------------------------------
(***************************************************************************)
(* deliver_pending                                                         *)
(***************************************************************************)

StartPass ==
    /\ npc = "idle"
    /\ npc' = "deliver"
    /\ left' = {e \in outbox : receipts[e] = None}
    /\ passTime' = now
    /\ UNCHANGED <<now, mode, faults, hostVars, event, ack, page, workerVars, sends>>

\* A faulty variant: a closed window is not noticed.
ApprovalNeverExpires(e, t) == FALSE

ApprovalExpired(e, t) == e \in Approvals /\ ExpiresAt[e] <= t

\* Approvals whose window has closed come last.
Before(e, f) ==
    LET Late(x) == ApprovalExpired(x, passTime)
    IN  IF Late(e) = Late(f) THEN Rank[e] <= Rank[f] ELSE Late(f)

FirstLeft(e) == e \in left /\ \A f \in left : Before(e, f)

EndPass ==
    /\ npc' = "idle"
    /\ left' = {}
    /\ passTime' = 0
    /\ event' = None
    /\ ack' = None
    /\ page' = <<>>

\* A torn receipt ends the whole run, its poll included.
ReceiptRaises ==
    /\ npc = "deliver"
    /\ \E e \in tornReceipts : FirstLeft(e)
    /\ EndPass
    /\ UNCHANGED <<now, mode, faults, hostVars, workerVars, sends>>

\* The window has closed: the receipt is written without a request.
PutExpired(e) ==
    /\ npc = "deliver"
    /\ FirstLeft(e)
    /\ e \notin tornReceipts
    /\ ApprovalExpired(e, passTime)
    /\ left' = left \ {e}
    /\ event' = e
    /\ ack' = "expired"
    /\ npc' = "put"
    /\ UNCHANGED <<now, mode, faults, hostVars, passTime, page, workerVars, sends>>

\* A request is handled by some free handler; which one makes no difference.
FreeHandlers == {h \in Handlers : handler[h] = Free}

Submit(e) ==
    /\ npc = "deliver"
    /\ FirstLeft(e)
    /\ e \notin tornReceipts
    /\ ~ ApprovalExpired(e, passTime)
    /\ FreeHandlers # {}
    /\ ack' = CHOOSE h \in FreeHandlers : TRUE
    /\ handler' = [handler EXCEPT ![ack'] = [pc |-> "read", event |-> e, duplicate |-> FALSE]]
    /\ left' = left \ {e}
    /\ event' = e
    /\ npc' = "wait"
    /\ UNCHANGED <<now, mode, faults, hostVars, passTime, page, row, counted, urgent,
                   decisions, processed, checking, sends>>

GiveUp == npc' = "deliver" /\ event' = None /\ ack' = None

\* The request or its answer is lost, or the host stops waiting for it.
LoseAnswer ==
    /\ npc = "wait"
    /\ Fault
    /\ GiveUp
    /\ UNCHANGED <<now, mode, hostVars, left, passTime, page, workerVars, sends>>

\* A faulty variant: a failed submission ends the run.
SubmitFailedEndsRun ==
    /\ npc = "wait"
    /\ ack = "error"
    /\ EndPass
    /\ UNCHANGED <<now, mode, faults, hostVars, workerVars, sends>>

SubmitFailed ==
    /\ npc = "wait"
    /\ ack = "error"
    /\ GiveUp
    /\ UNCHANGED <<now, mode, faults, hostVars, left, passTime, page, workerVars, sends>>

\* A faulty variant: a duplicate is taken for a message already sent.
SubmitAcceptedOnce ==
    /\ npc = "wait"
    /\ ack \in Status
    /\ npc' = IF mode = "host" /\ ack = "accepted" THEN "message" ELSE "put"
    /\ UNCHANGED <<now, mode, faults, hostVars, left, passTime, event, ack, page,
                   workerVars, sends>>

\* In host mode a registered event, duplicate or not, is sent from here.
SubmitAccepted ==
    /\ npc = "wait"
    /\ ack \in Status
    /\ npc' = IF mode = "host" /\ ack # "rejected" THEN "message" ELSE "put"
    /\ UNCHANGED <<now, mode, faults, hostVars, left, passTime, event, ack, page,
                   workerVars, sends>>

SendMessage ==
    /\ npc = "message"
    /\ sends' = [sends EXCEPT ![event] = OneMore(@)]
    /\ npc' = "put"
    /\ UNCHANGED <<now, mode, faults, hostVars, left, passTime, event, ack, page, workerVars>>

\* Telegram refuses, or its answer is lost.
SendMessageFails ==
    /\ npc = "message"
    /\ Fault
    /\ sends' \in {sends, [sends EXCEPT ![event] = OneMore(@)]}
    /\ GiveUp
    /\ UNCHANGED <<now, mode, hostVars, left, passTime, page, workerVars>>

\* _put_receipt: the file is created with O_EXCL, then written.
OpenReceipt ==
    /\ npc = "put"
    /\ tornReceipts' = tornReceipts \union {event}
    /\ npc' = "close"
    /\ UNCHANGED <<now, mode, faults, outbox, receipts, inbox, tornInbox, checkpoints,
                   tornCheckpoints, archived, left, passTime, event, ack, page, workerVars, sends>>

CloseReceipt ==
    /\ npc = "close"
    /\ receipts' = [receipts EXCEPT ![event] = ack]
    /\ tornReceipts' = tornReceipts \ {event}
    /\ GiveUp
    /\ UNCHANGED <<now, mode, faults, outbox, inbox, tornInbox, checkpoints, tornCheckpoints,
                   archived, left, passTime, page, workerVars, sends>>

-----------------------------------------------------------------------------
(***************************************************************************)
(* poll_decisions                                                          *)
(***************************************************************************)

\* RelayCursorStore.current
Cursor == Max(checkpoints \union {0})

\* listDecisions: the decisions after a cursor.
PageAfter(cursor) ==
    LET last == Min({cursor + PageLimit, Len(decisions)})
    IN  SubSeq(decisions, cursor + 1, last)

DeliveryDone == npc = "deliver" /\ left = {}

Poll ==
    /\ DeliveryDone
    /\ tornCheckpoints = {}
    /\ IF PageAfter(Cursor) = <<>>
       THEN EndPass
       ELSE /\ page' = PageAfter(Cursor)
            /\ npc' = "store"
            /\ UNCHANGED <<left, passTime, event, ack>>
    /\ UNCHANGED <<now, mode, faults, hostVars, workerVars, sends>>

\* A torn checkpoint is a poll that fails every time.
PollRaises ==
    /\ DeliveryDone
    /\ tornCheckpoints # {}
    /\ EndPass
    /\ UNCHANGED <<now, mode, faults, hostVars, workerVars, sends>>

\* DecisionInbox.put of one decision of the page; the others follow in order.
Pending == {i \in 1 .. Len(page) : page[i] \notin inbox}

NextDecision == page[Min(Pending)]

OpenDecision ==
    /\ npc = "store"
    /\ Pending # {}
    /\ NextDecision \notin tornInbox
    /\ tornInbox' = tornInbox \union {NextDecision}
    /\ npc' = "stored"
    /\ UNCHANGED <<now, mode, faults, outbox, receipts, tornReceipts, inbox, checkpoints,
                   tornCheckpoints, archived, left, passTime, event, ack, page, workerVars, sends>>

CloseDecision ==
    /\ npc = "stored"
    /\ inbox' = inbox \union {NextDecision}
    /\ tornInbox' = tornInbox \ {NextDecision}
    /\ npc' = "store"
    /\ UNCHANGED <<now, mode, faults, outbox, receipts, tornReceipts, checkpoints,
                   tornCheckpoints, archived, left, passTime, event, ack, page, workerVars, sends>>

\* An earlier run left the file torn: "digest collision", every time.
DecisionCollides ==
    /\ npc = "store"
    /\ Pending # {}
    /\ NextDecision \in tornInbox
    /\ EndPass
    /\ UNCHANGED <<now, mode, faults, hostVars, workerVars, sends>>

\* A faulty variant: the checkpoint is written before the page is stored.
OpenCheckpointEarly ==
    /\ npc = "store"
    /\ Cursor + Len(page) \notin checkpoints
    /\ tornCheckpoints' = tornCheckpoints \union {Cursor + Len(page)}
    /\ npc' = "advanced"
    /\ UNCHANGED <<now, mode, faults, outbox, receipts, tornReceipts, inbox, tornInbox,
                   checkpoints, archived, left, passTime, event, ack, page, workerVars, sends>>

\* A faulty variant: the cursor is one too far.
OpenCheckpointPast ==
    /\ npc = "store"
    /\ Pending = {}
    /\ tornCheckpoints' = tornCheckpoints \union {Cursor + Len(page) + 1}
    /\ npc' = "advanced"
    /\ UNCHANGED <<now, mode, faults, outbox, receipts, tornReceipts, inbox, tornInbox,
                   checkpoints, archived, left, passTime, event, ack, page, workerVars, sends>>

\* The whole page is stored, "then and only then advance its cursor".
OpenCheckpoint ==
    /\ npc = "store"
    /\ Pending = {}
    /\ tornCheckpoints' = tornCheckpoints \union {Cursor + Len(page)}
    /\ npc' = "advanced"
    /\ UNCHANGED <<now, mode, faults, outbox, receipts, tornReceipts, inbox, tornInbox,
                   checkpoints, archived, left, passTime, event, ack, page, workerVars, sends>>

CloseCheckpoint ==
    /\ npc = "advanced"
    /\ checkpoints' = checkpoints \union tornCheckpoints
    /\ tornCheckpoints' = {}
    /\ EndPass
    /\ UNCHANGED <<now, mode, faults, outbox, receipts, tornReceipts, inbox, tornInbox,
                   archived, workerVars, sends>>

(***************************************************************************)
(* A write fails, and the file is unlinked, or the host loses power, and   *)
(* it stays.  Either ends the run.  A lost page has the same effect.       *)
(***************************************************************************)
NotifierDies ==
    /\ npc # "idle"
    /\ Fault
    /\ \/ UNCHANGED <<tornReceipts, tornInbox, tornCheckpoints>>
       \/ /\ npc \in {"close", "stored", "advanced"}
          /\ tornReceipts' = tornReceipts \ {x \in {event} : npc = "close"}
          /\ tornInbox' = tornInbox \ {page[i] : i \in {j \in Pending : npc = "stored" /\ j = Min(Pending)}}
          /\ tornCheckpoints' = IF npc = "advanced" THEN {} ELSE tornCheckpoints
    /\ EndPass
    /\ UNCHANGED <<now, mode, outbox, receipts, inbox, checkpoints, archived,
                   workerVars, sends>>

(***************************************************************************)
(* import_inbox: decisions in the order of their digests, up to the first  *)
(* torn file, which raises.  import_signed (DecisionArchive) skips the     *)
(* ones that arrive after their window.                                    *)
(***************************************************************************)
ImportInbox ==
    /\ \E listed \in SUBSET inbox :
         /\ tornInbox = {} => listed = inbox
         /\ archived' = archived \union {d \in listed : now <= ExpiresAt[d.event]}
    /\ UNCHANGED <<now, mode, faults, outbox, receipts, tornReceipts, inbox, tornInbox,
                   checkpoints, tornCheckpoints, passVars, workerVars, sends>>

-----------------------------------------------------------------------------

NotifierStep ==
    \/ ReceiptRaises
    \/ \E e \in Events : PutExpired(e) \/ Submit(e)
    \/ SubmitFailed \/ SubmitAccepted
    \/ SendMessage
    \/ OpenReceipt \/ CloseReceipt
    \/ Poll \/ PollRaises
    \/ OpenDecision \/ CloseDecision \/ DecisionCollides
    \/ OpenCheckpoint \/ CloseCheckpoint

WorkerStep == \E h \in Handlers : AcceptStep(h)

Next ==
    \/ Tick
    \/ \E e \in Events : Emit(e) \/ Finalized(e)
    \/ StartPass
    \/ NotifierStep
    \/ LoseAnswer \/ SendMessageFails \/ NotifierDies
    \/ WorkerStep
    \/ \E h \in Handlers : AcceptFails(h)
    \/ \E w \in Webhooks : ReceiveAnswer(w) \/ CommitAnswer(w) \/ AnswerFails(w)
    \/ ImportInbox

(***************************************************************************)
(* The timers start the notifier and the importer again and again, what    *)
(* runs goes on, and the clock runs.  Whether the operator answers is      *)
(* nobody's promise.                                                       *)
(***************************************************************************)
Fairness ==
    /\ WF_vars(Tick)
    /\ WF_vars(StartPass)
    /\ WF_vars(NotifierStep)
    /\ WF_vars(WorkerStep)
    /\ WF_vars(ImportInbox)

Spec == Init /\ [][Next]_vars
FairSpec == Spec /\ Fairness

-----------------------------------------------------------------------------

(***************************************************************************)
(* "Persist one bounded decision page, then and only then advance its      *)
(* cursor": whatever is lost or interrupted, every decision before the     *)
(* cursor is complete in the inbox.                                        *)
(***************************************************************************)
NothingSkipped == \A i \in 1 .. Cursor : decisions[i] \in inbox

(***************************************************************************)
(* Two answers to one event, or one answer that is delivered twice, leave  *)
(* one decision at the relay, so an approval and a denial of one event can *)
(* never both reach the host from there.                                   *)
(***************************************************************************)
OneDecisionPerEvent ==
    \A i, j \in 1 .. Len(decisions) :
        decisions[i].event = decisions[j].event => i = j

(***************************************************************************)
(* A receipt that says "accepted" or "duplicate" ends the submission of an *)
(* event; it exists only if a message really was sent, although the relay  *)
(* calls an event a duplicate that it merely registered.                   *)
(***************************************************************************)
ReceiptMeansSent ==
    \A e \in Events : receipts[e] \in {"accepted", "duplicate"} => sends[e] > 0

(***************************************************************************)
(* The worker sends a message for an event at most once, however often it  *)
(* is submitted, and whichever requests overlap or die: only the host mode *)
(* repeats itself.                                                         *)
(***************************************************************************)
AtMostOneSms == mode = "sms" => \A e \in Events : sends[e] <= 1

(***************************************************************************)
(* The month's messages are never more than were counted, and events       *)
(* without priority never use up the reserve, whichever requests overlap   *)
(* and however often one of them is counted again after a failure.         *)
(***************************************************************************)
ReserveKept ==
    mode = "sms" =>
        /\ SumFunctionOnSet(sends, Events) <= counted
        /\ counted - urgent <= SmsLimit - SmsReserve

\* The worker can neither send the event nor answer with a receipt: a claim
\* without a result, the monthly limit, or a failed message.
StuckAtRelay(e) == mode = "sms" /\ row[e].delivery \in {"claimed", "failed"}

\* A receipt was cut short: no running notifier will complete it.
ReceiptsTorn == npc = "idle" /\ tornReceipts # {}

\* The same for what a poll writes.
PollTorn == npc = "idle" /\ tornInbox \union tornCheckpoints # {}

(***************************************************************************)
(* Every event gets a receipt, however many requests, answers and messages *)
(* were lost: an approval in the end as expired.  A torn receipt stops     *)
(* everything; other events may stay stuck at the worker.                  *)
(***************************************************************************)
EventIsSettled ==
    \A e \in Events :
        (e \in outbox) ~>
            \/ receipts[e] # None
            \/ ReceiptsTorn
            \/ e \notin Approvals /\ StuckAtRelay(e)

(***************************************************************************)
(* The operator's answer arrives: a decision recorded at the relay is      *)
(* archived on the host, unless its window closes on the way or a torn     *)
(* receipt, inbox file or checkpoint stops the notifier or the importer.   *)
(***************************************************************************)
AnswerIsArchived ==
    \A d \in {AnswerOf[w] : w \in Webhooks} :
        (\E i \in 1 .. Len(decisions) : decisions[i] = d) ~>
            \/ d \in archived
            \/ now > ExpiresAt[d.event]
            \/ ReceiptsTorn \/ PollTorn

=============================================================================
