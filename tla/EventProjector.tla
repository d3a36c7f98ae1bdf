--------------------------- MODULE EventProjector ---------------------------
(***************************************************************************)
(* The event projector (src/iou_ai/event_cli.py).  One pass reads the      *)
(* telemetry packet and then projects, in this order, the quarantine, the  *)
(* candidates, the ledger's crossed thresholds and the growth of the crash *)
(* and hang counters since the baseline of the previous pass, and replaces *)
(* the baseline at its end.  The first error ends the pass.                *)
(*                                                                         *)
(* Approval events are those of EventOutbox.  The other events of the same *)
(* outbox are called notices here; nobody answers them.  The thresholds    *)
(* are those of one month: the month is part of a notice's key.            *)
(***************************************************************************)
EXTENDS EventOutbox, Sequences, FiniteSets

CONSTANTS
    Projector,      \* the projector's process, a member of EventCli
    Thresholds,     \* warning thresholds of the monthly budget
    MaxPackets,     \* bound: telemetry packets
    MaxCount,       \* bound: counter values
    NoBaseline      \* there is no baseline file

Kinds == {"crash", "hang"}

\* What the projector reads of a telemetry file and remembers as a baseline.
Packet == [id : Nat, run : Nat, count : [Kinds -> Nat]]

ASSUME ProjectorAssumption ==
    /\ Projector \in EventCli
    /\ IsFiniteSet(Thresholds)
    /\ MaxPackets \in Nat
    /\ MaxCount \in Nat
    /\ NoBaseline \notin Packet

VARIABLES
    crossed,        \* thresholds the effective spend of this month has reached
    packet,         \* the telemetry file: its id, its counters and the run that
                    \* tells campaigns and targets apart
    baseline,       \* the counter baseline file
    temporary,      \* the baseline's temporary file is there
    notices,        \* complete notices
    tornNotices,    \* notices whose files are not (yet) complete
    stage,          \* the stage of the running pass
    queue,          \* notices the stage still has to write
    view,           \* the packet this pass has read
    firstCount      \* history: the counters at the first baseline of a run

counterVars == <<crossed, packet, baseline, temporary, notices,
                 tornNotices, stage, queue, view, firstCount>>
vars == <<outboxVars, counterVars>>

Zero == [k \in Kinds |-> 0]

Init ==
    /\ OutboxInit
    /\ crossed = {}
    /\ packet = [id |-> 0, run |-> 0, count |-> Zero]
    /\ baseline = NoBaseline
    /\ temporary = FALSE
    /\ notices = {}
    /\ tornNotices = {}
    /\ stage = "idle"
    /\ queue = <<>>
    /\ view = packet
    /\ firstCount = [r \in 0 .. MaxPackets |-> Zero]

-----------------------------------------------------------------------------

\* The world outside the projector: the ledger and the telemetry exporter.
Spend(t) ==
    /\ t \notin crossed
    /\ crossed' = crossed \union {t}
    /\ UNCHANGED <<outboxVars, packet, baseline, temporary, notices,
                   tornNotices, stage, queue, view, firstCount>>

\* The next packet of the same campaign, or the first one of another run.
NewPacket ==
    /\ packet.id < MaxPackets
    /\ \E c \in [Kinds -> 0 .. MaxCount] :
         \/ /\ \A k \in Kinds : packet.count[k] <= c[k]
            /\ packet' = [packet EXCEPT !.id = @ + 1, !.count = c]
         \/ /\ c = Zero
            /\ packet' = [packet EXCEPT !.id = @ + 1, !.run = @ + 1, !.count = c]
    /\ UNCHANGED <<outboxVars, crossed, baseline, temporary, notices,
                   tornNotices, stage, queue, view, firstCount>>

-----------------------------------------------------------------------------

OutboxReadable == tornEvents = {} /\ tornNotices = {}

\* The stage has written its event files.
StageDone == todo[Projector] = {} /\ putting[Projector] = {} /\ queue = <<>>

\* A faulty variant: a stale temporary file is looked for first.
StartProjectionUnlessStale ==
    /\ stage = "idle"
    /\ StageDone
    /\ ~ temporary
    /\ view' = packet
    /\ stage' = "quarantine"
    /\ UNCHANGED <<outboxVars, crossed, packet, baseline, temporary,
                   notices, tornNotices, queue, firstCount>>

\* A pass begins with the telemetry packet.
StartProjection ==
    /\ stage = "idle"
    /\ StageDone
    /\ view' = packet
    /\ stage' = "quarantine"
    /\ UNCHANGED <<outboxVars, crossed, packet, baseline, temporary,
                   notices, tornNotices, queue, firstCount>>

(***************************************************************************)
(* The two approval stages.  The pass of EventOutbox begins when there is  *)
(* something to write, and the projector goes on once it is written.       *)
(***************************************************************************)
ProjectApprovals(from, to, root) ==
    /\ stage = from
    /\ StageDone
    /\ OutboxReadable
    /\ \/ BeginPass(Projector, root)
       \/ /\ \A s \in stored \intersect root : ~ NeedsChallenge(s, now)
          /\ UNCHANGED outboxVars
    /\ stage' = to
    /\ UNCHANGED <<crossed, packet, baseline, temporary, notices,
                   tornNotices, queue, view, firstCount>>

\* A sequence of the members of a set, in a fixed order.
Listing(S) == CHOOSE q \in [1 .. Cardinality(S) -> S] : {q[i] : i \in DOMAIN q} = S

\* One notice for each threshold crossed in a month.
BudgetDue ==
    {[kind |-> "budget", threshold |-> t] : t \in crossed} \ notices

ProjectBudget ==
    /\ stage = "budget"
    /\ StageDone
    /\ OutboxReadable
    /\ queue' = Listing(BudgetDue)
    /\ stage' = "counters"
    /\ UNCHANGED <<outboxVars, crossed, packet, baseline, temporary,
                   notices, tornNotices, view, firstCount>>

\* The first snapshot, another run or a falling counter is a baseline only.
Comparable(old, new) ==
    /\ old # NoBaseline
    /\ old.run = new.run
    /\ \A k \in Kinds : old.count[k] <= new.count[k]

\* A faulty variant: the kind of counter is not part of the key.
CountersDueByPacket(old, new) ==
    {[kind |-> k, packet |-> new.id, run |-> new.run,
      old |-> old.count[k], new |-> new.count[k]] :
        k \in {x \in Kinds :
                 /\ old.count[x] < new.count[x]
                 /\ \A n \in notices :
                      n.kind \in Kinds => ~ (n.packet = new.id /\ n.run = new.run)}}

\* One notice for each counter that grew, unless the packet has one already.
CountersDue(old, new) ==
    {[kind |-> k, packet |-> new.id, run |-> new.run,
      old |-> old.count[k], new |-> new.count[k]] :
        k \in {x \in Kinds :
                 /\ old.count[x] < new.count[x]
                 /\ \A n \in notices :
                      ~ (n.kind = x /\ n.packet = new.id /\ n.run = new.run)}}

ProjectCounters ==
    /\ stage = "counters"
    /\ StageDone
    /\ IF Comparable(baseline, view)
       THEN OutboxReadable /\ queue' = Listing(CountersDue(baseline, view))
       ELSE UNCHANGED queue
    /\ stage' = "baseline"
    /\ UNCHANGED <<outboxVars, crossed, packet, baseline, temporary,
                   notices, tornNotices, view, firstCount>>

\* _write_atomic creates its temporary file with O_EXCL.
OpenTemporary ==
    /\ stage = "baseline"
    /\ StageDone
    /\ ~ temporary
    /\ temporary' = TRUE
    /\ stage' = "replace"
    /\ UNCHANGED <<outboxVars, crossed, packet, baseline, notices,
                   tornNotices, queue, view, firstCount>>

\* The temporary file becomes the baseline and the pass ends.
ReplaceBaseline ==
    /\ stage = "replace"
    /\ baseline' = view
    /\ firstCount' = IF Comparable(baseline, view) THEN firstCount
                     ELSE [firstCount EXCEPT ![view.run] = view.count]
    /\ temporary' = FALSE
    /\ stage' = "idle"
    /\ UNCHANGED <<outboxVars, crossed, packet, notices, tornNotices,
                   queue, view>>

\* put of the first queued notice, in two halves as for an approval.
OpenNotice ==
    /\ queue # <<>>
    /\ Head(queue) \notin tornNotices
    /\ tornNotices' = tornNotices \union {Head(queue)}
    /\ UNCHANGED <<outboxVars, crossed, packet, baseline, temporary,
                   notices, stage, queue, view, firstCount>>

FinishNotice ==
    /\ queue # <<>>
    /\ Head(queue) \in tornNotices
    /\ tornNotices' = tornNotices \ {Head(queue)}
    /\ notices' = notices \union {Head(queue)}
    /\ queue' = Tail(queue)
    /\ UNCHANGED <<outboxVars, crossed, packet, baseline, temporary,
                   stage, view, firstCount>>

\* The pass ends with an error: a torn file in the outbox or a temporary file
\* that an earlier pass left behind.
Blocked ==
    \/ stage \in {"quarantine", "execution", "budget"} /\ ~ OutboxReadable
    \/ stage = "counters" /\ Comparable(baseline, view) /\ ~ OutboxReadable
    \/ stage = "baseline" /\ temporary

ProjectionFails ==
    /\ StageDone
    /\ Blocked
    /\ stage' = "idle"
    /\ UNCHANGED <<outboxVars, crossed, packet, baseline, temporary,
                   notices, tornNotices, queue, view, firstCount>>

(***************************************************************************)
(* A write fails, and put or _write_atomic unlinks its file, or the host   *)
(* loses power and the file stays.                                         *)
(***************************************************************************)
FailProjection ==
    /\ MayFail
    /\ stage # "idle"
    /\ faults' = faults + 1
    /\ todo' = [todo EXCEPT ![Projector] = {}]
    /\ putting' = [putting EXCEPT ![Projector] = {}]
    /\ \/ UNCHANGED <<tornEvents, tornNotices, temporary>>
       \/ /\ tornEvents' = tornEvents \ putting[Projector]
          /\ tornNotices' = IF queue = <<>> THEN tornNotices ELSE tornNotices \ {Head(queue)}
          /\ temporary' = (temporary /\ stage # "replace")
    /\ queue' = <<>>
    /\ stage' = "idle"
    /\ UNCHANGED <<now, stored, events, passTime, crossed, packet,
                   baseline, notices, view, firstCount>>

WriteApproval ==
    /\ OpenEvent(Projector) \/ FinishEvent(Projector)
    /\ UNCHANGED counterVars

ProjectionStep ==
    \/ ProjectApprovals("quarantine", "execution", Envelopes)
    \/ ProjectApprovals("execution", "budget", Candidates)
    \/ WriteApproval
    \/ ProjectBudget
    \/ ProjectCounters
    \/ OpenNotice
    \/ FinishNotice
    \/ OpenTemporary
    \/ ReplaceBaseline
    \/ ProjectionFails

Next ==
    \/ StartProjection
    \/ ProjectionStep
    \/ FailProjection
    \/ \E t \in Thresholds : Spend(t)
    \/ NewPacket
    \/ (Tick \/ \E s \in Subjects : Store(s)) /\ UNCHANGED counterVars

\* The timer starts the projector again and again, and a pass goes on.
Fairness == WF_vars(StartProjection) /\ WF_vars(ProjectionStep)

Spec == Init /\ [][Next]_vars
FairSpec == Spec /\ Fairness

-----------------------------------------------------------------------------

Reported(k, r) == {n \in notices : n.kind = k /\ n.run = r}

\* Every unit between the first baseline of a run and the current one is
\* inside some notice.
NothingUnreported ==
    baseline # NoBaseline =>
        \A k \in Kinds :
            \A n \in firstCount[baseline.run][k] + 1 .. baseline.count[k] :
                \E x \in Reported(k, baseline.run) : x.old < n /\ n <= x.new

\* Two notices never cover the same unit.
NothingTwice ==
    \A x, y \in {n \in notices : n.kind \in Kinds} :
        (x # y /\ x.kind = y.kind /\ x.run = y.run) =>
            x.new <= y.old \/ y.new <= x.old

(***************************************************************************)
(* No growth of a counter is lost, whatever failed between the notices and *)
(* the baseline, and without a fault none is reported twice.  (After a     *)
(* power loss between a notice and the baseline, the next packet's notice  *)
(* starts from the old baseline again.)                                    *)
(***************************************************************************)
IncreasesAreReported == NothingUnreported /\ (faults = 0 => NothingTwice)

\* The outbox cannot be read any more: a torn file that nobody will complete.
ProjectorWedged ==
    \/ OutboxWedged
    \/ tornNotices # {} /\ stage = "idle"

(***************************************************************************)
(* "Emit each configured monthly threshold crossing": a threshold that is  *)
(* crossed is reported, unless a torn file wedges the outbox; a stale      *)
(* temporary file does not stop it.                                        *)
(***************************************************************************)
ThresholdIsReported ==
    \A t \in Thresholds :
        (t \in crossed) ~>
            [kind |-> "budget", threshold |-> t] \in notices \/ ProjectorWedged

(***************************************************************************)
(* Every stored subject is put to the operator, unless the outbox is       *)
(* wedged, although the stages after it may fail in every pass.            *)
(***************************************************************************)
SubjectIsChallenged ==
    \A s \in Subjects :
        (s \in stored) ~> (Challenges(s) # {} \/ ProjectorWedged)

=============================================================================
