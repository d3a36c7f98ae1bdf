----------------------- MODULE EventProjectorProofs -----------------------
(***************************************************************************)
(* Proofs about the event projector: as the only program that projects it  *)
(* reissues a challenge at most once and never while the first is open     *)
(* (BoundedReissue), no growth of a counter is lost, and without a fault   *)
(* none is reported twice (IncreasesAreReported).                          *)
(***************************************************************************)
EXTENDS EventProjector, SequenceTheorems, FiniteSetTheorems, TLAPS

(***************************************************************************)
(* What a pass still has to write needed its challenge at the time the     *)
(* pass uses, and still does: nobody else adds events, and the pass itself *)
(* adds one for a subject that it has struck from its list.                *)
(***************************************************************************)
PassIsFresh ==
    /\ \A s \in todo[Projector] : NeedsChallenge(s, passTime[Projector])
    /\ putting[Projector] # {} =>
         \E e \in putting[Projector] :
            /\ putting[Projector] = {e}
            /\ e.subject \notin todo[Projector]
            /\ NeedsChallenge(e.subject, e.created)

ReissueInv == OutboxTypeOK /\ PassIsFresh /\ BoundedReissue

-----------------------------------------------------------------------------

Stages == {"idle", "quarantine", "execution", "budget", "counters", "baseline", "replace"}

\* Packet p is q or was read before it; within a run no counter falls.
NotAfter(p, q) ==
    /\ p.id <= q.id
    /\ p.id = q.id => p = q
    /\ p.run <= q.run
    /\ p.run = q.run => \A k \in Kinds : p.count[k] <= q.count[k]

\* The baseline is a packet, read before the view, and the view before the
\* packet that is there now.
CountersTyped ==
    /\ faults \in Nat
    /\ crossed \subseteq Thresholds
    /\ packet \in Packet
    /\ packet.run <= packet.id /\ packet.id <= MaxPackets
    /\ view \in Packet
    /\ NotAfter(view, packet)
    /\ baseline \in Packet \union {NoBaseline}
    /\ baseline # NoBaseline => NotAfter(baseline, view)
    /\ firstCount \in [0 .. MaxPackets -> [Kinds -> Nat]]
    /\ stage \in Stages

BudgetNotices == {[kind |-> "budget", threshold |-> t] : t \in Thresholds}

\* The notice of the growth between the baseline and the view.
Growth(k) ==
    [kind |-> k, packet |-> view.id, run |-> view.run,
     old |-> baseline.count[k], new |-> view.count[k]]

\* The queue holds the notices of the stage that filled it.
QueueIsBound ==
    /\ stage = "counters" => queue \in Seq(BudgetNotices)
    /\ stage = "baseline" =>
         \/ queue = <<>>
         \/ Comparable(baseline, view) /\ queue \in Seq({Growth(k) : k \in Kinds})
    /\ stage \notin {"counters", "baseline"} => queue = <<>>

CounterNotices == {n \in notices : n.kind \in Kinds}

\* A notice repeats its packet and starts at a baseline of its run.
NoticesAreTrue ==
    \A n \in CounterNotices :
        /\ n \in [kind : Kinds, packet : Nat, run : Nat, old : Nat, new : Nat]
        /\ n.packet <= view.id
        /\ n.packet = view.id => n.run = view.run /\ n.new = view.count[n.kind]
        /\ baseline # NoBaseline
        /\ n.run <= baseline.run
        /\ n.run = baseline.run => n.old <= baseline.count[n.kind]

\* Before the baseline moves to the view, the growth in between is reported
\* or waits in the queue.
GrowthIsCovered ==
    (stage \in {"baseline", "replace"} /\ Comparable(baseline, view)) =>
        \A k \in Kinds :
            baseline.count[k] < view.count[k] =>
                \/ \E x \in Reported(k, view.run) :
                      x.old <= baseline.count[k] /\ view.count[k] <= x.new
                \/ \E i \in 1 .. Len(queue) : queue[i] = Growth(k)

ReportInv ==
    CountersTyped /\ QueueIsBound /\ NoticesAreTrue /\ GrowthIsCovered /\ NothingUnreported

\* Only a fault leaves a temporary file behind.
TemporaryIsOpen == (faults = 0 /\ temporary) => stage = "replace"

\* Without a fault no notice reaches beyond the baseline, except those of the
\* pass that is about to replace it.
NothingIsAhead ==
    faults = 0 =>
        \A n \in CounterNotices :
            \/ n.run < baseline.run
            \/ n.new <= baseline.count[n.kind]
            \/ stage \in {"baseline", "replace"} /\ n = Growth(n.kind)

OnceInv == TemporaryIsOpen /\ NothingIsAhead /\ (faults = 0 => NothingTwice)

-----------------------------------------------------------------------------

\* What a step can do to the approval events.
LEMMA OutboxCases ==
    ASSUME [Next]_vars
    PROVE  \/ UNCHANGED outboxVars
           \/ \E root \in {Envelopes, Candidates} : BeginPass(Projector, root)
           \/ OpenEvent(Projector)
           \/ FinishEvent(Projector)
           \/ FailProjection
           \/ Tick
           \/ \E s \in Subjects : Store(s)
<1>1. CASE UNCHANGED vars
  BY <1>1 DEF vars
<1>2. CASE StartProjection \/ (\E t \in Thresholds : Spend(t)) \/ NewPacket
  BY <1>2 DEF StartProjection, Spend, NewPacket
<1>3. CASE ProjectApprovals("quarantine", "execution", Envelopes)
  BY <1>3 DEF ProjectApprovals
<1>4. CASE ProjectApprovals("execution", "budget", Candidates)
  BY <1>4 DEF ProjectApprovals
<1>5. CASE WriteApproval
  BY <1>5 DEF WriteApproval
<1>6. CASE \/ ProjectBudget \/ ProjectCounters \/ OpenNotice \/ FinishNotice
           \/ OpenTemporary \/ ReplaceBaseline \/ ProjectionFails
  BY <1>6 DEF ProjectBudget, ProjectCounters, OpenNotice, FinishNotice,
     OpenTemporary, ReplaceBaseline, ProjectionFails
<1> QED BY <1>1, <1>2, <1>3, <1>4, <1>5, <1>6 DEF Next, ProjectionStep

LEMMA ProjectorIsOne ==
    ASSUME OutboxAssumption, ProjectorAssumption
    PROVE  Projector \in Projectors
  BY DEF OutboxAssumption, ProjectorAssumption

\* The event that a pass at time t opens for a subject.
LEMMA OpenedEvent ==
    ASSUME OutboxAssumption, NEW s \in Subjects, NEW n \in Nonces, NEW t \in Time
    PROVE  [subject |-> s, nonce |-> n, created |-> t, expires |-> t + TTL] \in Event
<1>1. t + TTL \in Expiry
  BY DEF OutboxAssumption, Time, Expiry
<1> QED BY <1>1 DEF Event

LEMMA OutboxTypeStep ==
    ASSUME OutboxAssumption, ProjectorAssumption, OutboxTypeOK, [Next]_vars
    PROVE  OutboxTypeOK'
<1> DEFINE P == Projector
<1>0. P \in Projectors
  BY ProjectorIsOne
<1>t. /\ now \in Time /\ stored \subseteq Subjects /\ events \subseteq Event
      /\ tornEvents \subseteq Event /\ todo \in [Projectors -> SUBSET Subjects]
      /\ passTime \in [Projectors -> Time] /\ putting \in [Projectors -> SUBSET Event]
      /\ faults \in 0 .. MaxFaults
  BY DEF OutboxTypeOK
<1>n. MaxTime \in Nat /\ MaxFaults \in Nat
  BY DEF OutboxAssumption
<1> HIDE DEF P
<1>1. CASE UNCHANGED outboxVars
  BY <1>1, <1>t DEF outboxVars, OutboxTypeOK
<1>2. ASSUME NEW root \in {Envelopes, Candidates}, BeginPass(P, root) PROVE OutboxTypeOK'
  <2>1. PICK due \in SUBSET stored : todo' = [todo EXCEPT ![P] = due]
    BY <1>2 DEF BeginPass
  <2>2. todo' \in [Projectors -> SUBSET Subjects]
    BY <1>0, <1>t, <2>1
  <2>3. passTime' \in [Projectors -> Time]
    BY <1>0, <1>2, <1>t DEF BeginPass
  <2> QED BY <1>2, <1>t, <2>2, <2>3 DEF BeginPass, OutboxTypeOK
<1>3. CASE OpenEvent(P)
  <2>1. PICK s \in todo[P], n \in Nonces :
          LET e == [subject |-> s, nonce |-> n, created |-> passTime[P],
                    expires |-> passTime[P] + TTL]
          IN  /\ tornEvents' = tornEvents \union {e}
              /\ putting' = [putting EXCEPT ![P] = {e}]
              /\ todo' = [todo EXCEPT ![P] = @ \ {s}]
    BY <1>3 DEF OpenEvent
  <2>2. s \in Subjects /\ passTime[P] \in Time
    BY <1>0, <1>t, <2>1
  <2>3. PICK e \in Event : /\ tornEvents' = tornEvents \union {e}
                           /\ putting' = [putting EXCEPT ![P] = {e}]
    BY <2>1, <2>2, OpenedEvent
  <2>4. putting' \in [Projectors -> SUBSET Event] /\ tornEvents' \subseteq Event
    BY <1>0, <1>t, <2>3
  <2>5. todo' \in [Projectors -> SUBSET Subjects]
    BY <1>0, <1>t, <2>1
  <2> QED BY <1>3, <1>t, <2>4, <2>5 DEF OpenEvent, OutboxTypeOK
<1>4. CASE FinishEvent(P)
  BY <1>0, <1>4, <1>t DEF FinishEvent, OutboxTypeOK
<1>5. CASE FailProjection
  <2>1. /\ faults' = faults + 1 /\ faults < MaxFaults
        /\ todo' = [todo EXCEPT ![P] = {}] /\ putting' = [putting EXCEPT ![P] = {}]
        /\ tornEvents' \subseteq tornEvents
        /\ UNCHANGED <<now, stored, events, passTime>>
    BY <1>5 DEF FailProjection, MayFail, P
  <2>2. faults' \in 0 .. MaxFaults
    BY <1>n, <1>t, <2>1
  <2> QED BY <1>0, <1>t, <2>1, <2>2 DEF OutboxTypeOK
<1>6. CASE Tick
  <2>1. now' \in Time
    BY <1>6, <1>n, <1>t DEF Tick, Time
  <2> QED BY <1>6, <1>t, <2>1 DEF Tick, OutboxTypeOK
<1>7. ASSUME NEW s \in Subjects, Store(s) PROVE OutboxTypeOK'
  BY <1>7, <1>t DEF Store, OutboxTypeOK
<1> QED BY OutboxCases, <1>1, <1>2, <1>3, <1>4, <1>5, <1>6, <1>7 DEF P

\* With the same events the same subjects need a challenge.
LEMMA SameNeed ==
    ASSUME UNCHANGED events
    PROVE  /\ \A s, t : NeedsChallenge(s, t)' = NeedsChallenge(s, t)
           /\ BoundedReissue' = BoundedReissue
  BY DEF NeedsChallenge, Challenges, ChallengeHasExpired, BoundedReissue

LEMMA ReissueInit ==
    ASSUME OutboxAssumption, ProjectorAssumption, Init
    PROVE  ReissueInv
<1>1. 0 \in Time /\ 0 \in 0 .. MaxFaults
  BY DEF OutboxAssumption, Time
<1>2. OutboxTypeOK
  BY <1>1 DEF Init, OutboxInit, OutboxTypeOK
<1>3. PassIsFresh
  BY ProjectorIsOne DEF Init, OutboxInit, PassIsFresh
<1> QED
  BY <1>2, <1>3 DEF Init, OutboxInit, ReissueInv, BoundedReissue, Challenges

LEMMA ReissueStep ==
    ASSUME OutboxAssumption, ProjectorAssumption, ReissueInv, [Next]_vars
    PROVE  ReissueInv'
<1> DEFINE P == Projector
<1>0. P \in Projectors
  BY ProjectorIsOne
<1>t. /\ todo \in [Projectors -> SUBSET Subjects]
      /\ passTime \in [Projectors -> Time] /\ putting \in [Projectors -> SUBSET Event]
  BY DEF ReissueInv, OutboxTypeOK
<1>i. PassIsFresh /\ BoundedReissue
  BY DEF ReissueInv
<1>o. OutboxTypeOK'
  BY OutboxTypeStep DEF ReissueInv
<1>1. CASE UNCHANGED outboxVars
  <2>1. UNCHANGED <<events, todo, passTime, putting>>
    BY <1>1 DEF outboxVars
  <2> QED BY <1>i, <1>o, <2>1, SameNeed DEF ReissueInv, PassIsFresh
<1>2. ASSUME NEW root \in {Envelopes, Candidates}, BeginPass(P, root) PROVE ReissueInv'
  <2>1. /\ todo' = [todo EXCEPT
                      ![P] = {s \in stored \intersect root : NeedsChallenge(s, now)}]
        /\ passTime' = [passTime EXCEPT ![P] = now]
        /\ UNCHANGED <<events, putting>> /\ putting[P] = {}
    BY <1>2 DEF BeginPass
  <2>2. /\ todo'[P] = {s \in stored \intersect root : NeedsChallenge(s, now)}
        /\ passTime'[P] = now
    BY <1>0, <1>t, <2>1
  <2>3. PassIsFresh'
    BY <2>1, <2>2, SameNeed DEF PassIsFresh
  <2> QED BY <1>i, <1>o, <2>1, <2>3, SameNeed DEF ReissueInv
<1>3. CASE OpenEvent(P)
  <2>1. PICK s \in todo[P], n \in Nonces :
          LET e == [subject |-> s, nonce |-> n, created |-> passTime[P],
                    expires |-> passTime[P] + TTL]
          IN  /\ putting' = [putting EXCEPT ![P] = {e}]
              /\ todo' = [todo EXCEPT ![P] = @ \ {s}]
    BY <1>3 DEF OpenEvent
  <2>2. UNCHANGED <<events, passTime>>
    BY <1>3 DEF OpenEvent
  <2> DEFINE e == [subject |-> s, nonce |-> n, created |-> passTime[P],
                   expires |-> passTime[P] + TTL]
  <2>3. /\ putting' = [putting EXCEPT ![P] = {e}]
        /\ e.subject = s /\ e.created = passTime[P]
    BY <2>1
  <2> HIDE DEF e
  <2>4. putting'[P] = {e} /\ todo'[P] = todo[P] \ {s}
    BY <1>0, <1>t, <2>1, <2>3
  <2>5. NeedsChallenge(e.subject, e.created)
    BY <1>i, <2>1, <2>3 DEF PassIsFresh
  <2>6. PassIsFresh'
    BY <1>i, <2>2, <2>3, <2>4, <2>5, SameNeed DEF PassIsFresh
  <2> QED BY <1>i, <1>o, <2>2, <2>6, SameNeed DEF ReissueInv
<1>4. CASE FinishEvent(P)
  <2>1. PICK e \in putting[P] : /\ putting[P] = {e} /\ e.subject \notin todo[P]
                                /\ NeedsChallenge(e.subject, e.created)
    BY <1>4, <1>i DEF FinishEvent, PassIsFresh
  <2>2. /\ events' = events \union {e} /\ UNCHANGED <<todo, passTime>>
        /\ putting'[P] = {}
    BY <1>0, <1>4, <1>t, <2>1 DEF FinishEvent
  <2>3. \A s : s # e.subject => Challenges(s)' = Challenges(s)
    BY <2>2 DEF Challenges
  <2>4. \A s, t : (s # e.subject /\ NeedsChallenge(s, t)) => NeedsChallenge(s, t)'
    BY <2>2, <2>3 DEF NeedsChallenge, ChallengeHasExpired
  <2>5. PassIsFresh'
    BY <1>i, <2>1, <2>2, <2>4 DEF PassIsFresh
  <2>6. BoundedReissue'
    <3> SUFFICES ASSUME NEW s \in Subjects, NEW d \in Challenges(s)',
                        NEW f \in Challenges(s)', d # f
                 PROVE  /\ ChallengeHasExpired(d, f.created) \/ ChallengeHasExpired(f, d.created)
                        /\ Challenges(s)' = {d, f}
      BY DEF BoundedReissue, ChallengeHasExpired
    <3>1. CASE s # e.subject
      BY <1>i, <2>3, <3>1 DEF BoundedReissue
    <3>2. CASE s = e.subject
      <4>1. Challenges(s)' = Challenges(s) \union {e}
        BY <2>2, <3>2 DEF Challenges
      <4>2. PICK g \in events : Challenges(s) = {g} /\ ChallengeHasExpired(g, e.created)
        BY <2>1, <3>2, <4>1 DEF NeedsChallenge
      <4> QED BY <4>1, <4>2
    <3> QED BY <3>1, <3>2
  <2> QED BY <1>o, <2>5, <2>6 DEF ReissueInv
<1>5. CASE FailProjection
  <2>1. UNCHANGED events /\ todo'[P] = {} /\ putting'[P] = {}
    BY <1>0, <1>5, <1>t DEF FailProjection
  <2> QED BY <1>i, <1>o, <2>1, SameNeed DEF ReissueInv, PassIsFresh
<1>6. CASE Tick \/ \E s \in Subjects : Store(s)
  <2>1. UNCHANGED <<events, todo, passTime, putting>>
    BY <1>6 DEF Tick, Store
  <2> QED BY <1>i, <1>o, <2>1, SameNeed DEF ReissueInv, PassIsFresh
<1> QED BY OutboxCases, <1>1, <1>2, <1>3, <1>4, <1>5, <1>6

(***************************************************************************)
(* The projector alone asks for a decision at most twice per subject, and  *)
(* the second time after the first window has closed, whatever fails, and  *)
(* for every number of subjects, events and ticks.  (Two programs that     *)
(* project the same store at once may each issue a challenge, because      *)
(* nothing keeps them apart; here there is one.)                           *)
(***************************************************************************)
THEOREM ReissueIsBounded == Spec => []BoundedReissue
<1>1. ReissueInv => BoundedReissue
  BY DEF ReissueInv
<1>2. Init => ReissueInv
  BY ReissueInit, OutboxAssumption, ProjectorAssumption
<1>3. ReissueInv /\ [Next]_vars => ReissueInv'
  BY ReissueStep, OutboxAssumption, ProjectorAssumption
<1> QED BY <1>1, <1>2, <1>3, PTL DEF Spec

-----------------------------------------------------------------------------

LEMMA NotAfterSelf == \A p \in Packet : NotAfter(p, p)
  BY DEF NotAfter, Packet

LEMMA NotAfterTransitive ==
    ASSUME NEW p \in Packet, NEW q \in Packet, NEW r \in Packet,
           NotAfter(p, q), NotAfter(q, r)
    PROVE  NotAfter(p, r)
<1>1. /\ p.id \in Nat /\ q.id \in Nat /\ r.id \in Nat
      /\ p.run \in Nat /\ q.run \in Nat /\ r.run \in Nat
  BY DEF Packet
<1>2. p.id <= r.id /\ p.run <= r.run
  BY <1>1 DEF NotAfter
<1>3. p.id = r.id => p = r
  BY <1>1 DEF NotAfter
<1>4. ASSUME p.run = r.run, NEW k \in Kinds PROVE p.count[k] <= r.count[k]
  <2>1. p.run = q.run /\ q.run = r.run
    BY <1>1, <1>4 DEF NotAfter
  <2>2. p.count[k] <= q.count[k] /\ q.count[k] <= r.count[k]
    BY <1>4, <2>1 DEF NotAfter
  <2>3. p.count[k] \in Nat /\ q.count[k] \in Nat /\ r.count[k] \in Nat
    BY <1>4 DEF Packet
  <2> QED BY <2>2, <2>3
<1> QED BY <1>2, <1>3, <1>4 DEF NotAfter

\* The listing of a finite set is a sequence of its members, all of them.
LEMMA ListingOfSet ==
    ASSUME NEW S, IsFiniteSet(S)
    PROVE  /\ Listing(S) \in Seq(S)
           /\ {Listing(S)[i] : i \in 1 .. Len(Listing(S))} = S
<1> DEFINE n == Cardinality(S)
<1>1. n \in Nat /\ ExistsBijection(1 .. n, S)
  BY FS_CardinalityType
<1>2. PICK f \in [1 .. n -> S] : \A y \in S : \E x \in 1 .. n : f[x] = y
  BY <1>1 DEF ExistsBijection, Bijection, Surjection
<1>3. DOMAIN f = 1 .. n /\ {f[i] : i \in DOMAIN f} = S
  BY <1>2
<1>4. \E q \in [1 .. n -> S] : {q[i] : i \in DOMAIN q} = S
  BY <1>3
<1>5. Listing(S) \in [1 .. n -> S] /\ {Listing(S)[i] : i \in DOMAIN Listing(S)} = S
  BY <1>4 DEF Listing
<1>6. Len(Listing(S)) = n /\ DOMAIN Listing(S) = 1 .. n
  BY <1>1, <1>5
<1> QED BY <1>1, <1>5, <1>6

\* What is due for a budget is finite, and a notice of a threshold.
LEMMA BudgetDueIsListed ==
    ASSUME ProjectorAssumption, crossed \subseteq Thresholds
    PROVE  Listing(BudgetDue) \in Seq(BudgetNotices)
<1> DEFINE Notice(t) == [kind |-> "budget", threshold |-> t]
           all == {Notice(t) : t \in crossed}
           f == [t \in crossed |-> Notice(t)]
<1>1. IsFiniteSet(crossed)
  BY FS_Subset DEF ProjectorAssumption
<1>2. f \in Surjection(crossed, all)
  BY DEF Surjection
<1>3. IsFiniteSet(all)
  BY <1>1, <1>2, FS_Surjection
<1>4. BudgetDue \subseteq all /\ BudgetDue \subseteq BudgetNotices
  BY DEF BudgetDue, BudgetNotices
<1>5. IsFiniteSet(BudgetDue)
  BY <1>3, <1>4, FS_Subset
<1>6. Listing(BudgetDue) \in Seq(BudgetDue)
  BY <1>5, ListingOfSet
<1> QED BY <1>4, <1>6

\* What is due for the counters is the growth of some kinds.
LEMMA CountersDueIsListed ==
    ASSUME TRUE
    PROVE  /\ Listing(CountersDue(baseline, view)) \in Seq({Growth(k) : k \in Kinds})
           /\ \A x \in CountersDue(baseline, view) :
                \E i \in 1 .. Len(Listing(CountersDue(baseline, view))) :
                   Listing(CountersDue(baseline, view))[i] = x
<1> DEFINE due == CountersDue(baseline, view)
<1>1. due \subseteq {Growth(k) : k \in Kinds}
  BY DEF CountersDue, Growth
<1>2. {Growth(k) : k \in Kinds} = ({} \union {Growth("crash")}) \union {Growth("hang")}
  BY DEF Kinds
<1>3. IsFiniteSet({Growth(k) : k \in Kinds})
  <2>1. \A T, x : IsFiniteSet(T) => IsFiniteSet(T \union {x})
    BY FS_AddElement
  <2>2. IsFiniteSet({})
    BY FS_EmptySet
  <2>3. \A x, y : IsFiniteSet(({} \union {x}) \union {y})
    BY <2>1, <2>2
  <2> QED BY <1>2, <2>3
<1>4. IsFiniteSet(due)
  BY <1>1, <1>3, FS_Subset
<1> HIDE DEF due
<1>5. Listing(due) \in Seq(due) /\ {Listing(due)[i] : i \in 1 .. Len(Listing(due))} = due
  BY <1>4, ListingOfSet
<1>6. Listing(due) \in Seq({Growth(k) : k \in Kinds})
  BY <1>1, <1>5
<1>7. \A x \in due : \E i \in 1 .. Len(Listing(due)) : Listing(due)[i] = x
  BY <1>5
<1> QED BY <1>6, <1>7 DEF due

-----------------------------------------------------------------------------

\* Steps that the notices and the baseline do not see, and the two stages that
\* project approvals.
Still == UNCHANGED <<counterVars, faults>>

ApprovalStage ==
    /\ stage \in {"quarantine", "execution"} /\ stage' \in {"execution", "budget"}
    /\ queue = <<>>
    /\ UNCHANGED <<crossed, packet, baseline, temporary, notices, tornNotices,
                   queue, view, firstCount, faults>>

LEMMA CounterCases ==
    ASSUME [Next]_vars
    PROVE  \/ Still \/ ApprovalStage \/ StartProjection \/ NewPacket
           \/ \E t \in Thresholds : Spend(t)
           \/ ProjectBudget \/ ProjectCounters \/ OpenNotice \/ FinishNotice
           \/ OpenTemporary \/ ReplaceBaseline \/ ProjectionFails \/ FailProjection
<1>1. CASE UNCHANGED vars
  BY <1>1 DEF vars, outboxVars, Still
<1>2. CASE WriteApproval
  BY <1>2 DEF WriteApproval, OpenEvent, FinishEvent, Still
<1>3. CASE (Tick \/ \E s \in Subjects : Store(s)) /\ UNCHANGED counterVars
  BY <1>3 DEF Tick, Store, Still
<1>4. CASE ProjectApprovals("quarantine", "execution", Envelopes)
  BY <1>4 DEF ProjectApprovals, BeginPass, StageDone, outboxVars, ApprovalStage
<1>5. CASE ProjectApprovals("execution", "budget", Candidates)
  BY <1>5 DEF ProjectApprovals, BeginPass, StageDone, outboxVars, ApprovalStage
<1> QED BY <1>1, <1>2, <1>3, <1>4, <1>5 DEF Next, ProjectionStep

LEMMA CountersTypedInit ==
    ASSUME OutboxAssumption, ProjectorAssumption, Init
    PROVE  CountersTyped
<1>1. packet \in Packet /\ packet.run = 0 /\ packet.id = 0
  BY DEF Init, Packet, Zero
<1>2. NotAfter(view, packet)
  BY <1>1, NotAfterSelf DEF Init
<1>3. firstCount \in [0 .. MaxPackets -> [Kinds -> Nat]]
  BY DEF Init, Zero
<1>4. packet.run <= packet.id /\ packet.id <= MaxPackets
  BY <1>1 DEF ProjectorAssumption
<1> QED BY <1>1, <1>2, <1>3, <1>4 DEF Init, OutboxInit, CountersTyped, Stages

LEMMA CountersTypedStep ==
    ASSUME OutboxAssumption, ProjectorAssumption, CountersTyped, [Next]_vars
    PROVE  CountersTyped'
<1> USE DEF Stages
<1>0. /\ faults \in Nat /\ crossed \subseteq Thresholds /\ packet \in Packet
      /\ packet.run <= packet.id /\ packet.id <= MaxPackets
      /\ view \in Packet /\ NotAfter(view, packet)
      /\ baseline \in Packet \union {NoBaseline}
      /\ baseline # NoBaseline => NotAfter(baseline, view)
      /\ firstCount \in [0 .. MaxPackets -> [Kinds -> Nat]] /\ stage \in Stages
  BY DEF CountersTyped
<1>n. MaxPackets \in Nat /\ MaxCount \in Nat
  BY DEF ProjectorAssumption
<1>1. CASE Still \/ ApprovalStage
  BY <1>0, <1>1 DEF Still, counterVars, ApprovalStage, CountersTyped
<1>2. CASE StartProjection
  <2>1. view' = packet /\ stage' = "quarantine"
        /\ UNCHANGED <<faults, crossed, packet, baseline, firstCount>>
    BY <1>2 DEF StartProjection, outboxVars
  <2>2. NotAfter(view, packet)' /\ (baseline # NoBaseline => NotAfter(baseline, view))'
    <3>1. NotAfter(packet, packet)
      BY <1>0, NotAfterSelf
    <3>2. ASSUME baseline # NoBaseline PROVE NotAfter(baseline, packet)
      BY <1>0, <3>2, NotAfterTransitive
    <3> QED BY <2>1, <3>1, <3>2 DEF NotAfter
  <2> QED BY <1>0, <2>1, <2>2 DEF CountersTyped
<1>3. CASE NewPacket
  <2>1. PICK c \in [Kinds -> 0 .. MaxCount] :
         \/ /\ \A k \in Kinds : packet.count[k] <= c[k]
            /\ packet' = [packet EXCEPT !.id = @ + 1, !.count = c]
         \/ /\ c = Zero
            /\ packet' = [packet EXCEPT !.id = @ + 1, !.run = @ + 1, !.count = c]
    BY <1>3 DEF NewPacket
  <2>2. packet.id < MaxPackets
        /\ UNCHANGED <<faults, crossed, baseline, stage, view, firstCount>>
    BY <1>3 DEF NewPacket, outboxVars
  <2>3. c \in [Kinds -> Nat] /\ packet.id \in Nat /\ packet.run \in Nat
    BY <1>0, <1>n DEF Packet
  <2>4. packet' \in Packet /\ packet'.id = packet.id + 1 /\ packet'.count = c
        /\ \/ packet'.run = packet.run /\ \A k \in Kinds : packet.count[k] <= c[k]
           \/ packet'.run = packet.run + 1
    <3>1. packet.id + 1 \in Nat /\ packet.run + 1 \in Nat
      BY <2>3
    <3>2. ASSUME packet' = [packet EXCEPT !.id = @ + 1, !.count = c],
                 \A k \in Kinds : packet.count[k] <= c[k]
          PROVE  /\ packet' \in Packet /\ packet'.id = packet.id + 1
                 /\ packet'.count = c /\ packet'.run = packet.run
      BY <1>0, <2>3, <3>1, <3>2 DEF Packet
    <3>3. ASSUME packet' = [packet EXCEPT !.id = @ + 1, !.run = @ + 1, !.count = c]
          PROVE  /\ packet' \in Packet /\ packet'.id = packet.id + 1
                 /\ packet'.count = c /\ packet'.run = packet.run + 1
      BY <1>0, <2>3, <3>1, <3>3 DEF Packet
    <3> QED BY <2>1, <3>2, <3>3
  <2>5. packet'.run <= packet'.id /\ packet'.id <= MaxPackets
    BY <1>0, <1>n, <2>2, <2>3, <2>4
  <2>6. NotAfter(packet, packet')
    BY <2>3, <2>4 DEF NotAfter
  <2>7. NotAfter(view, packet')
    BY <1>0, <2>4, <2>6, NotAfterTransitive
  <2>8. NotAfter(view, packet)' /\ (baseline # NoBaseline => NotAfter(baseline, view))'
    BY <1>0, <2>2, <2>7 DEF NotAfter
  <2> QED BY <1>0, <2>2, <2>4, <2>5, <2>8 DEF CountersTyped
<1>4. CASE \E t \in Thresholds : Spend(t)
  <2>1. crossed' \subseteq Thresholds
        /\ UNCHANGED <<faults, packet, baseline, stage, view, firstCount>>
    BY <1>0, <1>4 DEF Spend, outboxVars
  <2> QED BY <1>0, <2>1 DEF CountersTyped
<1>5. CASE \/ ProjectBudget \/ ProjectCounters \/ OpenNotice \/ FinishNotice
           \/ OpenTemporary \/ ProjectionFails
  <2>1. UNCHANGED <<faults, crossed, packet, baseline, view, firstCount>>
    BY <1>5 DEF ProjectBudget, ProjectCounters, OpenNotice, FinishNotice,
       OpenTemporary, ProjectionFails, outboxVars
  <2>2. stage' \in Stages
    BY <1>0, <1>5 DEF ProjectBudget, ProjectCounters, OpenNotice, FinishNotice,
       OpenTemporary, ProjectionFails
  <2> QED BY <1>0, <2>1, <2>2 DEF CountersTyped
<1>6. CASE ReplaceBaseline
  <2>1. /\ baseline' = view /\ stage' = "idle"
        /\ UNCHANGED <<faults, crossed, packet, view>>
        /\ firstCount' = firstCount
           \/ firstCount' = [firstCount EXCEPT ![view.run] = view.count]
    BY <1>6 DEF ReplaceBaseline, outboxVars
  <2>2. view.count \in [Kinds -> Nat]
    BY <1>0 DEF Packet
  <2>3. firstCount' \in [0 .. MaxPackets -> [Kinds -> Nat]]
    BY <1>0, <2>1, <2>2
  <2>4. (NotAfter(baseline, view))'
    BY <1>0, <2>1, NotAfterSelf DEF NotAfter
  <2> QED BY <1>0, <2>1, <2>3, <2>4 DEF CountersTyped, NotAfter
<1>7. CASE FailProjection
  <2>1. /\ faults' = faults + 1 /\ stage' = "idle"
        /\ UNCHANGED <<crossed, packet, baseline, view, firstCount>>
    BY <1>7 DEF FailProjection
  <2>2. faults' \in Nat
    BY <1>0, <2>1
  <2> QED BY <1>0, <2>1, <2>2 DEF CountersTyped
<1> QED BY CounterCases, <1>1, <1>2, <1>3, <1>4, <1>5, <1>6, <1>7

LEMMA BooksCases ==
    ASSUME [Next]_vars
    PROVE  \/ UNCHANGED <<view, baseline, notices, firstCount>>
           \/ StartProjection \/ FinishNotice \/ ReplaceBaseline
<1>1. CASE Still \/ ApprovalStage
  BY <1>1 DEF Still, counterVars, ApprovalStage
<1>2. CASE \/ NewPacket \/ (\E t \in Thresholds : Spend(t))
           \/ ProjectBudget \/ ProjectCounters \/ OpenNotice
           \/ OpenTemporary \/ ProjectionFails \/ FailProjection
  BY <1>2 DEF NewPacket, Spend, ProjectBudget, ProjectCounters, OpenNotice,
     OpenTemporary, ProjectionFails, FailProjection
<1> QED BY CounterCases, <1>1, <1>2

LEMMA QueueIsBoundStep ==
    ASSUME OutboxAssumption, ProjectorAssumption, CountersTyped, QueueIsBound, [Next]_vars
    PROVE  QueueIsBound'
<1>0. /\ stage = "counters" => queue \in Seq(BudgetNotices)
      /\ stage = "baseline" =>
           \/ queue = <<>>
           \/ Comparable(baseline, view) /\ queue \in Seq({Growth(k) : k \in Kinds})
      /\ stage \notin {"counters", "baseline"} => queue = <<>>
  BY DEF QueueIsBound
<1>1. CASE queue' = <<>>
  BY <1>1 DEF QueueIsBound
<1>2. CASE Still \/ NewPacket \/ (\E t \in Thresholds : Spend(t)) \/ OpenNotice
  <2>1. UNCHANGED <<queue, stage, view, baseline>>
    BY <1>2 DEF Still, counterVars, NewPacket, Spend, OpenNotice
  <2> QED BY <1>0, <2>1 DEF QueueIsBound, Growth, Comparable
<1>3. ASSUME \/ ApprovalStage \/ StartProjection \/ OpenTemporary
             \/ ReplaceBaseline \/ ProjectionFails \/ FailProjection
      PROVE  queue' = <<>>
  BY <1>0, <1>3 DEF ApprovalStage, StartProjection, OpenTemporary, ReplaceBaseline,
     ProjectionFails, FailProjection, StageDone
<1>4. CASE ProjectBudget
  <2>1. queue' = Listing(BudgetDue) /\ stage' = "counters"
    BY <1>4 DEF ProjectBudget
  <2>2. Listing(BudgetDue) \in Seq(BudgetNotices)
    BY BudgetDueIsListed DEF CountersTyped
  <2> QED BY <2>1, <2>2 DEF QueueIsBound, BudgetNotices
<1>5. CASE ProjectCounters
  <2>1. stage' = "baseline" /\ UNCHANGED <<view, baseline>> /\ queue = <<>>
    BY <1>5 DEF ProjectCounters, StageDone
  <2>2. CASE Comparable(baseline, view)
    <3>1. queue' = Listing(CountersDue(baseline, view))
      BY <1>5, <2>2 DEF ProjectCounters
    <3>2. queue' \in Seq({Growth(k) : k \in Kinds})
      BY <3>1, CountersDueIsListed
    <3> QED BY <2>1, <2>2, <3>2 DEF QueueIsBound, Growth, Comparable
  <2>3. CASE ~ Comparable(baseline, view)
    <3>1. queue' = <<>>
      BY <1>5, <2>1, <2>3 DEF ProjectCounters
    <3> QED BY <1>1, <3>1
  <2> QED BY <2>2, <2>3
<1>6. CASE FinishNotice
  <2>1. queue # <<>> /\ queue' = Tail(queue) /\ UNCHANGED <<stage, view, baseline>>
    BY <1>6 DEF FinishNotice
  <2>2. stage = "counters" => queue' \in Seq(BudgetNotices)
    BY <1>0, <2>1, HeadTailProperties
  <2>3. stage = "baseline" => Comparable(baseline, view)
                              /\ queue' \in Seq({Growth(k) : k \in Kinds})
    BY <1>0, <2>1, HeadTailProperties
  <2>4. stage \in {"counters", "baseline"}
    BY <1>0, <2>1
  <2> QED BY <2>1, <2>2, <2>3, <2>4 DEF QueueIsBound, Growth, Comparable, BudgetNotices
<1> QED BY CounterCases, <1>1, <1>2, <1>3, <1>4, <1>5, <1>6

\* The notice that FinishNotice completes.
LEMMA FinishedNotice ==
    ASSUME QueueIsBound, FinishNotice
    PROVE  /\ notices' = notices \union {Head(queue)}
           /\ queue' = Tail(queue)
           /\ UNCHANGED <<view, baseline, stage, firstCount, faults, temporary>>
           /\ \/ stage = "counters" /\ Head(queue).kind = "budget"
              \/ /\ stage = "baseline" /\ Comparable(baseline, view)
                 /\ \E k \in Kinds : Head(queue) = Growth(k)
<1>1. queue # <<>>
  BY DEF FinishNotice
<1>2. CASE stage = "counters"
  <2>1. Head(queue) \in BudgetNotices
    BY <1>1, <1>2, HeadTailProperties DEF QueueIsBound
  <2>2. Head(queue).kind = "budget"
    <3>1. PICK t \in Thresholds : Head(queue) = [kind |-> "budget", threshold |-> t]
      BY <2>1 DEF BudgetNotices
    <3> QED BY <3>1
  <2> QED BY <1>2, <2>2 DEF FinishNotice, outboxVars
<1>3. CASE stage = "baseline"
  <2>1. Head(queue) \in {Growth(k) : k \in Kinds} /\ Comparable(baseline, view)
    BY <1>1, <1>3, HeadTailProperties DEF QueueIsBound
  <2> QED BY <1>3, <2>1 DEF FinishNotice, outboxVars
<1> QED BY <1>1, <1>2, <1>3 DEF QueueIsBound

LEMMA NoticesAreTrueStep ==
    ASSUME OutboxAssumption, ProjectorAssumption, CountersTyped, QueueIsBound,
           NoticesAreTrue, [Next]_vars
    PROVE  NoticesAreTrue'
<1>0. /\ packet \in Packet /\ view \in Packet /\ NotAfter(view, packet)
      /\ baseline \in Packet \union {NoBaseline}
      /\ baseline # NoBaseline => baseline \in Packet /\ NotAfter(baseline, view)
  BY DEF CountersTyped
<1>b. NoBaseline \notin Packet
  BY DEF ProjectorAssumption
<1>1. CASE UNCHANGED <<view, baseline, notices, firstCount>>
  BY <1>1 DEF NoticesAreTrue, CounterNotices
<1>2. CASE StartProjection
  <2>1. view' = packet /\ UNCHANGED <<baseline, notices>>
    BY <1>2 DEF StartProjection
  <2> SUFFICES ASSUME NEW n \in CounterNotices
               PROVE  /\ n.packet <= packet.id
                      /\ n.packet = packet.id =>
                           n.run = packet.run /\ n.new = packet.count[n.kind]
    BY <2>1 DEF NoticesAreTrue, CounterNotices
  <2>2. n.packet <= view.id /\ n.packet \in Nat
        /\ (n.packet = view.id => n.run = view.run /\ n.new = view.count[n.kind])
    BY DEF NoticesAreTrue
  <2>3. view.id <= packet.id /\ (view.id = packet.id => view = packet)
        /\ view.id \in Nat /\ packet.id \in Nat
    BY <1>0 DEF NotAfter, Packet
  <2>4. n.packet <= packet.id /\ (n.packet = packet.id => view = packet)
    BY <2>2, <2>3
  <2> QED BY <2>2, <2>4
<1>3. CASE FinishNotice
  <2>1. /\ notices' = notices \union {Head(queue)} /\ UNCHANGED <<view, baseline>>
        /\ \/ Head(queue).kind = "budget"
           \/ Comparable(baseline, view) /\ \E k \in Kinds : Head(queue) = Growth(k)
    BY <1>3, FinishedNotice
  <2>2. CASE Head(queue).kind = "budget"
    <3>1. CounterNotices' = CounterNotices
      BY <2>1, <2>2 DEF CounterNotices, Kinds
    <3> QED BY <2>1, <3>1 DEF NoticesAreTrue
  <2>3. ASSUME Comparable(baseline, view), NEW k \in Kinds, Head(queue) = Growth(k)
        PROVE  NoticesAreTrue'
    <3>1. baseline # NoBaseline /\ baseline.run = view.run /\ baseline \in Packet
      BY <1>0, <2>3 DEF Comparable
    <3>2. /\ view.id \in Nat /\ view.run \in Nat
          /\ view.count[k] \in Nat /\ baseline.count[k] \in Nat
      BY <1>0, <3>1, <2>3 DEF Packet
    <3>3. /\ Growth(k) \in [kind : Kinds, packet : Nat, run : Nat, old : Nat, new : Nat]
          /\ Growth(k).kind = k /\ Growth(k).packet = view.id /\ Growth(k).run = view.run
          /\ Growth(k).old = baseline.count[k] /\ Growth(k).new = view.count[k]
      BY <3>2 DEF Growth
    <3>4. \A n \in CounterNotices' : n \in CounterNotices \/ n = Growth(k)
      BY <2>1, <2>3 DEF CounterNotices
    <3>5. view.id <= view.id /\ baseline.run <= baseline.run
          /\ baseline.count[k] <= baseline.count[k]
      BY <3>1, <3>2
    <3> HIDE DEF Growth
    <3> QED BY <2>1, <3>1, <3>3, <3>4, <3>5 DEF NoticesAreTrue
  <2> QED BY <2>1, <2>2, <2>3
<1>4. CASE ReplaceBaseline
  <2>1. baseline' = view /\ UNCHANGED <<view, notices>>
    BY <1>4 DEF ReplaceBaseline
  <2>2. view # NoBaseline
    BY <1>0, <1>b
  <2> SUFFICES ASSUME NEW n \in CounterNotices
               PROVE  /\ n.run <= view.run
                      /\ n.run = view.run => n.old <= view.count[n.kind]
    BY <2>1, <2>2 DEF NoticesAreTrue, CounterNotices
  <2>3. /\ n \in [kind : Kinds, packet : Nat, run : Nat, old : Nat, new : Nat]
        /\ baseline # NoBaseline /\ n.run <= baseline.run
        /\ n.run = baseline.run => n.old <= baseline.count[n.kind]
    BY DEF NoticesAreTrue
  <2>4. baseline \in Packet /\ NotAfter(baseline, view)
    BY <1>0, <2>3
  <2>5. /\ n.kind \in Kinds /\ n.run \in Nat /\ n.old \in Nat
        /\ baseline.run \in Nat /\ view.run \in Nat
        /\ baseline.count[n.kind] \in Nat /\ view.count[n.kind] \in Nat
    BY <1>0, <2>3, <2>4 DEF Packet
  <2>6. baseline.run <= view.run
        /\ (baseline.run = view.run => baseline.count[n.kind] <= view.count[n.kind])
    BY <2>4, <2>5 DEF NotAfter
  <2> QED BY <2>3, <2>5, <2>6
<1> QED BY BooksCases, <1>1, <1>2, <1>3, <1>4

\* The growth of one kind is inside a notice, or its notice waits.
Covered(k) ==
    \/ \E x \in Reported(k, view.run) :
          x.old <= baseline.count[k] /\ view.count[k] <= x.new
    \/ \E i \in 1 .. Len(queue) : queue[i] = Growth(k)

LEMMA GrowthIsCoveredStep ==
    ASSUME OutboxAssumption, ProjectorAssumption, CountersTyped, QueueIsBound,
           NoticesAreTrue, GrowthIsCovered, [Next]_vars
    PROVE  GrowthIsCovered'
<1>1. CASE stage' \notin {"baseline", "replace"}
  BY <1>1 DEF GrowthIsCovered
<1>2. ASSUME UNCHANGED <<view, baseline, notices, queue>>,
             stage' \in {"baseline", "replace"} => stage \in {"baseline", "replace"}
      PROVE  GrowthIsCovered'
  BY <1>2 DEF GrowthIsCovered, Comparable, Reported, Growth
<1>3. CASE Still \/ NewPacket \/ (\E t \in Thresholds : Spend(t)) \/ OpenNotice
  <2>1. UNCHANGED <<queue, stage, view, baseline, notices>>
    BY <1>3 DEF Still, counterVars, NewPacket, Spend, OpenNotice
  <2> QED BY <1>2, <2>1
<1>4. CASE OpenTemporary
  BY <1>2, <1>4 DEF OpenTemporary
<1>5. ASSUME \/ ApprovalStage \/ StartProjection \/ ProjectBudget
             \/ ReplaceBaseline \/ ProjectionFails \/ FailProjection
      PROVE  stage' \notin {"baseline", "replace"}
  BY <1>5 DEF ApprovalStage, StartProjection, ProjectBudget, ReplaceBaseline,
     ProjectionFails, FailProjection
<1>6. CASE ProjectCounters
  <2> SUFFICES ASSUME Comparable(baseline, view), NEW k \in Kinds,
                      baseline.count[k] < view.count[k]
               PROVE  Covered(k)'
    <3>1. UNCHANGED <<view, baseline>>
      BY <1>6 DEF ProjectCounters
    <3> QED BY <3>1 DEF GrowthIsCovered, Covered, Comparable
  <2>1. UNCHANGED <<view, baseline, notices>>
        /\ queue' = Listing(CountersDue(baseline, view))
    BY <1>6 DEF ProjectCounters
  <2>2. CASE \E n \in notices : n.kind = k /\ n.packet = view.id /\ n.run = view.run
    <3>1. PICK n \in notices : n.kind = k /\ n.packet = view.id /\ n.run = view.run
      BY <2>2
    <3>2. n \in CounterNotices
      BY <3>1 DEF CounterNotices
    <3>3. n.new = view.count[k] /\ n.old <= baseline.count[k]
      BY <3>1, <3>2 DEF NoticesAreTrue, Comparable
    <3>4. view.count[k] \in Nat
      BY DEF CountersTyped, Packet
    <3>5. n \in Reported(k, view.run)
      BY <3>1 DEF Reported
    <3>6. view.count[k] <= n.new
      BY <3>3, <3>4
    <3> QED BY <2>1, <3>3, <3>5, <3>6 DEF Covered, Reported
  <2>3. CASE \A n \in notices : ~ (n.kind = k /\ n.packet = view.id /\ n.run = view.run)
    <3>1. Growth(k) \in CountersDue(baseline, view)
      BY <2>3 DEF CountersDue, Growth
    <3>2. \E i \in 1 .. Len(queue') : queue'[i] = Growth(k)
      BY <2>1, <3>1, CountersDueIsListed
    <3> QED BY <2>1, <3>2 DEF Covered, Growth
  <2> QED BY <2>2, <2>3
<1>7. CASE FinishNotice
  <2>1. /\ notices' = notices \union {Head(queue)} /\ queue' = Tail(queue)
        /\ UNCHANGED <<view, baseline, stage>>
    BY <1>7, FinishedNotice
  <2>2. CASE stage # "baseline"
    <3>1. stage' \notin {"baseline", "replace"}
      BY <1>7, <2>1, <2>2, FinishedNotice
    <3> QED BY <1>1, <3>1
  <2>3. CASE stage = "baseline"
    <3> SUFFICES ASSUME Comparable(baseline, view), NEW k \in Kinds,
                        baseline.count[k] < view.count[k]
                 PROVE  Covered(k)'
      BY <2>1, <2>3 DEF GrowthIsCovered, Covered, Comparable
    <3>1. Covered(k)
      BY <2>3 DEF GrowthIsCovered, Covered
    <3>2. ASSUME NEW x \in Reported(k, view.run),
                 x.old <= baseline.count[k], view.count[k] <= x.new
          PROVE  Covered(k)'
      BY <2>1, <3>2 DEF Covered, Reported
    <3>3. ASSUME NEW i \in 1 .. Len(queue), queue[i] = Growth(k) PROVE Covered(k)'
      <4>1. /\ queue # <<>> /\ queue \in Seq({Growth(j) : j \in Kinds})
        BY <1>7, <2>3 DEF FinishNotice, QueueIsBound
      <4>2. /\ Head(queue) = queue[1] /\ Len(queue) \in Nat \ {0}
            /\ Len(Tail(queue)) = Len(queue) - 1
            /\ \A j \in 1 .. Len(Tail(queue)) : Tail(queue)[j] = queue[j + 1]
        BY <4>1, HeadTailProperties
      <4>3. CASE i = 1
        <5>1. /\ Growth(k).kind = k /\ Growth(k).run = view.run
              /\ Growth(k).old = baseline.count[k] /\ Growth(k).new = view.count[k]
          BY DEF Growth
        <5>2. Growth(k) \in notices'
          BY <2>1, <3>3, <4>2, <4>3
        <5>3. view.count[k] \in Nat /\ baseline.count[k] \in Nat
          BY DEF Comparable, CountersTyped, Packet
        <5>4. baseline.count[k] <= baseline.count[k] /\ view.count[k] <= view.count[k]
          BY <5>3
        <5>5. Growth(k) \in Reported(k, view.run)'
          BY <2>1, <5>1, <5>2 DEF Reported
        <5> HIDE DEF Growth
        <5> QED BY <2>1, <5>1, <5>4, <5>5 DEF Covered
      <4>4. CASE i # 1
        <5>1. i - 1 \in 1 .. Len(Tail(queue)) /\ (i - 1) + 1 = i
          BY <4>2, <4>4
        <5>2. Tail(queue)[i - 1] = Growth(k)
          BY <3>3, <4>2, <5>1
        <5> QED BY <2>1, <5>1, <5>2 DEF Covered, Growth
      <4> QED BY <4>3, <4>4
    <3> QED BY <3>1, <3>2, <3>3 DEF Covered
  <2> QED BY <2>2, <2>3
<1> QED BY CounterCases, <1>1, <1>3, <1>4, <1>5, <1>6, <1>7

LEMMA NothingUnreportedStep ==
    ASSUME OutboxAssumption, ProjectorAssumption, CountersTyped, QueueIsBound,
           NoticesAreTrue, GrowthIsCovered, NothingUnreported, [Next]_vars
    PROVE  NothingUnreported'
<1>1. CASE UNCHANGED <<baseline, notices, firstCount>>
  BY <1>1 DEF NothingUnreported, Reported
<1>2. CASE StartProjection
  BY <1>1, <1>2 DEF StartProjection
<1>3. CASE FinishNotice
  <2>1. notices \subseteq notices' /\ UNCHANGED <<baseline, firstCount>>
    BY <1>3, FinishedNotice
  <2> QED BY <2>1 DEF NothingUnreported, Reported
<1>4. CASE ReplaceBaseline
  <2>1. /\ stage = "replace" /\ baseline' = view /\ UNCHANGED <<view, notices>>
        /\ firstCount' = IF Comparable(baseline, view) THEN firstCount
                         ELSE [firstCount EXCEPT ![view.run] = view.count]
    BY <1>4 DEF ReplaceBaseline
  <2>2. /\ view \in Packet /\ NotAfter(view, packet) /\ packet \in Packet
        /\ packet.run <= packet.id /\ packet.id <= MaxPackets
        /\ firstCount \in [0 .. MaxPackets -> [Kinds -> Nat]]
        /\ baseline \in Packet \union {NoBaseline}
    BY DEF CountersTyped
  <2>3. view.run \in 0 .. MaxPackets
    <3>1. view.run \in Nat /\ packet.run \in Nat /\ packet.id \in Nat /\ MaxPackets \in Nat
      BY <2>2 DEF Packet, ProjectorAssumption
    <3> QED BY <2>2, <3>1 DEF NotAfter
  <2> SUFFICES ASSUME NEW k \in Kinds,
                      NEW m \in firstCount'[view.run][k] + 1 .. view.count[k]
               PROVE  \E x \in Reported(k, view.run) : x.old < m /\ m <= x.new
    BY <2>1 DEF NothingUnreported, Reported
  <2>4. view.count[k] \in Nat
    BY <2>2 DEF Packet
  <2>5. CASE ~ Comparable(baseline, view)
    <3>1. firstCount'[view.run] = view.count
      BY <2>1, <2>2, <2>3, <2>5
    <3> QED BY <2>4, <3>1
  <2>6. CASE Comparable(baseline, view)
    <3>1. firstCount' = firstCount /\ baseline # NoBaseline /\ baseline.run = view.run
      BY <2>1, <2>6 DEF Comparable
    <3>2. baseline.count[k] \in Nat /\ firstCount[view.run][k] \in Nat
      BY <2>2, <2>3, <3>1 DEF Packet
    <3>3. m \in Nat /\ m <= view.count[k]
      BY <2>4, <3>1, <3>2
    <3>4. CASE m <= baseline.count[k]
      <4>1. m \in firstCount[baseline.run][k] + 1 .. baseline.count[k]
        BY <3>1, <3>2, <3>3, <3>4
      <4> QED BY <3>1, <4>1 DEF NothingUnreported
    <3>5. CASE baseline.count[k] < m
      <4>1. baseline.count[k] < view.count[k]
        BY <2>4, <3>2, <3>3, <3>5
      <4>2. queue = <<>>
        BY <2>1 DEF QueueIsBound
      <4>3. PICK x \in Reported(k, view.run) :
                  x.old <= baseline.count[k] /\ view.count[k] <= x.new
        BY <2>1, <2>6, <4>1, <4>2 DEF GrowthIsCovered
      <4>4. x \in CounterNotices
        BY DEF Reported, CounterNotices
      <4>5. x.old \in Nat /\ x.new \in Nat
        BY <4>4 DEF NoticesAreTrue
      <4>6. x.old < m /\ m <= x.new
        BY <2>4, <3>2, <3>3, <3>5, <4>3, <4>5
      <4> QED BY <4>6
    <3> QED BY <3>2, <3>3, <3>4, <3>5
  <2> QED BY <2>5, <2>6
<1> QED BY BooksCases, <1>1, <1>2, <1>3, <1>4

LEMMA ReportInvInit ==
    ASSUME OutboxAssumption, ProjectorAssumption, Init
    PROVE  ReportInv
<1>1. CountersTyped
  BY CountersTypedInit
<1>2. QueueIsBound /\ NoticesAreTrue /\ GrowthIsCovered /\ NothingUnreported
  BY DEF Init, QueueIsBound, NoticesAreTrue, CounterNotices, GrowthIsCovered,
     NothingUnreported
<1> QED BY <1>1, <1>2 DEF ReportInv

LEMMA ReportInvStep ==
    ASSUME OutboxAssumption, ProjectorAssumption, ReportInv, [Next]_vars
    PROVE  ReportInv'
<1>1. CountersTyped /\ QueueIsBound /\ NoticesAreTrue /\ GrowthIsCovered /\ NothingUnreported
  BY DEF ReportInv
<1>2. CountersTyped'
  BY <1>1, CountersTypedStep
<1>3. QueueIsBound'
  BY <1>1, QueueIsBoundStep
<1>4. NoticesAreTrue'
  BY <1>1, NoticesAreTrueStep
<1>5. GrowthIsCovered'
  BY <1>1, GrowthIsCoveredStep
<1>6. NothingUnreported'
  BY <1>1, NothingUnreportedStep
<1> QED BY <1>2, <1>3, <1>4, <1>5, <1>6 DEF ReportInv

-----------------------------------------------------------------------------

LEMMA OnceInvInit == Init => OnceInv
  BY DEF Init, OnceInv, TemporaryIsOpen, NothingIsAhead, NothingTwice, CounterNotices

\* A fault stays counted, and the step in which one happens ends the argument.
LEMMA FaultsStay ==
    ASSUME CountersTyped, [Next]_vars, faults' = 0
    PROVE  faults = 0 /\ ~ FailProjection
<1>0. faults \in Nat
  BY DEF CountersTyped
<1>1. FailProjection => faults' = faults + 1
  BY DEF FailProjection
<1>2. ~ FailProjection => UNCHANGED faults
  <2>1. CASE Still \/ ApprovalStage
    BY <2>1 DEF Still, ApprovalStage
  <2>2. CASE \/ StartProjection \/ NewPacket \/ (\E t \in Thresholds : Spend(t))
             \/ ProjectBudget \/ ProjectCounters \/ OpenNotice \/ FinishNotice
             \/ OpenTemporary \/ ReplaceBaseline \/ ProjectionFails
    BY <2>2 DEF StartProjection, NewPacket, Spend, ProjectBudget, ProjectCounters,
       OpenNotice, FinishNotice, OpenTemporary, ReplaceBaseline, ProjectionFails, outboxVars
  <2> QED BY CounterCases, <2>1, <2>2
<1> QED BY <1>0, <1>1, <1>2

LEMMA TemporaryIsOpenStep ==
    ASSUME CountersTyped, TemporaryIsOpen, [Next]_vars
    PROVE  TemporaryIsOpen'
<1> SUFFICES ASSUME faults' = 0, temporary' PROVE stage' = "replace"
  BY DEF TemporaryIsOpen
<1>0. faults = 0 /\ ~ FailProjection
  BY FaultsStay
<1>1. temporary => stage = "replace"
  BY <1>0 DEF TemporaryIsOpen
<1>2. CASE Still
  BY <1>1, <1>2 DEF Still, counterVars
<1>3. CASE \/ NewPacket \/ (\E t \in Thresholds : Spend(t)) \/ OpenNotice \/ FinishNotice
  BY <1>1, <1>3 DEF NewPacket, Spend, OpenNotice, FinishNotice
<1>4. CASE \/ ApprovalStage \/ StartProjection \/ ProjectBudget \/ ProjectCounters
  BY <1>1, <1>4 DEF ApprovalStage, StartProjection, ProjectBudget, ProjectCounters
<1>5. CASE OpenTemporary \/ ReplaceBaseline
  BY <1>5 DEF OpenTemporary, ReplaceBaseline
<1>6. CASE ProjectionFails
  BY <1>1, <1>6 DEF ProjectionFails, Blocked
<1> QED BY CounterCases, <1>0, <1>2, <1>3, <1>4, <1>5, <1>6

\* The notice that is completed starts where all others of its kind and run end.
LEMMA NothingIsAheadStep ==
    ASSUME OutboxAssumption, ProjectorAssumption, ReportInv, OnceInv, [Next]_vars
    PROVE  NothingIsAhead'
<1> SUFFICES ASSUME faults' = 0, NEW n \in CounterNotices'
             PROVE  \/ n.run < baseline'.run
                    \/ n.new <= baseline'.count[n.kind]
                    \/ stage' \in {"baseline", "replace"} /\ n = Growth(n.kind)'
  BY DEF NothingIsAhead
<1>0. faults = 0 /\ ~ FailProjection
  BY FaultsStay DEF ReportInv
<1>a. \A x \in CounterNotices :
         \/ x.run < baseline.run
         \/ x.new <= baseline.count[x.kind]
         \/ stage \in {"baseline", "replace"} /\ x = Growth(x.kind)
  BY <1>0 DEF OnceInv, NothingIsAhead
<1>b. temporary => stage = "replace"
  BY <1>0 DEF OnceInv, TemporaryIsOpen
<1>1. ASSUME UNCHANGED <<view, baseline, notices>>,
             stage \in {"baseline", "replace"} => stage' \in {"baseline", "replace"}
      PROVE  \/ n.run < baseline'.run
             \/ n.new <= baseline'.count[n.kind]
             \/ stage' \in {"baseline", "replace"} /\ n = Growth(n.kind)'
  <2>1. n \in CounterNotices
    BY <1>1 DEF CounterNotices
  <2> QED BY <1>a, <1>1, <2>1 DEF Growth
<1>2. CASE Still \/ NewPacket \/ (\E t \in Thresholds : Spend(t)) \/ OpenNotice
  <2>1. UNCHANGED <<view, baseline, notices, stage>>
    BY <1>2 DEF Still, counterVars, NewPacket, Spend, OpenNotice
  <2> QED BY <1>1, <2>1
<1>3. CASE \/ ApprovalStage \/ ProjectBudget \/ ProjectCounters \/ OpenTemporary
  <2>1. /\ UNCHANGED <<view, baseline, notices>>
        /\ stage \in {"baseline", "replace"} => stage' \in {"baseline", "replace"}
    BY <1>3 DEF ApprovalStage, ProjectBudget, ProjectCounters, OpenTemporary
  <2> QED BY <1>1, <2>1
<1>4. CASE ProjectionFails
  <2>1. UNCHANGED <<view, baseline, notices>> /\ stage \notin {"baseline", "replace"}
    BY <1>b, <1>4 DEF ProjectionFails, Blocked
  <2> QED BY <1>1, <2>1
<1>5. CASE StartProjection
  <2>1. UNCHANGED <<baseline, notices>> /\ stage = "idle"
    BY <1>5 DEF StartProjection
  <2>2. n \in CounterNotices
    BY <2>1 DEF CounterNotices
  <2> QED BY <1>a, <2>1, <2>2
<1>6. CASE FinishNotice
  <2>1. /\ notices' = notices \union {Head(queue)} /\ UNCHANGED <<view, baseline, stage>>
        /\ \/ stage = "counters" /\ Head(queue).kind = "budget"
           \/ /\ stage = "baseline" /\ Comparable(baseline, view)
              /\ \E k \in Kinds : Head(queue) = Growth(k)
    BY <1>6, FinishedNotice DEF ReportInv
  <2>2. CASE n \in notices
    <3>1. n \in CounterNotices
      BY <2>2 DEF CounterNotices
    <3> QED BY <1>a, <2>1, <3>1 DEF Growth
  <2>3. CASE n = Head(queue)
    <3>1. n.kind # "budget"
      BY DEF CounterNotices, Kinds
    <3>2. PICK k \in Kinds : n = Growth(k) /\ stage = "baseline"
      BY <2>1, <2>3, <3>1
    <3>3. n.kind = k
      BY <3>2 DEF Growth
    <3> QED BY <2>1, <3>2, <3>3 DEF Growth
  <2> QED BY <2>1, <2>2, <2>3 DEF CounterNotices
<1>7. CASE ReplaceBaseline
  <2>1. baseline' = view /\ UNCHANGED <<view, notices>>
    BY <1>7 DEF ReplaceBaseline
  <2>2. n \in CounterNotices
    BY <2>1 DEF CounterNotices
  <2>3. /\ n \in [kind : Kinds, packet : Nat, run : Nat, old : Nat, new : Nat]
        /\ baseline # NoBaseline /\ n.run <= baseline.run
    BY <2>2 DEF ReportInv, NoticesAreTrue
  <2>4. baseline \in Packet /\ view \in Packet /\ NotAfter(baseline, view)
    BY <2>3 DEF ReportInv, CountersTyped
  <2>5. /\ n.kind \in Kinds /\ n.run \in Nat /\ n.new \in Nat
        /\ baseline.run \in Nat /\ view.run \in Nat
        /\ baseline.count[n.kind] \in Nat /\ view.count[n.kind] \in Nat
    BY <2>3, <2>4 DEF Packet
  <2>6. baseline.run <= view.run
        /\ (baseline.run = view.run => baseline.count[n.kind] <= view.count[n.kind])
    BY <2>4, <2>5 DEF NotAfter
  <2>7. n = Growth(n.kind) => n.new = view.count[n.kind]
    BY DEF Growth
  <2>8. n.run < view.run \/ n.new <= view.count[n.kind]
    BY <1>a, <2>2, <2>3, <2>5, <2>6, <2>7
  <2> QED BY <2>1, <2>8
<1> QED BY CounterCases, <1>0, <1>2, <1>3, <1>4, <1>5, <1>6, <1>7

LEMMA NothingTwiceStep ==
    ASSUME OutboxAssumption, ProjectorAssumption, ReportInv, OnceInv, [Next]_vars,
           faults' = 0
    PROVE  NothingTwice'
<1>0. faults = 0 /\ NothingTwice
  BY FaultsStay DEF ReportInv, OnceInv
<1>1. CASE UNCHANGED notices
  BY <1>0, <1>1 DEF NothingTwice
<1>2. CASE StartProjection \/ ReplaceBaseline
  BY <1>1, <1>2 DEF StartProjection, ReplaceBaseline
<1>3. CASE FinishNotice
  <2>1. /\ notices' = notices \union {Head(queue)}
        /\ \/ Head(queue).kind = "budget"
           \/ Comparable(baseline, view) /\ \E k \in Kinds : Head(queue) = Growth(k)
    BY <1>3, FinishedNotice DEF ReportInv
  <2>2. ASSUME NEW y \in notices, y.kind \in Kinds, Head(queue).kind = y.kind,
               Head(queue).run = y.run, Head(queue) # y
        PROVE  y.new <= Head(queue).old
    <3>1. PICK k \in Kinds : Head(queue) = Growth(k) /\ Comparable(baseline, view)
      BY <2>1, <2>2 DEF Kinds
    <3>2. y.kind = k /\ y.run = view.run /\ Head(queue).old = baseline.count[k]
      BY <2>2, <3>1 DEF Growth
    <3>3. y \in CounterNotices
      BY <2>2 DEF CounterNotices
    <3>4. y.run = baseline.run /\ y # Growth(y.kind)
      BY <2>2, <3>1, <3>2 DEF Comparable
    <3>5. y.run \in Nat
      BY <3>3 DEF ReportInv, NoticesAreTrue
    <3>6. y.new <= baseline.count[y.kind]
      BY <1>0, <3>3, <3>4, <3>5 DEF OnceInv, NothingIsAhead
    <3> QED BY <3>2, <3>6
  <2> QED BY <1>0, <2>1, <2>2 DEF NothingTwice
<1> QED BY BooksCases, <1>1, <1>2, <1>3

(***************************************************************************)
(* No growth of a counter is lost, and without a fault none is reported    *)
(* twice, for every number of packets, counts, thresholds and faults.      *)
(***************************************************************************)
THEOREM GrowthIsReported == Spec => []IncreasesAreReported
<1> DEFINE Inv == ReportInv /\ OnceInv
<1>1. Init => Inv
  BY ReportInvInit, OnceInvInit, OutboxAssumption, ProjectorAssumption
<1>2. Inv /\ [Next]_vars => Inv'
  <2> SUFFICES ASSUME ReportInv, OnceInv, [Next]_vars PROVE ReportInv' /\ OnceInv'
    OBVIOUS
  <2>1. ReportInv'
    BY ReportInvStep, OutboxAssumption, ProjectorAssumption
  <2>2. TemporaryIsOpen'
    BY TemporaryIsOpenStep DEF ReportInv, OnceInv
  <2>3. NothingIsAhead'
    BY NothingIsAheadStep, OutboxAssumption, ProjectorAssumption
  <2>4. faults' = 0 => NothingTwice'
    BY NothingTwiceStep, OutboxAssumption, ProjectorAssumption
  <2> QED BY <2>1, <2>2, <2>3, <2>4 DEF OnceInv
<1>3. Inv => IncreasesAreReported
  BY DEF ReportInv, OnceInv, IncreasesAreReported
<1> QED BY <1>1, <1>2, <1>3, PTL DEF Spec

=============================================================================
