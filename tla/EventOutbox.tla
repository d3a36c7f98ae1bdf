---------------------------- MODULE EventOutbox ----------------------------
(***************************************************************************)
(* The create-only event outbox of src/iou_ai/events.py, restricted to the *)
(* events that ask for a decision: one "execution_ready" event per canary- *)
(* passed candidate and one "proposal_quarantined" event per quarantined   *)
(* envelope that has no compiled artifact.                                 *)
(*                                                                         *)
(* Two programs project execution events: the event projector, where it is *)
(* allowed to read the candidate store, and the canary bridge at the end   *)
(* of its pass, started by a timer or by hand.  Nothing keeps two of these *)
(* processes apart.  Each one is a member of Projectors.  A projector      *)
(* reads the outbox once, decides from that snapshot which subjects need a *)
(* challenge, and then writes the events one file at a time.               *)
(***************************************************************************)
EXTENDS Naturals

CONSTANTS
    Candidates,     \* digests of execution candidates
    Envelopes,      \* digests of quarantine envelopes without artifacts
    Nonces,         \* random challenge nonces; each is drawn at most once
    Projectors,     \* processes that project events
    EventCli,       \* those of them that also project the quarantine store
    TTL,            \* decision_ttl, in clock ticks
    MaxTime,        \* bound: the clock stops here
    MaxFaults,      \* bound: power losses and failed writes
    LastFault       \* bound: none of them after this time

ASSUME OutboxAssumption ==
    /\ EventCli \subseteq Projectors
    /\ TTL \in Nat \ {0}
    /\ MaxTime \in Nat
    /\ MaxFaults \in Nat
    /\ LastFault \in Nat

Subjects == Candidates \union Envelopes

Time == 0 .. MaxTime

\* A decision may not be requested for longer than the clock can run.
Expiry == 0 .. MaxTime + TTL

(***************************************************************************)
(* An approval event.  The fields of the wire format that are copied from  *)
(* the candidate or the envelope (digests, target hashes, scope) are a     *)
(* function of the subject and are represented by it.                      *)
(***************************************************************************)
Event == [subject : Subjects, nonce : Nonces, created : Time, expires : Expiry]

VARIABLES
    now,            \* the host clock
    stored,         \* subjects whose file is in the candidate or quarantine store
    events,         \* event files that are complete
    tornEvents,     \* event files that exist but are not (yet) complete
    todo,           \* [Projectors -> subjects the running pass still has to write]
    passTime,       \* [Projectors -> the clock value the running pass uses]
    putting,        \* [Projectors -> the event whose file is open, as a set]
    faults          \* power losses and failed writes so far

outboxVars == <<now, stored, events, tornEvents, todo, passTime, putting, faults>>

(***************************************************************************)
(* put opens at most one file at a time: putting[p] is {} or one event.    *)
(***************************************************************************)
OutboxTypeOK ==
    /\ now \in Time
    /\ stored \subseteq Subjects
    /\ events \subseteq Event
    /\ tornEvents \subseteq Event
    /\ todo \in [Projectors -> SUBSET Subjects]
    /\ passTime \in [Projectors -> Time]
    /\ putting \in [Projectors -> SUBSET Event]
    /\ faults \in 0 .. MaxFaults

OutboxInit ==
    /\ now = 0
    /\ stored = {}
    /\ events = {}
    /\ tornEvents = {}
    /\ todo = [p \in Projectors |-> {}]
    /\ passTime = [p \in Projectors |-> 0]
    /\ putting = [p \in Projectors |-> {}]
    /\ faults = 0

Tick ==
    /\ now < MaxTime
    /\ now' = now + 1
    /\ UNCHANGED <<stored, events, tornEvents, todo, passTime, putting, faults>>

(***************************************************************************)
(* The canary bridge stores a candidate, or the pipeline an envelope.      *)
(***************************************************************************)
Store(s) ==
    /\ s \notin stored
    /\ stored' = stored \union {s}
    /\ UNCHANGED <<now, events, tornEvents, todo, passTime, putting, faults>>

-----------------------------------------------------------------------------

Challenges(s) == {e \in events : e.subject = s}

ChallengeHasExpired(e, t) == e.expires <= t

\* A faulty variant: no limit on reissues.
NeedsChallengeUnlimited(s, t) ==
    \A e \in Challenges(s) : ChallengeHasExpired(e, t)

\* The subject has no challenge, or a single one whose window has closed.
NeedsChallenge(s, t) ==
    \/ Challenges(s) = {}
    \/ \E e \in events : Challenges(s) = {e} /\ ChallengeHasExpired(e, t)

(***************************************************************************)
(* A pass over the files of one store begins: it fixes its time, reads     *)
(* every event of the outbox (any torn file makes the whole read fail) and *)
(* lists the subjects.                                                     *)
(***************************************************************************)
BeginPass(p, subjects) ==
    /\ todo[p] = {}
    /\ putting[p] = {}
    /\ tornEvents = {}
    /\ LET due == {s \in stored \intersect subjects : NeedsChallenge(s, now)}
       IN  /\ due # {}
           /\ todo' = [todo EXCEPT ![p] = due]
    /\ passTime' = [passTime EXCEPT ![p] = now]
    /\ UNCHANGED <<now, stored, events, tornEvents, putting, faults>>

\* Both programs walk the candidate store.
ProjectExecutionReady(p) == BeginPass(p, Candidates)

\* The subjects of the stores a program walks, a store at a time.
RootsOf(p) == {Candidates} \union {Envelopes : q \in EventCli \intersect {p}}

ProjectRoots(p) == \E root \in RootsOf(p) : BeginPass(p, root)

\* Event nonces in use anywhere: a drawn nonce is fresh.
UsedNonces == {e.nonce : e \in events \union tornEvents}

\* A faulty variant: the window is added twice.
OpenEventLongWindow(p) ==
    /\ putting[p] = {}
    /\ \E s \in todo[p], n \in Nonces \ UsedNonces :
         LET e == [subject |-> s, nonce |-> n, created |-> passTime[p],
                   expires |-> passTime[p] + TTL + TTL]
         IN  /\ tornEvents' = tornEvents \union {e}
             /\ putting' = [putting EXCEPT ![p] = {e}]
             /\ todo' = [todo EXCEPT ![p] = @ \ {s}]
    /\ UNCHANGED <<now, stored, events, passTime, faults>>

(***************************************************************************)
(* put(event), first half: the file is created with O_EXCL and is visible  *)
(* under its final name while it is still empty.                           *)
(***************************************************************************)
OpenEvent(p) ==
    /\ putting[p] = {}
    /\ \E s \in todo[p], n \in Nonces \ UsedNonces :
         LET e == [subject |-> s, nonce |-> n, created |-> passTime[p],
                   expires |-> passTime[p] + TTL]
         IN  /\ tornEvents' = tornEvents \union {e}
             /\ putting' = [putting EXCEPT ![p] = {e}]
             /\ todo' = [todo EXCEPT ![p] = @ \ {s}]
    /\ UNCHANGED <<now, stored, events, passTime, faults>>

\* put(event), second half: the payload is written and flushed.
FinishEvent(p) ==
    /\ putting[p] # {}
    /\ events' = events \union putting[p]
    /\ tornEvents' = tornEvents \ putting[p]
    /\ putting' = [putting EXCEPT ![p] = {}]
    /\ UNCHANGED <<now, stored, todo, passTime, faults>>

\* An operation on the file system can fail, or the host can lose power.
MayFail == faults < MaxFaults /\ now <= LastFault

\* The write raises: put unlinks its file and the pass ends with the error.
FailEvent(p) ==
    /\ MayFail
    /\ putting[p] # {}
    /\ faults' = faults + 1
    /\ tornEvents' = tornEvents \ putting[p]
    /\ putting' = [putting EXCEPT ![p] = {}]
    /\ todo' = [todo EXCEPT ![p] = {}]
    /\ UNCHANGED <<now, stored, events, passTime>>

\* Power loss: nothing is unlinked, an open file stays torn.
CrashProjector(p) ==
    /\ MayFail
    /\ todo[p] # {} \/ putting[p] # {}
    /\ faults' = faults + 1
    /\ putting' = [putting EXCEPT ![p] = {}]
    /\ todo' = [todo EXCEPT ![p] = {}]
    /\ UNCHANGED <<now, stored, events, tornEvents, passTime>>

ProjectorStep ==
    \E p \in Projectors :
        \/ ProjectRoots(p)
        \/ OpenEvent(p)
        \/ FinishEvent(p)
        \/ FailEvent(p)
        \/ CrashProjector(p)

OutboxNext ==
    \/ Tick
    \/ \E s \in Subjects : Store(s)
    \/ ProjectorStep

OutboxSpec == OutboxInit /\ [][OutboxNext]_outboxVars

-----------------------------------------------------------------------------

(***************************************************************************)
(* "A single missed approval window may be reissued once for the exact     *)
(* same immutable envelope.  Further automatic reissues are prohibited":   *)
(* a subject never has three challenges, and two challenges of one subject *)
(* never wait for an answer at the same time.                              *)
(***************************************************************************)
BoundedReissue ==
    \A s \in Subjects :
        \A e, f \in Challenges(s) :
            e # f =>
                /\ ChallengeHasExpired(e, f.created) \/ ChallengeHasExpired(f, e.created)
                /\ Challenges(s) = {e, f}

\* A torn file that no running projector will complete or unlink: every later
\* read of the outbox fails.
OutboxWedged == tornEvents \ UNION {putting[p] : p \in Projectors} # {}

=============================================================================
