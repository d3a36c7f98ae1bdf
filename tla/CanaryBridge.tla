---------------------------- MODULE CanaryBridge ----------------------------
(***************************************************************************)
(* The canary bridge (src/iou_ai/canary_cli.py, canary_service.py,         *)
(* canary.py): the program between the quarantine and the event outbox.    *)
(* A pass takes the first pending envelopes in the order of their digests, *)
(* runs every compiled artifact of each in a throwaway virtual machine,    *)
(* stores a candidate for an artifact that passes, retires the envelope or *)
(* counts the attempt, and at its end projects the candidates into the     *)
(* outbox of EventOutbox, because no other program may read them.          *)
(*                                                                         *)
(* The reports a pass stores on its way are read by nobody before the      *)
(* candidate that names them exists and carry a timestamp, so a torn one   *)
(* is never met again: a canary and its reports are one step.              *)
(***************************************************************************)
EXTENDS EventOutbox, Sequences

CONSTANTS
    Compiled,       \* digests of quarantine envelopes with compiled artifacts
    ArtifactsOf,    \* [Compiled -> the artifacts of an envelope, in order]
    Origin,         \* [Candidates -> the artifact whose canary it records]
    DigestOrder,    \* [Compiled -> the place of its digest in a listing]
    Unsound,        \* artifacts that fail their reading or revalidation
    ByHand,         \* envelopes an operator may name with --envelope
    Bridge,         \* the bridge's process, a member of Projectors
    MaxAttempts,    \* --max-attempts
    MaxPerPass,     \* --max
    MaxByHand       \* bound: passes started by an operator

ArtifactSet(e) == {ArtifactsOf[e][i] : i \in 1 .. Len(ArtifactsOf[e])}

(***************************************************************************)
(* Digests have an order and no two envelopes have the same one.  The      *)
(* programs of a proposal have different ids, which their artifacts name,  *)
(* and a candidate names the envelope of its artifact: an artifact here is *)
(* one entry of one envelope.                                              *)
(***************************************************************************)
ASSUME BridgeAssumption ==
    /\ Bridge \in Projectors
    /\ ByHand \subseteq Compiled
    /\ DigestOrder \in [Compiled -> Nat]
    /\ \A e, f \in Compiled : DigestOrder[e] = DigestOrder[f] => e = f
    /\ \A e \in Compiled : ArtifactsOf[e] \in Seq(ArtifactSet(e))
    /\ \A e, f \in Compiled :
         \A i \in DOMAIN ArtifactsOf[e], j \in DOMAIN ArtifactsOf[f] :
           ArtifactsOf[e][i] = ArtifactsOf[f][j] => e = f /\ i = j
    /\ MaxAttempts \in Nat \ {0}
    /\ MaxPerPass \in Nat \ {0}
    /\ MaxByHand \in Nat

VARIABLES
    quarantined,    \* envelopes that are complete
    tornEnvelopes,  \* envelopes whose write was cut short
    tornCandidates, \* candidate files that exist but are not complete
    attempts,       \* [Compiled -> the number in its .attempts file]
    done,           \* envelopes with a .done marker
    targets,        \* the envelopes the running pass still has to process
    work,           \* the artifacts of the first target still to be run
    ready,          \* whether process_envelope has a candidate_ready result
    writing,        \* the candidate whose file is open, as a set
    bpc,            \* where the bridge is
    trials,         \* history: [Compiled -> completed runs that made no candidate]
    byHand          \* history: passes started by an operator

storeVars == <<quarantined, tornEnvelopes, tornCandidates, attempts, done>>
passVars == <<targets, work, ready, writing, bpc>>
bridgeVars == <<storeVars, passVars, trials, byHand>>
vars == <<outboxVars, bridgeVars>>

Init ==
    /\ OutboxInit
    /\ quarantined = {}
    /\ tornEnvelopes = {}
    /\ tornCandidates = {}
    /\ attempts = [e \in Compiled |-> 0]
    /\ done = {}
    /\ targets = <<>>
    /\ work = <<>>
    /\ ready = FALSE
    /\ writing = {}
    /\ bpc = "idle"
    /\ trials = [e \in Compiled |-> 0]
    /\ byHand = 0

-----------------------------------------------------------------------------

\* The pipeline puts an envelope; a power loss while it writes tears the file.
PutEnvelope(e) ==
    /\ e \notin quarantined \union tornEnvelopes
    /\ \/ /\ quarantined' = quarantined \union {e}
          /\ UNCHANGED <<tornEnvelopes, faults>>
       \/ /\ MayFail
          /\ faults' = faults + 1
          /\ tornEnvelopes' = tornEnvelopes \union {e}
          /\ UNCHANGED quarantined
    /\ UNCHANGED <<now, stored, events, tornEvents, todo, passTime, putting,
                   tornCandidates, attempts, done, passVars, trials, byHand>>

\* Envelopes a scan still has to run: not retired and not out of attempts.
Pending == {e \in quarantined \ done : attempts[e] < MaxAttempts}

\* The first members of a set of envelopes in listing order, at most
\* MaxPerPass of them; there is one such list.
FirstOf(S) ==
    {list \in UNION {[1 .. n -> S] : n \in 0 .. MaxPerPass} :
       /\ \A i, j \in DOMAIN list :
            i < j => DigestOrder[list[i]] < DigestOrder[list[j]]
       /\ \A e \in S \ {list[i] : i \in DOMAIN list} :
            /\ Len(list) = MaxPerPass
            /\ \A i \in DOMAIN list : DigestOrder[list[i]] < DigestOrder[e]}

\* The bridge is not running: its last pass has ended or died.
BridgeIdle == bpc = "idle" /\ todo[Bridge] = {} /\ putting[Bridge] = {}

StartPass(list) ==
    /\ BridgeIdle
    /\ list # <<>>
    /\ targets' = list
    /\ bpc' = "envelope"
    /\ UNCHANGED <<outboxVars, storeVars, work, ready, writing, trials>>

(***************************************************************************)
(* A scan verifies every envelope of the quarantine and dies on a torn     *)
(* one; with nothing pending it returns before it has projected anything.  *)
(***************************************************************************)
Scan ==
    /\ tornEnvelopes = {}
    /\ \E list \in FirstOf(Pending) : StartPass(list)
    /\ UNCHANGED byHand

\* An operator names the envelope: markers and attempts are not consulted.
RunByHand(e) ==
    /\ e \in ByHand
    /\ byHand < MaxByHand
    /\ byHand' = byHand + 1
    /\ StartPass(<<e>>)

\* The history counts up to what retires an envelope.
OneMore(n) == IF n < MaxAttempts THEN n + 1 ELSE n

\* process_envelope reads its envelope.
OpenEnvelope ==
    /\ bpc = "envelope"
    /\ Head(targets) \in quarantined
    /\ work' = ArtifactsOf[Head(targets)]
    /\ ready' = FALSE
    /\ bpc' = "artifact"
    /\ UNCHANGED <<outboxVars, storeVars, targets, writing, trials, byHand>>

\* The envelope is unavailable: a CanaryServiceError, which counts.
EnvelopeUnavailable ==
    /\ bpc = "envelope"
    /\ Head(targets) \notin quarantined
    /\ ready' = FALSE
    /\ bpc' = "record"
    /\ trials' = [trials EXCEPT ![Head(targets)] = OneMore(@)]
    /\ UNCHANGED <<outboxVars, storeVars, targets, work, writing, byHand>>

\* The running pass ends, or the process dies with it.
EndPass ==
    /\ bpc' = "idle"
    /\ targets' = <<>>
    /\ work' = <<>>
    /\ ready' = FALSE
    /\ writing' = {}

\* An ArtifactError or ExecutionAuthorityError is caught nowhere.
ArtifactRaises ==
    /\ bpc = "artifact"
    /\ work # <<>>
    /\ Head(work) \in Unsound
    /\ EndPass
    /\ UNCHANGED <<outboxVars, storeVars, trials, byHand>>

SoundArtifact == bpc = "artifact" /\ work # <<>> /\ Head(work) \notin Unsound

\* A faulty variant: the disturbed envelope is given up like a rejected one.
FleetDisturbedCounted ==
    /\ SoundArtifact
    /\ MayFail
    /\ faults' = faults + 1
    /\ attempts' = [attempts EXCEPT ![Head(targets)] = @ + 1]
    /\ EndPass
    /\ UNCHANGED <<now, stored, events, tornEvents, todo, passTime, putting,
                   quarantined, tornEnvelopes, tornCandidates, done, trials, byHand>>

(***************************************************************************)
(* The worker set of the live fleet changed while the canary ran: no       *)
(* report, no attempt, no further envelope and no projection.              *)
(***************************************************************************)
FleetDisturbed ==
    /\ SoundArtifact
    /\ MayFail
    /\ faults' = faults + 1
    /\ EndPass
    /\ UNCHANGED <<now, stored, events, tornEvents, todo, passTime, putting,
                   storeVars, trials, byHand>>

\* The canary rejects the artifact, or its infrastructure fails.
CanaryRejects ==
    /\ SoundArtifact
    /\ work' = Tail(work)
    /\ UNCHANGED <<outboxVars, storeVars, targets, ready, writing, bpc, trials, byHand>>

(***************************************************************************)
(* The canary passes and the candidate's file is created.  Its digest is   *)
(* new each time, because it covers the times of this canary.  The bound   *)
(* on how often an artifact passes is the candidates Origin gives it.      *)
(***************************************************************************)
CanaryPasses ==
    /\ SoundArtifact
    /\ \E c \in Candidates \ (stored \union tornCandidates) :
         /\ Origin[c] = Head(work)
         /\ tornCandidates' = tornCandidates \union {c}
         /\ writing' = {c}
    /\ bpc' = "writing"
    /\ UNCHANGED <<outboxVars, quarantined, tornEnvelopes, attempts, done,
                   targets, work, ready, trials, byHand>>

FinishCandidate ==
    /\ bpc = "writing"
    /\ stored' = stored \union writing
    /\ tornCandidates' = tornCandidates \ writing
    /\ writing' = {}
    /\ work' = Tail(work)
    /\ ready' = TRUE
    /\ bpc' = "artifact"
    /\ UNCHANGED <<now, events, tornEvents, todo, passTime, putting, faults,
                   quarantined, tornEnvelopes, attempts, done, targets, trials, byHand>>

\* The write raises: the file is unlinked and the process dies.
FailCandidate ==
    /\ MayFail
    /\ bpc = "writing"
    /\ faults' = faults + 1
    /\ tornCandidates' = tornCandidates \ writing
    /\ EndPass
    /\ UNCHANGED <<now, stored, events, tornEvents, todo, passTime, putting,
                   quarantined, tornEnvelopes, attempts, done, trials, byHand>>

\* process_envelope returns the results of all artifacts.
EnvelopeProcessed ==
    /\ bpc = "artifact"
    /\ work = <<>>
    /\ bpc' = "record"
    /\ trials' = IF ready THEN trials
                 ELSE [trials EXCEPT ![Head(targets)] = OneMore(@)]
    /\ UNCHANGED <<outboxVars, storeVars, targets, work, ready, writing, byHand>>

NextTarget ==
    /\ targets' = Tail(targets)
    /\ bpc' = IF Tail(targets) = <<>> THEN "project" ELSE "envelope"

\* Faulty variants: a pass counts like a rejection; a rejection does not count.
RecordAttemptAlways ==
    /\ bpc = "record"
    /\ LET e == Head(targets)
       IN  /\ attempts' = [attempts EXCEPT ![e] = @ + 1]
           /\ done' = IF attempts[e] + 1 >= MaxAttempts THEN done \union {e} ELSE done
    /\ NextTarget
    /\ UNCHANGED <<outboxVars, quarantined, tornEnvelopes, tornCandidates,
                   work, ready, writing, trials, byHand>>
RecordPassOnly ==
    /\ bpc = "record"
    /\ done' = IF ready THEN done \union {Head(targets)} ELSE done
    /\ NextTarget
    /\ UNCHANGED <<outboxVars, quarantined, tornEnvelopes, tornCandidates, attempts,
                   work, ready, writing, trials, byHand>>

\* Retire on success, else count, and retire after MaxAttempts.
RecordAttempt ==
    /\ bpc = "record"
    /\ LET e == Head(targets)
       IN  IF ready
           THEN done' = done \union {e} /\ UNCHANGED attempts
           ELSE /\ attempts' = [attempts EXCEPT ![e] = @ + 1]
                /\ done' = IF attempts[e] + 1 >= MaxAttempts THEN done \union {e} ELSE done
    /\ NextTarget
    /\ UNCHANGED <<outboxVars, quarantined, tornEnvelopes, tornCandidates,
                   work, ready, writing, trials, byHand>>

\* A faulty variant: the pass ends without a projection.
ProjectNothing ==
    /\ bpc = "project"
    /\ EndPass
    /\ UNCHANGED <<outboxVars, storeVars, trials, byHand>>

(***************************************************************************)
(* project_execution_ready.  A torn candidate file raises when the listing *)
(* reaches it, after the candidates before it were projected; the error is *)
(* caught, as is that of a torn event, which projects nothing.             *)
(***************************************************************************)
Project ==
    /\ bpc = "project"
    /\ \/ /\ tornCandidates = {}
          /\ BeginPass(Bridge, Candidates)
       \/ /\ tornCandidates # {}
          /\ \E listed \in SUBSET Candidates : BeginPass(Bridge, listed)
       \/ /\ \/ tornEvents # {}
             \/ tornCandidates # {}
             \/ \A c \in stored : ~ NeedsChallenge(c, now)
          /\ UNCHANGED outboxVars
    /\ EndPass
    /\ UNCHANGED <<storeVars, trials, byHand>>

(***************************************************************************)
(* Power loss.  A candidate that is being written stays torn.  The attempt *)
(* counter is rewritten in place: it may be lost, and an empty file counts *)
(* as zero; the marker that follows it may be missing.                     *)
(***************************************************************************)
CrashBridge ==
    /\ MayFail
    /\ bpc # "idle"
    /\ faults' = faults + 1
    /\ \/ UNCHANGED attempts
       \/ /\ bpc = "record" /\ ~ ready
          /\ \E n \in {0, attempts[Head(targets)] + 1} :
               attempts' = [attempts EXCEPT ![Head(targets)] = n]
    /\ EndPass
    /\ UNCHANGED <<now, stored, events, tornEvents, todo, passTime, putting,
                   quarantined, tornEnvelopes, tornCandidates, done, trials, byHand>>

\* One step of a running pass, up to the projection's event files.
BridgeStep ==
    \/ OpenEnvelope
    \/ EnvelopeUnavailable
    \/ ArtifactRaises
    \/ CanaryRejects
    \/ CanaryPasses
    \/ FinishCandidate
    \/ EnvelopeProcessed
    \/ RecordAttempt
    \/ Project

\* The event files of the projection, and the clock.
WriteEvents ==
    /\ OpenEvent(Bridge) \/ FinishEvent(Bridge)
    /\ UNCHANGED bridgeVars

LoseEvents ==
    /\ FailEvent(Bridge) \/ CrashProjector(Bridge)
    /\ UNCHANGED bridgeVars

Next ==
    \/ \E e \in Compiled : PutEnvelope(e) \/ RunByHand(e)
    \/ Scan
    \/ BridgeStep
    \/ FleetDisturbed
    \/ FailCandidate
    \/ CrashBridge
    \/ WriteEvents
    \/ LoseEvents
    \/ Tick /\ UNCHANGED bridgeVars

(***************************************************************************)
(* The timer starts scans again and again and a pass that runs goes on.    *)
(***************************************************************************)
Fairness ==
    /\ WF_vars(Scan)
    /\ WF_vars(BridgeStep)
    /\ WF_vars(WriteEvents)

Spec == Init /\ [][Next]_vars
FairSpec == Spec /\ Fairness

-----------------------------------------------------------------------------

MadeFrom(e) == {c \in stored : Origin[c] \in ArtifactSet(e)}

(***************************************************************************)
(* "Retiring an envelope on a single rejection would silently discard      *)
(* artifacts the paid planner produced": an envelope is taken out of the   *)
(* scans only when a candidate was made from it or after MaxAttempts       *)
(* complete trials, whatever crashed or was disturbed meanwhile.           *)
(***************************************************************************)
RetiredFairly ==
    \A e \in Compiled :
        (e \in done \/ attempts[e] >= MaxAttempts) =>
            MadeFrom(e) # {} \/ trials[e] >= MaxAttempts

(***************************************************************************)
(* An artifact gets a second candidate, and the operator a second request, *)
(* only if a pass was cut short between the candidate and the marker, or   *)
(* an operator asked for it.                                               *)
(***************************************************************************)
OneCandidatePerArtifact ==
    \A e \in Compiled : \A c, d \in MadeFrom(e) :
        (c # d /\ Origin[c] = Origin[d]) =>
            faults > 0 \/ byHand > 0 \/ ArtifactSet(e) \intersect Unsound # {}

\* A torn envelope ends every scan; so does an envelope that raises, for
\* itself and for those listed after it.
ScanBlockedFor(e) ==
    \/ tornEnvelopes # {}
    \/ \E f \in Pending :
         DigestOrder[f] <= DigestOrder[e] /\ ArtifactSet(f) \intersect Unsound # {}

(***************************************************************************)
(* "a genuinely bad envelope stops consuming canary time": an envelope is  *)
(* retired eventually, unless a torn or raising one is in its way.         *)
(***************************************************************************)
EnvelopeRetires ==
    \A e \in Compiled :
        (e \in quarantined) ~> (e \notin Pending \/ ScanBlockedFor(e))

\* A projection was missed and no scan will make up for it: with nothing
\* pending the bridge returns before it projects.
Stranded == faults > 0 /\ BridgeIdle /\ Pending = {}

(***************************************************************************)
(* "Emit the redacted execution-ready approval event(s) for any candidate  *)
(* that does not yet have an outstanding challenge": a stored candidate is *)
(* put to the operator, unless a torn file, a raising envelope or a missed *)
(* projection is in the way.                                               *)
(***************************************************************************)
CandidateIsChallenged ==
    \A c \in Candidates :
        (c \in stored) ~>
            \/ Challenges(c) # {}
            \/ OutboxWedged
            \/ tornCandidates \ writing # {}
            \/ Stranded
            \/ \E e \in Compiled : ScanBlockedFor(e)

=============================================================================
