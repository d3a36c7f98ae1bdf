---------------------------- MODULE PlannerCycle ----------------------------
(***************************************************************************)
(* The planning cycle: the telemetry builder (src/iou_ai/telemetry.py)     *)
(* turns fleet statistics, mail evidence and earlier reviews into a packet;*)
(* the scheduled planner run (cli.py run-if-needed with triggers.py) takes *)
(* the packet, decides whether its material is worth a paid call, marks    *)
(* the attempt and runs the pipeline (pipeline.py), which stores the       *)
(* reviewer's feedback (feedback.py) and the accepted envelope             *)
(* (quarantine.py); the feedback goes into the next packet.                *)
(*                                                                         *)
(* Builder and planner are oneshot units on timers: one process of each    *)
(* at a time, the two of them concurrently.  The planner's unit is         *)
(* interrupted before its lease could look stale (25 minutes against 30),  *)
(* in which case its handlers mark a failure and remove the lock; a power  *)
(* loss runs no handler.  Times are ages, counted up to the largest value  *)
(* anything compares them with.  The budget ledger, which may refuse any   *)
(* call, is module BudgetLedger; here a refused call is a failed one.      *)
(***************************************************************************)
EXTENDS Naturals, FiniteSets, FiniteSetsExt

CONSTANTS
    Refresh,        \* trigger_refresh_seconds
    Retry,          \* trigger_retry_seconds
    Lease,          \* lease_seconds
    Freshness,      \* the age a packet may have when it is used
    Period,         \* the period of the builder's timer
    EvidenceLimit,  \* mails a packet shows (load_lkml_evidence)
    OutcomeLimit,   \* reviews a packet shows (load_prior_proposal_outcomes)
    MaxFeedback,    \* objects iter_verified is willing to read
    MaxReviews,     \* bound: reviews
    LastMail,       \* bound: mails
    MaxGrowth,      \* bound: coverage found by the fleet
    MaxFlips,       \* bound: changes of the fleet's health
    MaxCrashes      \* bound: interrupted or killed processes

ASSUME CycleAssumption ==
    /\ Refresh \in Nat \ {0}
    /\ Retry \in Nat \ {0}
    /\ Lease \in Nat
    /\ Period \in Nat \ {0}
    /\ Freshness \in Nat
    /\ EvidenceLimit \in Nat \ {0}
    /\ OutcomeLimit \in Nat \ {0}
    /\ MaxFeedback \in Nat \ {0}
    /\ {MaxReviews, LastMail, MaxGrowth, MaxFlips, MaxCrashes} \subseteq Nat

VARIABLES
    mail,           \* how many mails the collector has stored
    growth,         \* coverage the fleet has found
    healthy,        \* whether all workers run
    flips,          \* how often that has changed
    baseline,       \* the coverage in the builder's state file, as a set
    packet,         \* the published packet, as a set
    packetAge,
    feedback,       \* how many reviews are stored
    torn,           \* whether the feedback store has a cut-short object
    lock,           \* the age of the lock file, as a set
    trigger,        \* the trigger state file
    pc,             \* where the planner run is
    held,           \* the packet it works on, as a set
    heldAge,
    crashes,
    last,           \* history: the last marked attempt
    reported,       \* history: coverage shown by published packets
    planned         \* history: mails some planner call has shown

fleetVars == <<mail, growth, healthy, flips>>
builderVars == <<baseline, packet, packetAge, reported>>
storeVars == <<feedback, torn>>
triggerVars == <<lock, trigger, last>>
runVars == <<pc, held, heldAge, planned>>
vars == <<fleetVars, builderVars, storeVars, triggerVars, runVars, crashes>>

\* evidence and healthy stand for all the material.  The coverage window is
\* kept apart: nothing behind the packet depends on it.
Packets ==
    [evidence : SUBSET (1 .. LastMail), healthy : BOOLEAN,
     outcomes : SUBSET (1 .. MaxReviews)]

\* material_digest
Digest(p) == [evidence |-> p.evidence, healthy |-> p.healthy]

Digests == [evidence : SUBSET (1 .. LastMail), healthy : BOOLEAN]

\* The longest time a decision looks back: either interval may be the longer.
Longest == Max({Retry, Refresh})

AtMostOne(s) == Cardinality(s) <= 1

TypeOK ==
    /\ mail \in 0 .. LastMail
    /\ growth \in 0 .. MaxGrowth
    /\ healthy \in BOOLEAN
    /\ flips \in 0 .. MaxFlips
    /\ baseline \subseteq 0 .. growth /\ AtMostOne(baseline)
    /\ AtMostOne(packet) /\ AtMostOne(held)
    /\ \A p \in packet \union held : p \in Packets
    /\ packetAge \in 0 .. Freshness + 1
    /\ heldAge \in 0 .. Freshness + 1
    /\ feedback \in 0 .. MaxReviews
    /\ torn \in BOOLEAN
    /\ lock \subseteq 0 .. Lease + 1 /\ AtMostOne(lock)
    /\ trigger.status \in {"none", "running", "failed", "completed"}
    /\ trigger.attempt \subseteq Digests /\ AtMostOne(trigger.attempt)
    /\ trigger.success \subseteq Digests /\ AtMostOne(trigger.success)
    /\ trigger.attemptAge \in 0 .. Retry
    /\ trigger.successAge \in 0 .. Longest
    /\ pc \in {"idle", "leased", "started", "planning", "reviewing", "writing",
               "accepted", "failing", "completing"}
    /\ crashes \in 0 .. MaxCrashes
    /\ last.digest \subseteq Digests
    /\ last.age \in 0 .. Longest
    /\ last.done \in BOOLEAN
    /\ reported \in 0 .. MaxGrowth + 1
    /\ planned \subseteq 1 .. mail
    \* A live run holds the lock, and the lock is not stale.
    /\ pc # "idle" => \E age \in lock : age <= Lease

Init ==
    /\ mail = 0
    /\ growth = 0
    /\ healthy = TRUE
    /\ flips = 0
    /\ baseline = {}
    /\ packet = {}
    /\ packetAge = 0
    /\ feedback = 0
    /\ torn = FALSE
    /\ lock = {}
    /\ trigger = [attempt |-> {}, status |-> "none", attemptAge |-> 0,
                  success |-> {}, successAge |-> 0]
    /\ pc = "idle"
    /\ held = {}
    /\ heldAge = 0
    /\ crashes = 0
    /\ last = [digest |-> {}, age |-> 0, done |-> FALSE]
    /\ reported = 0
    /\ planned = {}

-----------------------------------------------------------------------------
(***************************************************************************)
(* The fleet and the collector.                                            *)
(***************************************************************************)

MailArrives ==
    /\ mail < LastMail
    /\ mail' = mail + 1
    /\ UNCHANGED <<growth, healthy, flips, builderVars, storeVars, triggerVars,
                   runVars, crashes>>

CoverageGrows ==
    /\ growth < MaxGrowth
    /\ growth' = growth + 1
    /\ UNCHANGED <<mail, healthy, flips, builderVars, storeVars, triggerVars,
                   runVars, crashes>>

HealthChanges ==
    /\ flips < MaxFlips
    /\ flips' = flips + 1
    /\ healthy' = ~ healthy
    /\ UNCHANGED <<mail, growth, builderVars, storeVars, triggerVars, runVars,
                   crashes>>

-----------------------------------------------------------------------------
(***************************************************************************)
(* The telemetry builder.                                                  *)
(***************************************************************************)

\* load_lkml_evidence: the newest mails.
NewestMail == {m \in 1 .. mail : mail < m + EvidenceLimit}

\* FeedbackStore.iter_verified reads every object or raises: nothing is ever
\* read again after one was cut short, or once there are too many.
FeedbackLost == torn \/ feedback > MaxFeedback

FeedbackReadable == ~ FeedbackLost /\ pc # "writing"

\* A faulty variant: the oldest records are taken.
OutcomesOldest == {i \in 1 .. feedback : i <= OutcomeLimit}

\* load_prior_proposal_outcomes: the newest records.  A scheduled run reviews
\* a packet once, so no two of them are about the same packet and proposal.
Outcomes == {i \in 1 .. feedback : feedback < i + OutcomeLimit}

Least(a, b) == IF a < b THEN a ELSE b

\* Coverage since the state file; none when there is no state file.
Delta == IF baseline = {} THEN 0 ELSE growth - Max(baseline)

NewPacket ==
    [evidence |-> NewestMail, healthy |-> healthy, outcomes |-> Outcomes]

\* The builder's timer.
BuildIsDue == packet = {} \/ packetAge >= Period

\* build_packet and main: nothing is written unless every input was read;
\* then the state file is replaced, and after it the packet file.
BuildPacket ==
    /\ BuildIsDue
    /\ FeedbackReadable
    /\ baseline' = {growth}
    /\ packet' = {NewPacket}
    /\ packetAge' = 0
    /\ reported' = Least(reported + Delta, MaxGrowth + 1)
    /\ UNCHANGED <<fleetVars, storeVars, triggerVars, runVars, crashes>>

\* A faulty variant: the packet file is replaced first.
BuilderDiesPacketFirst ==
    /\ BuildIsDue
    /\ FeedbackReadable
    /\ crashes < MaxCrashes
    /\ crashes' = crashes + 1
    /\ packet' = {NewPacket}
    /\ packetAge' = 0
    /\ reported' = Least(reported + Delta, MaxGrowth + 1)
    /\ UNCHANGED <<baseline, fleetVars, storeVars, triggerVars, runVars>>

\* The builder dies between its two files: the window it read is lost.  (The
\* state file is its own, so nobody else sees the time between the two.)
BuilderDies ==
    /\ BuildIsDue
    /\ FeedbackReadable
    /\ crashes < MaxCrashes
    /\ crashes' = crashes + 1
    /\ baseline' = {growth}
    /\ UNCHANGED <<packet, packetAge, reported, fleetVars, storeVars,
                   triggerVars, runVars>>

-----------------------------------------------------------------------------
(***************************************************************************)
(* The scheduled run: lease, decision, attempt.                            *)
(***************************************************************************)

\* A faulty variant: a stale lock is taken over as it is.
TakeLeaseAsItIs ==
    /\ pc = "idle"
    /\ packet # {}
    /\ lock = {} \/ \E age \in lock : age > Lease
    /\ lock' = IF lock = {} THEN {0} ELSE lock
    /\ held' = packet
    /\ heldAge' = packetAge
    /\ pc' = "leased"
    /\ UNCHANGED <<planned, trigger, last, fleetVars, builderVars, storeVars,
                   crashes>>

\* run-if-needed reads the packet and takes the lease; a stale lock is
\* removed first, and with any other lock the run ends.
TakeLease ==
    /\ pc = "idle"
    /\ packet # {}
    /\ lock = {} \/ \E age \in lock : age > Lease
    /\ lock' = {0}
    /\ held' = packet
    /\ heldAge' = packetAge
    /\ pc' = "leased"
    /\ UNCHANGED <<planned, trigger, last, fleetVars,
                   builderVars, storeVars, crashes>>

\* same_failed_attempt_in_cooldown
InCooldown(d) ==
    /\ d \in trigger.attempt
    /\ trigger.status \in {"running", "failed"}
    /\ trigger.attemptAge < Retry
    /\ trigger.success = {} \/ trigger.attemptAge <= trigger.successAge

\* Faulty variants: a run that died does not count as an attempt; material
\* that was ever attempted is taken for planned.
ShouldRunAfterDeath(d) ==
    /\ ~ (InCooldown(d) /\ trigger.status = "failed")
    /\ d \in trigger.success => trigger.successAge >= Refresh
ShouldRunOnce(d) ==
    /\ d \notin trigger.attempt
    /\ d \in trigger.success => trigger.successAge >= Refresh

\* assess
ShouldRun(d) ==
    /\ ~ InCooldown(d)
    /\ d \in trigger.success => trigger.successAge >= Refresh

\* What a run forgets when it ends.
EndRun ==
    /\ pc' = "idle"
    /\ held' = {}
    /\ heldAge' = 0
    /\ UNCHANGED <<planned, fleetVars, builderVars>>

Skip ==
    /\ pc = "leased"
    /\ \E p \in held : ~ ShouldRun(Digest(p))
    /\ lock' = {}
    /\ EndRun
    /\ UNCHANGED <<trigger, last, storeVars, crashes>>

MarkAttempt ==
    /\ pc = "leased"
    /\ \E p \in held :
        /\ ShouldRun(Digest(p))
        /\ trigger' = [trigger EXCEPT !.attempt = {Digest(p)},
                                      !.status = "running", !.attemptAge = 0]
        /\ last' = [digest |-> {Digest(p)}, age |-> 0, done |-> FALSE]
    /\ pc' = "started"
    /\ UNCHANGED <<lock, held, heldAge, planned, fleetVars,
                   builderVars, storeVars, crashes>>

-----------------------------------------------------------------------------
(***************************************************************************)
(* The pipeline.                                                           *)
(***************************************************************************)

Goto(from, to) ==
    /\ pc = from
    /\ pc' = to
    /\ UNCHANGED <<held, triggerVars, fleetVars, builderVars, crashes>>

\* validate_run_inputs: a packet that is too old is refused before any call.
Refuse ==
    /\ heldAge > Freshness
    /\ Goto("started", "failing")
    /\ UNCHANGED <<heldAge, planned, storeVars>>

CallPlanner ==
    /\ heldAge <= Freshness
    /\ Goto("started", "planning")
    /\ planned' = planned \union UNION {p.evidence : p \in held}
    /\ heldAge' = 0
    /\ UNCHANGED storeVars

\* No provider answers, or the ledger refuses.
PlannerFails ==
    /\ Goto("planning", "failing")
    /\ UNCHANGED <<heldAge, planned, storeVars>>

\* validate_proposal finds a fault in the answer.
ProposalInvalid ==
    /\ Goto("planning", "failing")
    /\ UNCHANGED <<heldAge, planned, storeVars>>

Abstain ==
    /\ Goto("planning", "completing")
    /\ UNCHANGED <<heldAge, planned, storeVars>>

Propose ==
    /\ feedback < MaxReviews
    /\ Goto("planning", "reviewing")
    /\ UNCHANGED <<heldAge, planned, storeVars>>

\* The reviewer fails, or build_review_feedback finds its answer unbound.
ReviewerFails ==
    /\ Goto("reviewing", "failing")
    /\ UNCHANGED <<heldAge, planned, storeVars>>

\* FeedbackStore.put creates the object...
OpenFeedback ==
    /\ Goto("reviewing", "writing")
    /\ UNCHANGED <<heldAge, planned, storeVars>>

\* ... and completes it; the acceptance gate comes after it.
FinishFeedback ==
    /\ \/ Goto("writing", "failing")
       \/ Goto("writing", "accepted")
    /\ feedback' = feedback + 1
    /\ UNCHANGED <<heldAge, planned, torn>>

\* The sampled audit disagrees, or has no answer.
AuditFails ==
    /\ Goto("accepted", "failing")
    /\ UNCHANGED <<heldAge, planned, storeVars>>

\* A program does not compile, or its artifact cannot be stored.
CompilationFails ==
    /\ Goto("accepted", "failing")
    /\ UNCHANGED <<heldAge, planned, storeVars>>

\* QuarantineStore.put: the envelope, which module CanaryBridge takes up.
Quarantine ==
    /\ Goto("accepted", "completing")
    /\ UNCHANGED <<heldAge, planned, storeVars>>

MarkFailed ==
    /\ pc = "failing"
    /\ trigger' = [trigger EXCEPT !.attempt = {Digest(p) : p \in held},
                                  !.status = "failed", !.attemptAge = 0]
    /\ lock' = {}
    /\ EndRun
    /\ UNCHANGED <<last, storeVars, crashes>>

MarkCompleted ==
    /\ pc = "completing"
    /\ trigger' = [attempt |-> {Digest(p) : p \in held}, status |-> "completed",
                   attemptAge |-> 0,
                   success |-> {Digest(p) : p \in held}, successAge |-> 0]
    /\ last' = [last EXCEPT !.done = TRUE]
    /\ lock' = {}
    /\ EndRun
    /\ UNCHANGED <<storeVars, crashes>>

\* The unit's timeout interrupts the run (KillSignal=SIGINT): whatever it has
\* open is unlinked, the pipeline's error is marked unless the interrupt comes
\* before the attempt or after the pipeline, and the lock is removed.
RunInterrupted ==
    /\ pc # "idle"
    /\ crashes < MaxCrashes
    /\ crashes' = crashes + 1
    /\ trigger' = IF pc \in {"leased", "failing", "completing"} THEN trigger
                  ELSE [trigger EXCEPT !.attempt = {Digest(p) : p \in held},
                                       !.status = "failed", !.attemptAge = 0]
    /\ lock' = {}
    /\ EndRun
    /\ UNCHANGED <<last, storeVars>>

\* A power loss: the lock stays, the status stays what it was, and an object
\* that is being written stays cut short.
RunDies ==
    /\ pc # "idle"
    /\ crashes < MaxCrashes
    /\ crashes' = crashes + 1
    /\ torn' = (torn \/ pc = "writing")
    /\ EndRun
    /\ UNCHANGED <<feedback, triggerVars>>

-----------------------------------------------------------------------------

Older(ages, cap) == {Least(age + 1, cap) : age \in ages}

\* Time passes.  The timer of the builder is not missed while the builder can
\* succeed, and a live run does not outlive its unit's timeout.
Tick ==
    /\ packet # {} => FeedbackLost \/ packetAge < Period
    /\ pc # "idle" => \A age \in lock : age < Lease
    /\ packetAge' = IF packet = {} THEN 0 ELSE Least(packetAge + 1, Freshness + 1)
    /\ heldAge' = IF pc \in {"leased", "started"}
                  THEN Least(heldAge + 1, Freshness + 1) ELSE 0
    /\ lock' = Older(lock, Lease + 1)
    /\ trigger' = [trigger EXCEPT
            !.attemptAge = IF trigger.attempt = {} THEN 0 ELSE Least(@ + 1, Retry),
            !.successAge = IF trigger.success = {} THEN 0 ELSE Least(@ + 1, Longest)]
    /\ last' = [last EXCEPT !.age = IF last.digest = {} THEN 0 ELSE Least(@ + 1, Longest)]
    /\ UNCHANGED <<baseline, packet, reported, pc, held, planned, fleetVars, storeVars, crashes>>

Fleet == MailArrives \/ CoverageGrows \/ HealthChanges

PlannerRun ==
    \/ TakeLease \/ Skip \/ MarkAttempt \/ Refuse \/ CallPlanner
    \/ PlannerFails \/ ProposalInvalid \/ Abstain \/ Propose \/ ReviewerFails
    \/ OpenFeedback \/ FinishFeedback \/ AuditFails \/ CompilationFails
    \/ Quarantine
    \/ MarkFailed \/ MarkCompleted

Next == Fleet \/ BuildPacket \/ BuilderDies \/ PlannerRun
        \/ RunInterrupted \/ RunDies \/ Tick

\* Both timers keep firing, a started unit goes on, and time passes: runs
\* that find nothing to do do not hold the clock.
Fairness == WF_vars(BuildPacket) /\ WF_vars(PlannerRun) /\ SF_vars(Tick)

Spec == Init /\ [][Next]_vars
FairSpec == Spec /\ Fairness

-----------------------------------------------------------------------------

(***************************************************************************)
(* The windows of the packets do not overlap: the packets the planner may  *)
(* have seen never show more new coverage than the fleet has found, a      *)
(* builder that dies between its two files included.                       *)
(***************************************************************************)
NoGrowthTwice == reported <= growth

(***************************************************************************)
(* Paid work is not repeated early: material is attempted again, with no   *)
(* other material attempted in between, only when Refresh has passed since *)
(* it was completed or Retry since it was started, even if the run that    *)
(* started it died without a trace and its lock was taken over.            *)
(***************************************************************************)
CooldownKept ==
    [][(pc = "leased" /\ pc' = "started" /\ last'.digest = last.digest)
        => last.age >= (IF last.done THEN Refresh ELSE Retry)]_vars

(***************************************************************************)
(* New material reaches the planner: every stored mail is shown in some    *)
(* planner call, unless newer mails push it out of the packet first, or    *)
(* the feedback store has become unreadable and no packet is built again.  *)
(***************************************************************************)
MaterialIsPlanned ==
    \A m \in 1 .. LastMail :
        (m <= mail) ~> m \in planned \/ m \notin NewestMail \/ FeedbackLost

(***************************************************************************)
(* A review guides the planner: it appears among the outcomes of a         *)
(* published packet, unless OutcomeLimit newer ones have taken its place or*)
(* the feedback store has become unreadable.                               *)
(***************************************************************************)
FeedbackGuides ==
    \A i \in 1 .. MaxReviews :
        (i <= feedback) ~>
            \/ \E p \in packet : i \in p.outcomes
            \/ feedback >= i + OutcomeLimit
            \/ FeedbackLost

============================================================================
