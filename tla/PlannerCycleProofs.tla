------------------------- MODULE PlannerCycleProofs -------------------------
(***************************************************************************)
(* What the trigger state, the lease and the telemetry builder guarantee   *)
(* for every choice of intervals, however many runs die.                   *)
(***************************************************************************)
EXTENDS PlannerCycle, FiniteLemmas

-----------------------------------------------------------------------------
(***************************************************************************)
(* The inductive invariants.                                               *)
(***************************************************************************)

\* A file that is missing, or there once.
Optional(s) == s = {} \/ \E x : s = {x}

TriggerFile ==
    [attempt : SUBSET Digests, status : {"none", "running", "failed", "completed"},
     attemptAge : 0 .. Retry, success : SUBSET Digests, successAge : 0 .. Longest]

LastAttempt == [digest : SUBSET Digests, age : 0 .. Longest, done : BOOLEAN]

\* A run works on one packet; what a packet shows was there; there is room for
\* the review of a proposal that is being reviewed.
RunIsBound ==
    /\ Optional(packet) /\ Optional(held) /\ Optional(lock) /\ Optional(baseline)
    /\ Optional(trigger.attempt) /\ Optional(trigger.success)
    /\ trigger \in TriggerFile
    /\ last \in LastAttempt
    /\ pc # "idle" => held # {}
    /\ pc \in {"reviewing", "writing"} => feedback < MaxReviews
    /\ \A p \in packet \union held : p.evidence \subseteq 1 .. mail

CycleTyped == TypeOK /\ RunIsBound

\* What the builder has published is behind its baseline.
ReportedBehindBaseline ==
    /\ baseline = {} => reported = 0
    /\ \A b \in baseline : reported <= b

\* The trigger file remembers the last attempt: one without a success as the
\* latest thing that happened, a successful one at least as late as it began.
AttemptIsRemembered ==
    /\ pc \notin {"idle", "leased"} =>
         last.digest = {Digest(p) : p \in held} /\ ~ last.done
    /\ last.digest # {} /\ ~ last.done =>
         /\ trigger.attempt = last.digest
         /\ trigger.status \in {"running", "failed"}
         /\ trigger.attemptAge <= last.age
         /\ trigger.success = {} \/ trigger.attemptAge <= trigger.successAge
    /\ last.done =>
         /\ trigger.success = last.digest
         /\ trigger.successAge <= last.age

-----------------------------------------------------------------------------
(***************************************************************************)
(* Operators.                                                              *)
(***************************************************************************)

LEMMA LongestBounds == Longest \in Nat /\ Retry <= Longest /\ Refresh <= Longest
<1>1. {Retry, Refresh} \in SUBSET (0 .. Retry + Refresh) /\ Retry + Refresh \in Nat
  BY CycleAssumption
<1>2. Longest \in {Retry, Refresh} /\ \A y \in {Retry, Refresh} : y <= Longest
  BY <1>1, MaxOfNats DEF Longest
<1> QED BY <1>2, CycleAssumption

LEMMA LeastBounds ==
    ASSUME NEW a \in Nat, NEW b \in Nat
    PROVE  Least(a, b) \in 0 .. b /\ Least(a, b) <= a
  BY DEF Least

LEMMA OptionalIsSmall ==
    ASSUME NEW s, Optional(s)
    PROVE  AtMostOne(s)
<1>1. CASE s = {}
  BY <1>1, FS_EmptySet DEF AtMostOne
<1>2. ASSUME NEW x, s = {x} PROVE AtMostOne(s)
  BY <1>2, FS_Singleton DEF AtMostOne
<1> QED BY <1>1, <1>2 DEF Optional

\* The image of an optional file is optional.
LEMMA OptionalDigest ==
    ASSUME Optional(held)
    PROVE  /\ Optional({Digest(p) : p \in held})
           /\ held # {} => \E p \in held : {Digest(q) : q \in held} = {Digest(p)}
           /\ held = {} => {Digest(p) : p \in held} = {}
  BY DEF Optional

LEMMA DigestTyped ==
    ASSUME NEW p \in Packets
    PROVE  Digest(p) \in Digests
  BY DEF Packets, Digest, Digests

\* A lock gets older, but does not multiply.
LEMMA OlderLock ==
    ASSUME CycleTyped
    PROVE  /\ Optional(Older(lock, Lease + 1))
           /\ Older(lock, Lease + 1) \subseteq 0 .. Lease + 1
           /\ \A age \in lock : age < Lease =>
                \E a \in Older(lock, Lease + 1) : a <= Lease
<1>1. Lease \in Nat /\ Lease + 1 \in Nat
  BY CycleAssumption
<1>2. \A age \in lock : age + 1 \in Nat
  BY CycleAssumption DEF CycleTyped, TypeOK
<1>3. \A age \in lock : /\ Least(age + 1, Lease + 1) \in 0 .. Lease + 1
                        /\ Least(age + 1, Lease + 1) <= age + 1
  BY <1>1, <1>2, LeastBounds
<1>4. Optional(lock)
  BY DEF CycleTyped, RunIsBound
<1>5. Optional(Older(lock, Lease + 1))
  BY <1>4 DEF Optional, Older
<1>6. ASSUME NEW age \in lock, age < Lease
      PROVE  \E a \in Older(lock, Lease + 1) : a <= Lease
  <2>1. Least(age + 1, Lease + 1) \in Older(lock, Lease + 1)
    BY DEF Older
  <2>2. Least(age + 1, Lease + 1) <= Lease
    BY <1>1, <1>2, <1>3, <1>6, CycleAssumption DEF CycleTyped, TypeOK
  <2> QED BY <2>1, <2>2
<1> QED BY <1>3, <1>5, <1>6 DEF Older

-----------------------------------------------------------------------------
(***************************************************************************)
(* Types.                                                                  *)
(***************************************************************************)

LEMMA FleetTyped ==
    ASSUME CycleTyped, Fleet
    PROVE  CycleTyped'
<1>1. /\ UNCHANGED <<builderVars, storeVars, triggerVars, runVars, crashes>>
      /\ \/ MailArrives /\ UNCHANGED <<growth, healthy, flips>>
         \/ CoverageGrows /\ UNCHANGED <<mail, healthy, flips>>
         \/ HealthChanges /\ UNCHANGED <<mail, growth>>
  BY DEF Fleet, MailArrives, CoverageGrows, HealthChanges
<1>2. mail' \in 0 .. LastMail /\ 1 .. mail \subseteq 1 .. mail'
  BY <1>1, CycleAssumption DEF MailArrives, CycleTyped, TypeOK
<1>3. growth' \in 0 .. MaxGrowth /\ 0 .. growth \subseteq 0 .. growth'
  BY <1>1, CycleAssumption DEF CoverageGrows, CycleTyped, TypeOK
<1>4. flips' \in 0 .. MaxFlips
  BY <1>1, CycleAssumption DEF HealthChanges, CycleTyped, TypeOK
<1>5. healthy' \in BOOLEAN
  <2>1. healthy' = healthy \/ healthy' = ~ healthy
    BY <1>1 DEF HealthChanges
  <2> QED BY <2>1 DEF CycleTyped, TypeOK
<1>6. TypeOK'
  BY <1>1, <1>2, <1>3, <1>4, <1>5
     DEF CycleTyped, TypeOK, builderVars, storeVars, triggerVars, runVars
<1>7. RunIsBound'
  BY <1>1, <1>2
     DEF CycleTyped, RunIsBound, builderVars, storeVars, triggerVars, runVars
<1> QED BY <1>6, <1>7 DEF CycleTyped

\* The window of coverage is never negative.
LEMMA DeltaIsNat ==
    ASSUME CycleTyped
    PROVE  /\ Delta \in Nat
           /\ \A b \in baseline : Delta = growth - b
           /\ baseline = {} => Delta = 0
<1>1. growth \in Nat /\ baseline \subseteq 0 .. growth
  BY DEF CycleTyped, TypeOK
<1>2. CASE baseline = {}
  BY <1>2 DEF Delta
<1>3. ASSUME NEW b, baseline = {b}
      PROVE  Delta \in Nat /\ \A c \in baseline : Delta = growth - c
  <2>1. Max(baseline) = b
    BY <1>1, <1>3, MaxOfNats
  <2> QED BY <1>1, <1>3, <2>1 DEF Delta
<1> QED BY <1>2, <1>3 DEF CycleTyped, RunIsBound, Optional

LEMMA NewPacketTyped ==
    ASSUME CycleTyped
    PROVE  NewPacket \in Packets /\ NewPacket.evidence \subseteq 1 .. mail
<1>1. NewestMail \subseteq 1 .. mail /\ 1 .. mail \subseteq 1 .. LastMail
      /\ Outcomes \subseteq 1 .. MaxReviews
  BY CycleAssumption DEF CycleTyped, TypeOK, NewestMail, Outcomes
<1> QED BY <1>1 DEF NewPacket, Packets, CycleTyped, TypeOK

LEMMA BuilderTyped ==
    ASSUME CycleTyped, BuildPacket \/ BuilderDies
    PROVE  CycleTyped'
<1> USE DEF CycleTyped, RunIsBound
<1>1. baseline' = {growth} /\ growth' = growth /\ growth \in 0 .. growth
  BY DEF BuildPacket, BuilderDies, fleetVars, TypeOK
<1>2. Optional(baseline') /\ AtMostOne(baseline')
  BY <1>1, OptionalIsSmall DEF Optional
<1>3. ASSUME BuildPacket PROVE CycleTyped'
  <2>1. Optional(packet') /\ AtMostOne(packet')
    BY <1>3, OptionalIsSmall DEF BuildPacket, Optional
  <2>2. reported' \in 0 .. MaxGrowth + 1
    <3>1. reported + Delta \in Nat /\ MaxGrowth + 1 \in Nat
      BY DeltaIsNat, CycleAssumption DEF TypeOK
    <3> QED BY <1>3, <3>1, LeastBounds DEF BuildPacket
  <2>3. 0 \in 0 .. Freshness + 1
    BY CycleAssumption
  <2> QED BY <1>1, <1>2, <1>3, <2>1, <2>2, <2>3, NewPacketTyped
          DEF BuildPacket, TypeOK, fleetVars, storeVars, triggerVars, runVars
<1>4. ASSUME BuilderDies PROVE CycleTyped'
  <2>1. crashes' \in 0 .. MaxCrashes
    BY <1>4, CycleAssumption DEF BuilderDies, TypeOK
  <2> QED BY <1>1, <1>2, <1>4, <2>1
          DEF BuilderDies, TypeOK, fleetVars, storeVars, triggerVars, runVars
<1> QED BY <1>3, <1>4

\* Where a pipeline step goes from and to.
PipelineStep ==
    \/ Refuse \/ CallPlanner \/ PlannerFails \/ ProposalInvalid \/ Abstain \/ Propose
    \/ ReviewerFails \/ OpenFeedback \/ FinishFeedback \/ AuditFails \/ CompilationFails
    \/ Quarantine

LEMMA PipelineMoves ==
    ASSUME PipelineStep
    PROVE  /\ pc \in {"started", "planning", "reviewing", "writing", "accepted"}
           /\ pc' \in {"planning", "reviewing", "writing", "accepted", "failing", "completing"}
           /\ pc' \in {"reviewing", "writing"} =>
                feedback' < MaxReviews \/ (pc = "reviewing" /\ feedback' = feedback)
           /\ UNCHANGED <<held, triggerVars, fleetVars, builderVars, crashes, torn>>
           /\ heldAge' \in {heldAge, 0}
           /\ planned' \in {planned, planned \union UNION {p.evidence : p \in held}}
           /\ feedback' = feedback \/ (pc = "writing" /\ feedback' = feedback + 1)
  BY DEF PipelineStep, Refuse, CallPlanner, PlannerFails, ProposalInvalid, Abstain, Propose,
         ReviewerFails, OpenFeedback, FinishFeedback, AuditFails, CompilationFails,
         Quarantine, Goto, storeVars

LEMMA PipelineTyped ==
    ASSUME CycleTyped, PipelineStep
    PROVE  CycleTyped'
<1> USE PipelineMoves DEF CycleTyped
<1>1. feedback' \in 0 .. MaxReviews
  <2>1. feedback \in 0 .. MaxReviews /\ (pc = "writing" => feedback < MaxReviews)
        /\ MaxReviews \in Nat
    BY CycleAssumption DEF TypeOK, RunIsBound
  <2> QED BY <2>1
<1>2. planned' \subseteq 1 .. mail
  <2>1. UNION {p.evidence : p \in held} \subseteq 1 .. mail
    BY DEF RunIsBound
  <2> QED BY <2>1 DEF TypeOK
<1>3. heldAge' \in 0 .. Freshness + 1
  BY CycleAssumption DEF TypeOK
<1>4. TypeOK'
  BY <1>1, <1>2, <1>3 DEF TypeOK, triggerVars, fleetVars, builderVars
<1>5. pc' \in {"reviewing", "writing"} => feedback' < MaxReviews
  BY DEF RunIsBound
<1>6. RunIsBound'
  BY <1>5 DEF RunIsBound, triggerVars, fleetVars, builderVars
<1> QED BY <1>4, <1>6

\* The end of a run forgets its packet.
LEMMA EndRunTyped ==
    ASSUME CycleTyped, EndRun, UNCHANGED feedback,
           lock' \in {lock, {}}, trigger' \in TriggerFile, last' \in LastAttempt,
           Optional(trigger'.attempt), Optional(trigger'.success),
           torn' \in BOOLEAN, crashes' \in 0 .. MaxCrashes
    PROVE  CycleTyped'
<1> USE DEF CycleTyped
<1>1. AtMostOne(held') /\ Optional(held') /\ held' = {}
  BY OptionalIsSmall DEF EndRun, Optional
<1>2. Optional(lock') /\ AtMostOne(lock') /\ lock' \subseteq 0 .. Lease + 1
  <2>1. Optional(lock')
    BY DEF RunIsBound, Optional
  <2> QED BY <2>1, OptionalIsSmall DEF TypeOK
<1>3. AtMostOne(trigger'.attempt) /\ AtMostOne(trigger'.success)
  BY OptionalIsSmall
<1>4. /\ trigger'.status \in {"none", "running", "failed", "completed"}
      /\ trigger'.attempt \subseteq Digests /\ trigger'.success \subseteq Digests
      /\ trigger'.attemptAge \in 0 .. Retry /\ trigger'.successAge \in 0 .. Longest
      /\ last'.digest \subseteq Digests /\ last'.age \in 0 .. Longest /\ last'.done \in BOOLEAN
  BY DEF TriggerFile, LastAttempt
<1>5. heldAge' \in 0 .. Freshness + 1
  BY CycleAssumption DEF EndRun
<1>6. TypeOK'
  BY <1>1, <1>2, <1>3, <1>4, <1>5 DEF EndRun, TypeOK, fleetVars, builderVars
<1>7. RunIsBound'
  BY <1>1, <1>2 DEF EndRun, RunIsBound, fleetVars, builderVars
<1> QED BY <1>6, <1>7

\* The digest of the run's packet can be written to the trigger file.
LEMMA HeldDigest ==
    ASSUME CycleTyped
    PROVE  /\ {Digest(p) : p \in held} \in SUBSET Digests
           /\ Optional({Digest(p) : p \in held})
  BY OptionalDigest, DigestTyped DEF CycleTyped, TypeOK, RunIsBound

LEMMA EndOfRunTyped ==
    ASSUME CycleTyped, Skip \/ MarkFailed \/ MarkCompleted \/ RunInterrupted \/ RunDies
    PROVE  CycleTyped'
<1> DEFINE D == {Digest(p) : p \in held}
<1>1. D \in SUBSET Digests /\ Optional(D)
  BY HeldDigest
<1> HIDE DEF D
<1>2. trigger \in TriggerFile /\ last \in LastAttempt
      /\ Optional(trigger.attempt) /\ Optional(trigger.success)
  BY DEF CycleTyped, RunIsBound
<1>3. crashes' \in 0 .. MaxCrashes /\ torn' \in BOOLEAN
  <2>1. crashes' = crashes \/ (crashes < MaxCrashes /\ crashes' = crashes + 1)
    BY DEF Skip, MarkFailed, MarkCompleted, RunInterrupted, RunDies
  <2>2. torn' = torn \/ torn' = (torn \/ pc = "writing")
    BY DEF Skip, MarkFailed, MarkCompleted, RunInterrupted, RunDies, storeVars
  <2>3. torn \in BOOLEAN
    BY DEF CycleTyped, TypeOK
  <2>4. torn' \in BOOLEAN
    BY <2>2, <2>3
  <2> QED BY <2>1, <2>4, CycleAssumption DEF CycleTyped, TypeOK
<1>4. /\ EndRun /\ UNCHANGED feedback
      /\ lock' \in {lock, {}}
  BY DEF Skip, MarkFailed, MarkCompleted, RunInterrupted, RunDies, storeVars, triggerVars
<1>5. last' \in LastAttempt
  BY <1>2 DEF Skip, MarkFailed, MarkCompleted, RunInterrupted, RunDies, triggerVars, LastAttempt
<1>6. \/ trigger' = trigger
      \/ trigger' = [trigger EXCEPT !.attempt = D, !.status = "failed", !.attemptAge = 0]
      \/ trigger' = [attempt |-> D, status |-> "completed", attemptAge |-> 0,
                     success |-> D, successAge |-> 0]
  BY DEF Skip, MarkFailed, MarkCompleted, RunInterrupted, RunDies, triggerVars, D
<1>7. 0 \in 0 .. Retry /\ 0 \in 0 .. Longest
  BY CycleAssumption, LongestBounds
<1>8. trigger' \in TriggerFile /\ Optional(trigger'.attempt) /\ Optional(trigger'.success)
  <2>1. CASE trigger' = trigger
    BY <1>2, <2>1
  <2>2. CASE trigger' = [trigger EXCEPT !.attempt = D, !.status = "failed", !.attemptAge = 0]
    <3>1. trigger' \in TriggerFile
      BY <1>1, <1>2, <1>7, <2>2 DEF TriggerFile
    <3>2. trigger'.attempt = D /\ trigger'.success = trigger.success
      BY <1>2, <2>2 DEF TriggerFile
    <3> QED BY <1>1, <1>2, <3>1, <3>2
  <2>3. CASE trigger' = [attempt |-> D, status |-> "completed", attemptAge |-> 0,
                         success |-> D, successAge |-> 0]
    BY <1>1, <1>7, <2>3 DEF TriggerFile
  <2> QED BY <1>6, <2>1, <2>2, <2>3
<1> QED BY <1>3, <1>4, <1>5, <1>8, EndRunTyped

LEMMA StartOfRunTyped ==
    ASSUME CycleTyped, TakeLease \/ MarkAttempt
    PROVE  CycleTyped'
<1>0. Retry \in Nat /\ Lease \in Nat /\ Longest \in Nat
  BY CycleAssumption, LongestBounds
<1>1. CASE TakeLease
  <2>1. Optional(lock') /\ lock' = {0} /\ AtMostOne(lock')
    BY <1>1, OptionalIsSmall DEF TakeLease, Optional
  <2>2. TypeOK'
    BY <1>0, <1>1, <2>1
       DEF TakeLease, CycleTyped, TypeOK, fleetVars, builderVars, storeVars
  <2>3. RunIsBound'
    BY <1>1, <2>1 DEF TakeLease, CycleTyped, RunIsBound, fleetVars, builderVars, storeVars
  <2> QED BY <2>2, <2>3 DEF CycleTyped
<1>2. CASE MarkAttempt
  <2>1. PICK p \in held :
          /\ trigger' = [trigger EXCEPT !.attempt = {Digest(p)},
                                        !.status = "running", !.attemptAge = 0]
          /\ last' = [digest |-> {Digest(p)}, age |-> 0, done |-> FALSE]
    BY <1>2 DEF MarkAttempt
  <2>2. Digest(p) \in Digests
    BY DigestTyped DEF CycleTyped, TypeOK
  <2>3. trigger \in TriggerFile
    BY DEF CycleTyped, RunIsBound
  <2>4. trigger' \in TriggerFile /\ last' \in LastAttempt
        /\ trigger'.attempt = {Digest(p)} /\ trigger'.success = trigger.success
    <3>1. {Digest(p)} \in SUBSET Digests /\ 0 \in 0 .. Longest
      BY <1>0, <2>2
    <3>2. last' \in LastAttempt
      BY <2>1, <3>1 DEF LastAttempt
    <3>3. trigger' \in TriggerFile
      <4> DEFINE D == {Digest(p)}
      <4>1. D \in SUBSET Digests /\ 0 \in 0 .. Retry
        BY <1>0, <3>1
      <4>2. trigger' = [trigger EXCEPT !.attempt = D, !.status = "running", !.attemptAge = 0]
        BY <2>1
      <4> HIDE DEF D
      <4> QED BY <2>3, <4>1, <4>2 DEF TriggerFile
    <3>4. trigger'.attempt = {Digest(p)} /\ trigger'.success = trigger.success
      BY <2>1, <2>3 DEF TriggerFile
    <3> QED BY <3>2, <3>3, <3>4
  <2>5. Optional(trigger'.attempt) /\ AtMostOne(trigger'.attempt)
    BY <2>4, OptionalIsSmall DEF Optional
  <2>6. /\ trigger'.status \in {"none", "running", "failed", "completed"}
        /\ trigger'.attempt \subseteq Digests /\ trigger'.success \subseteq Digests
        /\ trigger'.attemptAge \in 0 .. Retry /\ trigger'.successAge \in 0 .. Longest
        /\ last'.digest \subseteq Digests /\ last'.age \in 0 .. Longest /\ last'.done \in BOOLEAN
    BY <2>4 DEF TriggerFile, LastAttempt
  <2>7. TypeOK'
    BY <1>2, <2>4, <2>5, <2>6
       DEF MarkAttempt, CycleTyped, TypeOK, fleetVars, builderVars, storeVars
  <2>8. RunIsBound'
    BY <1>2, <2>4, <2>5
       DEF MarkAttempt, CycleTyped, RunIsBound, fleetVars, builderVars, storeVars
  <2> QED BY <2>7, <2>8 DEF CycleTyped
<1> QED BY <1>1, <1>2

\* What the clock does to the trigger file and the last attempt.
LEMMA TickAges ==
    ASSUME CycleTyped, Tick
    PROVE  /\ trigger' \in TriggerFile /\ last' \in LastAttempt
           /\ trigger'.attempt = trigger.attempt /\ trigger'.success = trigger.success
           /\ trigger'.status = trigger.status
           /\ trigger'.attemptAge = IF trigger.attempt = {} THEN 0
                                    ELSE Least(trigger.attemptAge + 1, Retry)
           /\ trigger'.successAge = IF trigger.success = {} THEN 0
                                    ELSE Least(trigger.successAge + 1, Longest)
           /\ last'.digest = last.digest /\ last'.done = last.done
           /\ last'.age = IF last.digest = {} THEN 0 ELSE Least(last.age + 1, Longest)
<1>1. trigger \in TriggerFile /\ last \in LastAttempt
  BY DEF CycleTyped, RunIsBound
<1>2. Retry \in Nat /\ Longest \in Nat
  BY CycleAssumption, LongestBounds
<1>3. \A a \in Nat : Least(a + 1, Retry) \in 0 .. Retry /\ Least(a + 1, Longest) \in 0 .. Longest
  <2> TAKE a \in Nat
  <2>1. a + 1 \in Nat
    OBVIOUS
  <2> QED BY <1>2, <2>1, LeastBounds
<1>4. trigger.attemptAge \in Nat /\ trigger.successAge \in Nat /\ last.age \in Nat
  BY <1>1, <1>2 DEF TriggerFile, LastAttempt
<1> DEFINE a == IF trigger.attempt = {} THEN 0 ELSE Least(trigger.attemptAge + 1, Retry)
           b == IF trigger.success = {} THEN 0 ELSE Least(trigger.successAge + 1, Longest)
           c == IF last.digest = {} THEN 0 ELSE Least(last.age + 1, Longest)
<1>5. a \in 0 .. Retry /\ b \in 0 .. Longest /\ c \in 0 .. Longest
  BY <1>2, <1>3, <1>4
<1>6. /\ trigger' = [trigger EXCEPT !.attemptAge = a, !.successAge = b]
      /\ last' = [last EXCEPT !.age = c]
  BY <1>1 DEF Tick, TriggerFile, LastAttempt
<1> HIDE DEF a, b, c
<1>7. /\ last' \in LastAttempt /\ last'.digest = last.digest /\ last'.done = last.done
      /\ last'.age = c
  BY <1>1, <1>5, <1>6 DEF LastAttempt
<1>8. /\ trigger' \in TriggerFile
      /\ trigger'.attempt = trigger.attempt /\ trigger'.success = trigger.success
      /\ trigger'.status = trigger.status
      /\ trigger'.attemptAge = a /\ trigger'.successAge = b
  <2>1. trigger' \in TriggerFile
    BY <1>1, <1>5, <1>6 DEF TriggerFile
  <2> QED BY <1>1, <1>6, <2>1 DEF TriggerFile
<1> QED BY <1>7, <1>8 DEF a, b, c

LEMMA TickTyped ==
    ASSUME CycleTyped, Tick
    PROVE  CycleTyped'
<1>1. packetAge' \in 0 .. Freshness + 1 /\ heldAge' \in 0 .. Freshness + 1
  <2>1. packetAge + 1 \in Nat /\ heldAge + 1 \in Nat /\ Freshness + 1 \in Nat
    BY CycleAssumption DEF CycleTyped, TypeOK
  <2>2. Least(packetAge + 1, Freshness + 1) \in 0 .. Freshness + 1
        /\ Least(heldAge + 1, Freshness + 1) \in 0 .. Freshness + 1
    BY <2>1, LeastBounds
  <2> QED BY <2>1, <2>2 DEF Tick
<1>2. /\ lock' = Older(lock, Lease + 1)
      /\ Optional(lock') /\ AtMostOne(lock') /\ lock' \subseteq 0 .. Lease + 1
  <2>1. lock' = Older(lock, Lease + 1)
    BY DEF Tick
  <2> QED BY <2>1, OlderLock, OptionalIsSmall
<1>3. pc' # "idle" => \E age \in lock' : age <= Lease
  BY <1>2, OlderLock DEF Tick, CycleTyped, TypeOK
<1>4. /\ trigger'.status \in {"none", "running", "failed", "completed"}
      /\ trigger'.attempt \subseteq Digests /\ trigger'.success \subseteq Digests
      /\ trigger'.attemptAge \in 0 .. Retry /\ trigger'.successAge \in 0 .. Longest
      /\ last'.digest \subseteq Digests /\ last'.age \in 0 .. Longest /\ last'.done \in BOOLEAN
  BY TickAges DEF TriggerFile, LastAttempt
<1>5. TypeOK'
  BY <1>1, <1>2, <1>3, <1>4, TickAges
     DEF Tick, CycleTyped, TypeOK, fleetVars, storeVars
<1>6. RunIsBound'
  BY <1>2, TickAges DEF Tick, CycleTyped, RunIsBound, fleetVars, storeVars
<1> QED BY <1>5, <1>6 DEF CycleTyped

LEMMA CycleInitially == Init => CycleTyped
<1> SUFFICES ASSUME Init PROVE CycleTyped
  OBVIOUS
<1> USE DEF Init
<1>1. 0 \in 0 .. Retry /\ 0 \in 0 .. Longest /\ 0 \in 0 .. Freshness + 1 /\ MaxGrowth + 1 \in Nat
  BY CycleAssumption, LongestBounds
<1>2. Optional({}) /\ AtMostOne({})
  BY OptionalIsSmall DEF Optional
<1>3. trigger \in TriggerFile /\ last \in LastAttempt
  BY <1>1 DEF TriggerFile, LastAttempt
<1>4. TypeOK
  <2>1. /\ 0 \in 0 .. LastMail /\ 0 \in 0 .. MaxGrowth /\ 0 \in 0 .. MaxFlips
        /\ 0 \in 0 .. MaxReviews /\ 0 \in 0 .. MaxCrashes /\ 0 \in 0 .. MaxGrowth + 1
    BY CycleAssumption
  <2>2. /\ trigger.status \in {"none", "running", "failed", "completed"}
        /\ trigger.attempt = {} /\ trigger.success = {}
        /\ trigger.attemptAge = 0 /\ trigger.successAge = 0
        /\ last.digest = {} /\ last.age = 0 /\ last.done \in BOOLEAN
    OBVIOUS
  <2> QED BY <1>1, <1>2, <2>1, <2>2 DEF TypeOK
<1>5. RunIsBound
  BY <1>2, <1>3 DEF RunIsBound
<1> QED BY <1>4, <1>5 DEF CycleTyped

LEMMA CycleInductive == CycleTyped /\ [Next]_vars => CycleTyped'
<1> SUFFICES ASSUME CycleTyped, [Next]_vars PROVE CycleTyped'
  OBVIOUS
<1>1. CASE UNCHANGED vars
  BY <1>1 DEF CycleTyped, TypeOK, RunIsBound, vars, fleetVars, builderVars, storeVars,
              triggerVars, runVars
<1>2. CASE Fleet
  BY <1>2, FleetTyped
<1>3. CASE BuildPacket \/ BuilderDies
  BY <1>3, BuilderTyped
<1>4. CASE TakeLease \/ MarkAttempt
  BY <1>4, StartOfRunTyped
<1>5. CASE PipelineStep
  BY <1>5, PipelineTyped
<1>6. CASE Skip \/ MarkFailed \/ MarkCompleted \/ RunInterrupted \/ RunDies
  BY <1>6, EndOfRunTyped
<1>7. CASE Tick
  BY <1>7, TickTyped
<1> QED BY <1>1, <1>2, <1>3, <1>4, <1>5, <1>6, <1>7 DEF Next, PlannerRun, PipelineStep

LEMMA CycleInvariance == Spec => []CycleTyped
  BY CycleInitially, CycleInductive, PTL DEF Spec

(***************************************************************************)
(* Every variable keeps its type; a run that is under way holds a lock     *)
(* that nobody may take for stale, and works on one packet.                *)
(***************************************************************************)
THEOREM CycleTypeCorrect == Spec => []TypeOK
<1>1. CycleTyped => TypeOK
  BY DEF CycleTyped
<1> QED BY <1>1, CycleInvariance, PTL

-----------------------------------------------------------------------------
(***************************************************************************)
(* The builder's state file is replaced before the packet file: the        *)
(* windows of coverage that packets show do not overlap, and a builder     *)
(* that dies in between loses a window but never shows one twice.          *)
(***************************************************************************)
THEOREM GrowthIsShownOnce == Spec => []NoGrowthTwice
<1>1. Init => ReportedBehindBaseline
  BY DEF Init, ReportedBehindBaseline
<1>2. CycleTyped /\ ReportedBehindBaseline /\ [Next]_vars => ReportedBehindBaseline'
  <2> SUFFICES ASSUME CycleTyped, ReportedBehindBaseline, [Next]_vars
               PROVE  ReportedBehindBaseline'
    OBVIOUS
  <2>1. /\ growth \in Nat /\ reported \in Nat /\ MaxGrowth + 1 \in Nat
        /\ baseline \subseteq 0 .. growth
        /\ baseline = {} \/ \E b : baseline = {b}
    <3>1. MaxGrowth + 1 \in Nat
      BY CycleAssumption
    <3>2. baseline = {} \/ \E b : baseline = {b}
      BY DEF CycleTyped, RunIsBound, Optional
    <3>3. growth \in Nat /\ reported \in Nat /\ baseline \subseteq 0 .. growth
      BY DEF CycleTyped, TypeOK
    <3> QED BY <3>1, <3>2, <3>3
  <2>2. reported + Delta <= growth /\ reported <= growth /\ reported + Delta \in Nat
    <3>1. CASE baseline = {}
      BY <2>1, <3>1, DeltaIsNat DEF ReportedBehindBaseline
    <3>2. ASSUME NEW b \in baseline
          PROVE  reported + Delta <= growth /\ reported <= growth /\ reported + Delta \in Nat
      BY <2>1, DeltaIsNat DEF ReportedBehindBaseline
    <3> QED BY <3>1, <3>2
  <2>3. CASE UNCHANGED <<baseline, reported>>
    BY <2>3 DEF ReportedBehindBaseline
  <2>4. CASE BuildPacket
    <3>1. reported' <= reported + Delta
      BY <2>1, <2>2, <2>4, LeastBounds DEF BuildPacket
    <3>2. reported' \in Nat
      BY <2>1, <2>2, <2>4, LeastBounds DEF BuildPacket
    <3>3. baseline' = {growth}
      BY <2>4 DEF BuildPacket
    <3> QED BY <2>1, <2>2, <3>1, <3>2, <3>3 DEF ReportedBehindBaseline
  <2>5. CASE BuilderDies
    BY <2>2, <2>5 DEF BuilderDies, ReportedBehindBaseline
  <2>6. UNCHANGED <<baseline, reported>> \/ BuildPacket \/ BuilderDies
    BY DEF Next, Fleet, MailArrives, CoverageGrows, HealthChanges, PlannerRun, TakeLease, Skip,
           MarkAttempt, Refuse, CallPlanner, PlannerFails, ProposalInvalid, Abstain, Propose,
           ReviewerFails, OpenFeedback, FinishFeedback, AuditFails, CompilationFails,
           Quarantine, Goto, MarkFailed, MarkCompleted, RunInterrupted, RunDies, EndRun, Tick,
           vars, builderVars
  <2> QED BY <2>3, <2>4, <2>5, <2>6
<1>3. CycleTyped /\ ReportedBehindBaseline => NoGrowthTwice
  <2> SUFFICES ASSUME CycleTyped, ReportedBehindBaseline PROVE reported <= growth
    BY DEF NoGrowthTwice
  <2>1. /\ growth \in Nat /\ reported \in Nat /\ baseline \subseteq 0 .. growth
    BY DEF CycleTyped, TypeOK
  <2>2. CASE baseline = {}
    BY <2>1, <2>2 DEF ReportedBehindBaseline
  <2>3. ASSUME NEW b \in baseline PROVE reported <= growth
    BY <2>1 DEF ReportedBehindBaseline
  <2> QED BY <2>2, <2>3
<1> QED BY <1>1, <1>2, <1>3, CycleInvariance, PTL DEF Spec

-----------------------------------------------------------------------------

\* Steps that leave the trigger file, the last attempt and the run's packet.
LEMMA AttemptFrame ==
    ASSUME AttemptIsRemembered, UNCHANGED <<trigger, last>>,
           \/ pc' \in {"idle", "leased"}
           \/ pc \notin {"idle", "leased"} /\ held' = held
    PROVE  AttemptIsRemembered'
<1>1. last' = last /\ trigger' = trigger
  OBVIOUS
<1>2. pc' \notin {"idle", "leased"} => {Digest(p) : p \in held'} = {Digest(p) : p \in held}
  OBVIOUS
<1>3. pc' \notin {"idle", "leased"} =>
        last'.digest = {Digest(p) : p \in held'} /\ ~ last'.done
  BY <1>1, <1>2 DEF AttemptIsRemembered
<1> QED BY <1>1, <1>3 DEF AttemptIsRemembered

LEMMA AttemptInductive ==
    ASSUME CycleTyped, AttemptIsRemembered, [Next]_vars
    PROVE  AttemptIsRemembered'
<1>0. /\ trigger \in TriggerFile /\ last \in LastAttempt
      /\ Retry \in Nat /\ Longest \in Nat /\ Retry <= Longest
      /\ trigger.attemptAge \in 0 .. Retry /\ trigger.successAge \in 0 .. Longest
      /\ last.age \in 0 .. Longest
  BY LongestBounds, CycleAssumption
     DEF CycleTyped, RunIsBound, TriggerFile, LastAttempt
<1>1. CASE \/ UNCHANGED vars \/ Fleet \/ BuildPacket \/ BuilderDies
           \/ TakeLease \/ Skip \/ PipelineStep \/ RunDies
  <2>1. UNCHANGED <<trigger, last>>
        /\ (\/ pc' \in {"idle", "leased"}
            \/ pc \notin {"idle", "leased"} /\ held' = held
            \/ UNCHANGED <<pc, held>>)
    <3>1. CASE PipelineStep
      BY <3>1, PipelineMoves DEF triggerVars
    <3>2. CASE \/ UNCHANGED vars \/ Fleet \/ BuildPacket \/ BuilderDies
               \/ TakeLease \/ Skip \/ RunDies
      BY <3>2 DEF Fleet, MailArrives, CoverageGrows, HealthChanges, BuildPacket, BuilderDies,
                  TakeLease, Skip, RunDies, EndRun, vars, triggerVars, runVars
    <3> QED BY <1>1, <3>1, <3>2
  <2> QED BY <2>1, AttemptFrame
<1>2. CASE MarkAttempt
  <2>1. PICK p \in held :
          /\ trigger' = [trigger EXCEPT !.attempt = {Digest(p)},
                                        !.status = "running", !.attemptAge = 0]
          /\ last' = [digest |-> {Digest(p)}, age |-> 0, done |-> FALSE]
    BY <1>2 DEF MarkAttempt
  <2>2. held' = held /\ {Digest(q) : q \in held} = {Digest(p)}
    BY <1>2 DEF MarkAttempt, CycleTyped, RunIsBound, Optional
  <2>3. /\ trigger'.attempt = {Digest(p)} /\ trigger'.status = "running"
        /\ trigger'.attemptAge = 0 /\ trigger'.successAge = trigger.successAge
    BY <1>0, <2>1 DEF TriggerFile
  <2>4. last'.digest = {Digest(p)} /\ last'.age = 0 /\ ~ last'.done
    BY <2>1
  <2>5. {Digest(q) : q \in held'} = {Digest(p)}
    BY <2>2
  <2> QED BY <1>0, <2>3, <2>4, <2>5 DEF AttemptIsRemembered
<1>3. CASE MarkFailed \/ RunInterrupted
  <2>1. pc' = "idle" /\ last' = last
    BY <1>3 DEF MarkFailed, RunInterrupted, EndRun
  <2>2. CASE trigger' = trigger
    BY <2>1, <2>2, AttemptFrame
  <2>3. CASE trigger' # trigger
    <3> DEFINE D == {Digest(p) : p \in held}
    <3>1. /\ trigger' = [trigger EXCEPT !.attempt = D, !.status = "failed", !.attemptAge = 0]
          /\ pc \notin {"idle", "leased"}
      BY <1>3, <2>3 DEF MarkFailed, RunInterrupted
    <3>2. last.digest = D /\ ~ last.done
      BY <3>1 DEF AttemptIsRemembered
    <3> HIDE DEF D
    <3>3. /\ trigger'.attempt = D /\ trigger'.status = "failed"
          /\ trigger'.attemptAge = 0 /\ trigger'.successAge = trigger.successAge
      BY <1>0, <3>1 DEF TriggerFile
    <3> QED BY <1>0, <2>1, <3>2, <3>3 DEF AttemptIsRemembered
  <2> QED BY <2>2, <2>3
<1>4. CASE MarkCompleted
  <2> DEFINE D == {Digest(p) : p \in held}
  <2>1. /\ pc' = "idle"
        /\ last' = [last EXCEPT !.done = TRUE]
        /\ trigger' = [attempt |-> D, status |-> "completed", attemptAge |-> 0,
                       success |-> D, successAge |-> 0]
        /\ last.digest = D
    BY <1>4 DEF MarkCompleted, EndRun, AttemptIsRemembered
  <2> HIDE DEF D
  <2>2. last'.digest = D /\ last'.age = last.age /\ last'.done
    BY <1>0, <2>1 DEF LastAttempt
  <2>3. trigger'.success = D /\ trigger'.successAge = 0
    BY <2>1
  <2> QED BY <1>0, <2>1, <2>2, <2>3 DEF AttemptIsRemembered
<1>5. CASE Tick
  <2>1. pc' = pc /\ held' = held
    BY <1>5 DEF Tick
  <2>2. pc' \notin {"idle", "leased"} =>
          last'.digest = {Digest(p) : p \in held'} /\ ~ last'.done
    BY <1>5, <2>1, TickAges DEF AttemptIsRemembered
  <2>3. last'.done =>
          /\ trigger'.success = last'.digest
          /\ trigger'.successAge <= last'.age
    <3> SUFFICES ASSUME last.done
                 PROVE  /\ trigger'.success = last'.digest
                        /\ trigger'.successAge <= last'.age
      BY <1>5, TickAges
    <3>1. trigger.success = last.digest /\ trigger.successAge <= last.age
      BY DEF AttemptIsRemembered
    <3>2. Least(trigger.successAge + 1, Longest) <= Least(last.age + 1, Longest)
      BY <1>0, <3>1 DEF Least
    <3>3. /\ trigger'.success = trigger.success /\ last'.digest = last.digest
          /\ trigger'.successAge = IF trigger.success = {} THEN 0
                                   ELSE Least(trigger.successAge + 1, Longest)
          /\ last'.age = IF last.digest = {} THEN 0 ELSE Least(last.age + 1, Longest)
      BY <1>5, TickAges
    <3> QED BY <3>1, <3>2, <3>3
  <2>4. last'.digest # {} /\ ~ last'.done =>
          /\ trigger'.attempt = last'.digest
          /\ trigger'.status \in {"running", "failed"}
          /\ trigger'.attemptAge <= last'.age
          /\ trigger'.success = {} \/ trigger'.attemptAge <= trigger'.successAge
    BY <1>0, <1>5, TickAges DEF AttemptIsRemembered, Least
  <2> QED BY <2>2, <2>3, <2>4 DEF AttemptIsRemembered
<1> QED BY <1>1, <1>2, <1>3, <1>4, <1>5 DEF Next, PlannerRun, PipelineStep

LEMMA AttemptInvariance == Spec => []AttemptIsRemembered
<1>1. Init => AttemptIsRemembered
  BY DEF Init, AttemptIsRemembered
<1>2. CycleTyped /\ AttemptIsRemembered /\ [Next]_vars => AttemptIsRemembered'
  BY AttemptInductive
<1> QED BY <1>1, <1>2, CycleInvariance, PTL DEF Spec

(***************************************************************************)
(* assess answers from the trigger file alone, and the file survives a run *)
(* that dies: the same material is not attempted twice in a row before the *)
(* refresh or the retry interval has passed, whichever of the two is the   *)
(* longer one and however many runs die.                                   *)
(***************************************************************************)
THEOREM CooldownIsKept == Spec => CooldownKept
<1> DEFINE Kept == (pc = "leased" /\ pc' = "started" /\ last'.digest = last.digest)
                     => last.age >= (IF last.done THEN Refresh ELSE Retry)
<1>1. CycleTyped /\ AttemptIsRemembered /\ [Next]_vars => [Kept]_vars
  <2> SUFFICES ASSUME CycleTyped, AttemptIsRemembered, Next,
                      pc = "leased", pc' = "started", last'.digest = last.digest
               PROVE  last.age >= (IF last.done THEN Refresh ELSE Retry)
    OBVIOUS
  <2>1. MarkAttempt
    <3>1. pc' = "idle" \/ pc' = pc \/ TakeLease \/ PipelineStep \/ MarkAttempt
      BY DEF Next, Fleet, MailArrives, CoverageGrows, HealthChanges, BuildPacket, BuilderDies,
             PlannerRun, PipelineStep, Skip, MarkFailed, MarkCompleted, RunInterrupted,
             RunDies, EndRun, Tick, runVars
    <3>2. ~ PipelineStep /\ ~ TakeLease
      BY PipelineMoves DEF TakeLease
    <3> QED BY <3>1, <3>2
  <2>2. PICK p \in held :
          ShouldRun(Digest(p)) /\ last' = [digest |-> {Digest(p)}, age |-> 0, done |-> FALSE]
    BY <2>1 DEF MarkAttempt
  <2>3. last.digest = {Digest(p)}
    BY <2>2
  <2>4. /\ trigger \in TriggerFile /\ last \in LastAttempt
        /\ Retry \in Nat /\ Refresh \in Nat /\ Longest \in Nat
        /\ trigger.attemptAge \in Nat /\ trigger.successAge \in Nat /\ last.age \in Nat
    BY LongestBounds, CycleAssumption DEF CycleTyped, RunIsBound, TriggerFile, LastAttempt
  <2>5. CASE last.done
    <3>1. trigger.success = {Digest(p)} /\ trigger.successAge <= last.age
      BY <2>3, <2>5 DEF AttemptIsRemembered
    <3>2. trigger.successAge >= Refresh
      BY <2>2, <3>1 DEF ShouldRun
    <3> QED BY <2>4, <2>5, <3>1, <3>2
  <2>6. CASE ~ last.done
    <3>1. /\ trigger.attempt = {Digest(p)}
          /\ trigger.status \in {"running", "failed"}
          /\ trigger.attemptAge <= last.age
          /\ trigger.success = {} \/ trigger.attemptAge <= trigger.successAge
      BY <2>3, <2>6 DEF AttemptIsRemembered
    <3>2. ~ (trigger.attemptAge < Retry)
      BY <2>2, <3>1 DEF ShouldRun, InCooldown
    <3> QED BY <2>4, <2>6, <3>1, <3>2
  <2> QED BY <2>5, <2>6
<1>2. Spec => [][Kept]_vars
  BY <1>1, CycleInvariance, AttemptInvariance, PTL DEF Spec
<1> QED BY <1>2 DEF CooldownKept

=============================================================================
