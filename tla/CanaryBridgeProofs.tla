------------------------ MODULE CanaryBridgeProofs ------------------------
(***************************************************************************)
(* Proofs about the canary bridge: an envelope is given up only after a    *)
(* candidate or all its trials (RetiredFairly), and an undisturbed one     *)
(* gets one candidate per artifact (OneCandidatePerArtifact).              *)
(***************************************************************************)
EXTENDS CanaryBridge, SequenceTheorems, TLAPS

Places == {"idle", "envelope", "artifact", "writing", "record", "project"}

(***************************************************************************)
(* The part of the types that the argument needs: what is counted, and     *)
(* that a pass at an envelope has a target.                                *)
(***************************************************************************)
BridgeTyped ==
    /\ faults \in Nat
    /\ byHand \in Nat
    /\ attempts \in [Compiled -> Nat]
    /\ trials \in [Compiled -> 0 .. MaxAttempts]
    /\ quarantined \subseteq Compiled
    /\ targets \in Seq(Compiled)
    /\ bpc \in Places
    /\ bpc \in {"envelope", "artifact", "writing", "record"} => targets # <<>>

\* The artifacts still to be run are different artifacts of the first target.
WorkIsBound ==
    bpc \in {"artifact", "writing"} =>
        /\ work \in Seq(ArtifactSet(Head(targets)))
        /\ \A i, j \in 1 .. Len(work) : work[i] = work[j] => i = j

\* The candidate being written records the artifact the pass is at.
WritingIsBound ==
    bpc = "writing" =>
        /\ work # <<>>
        /\ \E c \in Candidates : writing = {c} /\ Origin[c] = Head(work)

\* A candidate_ready result is a stored candidate of the first target.
ReadyIsTrue ==
    (bpc \in {"artifact", "writing", "record"} /\ ready) => MadeFrom(Head(targets)) # {}

\* The attempt counter never runs ahead of the trials.
AttemptsAreTrials ==
    \A e \in Compiled : attempts[e] <= trials[e] \/ trials[e] >= MaxAttempts

\* A trial that is about to be counted is one the counter does not hold yet.
TrialIsNew ==
    (bpc = "record" /\ ~ ready) =>
        LET e == Head(targets)
        IN  attempts[e] + 1 <= trials[e] \/ trials[e] >= MaxAttempts

PassInv == BridgeTyped /\ WorkIsBound /\ WritingIsBound

\* RetiredFairly for the marker; for the counter it follows from the trials.
DoneIsFair ==
    \A e \in Compiled : e \in done => MadeFrom(e) # {} \/ trials[e] >= MaxAttempts

RetireInv == ReadyIsTrue /\ AttemptsAreTrials /\ TrialIsNew /\ DoneIsFair

\* Nothing went wrong, nobody asked, and the envelope's artifacts are sound.
Undisturbed(e) == faults = 0 /\ byHand = 0 /\ ArtifactSet(e) \intersect Unsound = {}

\* The targets of undisturbed scans are different and none is retired.
TargetsAreDue ==
    (faults = 0 /\ byHand = 0) =>
        \A i \in 1 .. Len(targets) :
            /\ targets[i] \notin done
            /\ \A j \in 1 .. Len(targets) : targets[i] = targets[j] => i = j

\* An envelope with a candidate is retired, or the running pass will retire it.
CandidateIsRecorded ==
    \A e \in Compiled :
        (Undisturbed(e) /\ MadeFrom(e) # {}) =>
            \/ e \in done
            \/ /\ bpc \in {"artifact", "writing", "record"}
               /\ ready
               /\ e = Head(targets)

\* No artifact still to be run has a candidate.
WorkIsNew ==
    (bpc \in {"artifact", "writing"} /\ Undisturbed(Head(targets))) =>
        \A i \in 1 .. Len(work) : \A c \in stored : Origin[c] # work[i]

OnceInv ==
    TargetsAreDue /\ CandidateIsRecorded /\ WorkIsNew /\ OneCandidatePerArtifact

-----------------------------------------------------------------------------

\* Steps of the world outside the bridge, of the projection's files and of the
\* clock: the pass, the markers and the candidates stay as they are.
QuietStep ==
    /\ UNCHANGED <<stored, attempts, done, passVars, trials, byHand>>
    /\ faults' \in Nat /\ faults <= faults'
    /\ quarantined' \subseteq Compiled

\* Why a pass may end: a fault, its projection, or an artifact that raises.
EndIsExcused ==
    \/ faults' > 0
    \/ bpc = "project"
    \/ bpc = "artifact" /\ work # <<>> /\ Head(work) \in Unsound

\* Steps that end the pass.
EndStep ==
    /\ EndPass
    /\ UNCHANGED <<stored, done, trials, byHand, quarantined>>
    /\ faults' \in Nat /\ faults <= faults'
    /\ \/ UNCHANGED attempts
       \/ /\ bpc = "record" /\ ~ ready
          /\ \E n \in {0, attempts[Head(targets)] + 1} :
               attempts' = [attempts EXCEPT ![Head(targets)] = n]
    /\ EndIsExcused

StartStep(list) == StartPass(list) /\ byHand' \in Nat /\ byHand <= byHand'

\* Every step of the specification is one of these.
LEMMA StepCases ==
    ASSUME BridgeAssumption, PassInv, [Next]_vars
    PROVE  \/ QuietStep
           \/ EndStep
           \/ \E list \in FirstOf(Pending) : StartPass(list) /\ byHand' = byHand
           \/ \E e \in ByHand : StartPass(<<e>>) /\ byHand' = byHand + 1
           \/ OpenEnvelope \/ EnvelopeUnavailable
           \/ CanaryRejects \/ CanaryPasses \/ FinishCandidate
           \/ EnvelopeProcessed \/ RecordAttempt
<1>1. faults \in Nat /\ faults <= faults /\ quarantined \subseteq Compiled /\ byHand \in Nat
  BY DEF PassInv, BridgeTyped
<1>2. ASSUME UNCHANGED vars PROVE QuietStep
  BY <1>1, <1>2 DEF QuietStep, vars, bridgeVars, storeVars, outboxVars
<1>3. ASSUME NEW e \in Compiled, PutEnvelope(e) PROVE QuietStep
  <2>1. CASE quarantined' = quarantined \union {e} /\ UNCHANGED faults
    BY <1>1, <1>3, <2>1 DEF PutEnvelope, QuietStep
  <2>2. CASE faults' = faults + 1 /\ UNCHANGED quarantined
    BY <1>1, <1>3, <2>2 DEF PutEnvelope, QuietStep
  <2> QED BY <1>3, <2>1, <2>2 DEF PutEnvelope
<1>4. ASSUME WriteEvents PROVE QuietStep
  BY <1>1, <1>4
     DEF WriteEvents, OpenEvent, FinishEvent, QuietStep, bridgeVars, storeVars
<1>5. ASSUME LoseEvents PROVE QuietStep
  BY <1>1, <1>5
     DEF LoseEvents, FailEvent, CrashProjector, QuietStep, bridgeVars, storeVars
<1>6. ASSUME Tick, UNCHANGED bridgeVars PROVE QuietStep
  BY <1>1, <1>6 DEF Tick, QuietStep, bridgeVars, storeVars
<1>7. ASSUME ArtifactRaises PROVE EndStep
  BY <1>1, <1>7 DEF ArtifactRaises, EndStep, EndIsExcused, outboxVars, storeVars
<1>8. ASSUME FleetDisturbed PROVE EndStep
  <2>1. faults' = faults + 1
    BY <1>8 DEF FleetDisturbed
  <2> QED BY <1>1, <1>8, <2>1 DEF FleetDisturbed, EndStep, EndIsExcused, storeVars
<1>9. ASSUME FailCandidate PROVE EndStep
  <2>1. faults' = faults + 1
    BY <1>9 DEF FailCandidate
  <2> QED BY <1>1, <1>9, <2>1 DEF FailCandidate, EndStep, EndIsExcused
<1>10. ASSUME Project PROVE EndStep
  <2>1. UNCHANGED <<stored, faults>>
    BY <1>10 DEF Project, BeginPass, outboxVars
  <2> QED BY <1>1, <1>10, <2>1 DEF Project, EndStep, EndIsExcused, storeVars
<1>11. ASSUME CrashBridge PROVE EndStep
  <2>1. faults' = faults + 1
    BY <1>11 DEF CrashBridge
  <2> QED BY <1>1, <1>11, <2>1 DEF CrashBridge, EndStep, EndIsExcused
<1>12. ASSUME NEW e \in Compiled, RunByHand(e)
       PROVE  e \in ByHand /\ StartPass(<<e>>) /\ byHand' = byHand + 1
  BY <1>12 DEF RunByHand
<1>13. ASSUME Scan
       PROVE  \E list \in FirstOf(Pending) : StartPass(list) /\ byHand' = byHand
  BY <1>13 DEF Scan
<1> QED
  BY <1>2, <1>3, <1>4, <1>5, <1>6, <1>7, <1>8, <1>9, <1>10, <1>11, <1>12, <1>13
     DEF Next, BridgeStep

\* A scan's targets are different members of what is pending.
LEMMA ListingIsDistinct ==
    ASSUME BridgeAssumption, NEW S \in SUBSET Compiled, NEW list \in FirstOf(S)
    PROVE  /\ list \in Seq(Compiled)
           /\ \A i \in 1 .. Len(list) : list[i] \in S
           /\ \A i, j \in 1 .. Len(list) : list[i] = list[j] => i = j
<1>1. PICK n \in 0 .. MaxPerPass : list \in [1 .. n -> S]
  BY DEF FirstOf
<1>2. n \in Nat
  BY DEF BridgeAssumption
<1>3. list \in Seq(Compiled) /\ Len(list) = n /\ \A i \in 1 .. n : list[i] \in S
  BY <1>1, <1>2
<1>4. \A i, j \in 1 .. n : i < j => DigestOrder[list[i]] < DigestOrder[list[j]]
  BY <1>1 DEF FirstOf
<1>5. ASSUME NEW i \in 1 .. n, NEW j \in 1 .. n, list[i] = list[j], i < j PROVE FALSE
  <2>1. DigestOrder[list[i]] < DigestOrder[list[i]]
    BY <1>4, <1>5
  <2>2. DigestOrder[list[i]] \in Nat
    BY <1>3 DEF BridgeAssumption
  <2> QED BY <2>1, <2>2
<1>6. \A i, j \in 1 .. n : i < j \/ j < i \/ i = j
  BY <1>2
<1> QED BY <1>3, <1>5, <1>6

\* What a target and a step to the next one look like.
LEMMA TargetFacts ==
    ASSUME PassInv, bpc \in {"envelope", "artifact", "writing", "record"}
    PROVE  /\ Head(targets) \in Compiled
           /\ Len(targets) \in Nat \ {0}
           /\ Head(targets) = targets[1]
           /\ Tail(targets) \in Seq(Compiled)
           /\ Len(Tail(targets)) = Len(targets) - 1
           /\ \A i \in 1 .. Len(Tail(targets)) : Tail(targets)[i] = targets[i + 1]
<1>1. targets \in Seq(Compiled) /\ targets # <<>>
  BY DEF PassInv, BridgeTyped
<1> HIDE DEF PassInv
<1> QED BY <1>1, HeadTailProperties

\* The same of the artifacts still to be run.
LEMMA WorkFacts ==
    ASSUME PassInv, bpc \in {"artifact", "writing"}, work # <<>>
    PROVE  /\ Head(work) = work[1]
           /\ Head(work) \in ArtifactSet(Head(targets))
           /\ Len(work) \in Nat \ {0}
           /\ Tail(work) \in Seq(ArtifactSet(Head(targets)))
           /\ Len(Tail(work)) = Len(work) - 1
           /\ \A i \in 1 .. Len(Tail(work)) : Tail(work)[i] = work[i + 1]
<1>1. work \in Seq(ArtifactSet(Head(targets)))
  BY DEF PassInv, WorkIsBound
<1> QED BY <1>1, HeadTailProperties

\* What is left of different artifacts are different artifacts.
LEMMA TailIsDistinct ==
    ASSUME PassInv, bpc \in {"artifact", "writing"}, work # <<>>
    PROVE  \A i, j \in 1 .. Len(Tail(work)) : Tail(work)[i] = Tail(work)[j] => i = j
<1> SUFFICES ASSUME NEW i \in 1 .. Len(Tail(work)), NEW j \in 1 .. Len(Tail(work)),
                    Tail(work)[i] = Tail(work)[j]
             PROVE  i = j
  OBVIOUS
<1>1. Len(work) \in Nat /\ Len(Tail(work)) = Len(work) - 1
  BY WorkFacts
<1>2. i + 1 \in 1 .. Len(work) /\ j + 1 \in 1 .. Len(work)
  BY <1>1
<1>3. work[i + 1] = work[j + 1]
  BY WorkFacts
<1>4. i + 1 = j + 1
  BY <1>2, <1>3 DEF PassInv, WorkIsBound
<1> QED BY <1>4

\* The artifacts of an envelope are different.
LEMMA ArtifactsAreDistinct ==
    ASSUME BridgeAssumption, NEW e \in Compiled
    PROVE  /\ ArtifactsOf[e] \in Seq(ArtifactSet(e))
           /\ \A i, j \in 1 .. Len(ArtifactsOf[e]) :
                ArtifactsOf[e][i] = ArtifactsOf[e][j] => i = j
<1>1. ArtifactsOf[e] \in Seq(ArtifactSet(e))
  BY DEF BridgeAssumption
<1>2. DOMAIN ArtifactsOf[e] = 1 .. Len(ArtifactsOf[e])
  BY <1>1
<1> QED BY <1>1, <1>2 DEF BridgeAssumption

LEMMA PassInvInit == BridgeAssumption /\ Init => PassInv
<1> SUFFICES ASSUME BridgeAssumption, Init PROVE PassInv
  OBVIOUS
<1>1. 0 \in Nat /\ 0 \in 0 .. MaxAttempts
  BY DEF BridgeAssumption
<1>2. BridgeTyped
  BY <1>1 DEF Init, OutboxInit, BridgeTyped, Places
<1> QED BY <1>2 DEF Init, PassInv, WorkIsBound, WritingIsBound

LEMMA PassInvStep == BridgeAssumption /\ PassInv /\ [Next]_vars => PassInv'
<1> SUFFICES ASSUME BridgeAssumption, PassInv, [Next]_vars PROVE PassInv'
  OBVIOUS
<1> USE DEF Places
<1>0. BridgeTyped /\ WorkIsBound /\ WritingIsBound
  BY DEF PassInv
<1>1. CASE QuietStep
  <2>1. BridgeTyped'
    BY <1>0, <1>1 DEF QuietStep, BridgeTyped, passVars
  <2> QED
    BY <1>0, <1>1, <2>1 DEF QuietStep, PassInv, passVars, WorkIsBound, WritingIsBound
<1>2. CASE EndStep
  <2>1. attempts' \in [Compiled -> Nat]
    <3>1. CASE UNCHANGED attempts
      BY <1>0, <3>1 DEF BridgeTyped
    <3>2. CASE /\ bpc = "record"
               /\ \E n \in {0, attempts[Head(targets)] + 1} :
                    attempts' = [attempts EXCEPT ![Head(targets)] = n]
      <4>1. Head(targets) \in Compiled
        BY <3>2, TargetFacts
      <4>2. attempts[Head(targets)] + 1 \in Nat /\ 0 \in Nat
        BY <1>0, <4>1 DEF BridgeTyped
      <4> QED BY <1>0, <3>2, <4>1, <4>2 DEF BridgeTyped
    <3> QED BY <1>2, <3>1, <3>2 DEF EndStep
  <2>2. BridgeTyped'
    BY <1>0, <1>2, <2>1 DEF EndStep, EndPass, BridgeTyped
  <2> QED BY <1>2, <2>2 DEF EndStep, EndPass, PassInv, WorkIsBound, WritingIsBound
<1>3. ASSUME NEW list \in Seq(Compiled), StartPass(list), byHand' \in Nat
      PROVE  PassInv'
  <2>1. BridgeTyped'
    BY <1>0, <1>3 DEF StartPass, outboxVars, storeVars, BridgeTyped
  <2> QED BY <1>3, <2>1 DEF StartPass, PassInv, WorkIsBound, WritingIsBound
<1>4. ASSUME NEW list \in FirstOf(Pending), StartPass(list), byHand' = byHand
      PROVE  PassInv'
  <2>1. Pending \in SUBSET Compiled
    BY <1>0 DEF Pending, BridgeTyped
  <2>2. list \in Seq(Compiled)
    BY <2>1, ListingIsDistinct
  <2> QED BY <1>0, <1>3, <1>4, <2>2 DEF BridgeTyped
<1>5. ASSUME NEW e \in ByHand, StartPass(<<e>>), byHand' = byHand + 1
      PROVE  PassInv'
  <2>1. <<e>> \in Seq(Compiled) /\ byHand' \in Nat
    BY <1>0, <1>5 DEF BridgeTyped, BridgeAssumption
  <2> QED BY <1>3, <1>5, <2>1
<1>6. CASE OpenEnvelope
  <2>1. BridgeTyped'
    BY <1>0, <1>6 DEF OpenEnvelope, outboxVars, storeVars, BridgeTyped
  <2>2. Head(targets) \in Compiled
    BY <1>6, TargetFacts DEF OpenEnvelope
  <2>3. WorkIsBound'
    <3>1. work' = ArtifactsOf[Head(targets)] /\ targets' = targets
      BY <1>6 DEF OpenEnvelope
    <3>2. /\ ArtifactsOf[Head(targets)] \in Seq(ArtifactSet(Head(targets)))
          /\ \A i, j \in 1 .. Len(ArtifactsOf[Head(targets)]) :
               ArtifactsOf[Head(targets)][i] = ArtifactsOf[Head(targets)][j] => i = j
      BY <2>2, ArtifactsAreDistinct
    <3> QED BY <3>1, <3>2 DEF WorkIsBound
  <2> QED BY <1>6, <2>1, <2>3 DEF OpenEnvelope, PassInv, WritingIsBound
<1>7. CASE EnvelopeUnavailable
  <2>1. Head(targets) \in Compiled
    BY <1>7, TargetFacts DEF EnvelopeUnavailable
  <2>2. trials' \in [Compiled -> 0 .. MaxAttempts]
    <3>1. trials[Head(targets)] \in 0 .. MaxAttempts /\ MaxAttempts \in Nat
      BY <1>0, <2>1 DEF BridgeTyped, BridgeAssumption
    <3>2. OneMore(trials[Head(targets)]) \in 0 .. MaxAttempts
      BY <3>1 DEF OneMore
    <3> QED BY <1>0, <1>7, <2>1, <3>2 DEF EnvelopeUnavailable, BridgeTyped
  <2>3. BridgeTyped'
    BY <1>0, <1>7, <2>2 DEF EnvelopeUnavailable, outboxVars, storeVars, BridgeTyped
  <2> QED BY <1>7, <2>3 DEF EnvelopeUnavailable, PassInv, WorkIsBound, WritingIsBound
<1>8. CASE CanaryRejects
  <2>1. bpc = "artifact" /\ work # <<>> /\ work' = Tail(work)
        /\ UNCHANGED <<outboxVars, storeVars, targets, bpc, trials, byHand>>
    BY <1>8 DEF CanaryRejects, SoundArtifact
  <2>2. BridgeTyped'
    BY <1>0, <2>1 DEF outboxVars, storeVars, BridgeTyped
  <2>3. WorkIsBound'
    BY <2>1, WorkFacts, TailIsDistinct DEF WorkIsBound, ArtifactSet
  <2> QED BY <2>1, <2>2, <2>3 DEF PassInv, WritingIsBound
<1>9. CASE CanaryPasses
  <2>1. BridgeTyped'
    BY <1>0, <1>9 DEF CanaryPasses, SoundArtifact, outboxVars, BridgeTyped
  <2>2. WorkIsBound'
    BY <1>0, <1>9 DEF CanaryPasses, SoundArtifact, WorkIsBound, ArtifactSet
  <2>3. WritingIsBound'
    BY <1>9 DEF CanaryPasses, SoundArtifact, WritingIsBound
  <2> QED BY <2>1, <2>2, <2>3 DEF PassInv
<1>10. CASE FinishCandidate
  <2>1. bpc = "writing" /\ work # <<>> /\ work' = Tail(work) /\ targets' = targets
    BY <1>0, <1>10 DEF FinishCandidate, WritingIsBound
  <2>2. BridgeTyped'
    BY <1>0, <1>10 DEF FinishCandidate, BridgeTyped
  <2>3. WorkIsBound'
    BY <2>1, WorkFacts, TailIsDistinct DEF WorkIsBound, ArtifactSet
  <2> QED BY <1>10, <2>2, <2>3 DEF FinishCandidate, PassInv, WritingIsBound
<1>11. CASE EnvelopeProcessed
  <2>1. Head(targets) \in Compiled
    BY <1>11, TargetFacts DEF EnvelopeProcessed
  <2>2. trials' \in [Compiled -> 0 .. MaxAttempts]
    <3>1. trials[Head(targets)] \in 0 .. MaxAttempts /\ MaxAttempts \in Nat
      BY <1>0, <2>1 DEF BridgeTyped, BridgeAssumption
    <3>2. OneMore(trials[Head(targets)]) \in 0 .. MaxAttempts
      BY <3>1 DEF OneMore
    <3> QED BY <1>0, <1>11, <2>1, <3>2 DEF EnvelopeProcessed, BridgeTyped
  <2>3. BridgeTyped'
    BY <1>0, <1>11, <2>2 DEF EnvelopeProcessed, outboxVars, storeVars, BridgeTyped
  <2> QED BY <1>11, <2>3 DEF EnvelopeProcessed, PassInv, WorkIsBound, WritingIsBound
<1>12. CASE RecordAttempt
  <2>1. /\ bpc = "record" /\ targets' = Tail(targets)
        /\ bpc' = IF Tail(targets) = <<>> THEN "project" ELSE "envelope"
        /\ UNCHANGED <<outboxVars, quarantined, trials, byHand>>
        /\ attempts' = attempts
           \/ attempts' = [attempts EXCEPT ![Head(targets)] = @ + 1]
    BY <1>12 DEF RecordAttempt, NextTarget
  <2>2. Head(targets) \in Compiled /\ targets' \in Seq(Compiled)
        /\ (bpc' = "envelope" => targets' # <<>>) /\ bpc' \in {"project", "envelope"}
    BY <2>1, TargetFacts
  <2>3. attempts' \in [Compiled -> Nat]
    <3>1. attempts[Head(targets)] + 1 \in Nat
      BY <1>0, <2>2 DEF BridgeTyped
    <3>2. attempts \in [Compiled -> Nat]
      BY <1>0 DEF BridgeTyped
    <3> QED BY <2>1, <2>2, <3>1, <3>2
  <2>4. BridgeTyped'
    BY <1>0, <2>1, <2>2, <2>3 DEF outboxVars, BridgeTyped
  <2> QED BY <2>2, <2>4 DEF PassInv, WorkIsBound, WritingIsBound
<1> QED
  BY StepCases, <1>1, <1>2, <1>4, <1>5, <1>6, <1>7, <1>8, <1>9, <1>10, <1>11, <1>12

LEMMA PassInvariant == BridgeAssumption /\ Spec => []PassInv
  BY PassInvInit, PassInvStep, BridgeAssumption, PTL DEF Spec

-----------------------------------------------------------------------------

LEMMA RetireInvInit == BridgeAssumption /\ Init => RetireInv
<1> SUFFICES ASSUME BridgeAssumption, Init PROVE RetireInv
  OBVIOUS
<1>1. AttemptsAreTrials
  BY DEF Init, AttemptsAreTrials
<1> QED BY <1>1 DEF Init, RetireInv, ReadyIsTrue, TrialIsNew, DoneIsFair

\* A trial that ends without a candidate: the counter has room for it.
LEMMA OneMoreTrial ==
    ASSUME BridgeAssumption, PassInv, AttemptsAreTrials, DoneIsFair,
           NEW h \in Compiled, trials' = [trials EXCEPT ![h] = OneMore(@)],
           UNCHANGED <<attempts, done, stored>>
    PROVE  /\ AttemptsAreTrials'
           /\ DoneIsFair'
           /\ attempts'[h] + 1 <= trials'[h] \/ trials'[h] >= MaxAttempts
<1>1. MaxAttempts \in Nat \ {0} /\ trials \in [Compiled -> 0 .. MaxAttempts]
      /\ attempts \in [Compiled -> Nat]
  BY DEF PassInv, BridgeTyped, BridgeAssumption
<1>2. \A e \in Compiled : trials[e] <= trials'[e]
  BY <1>1 DEF OneMore
<1>3. \A e \in Compiled : trials'[e] \in Nat
  BY <1>1 DEF OneMore
<1>4. AttemptsAreTrials'
  BY <1>1, <1>2, <1>3 DEF AttemptsAreTrials
<1>5. DoneIsFair'
  <2>1. \A e \in Compiled : MadeFrom(e)' = MadeFrom(e)
    BY DEF MadeFrom
  <2> QED BY <1>1, <1>2, <1>3, <2>1 DEF DoneIsFair
<1>6. attempts[h] + 1 <= trials'[h] \/ trials'[h] >= MaxAttempts
  <2>1. trials'[h] = OneMore(trials[h])
    BY <1>1
  <2>2. attempts[h] <= trials[h] \/ trials[h] >= MaxAttempts
    BY DEF AttemptsAreTrials
  <2>3. attempts[h] \in Nat /\ trials[h] \in 0 .. MaxAttempts
    BY <1>1
  <2> QED BY <1>1, <2>1, <2>2, <2>3 DEF OneMore
<1> QED BY <1>4, <1>5, <1>6

\* The counter of the first target is set to zero or to one more.
LEMMA CounterIsBehind ==
    ASSUME BridgeAssumption, PassInv, RetireInv, bpc = "record", ~ ready,
           NEW n \in {0, attempts[Head(targets)] + 1},
           attempts' = [attempts EXCEPT ![Head(targets)] = n],
           UNCHANGED trials
    PROVE  AttemptsAreTrials'
<1> DEFINE h == Head(targets)
<1>1. h \in Compiled
  BY TargetFacts
<1>2. MaxAttempts \in Nat \ {0} /\ trials \in [Compiled -> 0 .. MaxAttempts]
      /\ attempts \in [Compiled -> Nat]
  BY DEF PassInv, BridgeTyped, BridgeAssumption
<1>3. attempts[h] + 1 <= trials[h] \/ trials[h] >= MaxAttempts
  BY DEF RetireInv, TrialIsNew
<1> HIDE DEF h
<1>4. n <= trials[h] \/ trials[h] >= MaxAttempts
  BY <1>1, <1>2, <1>3 DEF h
<1>5. \A e \in Compiled : attempts'[e] = IF e = h THEN n ELSE attempts[e]
  BY <1>1, <1>2 DEF h
<1> QED BY <1>4, <1>5 DEF RetireInv, AttemptsAreTrials

LEMMA RetireInvStep ==
    BridgeAssumption /\ PassInv /\ RetireInv /\ [Next]_vars => RetireInv'
<1> SUFFICES ASSUME BridgeAssumption, PassInv, RetireInv, [Next]_vars PROVE RetireInv'
  OBVIOUS
<1>0. ReadyIsTrue /\ AttemptsAreTrials /\ TrialIsNew /\ DoneIsFair
  BY DEF RetireInv
<1>1. CASE QuietStep
  BY <1>0, <1>1
     DEF QuietStep, passVars, RetireInv, ReadyIsTrue, AttemptsAreTrials, TrialIsNew,
         DoneIsFair, MadeFrom
<1>2. CASE EndStep
  <2>1. AttemptsAreTrials'
    <3>1. CASE UNCHANGED attempts
      BY <1>0, <1>2, <3>1 DEF EndStep, AttemptsAreTrials
    <3>2. ASSUME bpc = "record", ~ ready, NEW n \in {0, attempts[Head(targets)] + 1},
                 attempts' = [attempts EXCEPT ![Head(targets)] = n]
          PROVE  AttemptsAreTrials'
      BY <1>2, <3>2, CounterIsBehind DEF EndStep
    <3> QED BY <1>2, <3>1, <3>2 DEF EndStep
  <2>2. DoneIsFair'
    BY <1>0, <1>2 DEF EndStep, DoneIsFair, MadeFrom
  <2> QED BY <1>2, <2>1, <2>2 DEF EndStep, EndPass, RetireInv, ReadyIsTrue, TrialIsNew
<1>3. ASSUME NEW list, StartPass(list) PROVE RetireInv'
  BY <1>0, <1>3
     DEF StartPass, storeVars, outboxVars, RetireInv, ReadyIsTrue, AttemptsAreTrials,
         TrialIsNew, DoneIsFair, MadeFrom
<1>4. CASE OpenEnvelope
  BY <1>0, <1>4
     DEF OpenEnvelope, storeVars, outboxVars, RetireInv, ReadyIsTrue, AttemptsAreTrials,
         TrialIsNew, DoneIsFair, MadeFrom
<1>5. CASE EnvelopeUnavailable
  <2>1. Head(targets) \in Compiled
    BY <1>5, TargetFacts DEF EnvelopeUnavailable
  <2>2. /\ UNCHANGED <<attempts, done, stored, targets>> /\ ~ ready' /\ bpc' = "record"
        /\ trials' = [trials EXCEPT ![Head(targets)] = OneMore(@)]
    BY <1>5 DEF EnvelopeUnavailable, storeVars, outboxVars
  <2>3. /\ AttemptsAreTrials' /\ DoneIsFair'
        /\ attempts'[Head(targets)] + 1 <= trials'[Head(targets)]
           \/ trials'[Head(targets)] >= MaxAttempts
    BY <1>0, <2>1, <2>2, OneMoreTrial
  <2> QED BY <2>2, <2>3 DEF RetireInv, ReadyIsTrue, TrialIsNew
<1>6. CASE CanaryRejects
  BY <1>0, <1>6
     DEF CanaryRejects, SoundArtifact, storeVars, outboxVars, RetireInv, ReadyIsTrue,
         AttemptsAreTrials, TrialIsNew, DoneIsFair, MadeFrom
<1>7. CASE CanaryPasses
  BY <1>0, <1>7
     DEF CanaryPasses, SoundArtifact, outboxVars, RetireInv, ReadyIsTrue,
         AttemptsAreTrials, TrialIsNew, DoneIsFair, MadeFrom
<1>8. CASE FinishCandidate
  <2>1. \A e : MadeFrom(e) \subseteq MadeFrom(e)'
    BY <1>8 DEF FinishCandidate, MadeFrom
  <2>2. AttemptsAreTrials' /\ DoneIsFair' /\ TrialIsNew'
    BY <1>0, <1>8, <2>1 DEF FinishCandidate, AttemptsAreTrials, DoneIsFair, TrialIsNew
  <2>3. MadeFrom(Head(targets))' # {}
    <3>1. PICK c \in Candidates : writing = {c} /\ Origin[c] = Head(work)
      BY <1>8 DEF FinishCandidate, PassInv, WritingIsBound
    <3>2. Head(work) \in ArtifactSet(Head(targets))
      BY <1>8, WorkFacts DEF FinishCandidate, PassInv, WritingIsBound
    <3>3. c \in stored' /\ targets' = targets
      BY <1>8, <3>1 DEF FinishCandidate
    <3>4. c \in MadeFrom(Head(targets))'
      BY <3>1, <3>2, <3>3 DEF MadeFrom
    <3> QED BY <3>4
  <2> QED BY <2>2, <2>3 DEF RetireInv, ReadyIsTrue
<1>9. CASE EnvelopeProcessed
  <2>1. Head(targets) \in Compiled
    BY <1>9, TargetFacts DEF EnvelopeProcessed
  <2>2. /\ UNCHANGED <<attempts, done, stored, targets, ready>>
        /\ bpc = "artifact" /\ bpc' = "record"
    BY <1>9 DEF EnvelopeProcessed, storeVars, outboxVars
  <2>3. ReadyIsTrue'
    BY <1>0, <2>2 DEF ReadyIsTrue, MadeFrom
  <2>4. CASE ready
    <3>1. UNCHANGED trials
      BY <1>9, <2>4 DEF EnvelopeProcessed
    <3> QED
      BY <1>0, <2>2, <2>3, <2>4, <3>1
         DEF RetireInv, AttemptsAreTrials, TrialIsNew, DoneIsFair, MadeFrom
  <2>5. CASE ~ ready
    <3>1. trials' = [trials EXCEPT ![Head(targets)] = OneMore(@)]
      BY <1>9, <2>5 DEF EnvelopeProcessed
    <3>2. /\ AttemptsAreTrials' /\ DoneIsFair'
          /\ attempts'[Head(targets)] + 1 <= trials'[Head(targets)]
             \/ trials'[Head(targets)] >= MaxAttempts
      BY <1>0, <2>1, <2>2, <3>1, OneMoreTrial
    <3> QED BY <2>2, <2>3, <3>2 DEF RetireInv, TrialIsNew
  <2> QED BY <2>4, <2>5
<1>10. CASE RecordAttempt
  <2> DEFINE h == Head(targets)
  <2>1. /\ bpc = "record" /\ UNCHANGED <<stored, trials, ready>>
        /\ bpc' \in {"project", "envelope"}
    BY <1>10 DEF RecordAttempt, NextTarget, outboxVars
  <2>2. ReadyIsTrue' /\ TrialIsNew'
    BY <2>1 DEF ReadyIsTrue, TrialIsNew
  <2>3. h \in Compiled
    BY <2>1, TargetFacts
  <2>4. \A e \in Compiled : MadeFrom(e)' = MadeFrom(e)
    BY <2>1 DEF MadeFrom
  <2>5. CASE ready
    <3>1. done' = done \union {h} /\ UNCHANGED attempts
      BY <1>10, <2>5 DEF RecordAttempt
    <3>2. MadeFrom(h) # {}
      BY <1>0, <2>1, <2>5 DEF ReadyIsTrue
    <3>3. AttemptsAreTrials'
      BY <1>0, <2>1, <3>1 DEF AttemptsAreTrials
    <3>4. DoneIsFair'
      BY <1>0, <2>1, <2>4, <3>1, <3>2 DEF DoneIsFair
    <3> QED BY <2>2, <3>3, <3>4 DEF RetireInv
  <2>6. CASE ~ ready
    <3>1. /\ attempts' = [attempts EXCEPT ![h] = attempts[h] + 1]
          /\ done' = IF attempts[h] + 1 >= MaxAttempts THEN done \union {h} ELSE done
      BY <1>10, <2>6 DEF RecordAttempt
    <3>2. AttemptsAreTrials'
      BY <2>1, <2>6, <3>1, CounterIsBehind
    <3>3. attempts[h] + 1 >= MaxAttempts => trials[h] >= MaxAttempts
      <4>1. attempts[h] + 1 <= trials[h] \/ trials[h] >= MaxAttempts
        BY <1>0, <2>1, <2>6 DEF TrialIsNew
      <4>2. attempts[h] \in Nat /\ trials[h] \in 0 .. MaxAttempts /\ MaxAttempts \in Nat
        BY <2>3 DEF PassInv, BridgeTyped, BridgeAssumption
      <4> HIDE DEF h
      <4> QED BY <4>1, <4>2
    <3>4. DoneIsFair'
      <4>1. \A e \in done' : e \in done \/ (e = h /\ trials[h] >= MaxAttempts)
        BY <3>1, <3>3
      <4> HIDE DEF h
      <4> QED BY <1>0, <2>1, <2>4, <4>1 DEF DoneIsFair
    <3> QED BY <2>2, <3>2, <3>4 DEF RetireInv
  <2> QED BY <2>5, <2>6
<1> QED
  BY StepCases, <1>1, <1>2, <1>3, <1>4, <1>5, <1>6, <1>7, <1>8, <1>9, <1>10

(***************************************************************************)
(* A bridge gives up an envelope only when a candidate was made from it or *)
(* after MaxAttempts complete trials, for every number of envelopes,       *)
(* artifacts, attempts, passes, faults and runs by hand.                   *)
(***************************************************************************)
THEOREM RetirementIsFair == Spec => []RetiredFairly
<1>1. PassInv /\ RetireInv => RetiredFairly
  <2> SUFFICES ASSUME PassInv, RetireInv, NEW e \in Compiled,
                      attempts[e] >= MaxAttempts
               PROVE  trials[e] >= MaxAttempts
    BY DEF RetireInv, DoneIsFair, RetiredFairly
  <2>1. attempts[e] \in Nat /\ trials[e] \in 0 .. MaxAttempts /\ MaxAttempts \in Nat
    BY BridgeAssumption DEF PassInv, BridgeTyped, BridgeAssumption
  <2>2. attempts[e] <= trials[e] \/ trials[e] >= MaxAttempts
    BY DEF RetireInv, AttemptsAreTrials
  <2> QED BY <2>1, <2>2
<1> QED
  BY <1>1, PassInvariant, RetireInvInit, RetireInvStep, BridgeAssumption, PTL DEF Spec

-----------------------------------------------------------------------------

\* Faults and runs by hand are only ever added.
LEMMA DisturbancesStay ==
    ASSUME BridgeAssumption, PassInv, [Next]_vars
    PROVE  /\ (faults' = 0 /\ byHand' = 0) => (faults = 0 /\ byHand = 0)
           /\ \A e : Undisturbed(e)' => Undisturbed(e)
<1>0. faults \in Nat /\ byHand \in Nat
  BY DEF PassInv, BridgeTyped
<1>1. CASE QuietStep
  BY <1>0, <1>1 DEF QuietStep, Undisturbed, ArtifactSet
<1>2. CASE EndStep
  BY <1>0, <1>2 DEF EndStep, Undisturbed, ArtifactSet
<1>3. ASSUME NEW list, StartPass(list), byHand' = byHand \/ byHand' = byHand + 1
      PROVE  /\ (faults' = 0 /\ byHand' = 0) => (faults = 0 /\ byHand = 0)
             /\ \A e : Undisturbed(e)' => Undisturbed(e)
  BY <1>0, <1>3 DEF StartPass, outboxVars, Undisturbed, ArtifactSet
<1>4. ASSUME \/ OpenEnvelope \/ EnvelopeUnavailable
             \/ CanaryRejects \/ CanaryPasses \/ FinishCandidate
             \/ EnvelopeProcessed \/ RecordAttempt
      PROVE  UNCHANGED <<faults, byHand>>
  BY <1>4 DEF OpenEnvelope, EnvelopeUnavailable, CanaryRejects, CanaryPasses,
     FinishCandidate, EnvelopeProcessed, RecordAttempt, outboxVars
<1>5. UNCHANGED <<faults, byHand>> => /\ (faults' = 0 /\ byHand' = 0) => (faults = 0 /\ byHand = 0)
                                      /\ \A e : Undisturbed(e)' => Undisturbed(e)
  BY DEF Undisturbed, ArtifactSet
<1> QED BY StepCases, <1>1, <1>2, <1>3, <1>4, <1>5

LEMMA OnceInvInit == Init => OnceInv
  BY DEF Init, OutboxInit, OnceInv, TargetsAreDue, CandidateIsRecorded, WorkIsNew,
     OneCandidatePerArtifact, MadeFrom

\* With the same candidates the property cannot be lost.
LEMMA OnceIsKept ==
    ASSUME BridgeAssumption, PassInv, [Next]_vars, OneCandidatePerArtifact,
           UNCHANGED stored
    PROVE  OneCandidatePerArtifact'
<1> SUFFICES ASSUME NEW e \in Compiled, NEW c \in MadeFrom(e)', NEW d \in MadeFrom(e)',
                    c # d, Origin[c] = Origin[d], Undisturbed(e)'
             PROVE  FALSE
  <2>1. faults' \in Nat /\ byHand' \in Nat
    BY PassInvStep DEF PassInv, BridgeTyped
  <2> QED BY <2>1 DEF OneCandidatePerArtifact, Undisturbed, ArtifactSet
<1>1. Undisturbed(e)
  BY DisturbancesStay
<1>2. c \in MadeFrom(e) /\ d \in MadeFrom(e)
  BY DEF MadeFrom, ArtifactSet
<1>3. ~ (faults > 0 \/ byHand > 0 \/ ArtifactSet(e) \intersect Unsound # {})
  BY <1>1 DEF Undisturbed
<1> QED BY <1>2, <1>3 DEF OneCandidatePerArtifact

\* With the same targets, or fewer, and the same markers they stay due.
LEMMA DueIsKept ==
    ASSUME BridgeAssumption, PassInv, [Next]_vars, TargetsAreDue,
           UNCHANGED <<targets, done>>
    PROVE  TargetsAreDue'
<1>1. (faults' = 0 /\ byHand' = 0) => (faults = 0 /\ byHand = 0)
  BY DisturbancesStay
<1> QED BY <1>1 DEF TargetsAreDue

\* An undisturbed first target is not retired yet.
LEMMA FirstIsDue ==
    ASSUME PassInv, TargetsAreDue, bpc \in {"envelope", "artifact", "writing", "record"},
           Undisturbed(Head(targets))
    PROVE  Head(targets) \notin done
<1>1. 1 \in 1 .. Len(targets) /\ Head(targets) = targets[1]
  BY TargetFacts
<1> QED BY <1>1 DEF TargetsAreDue, Undisturbed

LEMMA OnceInvStep ==
    BridgeAssumption /\ PassInv /\ OnceInv /\ [Next]_vars => OnceInv'
<1> SUFFICES ASSUME BridgeAssumption, PassInv, OnceInv, [Next]_vars PROVE OnceInv'
  OBVIOUS
<1>0. TargetsAreDue /\ CandidateIsRecorded /\ WorkIsNew /\ OneCandidatePerArtifact
  BY DEF OnceInv
<1>u. \A e : Undisturbed(e)' => Undisturbed(e)
  BY DisturbancesStay
<1>f. (faults' = 0 /\ byHand' = 0) => (faults = 0 /\ byHand = 0)
  BY DisturbancesStay
<1>m. UNCHANGED stored => \A e : MadeFrom(e)' = MadeFrom(e)
  BY DEF MadeFrom, ArtifactSet
<1>k. UNCHANGED stored => OneCandidatePerArtifact'
  BY <1>0, OnceIsKept
<1>1. CASE QuietStep
  <2>1. UNCHANGED <<stored, done, targets, work, ready, bpc>>
    BY <1>1 DEF QuietStep, passVars
  <2>2. TargetsAreDue'
    BY <1>0, <2>1, DueIsKept
  <2>3. CandidateIsRecorded'
    BY <1>0, <1>u, <1>m, <2>1 DEF CandidateIsRecorded
  <2>4. WorkIsNew'
    BY <1>0, <1>u, <2>1 DEF WorkIsNew
  <2> QED BY <1>k, <2>1, <2>2, <2>3, <2>4 DEF OnceInv
<1>2. CASE EndStep
  <2>1. /\ UNCHANGED <<stored, done>> /\ targets' = <<>> /\ bpc' = "idle" /\ EndIsExcused
    BY <1>2 DEF EndStep, EndPass
  <2>2. TargetsAreDue' /\ WorkIsNew'
    BY <2>1 DEF TargetsAreDue, WorkIsNew
  <2>3. ASSUME NEW e \in Compiled, Undisturbed(e)', MadeFrom(e)' # {} PROVE e \in done'
    <3>1. Undisturbed(e) /\ MadeFrom(e) # {} /\ ~ (faults' > 0)
      BY <1>u, <1>m, <2>1, <2>3 DEF Undisturbed
    <3>2. CASE bpc = "project"
      BY <1>0, <2>1, <3>1, <3>2 DEF CandidateIsRecorded
    <3>3. CASE bpc = "artifact" /\ work # <<>> /\ Head(work) \in Unsound
      <4>1. Head(work) \in ArtifactSet(Head(targets))
        BY <3>3, WorkFacts
      <4>2. e # Head(targets)
        BY <3>1, <3>3, <4>1 DEF Undisturbed
      <4> QED BY <1>0, <2>1, <3>1, <4>2 DEF CandidateIsRecorded
    <3> QED BY <2>1, <3>1, <3>2, <3>3 DEF EndIsExcused
  <2>4. CandidateIsRecorded'
    BY <2>3 DEF CandidateIsRecorded
  <2> QED BY <1>k, <2>1, <2>2, <2>4 DEF OnceInv
<1>3. ASSUME NEW list, StartPass(list)
      PROVE  /\ UNCHANGED <<stored, done>> /\ targets' = list
             /\ CandidateIsRecorded' /\ WorkIsNew' /\ OneCandidatePerArtifact'
  <2>1. /\ UNCHANGED <<stored, done>> /\ targets' = list
        /\ bpc = "idle" /\ bpc' = "envelope"
    BY <1>3 DEF StartPass, BridgeIdle, outboxVars, storeVars
  <2>2. CandidateIsRecorded'
    BY <1>0, <1>u, <1>m, <2>1 DEF CandidateIsRecorded
  <2> QED BY <1>k, <2>1, <2>2 DEF WorkIsNew
<1>4. ASSUME NEW list \in FirstOf(Pending), StartPass(list) PROVE OnceInv'
  <2>1. Pending \in SUBSET Compiled
    BY DEF Pending, PassInv, BridgeTyped
  <2>2. /\ \A i \in 1 .. Len(list) : list[i] \in Pending
        /\ \A i, j \in 1 .. Len(list) : list[i] = list[j] => i = j
    BY <2>1, ListingIsDistinct
  <2>3. TargetsAreDue'
    BY <1>3, <1>4, <2>2 DEF TargetsAreDue, Pending
  <2> QED BY <1>3, <1>4, <2>3 DEF OnceInv
<1>5. ASSUME NEW e \in ByHand, StartPass(<<e>>), byHand' = byHand + 1 PROVE OnceInv'
  <2>1. byHand' # 0
    BY <1>5 DEF PassInv, BridgeTyped
  <2> QED BY <1>3, <1>5, <2>1 DEF OnceInv, TargetsAreDue
<1>6. CASE OpenEnvelope
  <2>1. /\ UNCHANGED <<stored, done, targets>> /\ bpc = "envelope" /\ bpc' = "artifact"
        /\ work' = ArtifactsOf[Head(targets)] /\ Head(targets)' = Head(targets)
    BY <1>6 DEF OpenEnvelope, outboxVars, storeVars
  <2>2. CandidateIsRecorded'
    BY <1>0, <1>u, <1>m, <2>1 DEF CandidateIsRecorded
  <2>3. ASSUME Undisturbed(Head(targets))', NEW i \in 1 .. Len(work'), NEW c \in stored,
               Origin[c] = work'[i]
        PROVE  FALSE
    <3>1. Undisturbed(Head(targets))
      BY <1>u, <2>1, <2>3 DEF Undisturbed
    <3>2. Head(targets) \in Compiled
      BY <2>1, TargetFacts
    <3>3. c \in MadeFrom(Head(targets))
      BY <2>1, <2>3 DEF MadeFrom, ArtifactSet
    <3>4. Head(targets) \in done
      BY <1>0, <2>1, <3>1, <3>2, <3>3 DEF CandidateIsRecorded
    <3> QED BY <1>0, <2>1, <3>1, <3>4, FirstIsDue
  <2>4. WorkIsNew'
    BY <2>1, <2>3 DEF WorkIsNew
  <2> QED BY <1>0, <1>k, <2>1, <2>2, <2>4, DueIsKept DEF OnceInv
<1>7. CASE EnvelopeUnavailable
  <2>1. UNCHANGED <<stored, done, targets>> /\ bpc = "envelope" /\ bpc' = "record"
    BY <1>7 DEF EnvelopeUnavailable, outboxVars, storeVars
  <2>2. CandidateIsRecorded'
    BY <1>0, <1>u, <1>m, <2>1 DEF CandidateIsRecorded
  <2> QED BY <1>0, <1>k, <2>1, <2>2, DueIsKept DEF OnceInv, WorkIsNew
<1>8. CASE CanaryRejects
  <2>1. /\ UNCHANGED <<stored, done, targets, ready, bpc>> /\ bpc = "artifact"
        /\ work # <<>> /\ work' = Tail(work) /\ Head(targets)' = Head(targets)
    BY <1>8 DEF CanaryRejects, SoundArtifact, outboxVars, storeVars
  <2>2. CandidateIsRecorded'
    BY <1>0, <1>u, <1>m, <2>1 DEF CandidateIsRecorded
  <2>3. WorkIsNew'
    <3>1. Len(work) \in Nat \ {0} /\ Len(work') = Len(work) - 1
          /\ \A i \in 1 .. Len(work') : work'[i] = work[i + 1]
      BY <2>1, WorkFacts
    <3>2. \A i \in 1 .. Len(work') : i + 1 \in 1 .. Len(work)
      BY <3>1
    <3> QED BY <1>0, <1>u, <2>1, <3>1, <3>2 DEF WorkIsNew, Undisturbed
  <2> QED BY <1>0, <1>k, <2>1, <2>2, <2>3, DueIsKept DEF OnceInv
<1>9. CASE CanaryPasses
  <2>1. /\ UNCHANGED <<stored, done, targets, work, ready>>
        /\ bpc = "artifact" /\ bpc' = "writing"
    BY <1>9 DEF CanaryPasses, SoundArtifact, outboxVars
  <2>2. CandidateIsRecorded'
    BY <1>0, <1>u, <1>m, <2>1 DEF CandidateIsRecorded
  <2>3. WorkIsNew'
    BY <1>0, <1>u, <2>1 DEF WorkIsNew
  <2> QED BY <1>0, <1>k, <2>1, <2>2, <2>3, DueIsKept DEF OnceInv
<1>10. CASE FinishCandidate
  <2> DEFINE h == Head(targets)
  <2>1. PICK c \in Candidates : writing = {c} /\ Origin[c] = Head(work)
    BY <1>10 DEF FinishCandidate, PassInv, WritingIsBound
  <2>2. /\ stored' = stored \union {c} /\ UNCHANGED <<done, targets>> /\ bpc = "writing"
        /\ bpc' = "artifact" /\ ready' /\ work' = Tail(work) /\ work # <<>> /\ h' = h
    BY <1>10, <2>1 DEF FinishCandidate, PassInv, WritingIsBound
  <2>3. /\ Head(work) = work[1] /\ Head(work) \in ArtifactSet(h) /\ Len(work) \in Nat \ {0}
        /\ Len(work') = Len(work) - 1 /\ \A i \in 1 .. Len(work') : work'[i] = work[i + 1]
    BY <2>2, WorkFacts
  <2>4. h \in Compiled
    BY <2>2, TargetFacts
  <2>5. \A e \in Compiled : Head(work) \in ArtifactSet(e) => e = h
    <3>1. \A e \in Compiled : DOMAIN ArtifactsOf[e] = 1 .. Len(ArtifactsOf[e])
      BY ArtifactsAreDistinct
    <3> HIDE DEF h
    <3> QED BY <2>3, <2>4, <3>1 DEF ArtifactSet, BridgeAssumption
  <2>6. \A e \in Compiled : e # h => MadeFrom(e)' = MadeFrom(e)
    BY <2>1, <2>2, <2>5 DEF MadeFrom, ArtifactSet
  <2>7. CandidateIsRecorded'
    <3>1. ASSUME NEW e \in Compiled, e # h, Undisturbed(e)', MadeFrom(e)' # {}
          PROVE  e \in done'
      BY <1>0, <1>u, <2>2, <2>6, <3>1 DEF CandidateIsRecorded
    <3> QED BY <2>2, <3>1 DEF CandidateIsRecorded
  <2>8. WorkIsNew'
    <3> SUFFICES ASSUME Undisturbed(h), NEW i \in 1 .. Len(work'), NEW d \in stored'
                 PROVE  Origin[d] # work'[i]
      BY <1>u, <2>2 DEF WorkIsNew, Undisturbed
    <3>1. 1 \in 1 .. Len(work) /\ i + 1 \in 1 .. Len(work) /\ i + 1 # 1
      BY <2>3
    <3>2. work[i + 1] # work[1]
      BY <2>2, <3>1 DEF PassInv, WorkIsBound
    <3>3. d \in stored => Origin[d] # work[i + 1]
      BY <1>0, <2>2, <3>1 DEF WorkIsNew
    <3> QED BY <2>1, <2>2, <2>3, <3>2, <3>3
  <2>9. OneCandidatePerArtifact'
    <3> SUFFICES ASSUME NEW e \in Compiled, NEW d \in MadeFrom(e)', NEW f \in MadeFrom(e)',
                        d # f, Origin[d] = Origin[f], Undisturbed(e)'
                 PROVE  FALSE
      <4>1. faults' \in Nat /\ byHand' \in Nat
        BY PassInvStep DEF PassInv, BridgeTyped
      <4> QED BY <4>1 DEF OneCandidatePerArtifact, Undisturbed, ArtifactSet
    <3>1. Undisturbed(e)
      BY <1>u
    <3>2. ~ (faults > 0 \/ byHand > 0 \/ ArtifactSet(e) \intersect Unsound # {})
      BY <3>1 DEF Undisturbed
    <3>3. /\ d \in stored' /\ f \in stored' /\ Origin[d] \in ArtifactSet(e)
      BY DEF MadeFrom, ArtifactSet
    <3>4. CASE d \in stored /\ f \in stored
      BY <1>0, <3>2, <3>3, <3>4 DEF OneCandidatePerArtifact, MadeFrom
    <3>5. CASE d = c \/ f = c
      <4>1. Origin[d] = Head(work) /\ Origin[f] = Head(work)
        BY <2>1, <3>5
      <4>2. e = h
        BY <2>5, <3>3, <4>1
      <4>3. \A x \in stored : Origin[x] # work[1]
        <5>1. 1 \in 1 .. Len(work)
          BY <2>3
        <5> QED BY <1>0, <2>2, <3>1, <4>2, <5>1 DEF WorkIsNew
      <4> QED BY <2>2, <2>3, <3>3, <3>5, <4>1, <4>3
    <3> QED BY <2>2, <3>3, <3>4, <3>5
  <2> QED BY <1>0, <2>2, <2>7, <2>8, <2>9, DueIsKept DEF OnceInv
<1>11. CASE EnvelopeProcessed
  <2>1. UNCHANGED <<stored, done, targets, ready>> /\ bpc = "artifact" /\ bpc' = "record"
    BY <1>11 DEF EnvelopeProcessed, outboxVars, storeVars
  <2>2. CandidateIsRecorded'
    BY <1>0, <1>u, <1>m, <2>1 DEF CandidateIsRecorded
  <2> QED BY <1>0, <1>k, <2>1, <2>2, DueIsKept DEF OnceInv, WorkIsNew
<1>12. CASE RecordAttempt
  <2> DEFINE h == Head(targets)
  <2>1. /\ UNCHANGED stored /\ bpc = "record" /\ bpc' \in {"project", "envelope"}
        /\ targets' = Tail(targets) /\ done \subseteq done' /\ done' \subseteq done \union {h}
        /\ ready => h \in done'
    BY <1>12 DEF RecordAttempt, NextTarget, outboxVars
  <2>2. CandidateIsRecorded'
    BY <1>0, <1>u, <1>m, <2>1 DEF CandidateIsRecorded
  <2>3. TargetsAreDue'
    <3> SUFFICES ASSUME faults = 0, byHand = 0, NEW i \in 1 .. Len(targets')
                 PROVE  /\ targets'[i] \notin done'
                        /\ \A j \in 1 .. Len(targets') : targets'[i] = targets'[j] => i = j
      BY <1>f DEF TargetsAreDue
    <3>1. /\ h = targets[1] /\ Len(targets) \in Nat \ {0}
          /\ Len(targets') = Len(targets) - 1
          /\ \A j \in 1 .. Len(targets') : targets'[j] = targets[j + 1]
      BY <2>1, TargetFacts
    <3>2. /\ 1 \in 1 .. Len(targets) /\ i + 1 # 1
          /\ \A j \in 1 .. Len(targets') : j + 1 \in 1 .. Len(targets)
      BY <3>1
    <3>3. /\ \A j \in 1 .. Len(targets) : targets[j] \notin done
          /\ \A j, k \in 1 .. Len(targets) : targets[j] = targets[k] => j = k
      BY <1>0 DEF TargetsAreDue
    <3>4. targets[i + 1] \notin done /\ targets[i + 1] # targets[1]
      BY <3>2, <3>3
    <3>5. ASSUME NEW j \in 1 .. Len(targets'), targets'[i] = targets'[j] PROVE i = j
      <4>1. i + 1 = j + 1
        BY <3>1, <3>2, <3>3, <3>5
      <4> QED BY <4>1
    <3> QED BY <2>1, <3>1, <3>4, <3>5
  <2> QED BY <1>k, <2>1, <2>2, <2>3 DEF OnceInv, WorkIsNew
<1> QED
  BY StepCases, <1>4, <1>5, <1>1, <1>2, <1>6, <1>7, <1>8, <1>9, <1>10, <1>11, <1>12

(***************************************************************************)
(* Without a fault and without an operator's run an envelope whose         *)
(* artifacts are sound gets at most one candidate, and the operator one    *)
(* request, per artifact, however many scans and targets there are.        *)
(***************************************************************************)
THEOREM CandidatesAreUnique == Spec => []OneCandidatePerArtifact
<1>1. OnceInv => OneCandidatePerArtifact
  BY DEF OnceInv
<1> QED
  BY <1>1, PassInvariant, OnceInvInit, OnceInvStep, BridgeAssumption, PTL DEF Spec

=============================================================================
