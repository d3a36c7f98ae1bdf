--------------------------- MODULE PromoterProofs ---------------------------
(***************************************************************************)
(* What the outbox, the decision archive and the promoter guarantee for    *)
(* every number of processes, candidates and events, and for every timing. *)
(***************************************************************************)
EXTENDS Promoter, TLAPS

-----------------------------------------------------------------------------
(***************************************************************************)
(* Type correctness.                                                       *)
(***************************************************************************)

\* A step of the outbox keeps the types of the outbox.
LEMMA OutboxTypeStep ==
    ASSUME OutboxTypeOK, OutboxNext
    PROVE  OutboxTypeOK'
<1> USE OutboxAssumption DEF OutboxTypeOK
<1>1. CASE Tick
  BY <1>1 DEF Tick, Time
<1>2. ASSUME NEW s \in Subjects, Store(s)
      PROVE  OutboxTypeOK'
  BY <1>2 DEF Store
<1>3. ASSUME NEW p \in Projectors, NEW S, BeginPass(p, S)
      PROVE  OutboxTypeOK'
  BY <1>3 DEF BeginPass
<1>4. ASSUME NEW p \in Projectors, OpenEvent(p)
      PROVE  OutboxTypeOK'
  <2>1. PICK s \in todo[p], n \in Nonces \ UsedNonces :
          LET e == [subject |-> s, nonce |-> n, created |-> passTime[p],
                    expires |-> passTime[p] + TTL]
          IN  /\ tornEvents' = tornEvents \union {e}
              /\ putting' = [putting EXCEPT ![p] = {e}]
              /\ todo' = [todo EXCEPT ![p] = @ \ {s}]
    BY <1>4 DEF OpenEvent
  <2> DEFINE e == [subject |-> s, nonce |-> n, created |-> passTime[p],
                   expires |-> passTime[p] + TTL]
  <2>2. e \in Event
    <3>1. s \in Subjects /\ n \in Nonces /\ passTime[p] \in Time
      OBVIOUS
    <3>2. passTime[p] + TTL \in Expiry
      BY <3>1 DEF Time, Expiry
    <3> QED BY <3>1, <3>2 DEF Event
  <2> QED BY <2>1, <2>2, <1>4 DEF OpenEvent
<1>5. ASSUME NEW p \in Projectors, FinishEvent(p)
      PROVE  OutboxTypeOK'
  BY <1>5 DEF FinishEvent
<1>6. ASSUME NEW p \in Projectors, FailEvent(p) \/ CrashProjector(p)
      PROVE  OutboxTypeOK'
  BY <1>6 DEF FailEvent, CrashProjector, MayFail
<1> QED
  BY <1>1, <1>2, <1>3, <1>4, <1>5, <1>6
     DEF OutboxNext, ProjectorStep, ProjectRoots

\* A step of an importer keeps the types of the outbox and of the archive.
LEMMA ArchiveTypeStep ==
    ASSUME OutboxTypeOK, ArchiveTypeOK, ImporterStep
    PROVE  OutboxTypeOK' /\ ArchiveTypeOK'
<1> USE OutboxAssumption, ArchiveAssumption DEF OutboxTypeOK, ArchiveTypeOK
<1>1. ASSUME NEW i \in Importers, NEW d \in Delivered,
             CheckDecision(i, d), UNCHANGED outboxVars
      PROVE  OutboxTypeOK' /\ ArchiveTypeOK'
  <2>1. d.issued \in 0 .. MaxTime + Skew
    BY DEF Delivered, Time
  <2>2. d \in Decision
    BY <2>1 DEF Delivered, Decision
  <2> QED BY <1>1, <2>2 DEF CheckDecision, outboxVars
<1>2. ASSUME NEW i \in Importers, CreateDecision(i), UNCHANGED outboxVars
      PROVE  OutboxTypeOK' /\ ArchiveTypeOK'
  BY <1>2 DEF CreateDecision, outboxVars
<1>3. ASSUME NEW i \in Importers, FinishDecision(i), UNCHANGED outboxVars
      PROVE  OutboxTypeOK' /\ ArchiveTypeOK'
  BY <1>3 DEF FinishDecision, outboxVars
<1>4. ASSUME NEW i \in Importers, FailDecision(i) \/ CrashImporter(i)
      PROVE  OutboxTypeOK' /\ ArchiveTypeOK'
  BY <1>4 DEF FailDecision, CrashImporter, MayFail
<1> QED BY <1>1, <1>2, <1>3, <1>4 DEF ImporterStep

\* A call that is not idle has a candidate and a decision.
LEMMA RunningCall ==
    ASSUME PromoterTypeOK, NEW p \in Promoters,
           prom[p] # Idle \/ prom[p].pc \in Unlocked \union Locked
    PROVE  /\ prom[p] \in Call
           /\ prom[p].cand \in Candidates
           /\ prom[p].decision \in Decision
  BY DEF PromoterTypeOK, Idle, Call, Unlocked, Locked

\* A scan finds candidates only: an archived execution decision names one.
LEMMA ApprovedAreCandidates ==
    ASSUME ArchiveTypeOK, ArchivedIsBound
    PROVE  ApprovedCandidates \subseteq Candidates
  BY DEF ArchiveTypeOK, ArchivedIsBound, ApprovedCandidates, Sound, BoundToEvent,
         KindOf, Decision

\* A step of promote, a failure or a crash of it keeps the types of its state.
LEMMA PromoterTypeStep ==
    ASSUME OutboxTypeOK, ArchiveTypeOK, PromoterTypeOK, ArchivedIsBound,
           CallsAreAuthorized,
           NEW p \in Promoters,
           \/ StartScan(p)
           \/ \E c \in Candidates : StartByHand(p, c)
           \/ PassStep(p)
           \/ PromoteStep(p)
           \/ FailLocked(p)
           \/ CrashPromoter(p)
    PROVE  PromoterTypeOK'
<1> USE DEF PromoterTypeOK
<1>0. CASE StartScan(p)
  BY <1>0, ApprovedAreCandidates DEF StartScan
<1>1. ASSUME NEW c \in Candidates, Select(p, c) \/ Skip(p, c) \/ StartByHand(p, c)
      PROVE  PromoterTypeOK'
  <2>1. scan' \in [Promoters -> SUBSET Candidates]
    BY <1>1 DEF Select, Skip, StartByHand, NextUp
  <2>2. prom' \in [Promoters -> Call \union {Idle}]
    BY <1>1 DEF Select, Skip, StartByHand, Call, Unlocked, ArchiveTypeOK
  <2> QED BY <1>1, <2>1, <2>2 DEF Select, Skip, StartByHand
<1>2. ASSUME NEW pc \in Unlocked \union Locked, prom[p] \in Call, Goto(p, pc)
      PROVE  prom' \in [Promoters -> Call \union {Idle}]
  BY <1>2 DEF Goto, Call
<1>3. ASSUME Stop(p)
      PROVE  prom' \in [Promoters -> Call \union {Idle}]
  BY <1>3 DEF Stop
<1>4. CASE Verify(p) \/ FindStaleLock(p) \/ UnlinkStaleLock(p) \/ CheckReceipts(p)
  BY <1>2, <1>4, RunningCall
     DEF Verify, FindStaleLock, UnlinkStaleLock, CheckReceipts, Unlocked, Locked
<1>5. CASE AcquireLock(p)
  <2>1. [owner |-> p, mtime |-> now] \in LockFile
    BY DEF LockFile, OutboxTypeOK
  <2> QED BY <1>2, <1>5, <2>1, RunningCall DEF AcquireLock, Unlocked, Locked
<1>6. CASE Publish(p)
  <2>1. prom[p] \in Call /\ prom[p].cand \in Candidates
    BY <1>6, RunningCall DEF Publish, Locked
  <2>2. SeedOf(prom[p].cand) \in Destinations \X Artifacts
    BY <1>6, <2>1, PromoterAssumption
       DEF CallsAreAuthorized, Publish, SeedOf, Idle
  <2> QED BY <1>2, <1>6, <2>1, <2>2 DEF Publish, Locked
<1>7. CASE OpenReceipt(p)
  BY <1>2, <1>7, RunningCall DEF OpenReceipt, Locked
<1>8. CASE FinishReceipt(p)
  <2>1. prom[p] \in Call /\ prom[p].cand \in Candidates /\ prom[p].decision \in Decision
    BY <1>8, RunningCall DEF FinishReceipt, Locked
  <2>2. [cand |-> prom[p].cand, decision |-> prom[p].decision] \in Receipt
    BY <2>1 DEF Receipt
  <2> QED BY <1>2, <1>8, <2>1, <2>2 DEF FinishReceipt, Locked
<1>9. CASE Refuse(p) \/ AbortPass(p) \/ LockBusy(p) \/ Return(p)
           \/ DeclineLocked(p) \/ ReceiptExists(p) \/ FailLocked(p)
           \/ CrashPromoter(p)
  BY <1>3, <1>9
     DEF Refuse, AbortPass, LockBusy, Return, DeclineLocked, ReceiptExists,
         FailLocked, CrashPromoter, LeaveLock
<1> QED
  BY <1>0, <1>1, <1>4, <1>5, <1>6, <1>7, <1>8, <1>9 DEF PassStep, PromoteStep

-----------------------------------------------------------------------------
(***************************************************************************)
(* The inductive invariant.  PublishedIsApproved alone is not inductive:   *)
(* the link is made long after the decision was read and checked, so the   *)
(* invariant follows the decision from the importer's checks through the   *)
(* archive into the running promote call.                                  *)
(***************************************************************************)
IInv ==
    /\ TypeOK
    /\ ArchivedIsBound
    /\ ImportsAreBound
    /\ CallsAreAuthorized
    /\ PublishedIsApproved
    /\ ReceiptHasSeed

\* Initially nothing is stored, archived or running.
LEMMA InitIInv == Init => IInv
  BY OutboxAssumption
     DEF Init, OutboxInit, ArchiveInit, PromoterInit, IInv, TypeOK, OutboxTypeOK,
         ArchiveTypeOK, PromoterTypeOK, ArchivedIsBound, ImportsAreBound,
         CallsAreAuthorized, PublishedIsApproved, ReceiptHasSeed, Time

\* Events are never removed, so a sound decision stays sound.
LEMMA EventsGrow ==
    ASSUME OutboxNext \/ ImporterStep
    PROVE  events \subseteq events'
<1>1. CASE OutboxNext
  BY <1>1
     DEF OutboxNext, Tick, Store, ProjectorStep, ProjectRoots,
         BeginPass, OpenEvent, FinishEvent, FailEvent,
         CrashProjector
<1>2. CASE ImporterStep
  BY <1>2
     DEF ImporterStep, CheckDecision, CreateDecision, FinishDecision,
         FailDecision, CrashImporter, outboxVars
<1> QED BY <1>1, <1>2

\* Archived decisions are never removed.
LEMMA ArchiveGrows ==
    ASSUME ImporterStep
    PROVE  archive \subseteq archive'
  BY DEF ImporterStep, CheckDecision, CreateDecision, FinishDecision,
         FailDecision, CrashImporter

LEMMA SoundStays ==
    ASSUME events \subseteq events', NEW d, Sound(d)
    PROVE  Sound(d)'
  BY DEF Sound, BoundToEvent, KindOf

\* The three promoter invariants survive growth of the archive and the outbox.
LEMMA AuthorityStays ==
    ASSUME CallsAreAuthorized, PublishedIsApproved, ReceiptHasSeed,
           events \subseteq events', archive \subseteq archive',
           UNCHANGED promoterVars
    PROVE  CallsAreAuthorized' /\ PublishedIsApproved' /\ ReceiptHasSeed'
<1> USE DEF promoterVars, SeedOf
<1>1. CallsAreAuthorized'
  BY DEF CallsAreAuthorized, ExecutionDecisions
<1>2. PublishedIsApproved'
  BY DEF PublishedIsApproved
<1>3. ReceiptHasSeed'
  BY DEF ReceiptHasSeed
<1> QED BY <1>1, <1>2, <1>3

\* A step of the outbox: only events and the projectors' own state change.
LEMMA OutboxPreserves ==
    ASSUME IInv, OutboxNext, UNCHANGED <<archiveVars, promoterVars>>
    PROVE  IInv'
<1> USE DEF IInv, TypeOK
<1>1. TypeOK'
  BY OutboxTypeStep DEF archiveVars, promoterVars, ArchiveTypeOK, PromoterTypeOK
<1>2. ArchivedIsBound'
  BY EventsGrow, SoundStays DEF ArchivedIsBound, archiveVars
<1>3. ImportsAreBound'
  BY EventsGrow, SoundStays DEF ImportsAreBound, archiveVars
<1>4. CallsAreAuthorized' /\ PublishedIsApproved' /\ ReceiptHasSeed'
  BY EventsGrow, AuthorityStays DEF archiveVars
<1> QED BY <1>1, <1>2, <1>3, <1>4

\* A step of import_signed: what is written has passed the checks.
LEMMA ImporterPreserves ==
    ASSUME IInv, ImporterStep, UNCHANGED promoterVars
    PROVE  IInv'
<1> USE DEF IInv, TypeOK
<1>1. TypeOK'
  BY ArchiveTypeStep DEF promoterVars, PromoterTypeOK
<1>2. ArchivedIsBound' /\ ImportsAreBound'
  <2>1. ASSUME NEW i \in Importers, NEW d \in Delivered,
               CheckDecision(i, d), UNCHANGED outboxVars
        PROVE  ArchivedIsBound' /\ ImportsAreBound'
    <3>1. Sound(d)
      BY <2>1 DEF CheckDecision, Sound, FindEvent, Fresh
    <3>2. \A f : Sound(f) => Sound(f)'
      BY <2>1, SoundStays DEF outboxVars
    <3> QED
      BY <2>1, <3>1, <3>2
         DEF CheckDecision, ArchivedIsBound, ImportsAreBound, ArchiveTypeOK
  <2>2. ASSUME NEW i \in Importers, CreateDecision(i) \/ FinishDecision(i),
               UNCHANGED outboxVars
        PROVE  ArchivedIsBound' /\ ImportsAreBound'
    <3>1. \A f : Sound(f) => Sound(f)'
      BY <2>2, SoundStays DEF outboxVars
    <3> QED
      BY <2>2, <3>1
         DEF CreateDecision, FinishDecision, ArchivedIsBound, ImportsAreBound,
             ArchiveTypeOK
  <2>3. ASSUME NEW i \in Importers, FailDecision(i) \/ CrashImporter(i)
        PROVE  ArchivedIsBound' /\ ImportsAreBound'
    <3>1. \A f : Sound(f) => Sound(f)'
      BY <2>3, SoundStays DEF FailDecision, CrashImporter
    <3> QED
      BY <2>3, <3>1
         DEF FailDecision, CrashImporter, ArchivedIsBound, ImportsAreBound,
             ArchiveTypeOK
  <2> QED BY <2>1, <2>2, <2>3 DEF ImporterStep
<1>3. CallsAreAuthorized' /\ PublishedIsApproved' /\ ReceiptHasSeed'
  BY EventsGrow, ArchiveGrows, AuthorityStays
<1> QED BY <1>1, <1>2, <1>3

\* The archive and the outbox's events and stores stand still while promote steps.
LEMMA PromoterFrame ==
    ASSUME IInv,
           \/ UNCHANGED <<outboxVars, archiveVars>>
           \/ /\ MayFail
              /\ faults' = faults + 1
              /\ UNCHANGED <<now, stored, events, tornEvents, todo, passTime, putting>>
              /\ UNCHANGED archiveVars
    PROVE  /\ OutboxTypeOK' /\ ArchiveTypeOK'
           /\ ArchivedIsBound' /\ ImportsAreBound'
<1> USE OutboxAssumption DEF IInv, TypeOK, outboxVars, archiveVars, MayFail
<1>1. OutboxTypeOK' /\ ArchiveTypeOK'
  BY DEF OutboxTypeOK, ArchiveTypeOK
<1>2. events \subseteq events'
  OBVIOUS
<1>3. ArchivedIsBound' /\ ImportsAreBound'
  BY <1>2, SoundStays DEF ArchivedIsBound, ImportsAreBound
<1> QED BY <1>1, <1>3

\* A step of promote that moves on from pc to pc': the call keeps its decision.
LEMMA CallMovesOn ==
    ASSUME IInv, UNCHANGED <<outboxVars, archiveVars>>,
           NEW p \in Promoters, NEW pc \in Unlocked \union Locked,
           prom[p].pc \in Unlocked \union Locked, Goto(p, pc),
           seeds \subseteq seeds',
           pc # "selected",
           prom[p].pc = "selected" =>
             Authorized(prom[p].cand, prom[p].decision),
           pc \in {"published", "recording", "recorded"} =>
             SeedOf(prom[p].cand) \in seeds'
    PROVE  CallsAreAuthorized'
<1> USE DEF IInv, TypeOK
<1>1. prom[p] \in Call
  BY RunningCall
<1>2. prom[p] # Idle
  BY DEF Idle, Unlocked, Locked
<1>3. ASSUME NEW q \in Promoters, q # p, prom'[q] # Idle
      PROVE  /\ prom'[q] = prom[q]
             /\ prom[q] # Idle
  BY <1>3 DEF Goto, PromoterTypeOK
<1>4. /\ prom'[p].pc = pc
      /\ prom'[p].cand = prom[p].cand
      /\ prom'[p].decision = prom[p].decision
  BY <1>1 DEF Goto, PromoterTypeOK, Call
<1>5. /\ prom[p].decision \in ExecutionDecisions(prom[p].cand)
      /\ prom[p].decision.action = "approve"
      /\ prom[p].cand \in Reproducible
      /\ DestinationOf[prom[p].cand] \in Destinations
  BY <1>2 DEF CallsAreAuthorized, Authorized
<1>6. \A c : ExecutionDecisions(c)' = ExecutionDecisions(c)
  BY DEF ExecutionDecisions, archiveVars
<1>7. \A c : SeedOf(c)' = SeedOf(c)
  BY DEF SeedOf
<1>8. ASSUME NEW q \in Promoters, prom'[q] # Idle
      PROVE  /\ prom'[q].decision \in ExecutionDecisions(prom'[q].cand)
             /\ prom'[q].pc # "selected" =>
                  /\ prom'[q].decision.action = "approve"
                  /\ prom'[q].cand \in Reproducible
                  /\ DestinationOf[prom'[q].cand] \in Destinations
             /\ prom'[q].pc \in {"published", "recording", "recorded"} =>
                  SeedOf(prom'[q].cand) \in seeds'
  <2>1. CASE q = p
    BY <2>1, <1>4, <1>5
  <2>2. CASE q # p
    BY <2>2, <1>3, <1>8 DEF CallsAreAuthorized
  <2> QED BY <2>1, <2>2
<1> QED BY <1>6, <1>7, <1>8 DEF CallsAreAuthorized

\* A call that ends leaves the other calls alone.
LEMMA CallStops ==
    ASSUME IInv, UNCHANGED archiveVars, NEW p \in Promoters, Stop(p),
           seeds' = seeds
    PROVE  CallsAreAuthorized'
  BY DEF IInv, TypeOK, PromoterTypeOK, CallsAreAuthorized, Stop,
         ExecutionDecisions, SeedOf, archiveVars

\* A step that adds no seed and no receipt.
LEMMA NothingPublished ==
    ASSUME IInv, archive' = archive, events' = events, seeds' = seeds,
           receipts' = receipts, tornReceipts' = tornReceipts
    PROVE  PublishedIsApproved' /\ ReceiptHasSeed'
  BY DEF IInv, PublishedIsApproved, ReceiptHasSeed, SeedOf

\* A step of promote: what is linked has been verified, what is recorded is linked.
LEMMA PromoterPreserves ==
    ASSUME IInv, PromoterStep
    PROVE  IInv'
<1> DEFINE Core == CallsAreAuthorized' /\ PublishedIsApproved' /\ ReceiptHasSeed'
<1>0. ASSUME NEW p \in Promoters, UNCHANGED <<outboxVars, archiveVars>>,
             \/ StartScan(p)
             \/ \E c \in Candidates : StartByHand(p, c) \/ Skip(p, c)
      PROVE  Core
  <2>1. UNCHANGED <<seeds, receipts, tornReceipts, prom>>
    BY <1>0 DEF StartScan, StartByHand, Skip
  <2>2. CallsAreAuthorized'
    BY <1>0, <2>1 DEF IInv, CallsAreAuthorized, ExecutionDecisions, SeedOf, archiveVars
  <2>3. PublishedIsApproved' /\ ReceiptHasSeed'
    BY <1>0, <2>1, NothingPublished DEF outboxVars, archiveVars
  <2> QED BY <2>2, <2>3
<1>1. ASSUME NEW p \in Promoters, NEW c \in Candidates, Select(p, c),
             UNCHANGED <<outboxVars, archiveVars>>
      PROVE  Core
  <2>1. PICK d \in archive :
          /\ ExecutionDecisions(c) = {d}
          /\ prom' = [prom EXCEPT ![p] = [pc |-> "selected", cand |-> c, decision |-> d]]
    BY <1>1 DEF Select
  <2>2. d \in ExecutionDecisions(c)
    BY <2>1
  <2>3. CallsAreAuthorized'
    BY <1>1, <2>1, <2>2
       DEF IInv, TypeOK, PromoterTypeOK, CallsAreAuthorized, ExecutionDecisions,
           SeedOf, Select, archiveVars
  <2>4. PublishedIsApproved' /\ ReceiptHasSeed'
    BY <1>1, NothingPublished DEF Select, outboxVars, archiveVars
  <2> QED BY <2>3, <2>4
<1>2. ASSUME NEW p \in Promoters, UNCHANGED <<outboxVars, archiveVars>>,
             Verify(p) \/ AcquireLock(p) \/ FindStaleLock(p)
               \/ UnlinkStaleLock(p) \/ CheckReceipts(p)
      PROVE  Core
  <2>1. CallsAreAuthorized'
    <3>1. CASE Verify(p)
      BY <1>2, <3>1, CallMovesOn DEF Verify, Unlocked
    <3>2. CASE AcquireLock(p)
      BY <1>2, <3>2, CallMovesOn DEF AcquireLock, Unlocked, Locked
    <3>3. CASE FindStaleLock(p)
      BY <1>2, <3>3, CallMovesOn DEF FindStaleLock, Unlocked
    <3>4. CASE UnlinkStaleLock(p)
      BY <1>2, <3>4, CallMovesOn DEF UnlinkStaleLock, Unlocked
    <3>5. CASE CheckReceipts(p)
      BY <1>2, <3>5, CallMovesOn DEF CheckReceipts, Locked
    <3> QED BY <1>2, <3>1, <3>2, <3>3, <3>4, <3>5
  <2>2. PublishedIsApproved' /\ ReceiptHasSeed'
    BY <1>2, NothingPublished
       DEF Verify, AcquireLock, FindStaleLock, UnlinkStaleLock, CheckReceipts,
           outboxVars, archiveVars
  <2> QED BY <2>1, <2>2
<1>3. ASSUME NEW p \in Promoters, UNCHANGED <<outboxVars, archiveVars>>, Publish(p)
      PROVE  Core
  <2>1. /\ prom[p].pc = "clear"
        /\ seeds' = seeds \union {SeedOf(prom[p].cand)}
        /\ Goto(p, "published")
        /\ receipts' = receipts /\ tornReceipts' = tornReceipts
    BY <1>3 DEF Publish
  <2>2. CallsAreAuthorized'
    BY <1>3, <2>1, CallMovesOn DEF Locked
  <2>3. /\ prom[p].decision \in ExecutionDecisions(prom[p].cand)
        /\ prom[p].decision.action = "approve"
        /\ prom[p].cand \in Reproducible
    BY <2>1 DEF IInv, CallsAreAuthorized, Idle
  <2>4. LET d == prom[p].decision
        IN  /\ d \in archive
            /\ Sound(d)
            /\ d.kind = "execution"
            /\ d.subject = prom[p].cand
    BY <2>3 DEF IInv, ArchivedIsBound, ExecutionDecisions
  <2>5. PublishedIsApproved'
    BY <1>3, <2>1, <2>3, <2>4
       DEF IInv, PublishedIsApproved, Sound, BoundToEvent, SeedOf, outboxVars,
           archiveVars
  <2>6. ReceiptHasSeed'
    BY <2>1 DEF IInv, ReceiptHasSeed, SeedOf
  <2> QED BY <2>2, <2>5, <2>6
<1>4. ASSUME NEW p \in Promoters, UNCHANGED <<outboxVars, archiveVars>>,
             OpenReceipt(p) \/ FinishReceipt(p)
      PROVE  Core
  <2>1. SeedOf(prom[p].cand) \in seeds
    BY <1>4 DEF IInv, CallsAreAuthorized, OpenReceipt, FinishReceipt, Idle
  <2>2. CallsAreAuthorized'
    <3>1. CASE OpenReceipt(p)
      BY <1>4, <2>1, <3>1, CallMovesOn DEF OpenReceipt, Locked
    <3>2. CASE FinishReceipt(p)
      BY <1>4, <2>1, <3>2, CallMovesOn DEF FinishReceipt, Locked
    <3> QED BY <1>4, <3>1, <3>2
  <2>3. PublishedIsApproved'
    BY <1>4
       DEF IInv, PublishedIsApproved, OpenReceipt, FinishReceipt, SeedOf,
           outboxVars, archiveVars
  <2>4. ReceiptHasSeed'
    BY <1>4, <2>1 DEF IInv, ReceiptHasSeed, OpenReceipt, FinishReceipt, SeedOf
  <2> QED BY <2>2, <2>3, <2>4
<1>5. ASSUME NEW p \in Promoters, UNCHANGED <<outboxVars, archiveVars>>,
             Refuse(p) \/ AbortPass(p) \/ LockBusy(p) \/ DeclineLocked(p)
               \/ ReceiptExists(p) \/ Return(p)
      PROVE  Core
  BY <1>5, CallStops, NothingPublished
     DEF Refuse, AbortPass, LockBusy, DeclineLocked, ReceiptExists, Return, LeaveLock,
         outboxVars, archiveVars
<1>6. ASSUME NEW p \in Promoters, FailLocked(p) \/ CrashPromoter(p)
      PROVE  Core
  BY <1>6, CallStops, NothingPublished
     DEF FailLocked, CrashPromoter, LeaveLock, archiveVars
<1>7. Core
  BY <1>0, <1>1, <1>2, <1>3, <1>4, <1>5, <1>6 DEF PromoterStep, PassStep, PromoteStep
<1>8. OutboxTypeOK' /\ ArchiveTypeOK' /\ ArchivedIsBound' /\ ImportsAreBound'
  BY PromoterFrame DEF PromoterStep, FailLocked, CrashPromoter
<1>9. PromoterTypeOK'
  BY PromoterTypeStep DEF IInv, TypeOK, PromoterStep
<1> QED BY <1>7, <1>8, <1>9 DEF IInv, TypeOK

\* A refresh of the target contract changes nothing else.
LEMMA DriftPreserves ==
    ASSUME IInv, Drift, UNCHANGED <<outboxVars, archiveVars>>
    PROVE  IInv'
<1> USE DEF IInv, TypeOK, Drift
<1>1. OutboxTypeOK' /\ ArchiveTypeOK' /\ ArchivedIsBound' /\ ImportsAreBound'
  BY PromoterFrame
<1>2. PromoterTypeOK'
  BY DEF PromoterTypeOK
<1>3. CallsAreAuthorized'
  BY DEF CallsAreAuthorized, ExecutionDecisions, SeedOf, archiveVars
<1>4. PublishedIsApproved' /\ ReceiptHasSeed'
  BY NothingPublished DEF outboxVars, archiveVars
<1> QED BY <1>1, <1>2, <1>3, <1>4

\* Every step of the specification preserves the inductive invariant.
LEMMA NextIInv ==
    ASSUME IInv, [Next]_vars
    PROVE  IInv'
<1>1. CASE UNCHANGED vars
  <2>1. UNCHANGED <<outboxVars, archiveVars, promoterVars>>
    BY <1>1 DEF vars
  <2>2. OutboxTypeOK' /\ ArchiveTypeOK' /\ ArchivedIsBound' /\ ImportsAreBound'
    BY <2>1, PromoterFrame
  <2>3. PromoterTypeOK'
    BY <2>1 DEF IInv, TypeOK, PromoterTypeOK, promoterVars
  <2>4. CallsAreAuthorized' /\ PublishedIsApproved' /\ ReceiptHasSeed'
    BY <2>1, AuthorityStays DEF IInv, outboxVars, archiveVars
  <2> QED BY <2>2, <2>3, <2>4 DEF IInv, TypeOK
<1>2. CASE OutboxNext /\ UNCHANGED <<archiveVars, promoterVars>>
  BY <1>2, OutboxPreserves
<1>3. CASE ImporterStep /\ UNCHANGED promoterVars
  BY <1>3, ImporterPreserves
<1>4. CASE PromoterStep
  BY <1>4, PromoterPreserves
<1>5. CASE Drift /\ UNCHANGED <<outboxVars, archiveVars>>
  BY <1>5, DriftPreserves
<1> QED BY <1>1, <1>2, <1>3, <1>4, <1>5 DEF Next, OutboxNext

(***************************************************************************)
(* The inductive invariant holds in every state of the specification.      *)
(***************************************************************************)
THEOREM Invariance == Spec => []IInv
<1>1. Init => IInv
  BY InitIInv
<1>2. IInv /\ [Next]_vars => IInv'
  BY NextIInv
<1> QED BY <1>1, <1>2, PTL DEF Spec

(***************************************************************************)
(* Type correctness of the composed outbox, archive and promoter.          *)
(***************************************************************************)
THEOREM TypeCorrect == Spec => []TypeOK
<1>1. IInv => TypeOK
  BY DEF IInv
<1> QED BY <1>1, Invariance, PTL

(***************************************************************************)
(* However many importers, projectors and promoters run, crash or overlap, *)
(* and whether or not the lock file keeps them apart, a seed reaches the   *)
(* fuzzers only if the archive holds an authentic approval bound to it     *)
(* (promoter.promote, decisions.import_signed).                            *)
(***************************************************************************)
THEOREM PublicationIsAuthorized == Spec => []PublishedIsApproved
<1>1. IInv => PublishedIsApproved
  BY DEF IInv
<1> QED BY <1>1, Invariance, PTL

(***************************************************************************)
(* Every archived decision is authentic, answers an existing event and     *)
(* repeats its content (decisions.import_signed).                          *)
(***************************************************************************)
THEOREM ArchiveIsSound == Spec => []ArchivedIsBound
<1>1. IInv => ArchivedIsBound
  BY DEF IInv
<1> QED BY <1>1, Invariance, PTL

(***************************************************************************)
(* A receipt is never ahead of its seed, also across crashes and when the  *)
(* lock has been stolen (promoter.promote).                                *)
(***************************************************************************)
THEOREM ReceiptsFollowSeeds == Spec => []ReceiptHasSeed
<1>1. IInv => ReceiptHasSeed
  BY DEF IInv
<1> QED BY <1>1, Invariance, PTL

-----------------------------------------------------------------------------
(***************************************************************************)
(* Finality of a denial.                                                   *)
(***************************************************************************)

\* No step of a call changes what it has looked up, except Select.
LEMMA LookupsStay ==
    ASSUME TypeOK, NEW p \in Promoters, PromoteStep(p) \/ FailLocked(p) \/ CrashPromoter(p),
           NEW q \in Promoters, prom'[q] # Idle
    PROVE  /\ prom[q] # Idle
           /\ prom'[q].cand = prom[q].cand
           /\ prom'[q].decision = prom[q].decision
<1> USE DEF TypeOK
<1>1. ASSUME NEW pc \in Unlocked \union Locked, Goto(p, pc), prom[p].pc \in Unlocked \union Locked
      PROVE  /\ prom[q] # Idle
             /\ prom'[q].cand = prom[q].cand
             /\ prom'[q].decision = prom[q].decision
  <2>1. prom[p] \in Call /\ prom[p] # Idle
    BY <1>1, RunningCall DEF Idle, Unlocked, Locked
  <2> QED BY <1>1, <2>1 DEF Goto, PromoterTypeOK, Call
<1>2. ASSUME Stop(p)
      PROVE  /\ prom[q] # Idle
             /\ prom'[q].cand = prom[q].cand
             /\ prom'[q].decision = prom[q].decision
  BY <1>2 DEF Stop, PromoterTypeOK
<1>3. CASE Verify(p) \/ AcquireLock(p) \/ FindStaleLock(p) \/ UnlinkStaleLock(p)
           \/ CheckReceipts(p) \/ Publish(p) \/ OpenReceipt(p) \/ FinishReceipt(p)
  BY <1>1, <1>3
     DEF Verify, AcquireLock, FindStaleLock, UnlinkStaleLock, CheckReceipts,
         Publish, OpenReceipt, FinishReceipt, Unlocked, Locked
<1>4. CASE Refuse(p) \/ AbortPass(p) \/ LockBusy(p) \/ DeclineLocked(p)
           \/ ReceiptExists(p) \/ Return(p) \/ FailLocked(p) \/ CrashPromoter(p)
  BY <1>2, <1>4
     DEF Refuse, AbortPass, LockBusy, DeclineLocked, ReceiptExists, Return, FailLocked,
         CrashPromoter, LeaveLock
<1> QED BY <1>3, <1>4 DEF PromoteStep

\* A step keeps denials and brings no approval of a denied candidate into a call.
LEMMA DenialStep ==
    ASSUME TypeOK, [Next]_vars, NEW c \in Candidates,
           Denied(c), ~ ApprovalInFlight(c)
    PROVE  Denied(c)' /\ ~ ApprovalInFlight(c)'
<1>1. ASSUME UNCHANGED promoterVars, archive \subseteq archive'
      PROVE  Denied(c)' /\ ~ ApprovalInFlight(c)'
  BY <1>1 DEF Denied, ApprovalInFlight, ExecutionDecisions, promoterVars
<1>2. CASE UNCHANGED vars
  BY <1>1, <1>2 DEF vars, archiveVars
<1>3. CASE ImporterStep /\ UNCHANGED promoterVars
  BY <1>1, <1>3, ArchiveGrows
<1>4. CASE OutboxNext /\ UNCHANGED <<archiveVars, promoterVars>>
  BY <1>1, <1>4 DEF archiveVars
<1>5. CASE Drift /\ UNCHANGED <<outboxVars, archiveVars>>
  BY <1>5 DEF Drift, Denied, ApprovalInFlight, ExecutionDecisions, archiveVars
<1>6. CASE PromoterStep
  <2>1. UNCHANGED archive
    BY <1>6 DEF PromoterStep, FailLocked, CrashPromoter, archiveVars
  <2>2. Denied(c)'
    BY <2>1 DEF Denied, ExecutionDecisions
  <2>3. ASSUME NEW p \in Promoters, NEW k \in Candidates, Select(p, k)
        PROVE  ~ ApprovalInFlight(c)'
    <3>1. PICK d \in archive :
            /\ ExecutionDecisions(k) = {d}
            /\ prom' = [prom EXCEPT ![p] = [pc |-> "selected", cand |-> k, decision |-> d]]
      BY <2>3 DEF Select
    <3>2. k = c => d.action # "approve"
      BY <3>1 DEF Denied
    <3> QED
      BY <3>1, <3>2 DEF ApprovalInFlight, TypeOK, PromoterTypeOK
  <2>4. ASSUME NEW p \in Promoters, PromoteStep(p) \/ FailLocked(p) \/ CrashPromoter(p)
        PROVE  ~ ApprovalInFlight(c)'
    BY <2>4, LookupsStay DEF ApprovalInFlight
  <2>5. ASSUME UNCHANGED prom
        PROVE  ~ ApprovalInFlight(c)'
    BY <2>5 DEF ApprovalInFlight
  <2>6. ASSUME NEW p \in Promoters,
               StartScan(p) \/ \E k \in Candidates : StartByHand(p, k) \/ Skip(p, k)
        PROVE  UNCHANGED prom
    BY <2>6 DEF StartScan, StartByHand, Skip
  <2> QED BY <1>6, <2>2, <2>3, <2>4, <2>5, <2>6 DEF PromoterStep, PassStep
<1> QED BY <1>2, <1>3, <1>4, <1>5, <1>6 DEF Next, OutboxNext

(***************************************************************************)
(* A denial is final: after it is archived no new promote call gets hold   *)
(* of an approval for the candidate, even if its challenge is reissued and *)
(* the second one approved (Promoter._decision_for_candidate).             *)
(***************************************************************************)
THEOREM DenialFinality == Spec => DenialIsFinal
<1>1. TypeOK /\ [Next]_vars =>
        [\A c \in Candidates :
           Denied(c) /\ ~ ApprovalInFlight(c) => Denied(c)' /\ ~ ApprovalInFlight(c)']_vars
  BY DenialStep
<1> QED BY <1>1, TypeCorrect, PTL DEF Spec, DenialIsFinal

-----------------------------------------------------------------------------
(***************************************************************************)
(* One terminal decision per event, while one import runs at a time.       *)
(***************************************************************************)

\* What the importer carries answers an event the archive has no decision on.
ImportIsFirst ==
    \A i \in Importers :
        /\ checked[i] = {} \/ writing[i] = {}
        /\ \A d, f \in checked[i] \union writing[i] : d = f
        /\ \A d \in checked[i] \union writing[i] : DecisionsOn(d.event) = {}

TerminalInv == ImportIsFirst /\ OneTerminalDecision

\* Only import_signed touches the archive.
LEMMA TerminalStays ==
    ASSUME TerminalInv, UNCHANGED archiveVars
    PROVE  TerminalInv'
  BY DEF TerminalInv, ImportIsFirst, OneTerminalDecision, DecisionsOn, archiveVars

LEMMA TerminalStep ==
    ASSUME \A i, j \in Importers : i = j, TypeOK, TerminalInv, [Next]_vars
    PROVE  TerminalInv'
<1>0. /\ checked \in [Importers -> SUBSET Decision]
      /\ writing \in [Importers -> SUBSET Decision]
  BY DEF TypeOK, ArchiveTypeOK
<1>i. ImportIsFirst /\ OneTerminalDecision
  BY DEF TerminalInv
<1>1. ASSUME NEW i \in Importers, NEW d, CheckDecision(i, d) PROVE TerminalInv'
  <2>1. /\ checked'[i] = {d} /\ writing'[i] = {} /\ archive' = archive
        /\ DecisionsOn(d.event) = {}
    BY <1>0, <1>1 DEF CheckDecision
  <2>2. ImportIsFirst'
    BY <1>1, <2>1 DEF ImportIsFirst, DecisionsOn
  <2> QED BY <1>i, <2>1, <2>2 DEF TerminalInv, OneTerminalDecision
<1>2. ASSUME NEW i \in Importers, CreateDecision(i) PROVE TerminalInv'
  <2>1. /\ checked'[i] = {} /\ archive' = archive
        /\ writing'[i] \subseteq checked[i] \union writing[i]
    BY <1>0, <1>2 DEF CreateDecision
  <2>2. ImportIsFirst'
    BY <1>i, <2>1 DEF ImportIsFirst, DecisionsOn
  <2> QED BY <1>i, <2>1, <2>2 DEF TerminalInv, OneTerminalDecision
<1>3. ASSUME NEW i \in Importers, FinishDecision(i) PROVE TerminalInv'
  <2>1. /\ archive' = archive \union writing[i] /\ writing'[i] = {}
        /\ checked'[i] = {} /\ writing[i] # {}
    BY <1>0, <1>i, <1>3 DEF FinishDecision, ImportIsFirst
  <2>2. PICK d \in writing[i] : writing[i] = {d}
    BY <1>i, <2>1 DEF ImportIsFirst
  <2>3. \A f \in archive : f.event # d.event
    BY <1>i, <2>2 DEF ImportIsFirst, DecisionsOn
  <2>4. OneTerminalDecision'
    BY <1>i, <2>1, <2>2, <2>3 DEF OneTerminalDecision
  <2>5. ImportIsFirst'
    BY <2>1 DEF ImportIsFirst
  <2> QED BY <2>4, <2>5 DEF TerminalInv
<1>4. ASSUME NEW i \in Importers, FailDecision(i) \/ CrashImporter(i) PROVE TerminalInv'
  <2>1. /\ archive' = archive /\ writing'[i] = {}
        /\ checked'[i] \subseteq checked[i]
    BY <1>0, <1>4 DEF FailDecision, CrashImporter
  <2>2. ImportIsFirst'
    BY <1>i, <2>1 DEF ImportIsFirst, DecisionsOn
  <2> QED BY <1>i, <2>1, <2>2 DEF TerminalInv, OneTerminalDecision
<1>5. CASE ImporterStep
  BY <1>1, <1>2, <1>3, <1>4, <1>5 DEF ImporterStep
<1>6. CASE UNCHANGED archiveVars
  BY <1>6, TerminalStays
<1>7. PromoterStep => UNCHANGED archiveVars
  BY DEF PromoterStep, FailLocked, CrashPromoter
<1>8. CASE UNCHANGED vars
  BY <1>6, <1>8 DEF vars
<1> QED BY <1>5, <1>6, <1>7, <1>8 DEF Next

(***************************************************************************)
(* Import by import, an event gets one terminal decision, whatever is      *)
(* delivered in whatever order and whichever imports fail or crash.  (Two  *)
(* imports that overlap can each archive one: import_signed reads the      *)
(* archive and writes to it without a lock in between.)                    *)
(***************************************************************************)
THEOREM DecisionIsTerminal ==
    ASSUME \A i, j \in Importers : i = j
    PROVE  Spec => []OneTerminalDecision
<1>1. Init => TerminalInv
  BY DEF Init, ArchiveInit, TerminalInv, ImportIsFirst, OneTerminalDecision
<1>2. TypeOK /\ TerminalInv /\ [Next]_vars => TerminalInv'
  BY TerminalStep
<1>3. TerminalInv => OneTerminalDecision
  BY DEF TerminalInv
<1> QED BY <1>1, <1>2, <1>3, TypeCorrect, PTL DEF Spec

-----------------------------------------------------------------------------
(***************************************************************************)
(* The publication lock, while nothing fails and holders are prompt.       *)
(***************************************************************************)

\* The lock file belongs to a promoter in the locked block and is not stale.
LockIsHeld ==
    \A l \in lock : prom[l.owner].pc \in Locked /\ now - l.mtime <= StaleAfter

\* There is one lock file, and who is in the locked block owns it.
HoldersOwn ==
    /\ \A l, m \in lock : l = m
    /\ \A p \in Promoters : prom[p].pc \in Locked => \E l \in lock : l.owner = p

\* No promoter takes a lock over.
NoTakeover == \A p \in Promoters : prom[p].pc \notin {"stale", "retry"}

\* What the receipts said when the block was entered is still so.
HoldersAreNew ==
    \A p \in Promoters :
        prom[p].pc \in {"clear", "published", "recording"} => ~ Recorded(prom[p].cand)

LockInv == LockIsHeld /\ HoldersOwn /\ NoTakeover /\ HoldersAreNew

Exclusive == LockInv /\ OneReceiptPerSeed

\* A promoter outside the locked block stays outside; lock and receipts stay.
OutsideStep(p) ==
    /\ prom[p].pc \notin Locked
    /\ prom'[p].pc \notin Locked \union {"stale", "retry"}
    /\ UNCHANGED <<lock, receipts>>

\* The holder moves on inside the block.
InsideStep(p) ==
    /\ prom[p].pc \in Locked /\ prom'[p].pc \in Locked
    /\ prom'[p].cand = prom[p].cand
    /\ prom'[p].pc \in {"clear", "published", "recording"} => ~ Recorded(prom[p].cand)
    /\ UNCHANGED <<lock, receipts>>

\* The others stand still.
OthersWait(p) == \A q \in Promoters : q # p => prom'[q] = prom[q]

LEMMA SameReceipts ==
    ASSUME UNCHANGED receipts
    PROVE  /\ \A c : Recorded(c)' = Recorded(c)
           /\ OneReceiptPerSeed' = OneReceiptPerSeed
  BY DEF Recorded, SeedOf, OneReceiptPerSeed

LEMMA OutsideKeeps ==
    ASSUME Exclusive, lock \subseteq LockFile, NEW p \in Promoters,
           OutsideStep(p), OthersWait(p), UNCHANGED now
    PROVE  Exclusive'
<1>0. \A l \in lock : l.owner \in Promoters
  BY DEF LockFile
<1>1. LockIsHeld'
  BY <1>0 DEF Exclusive, LockInv, LockIsHeld, OutsideStep, OthersWait
<1>2. HoldersOwn' /\ NoTakeover'
  BY DEF Exclusive, LockInv, HoldersOwn, NoTakeover, OutsideStep, OthersWait
<1>3. HoldersAreNew'
  BY SameReceipts
     DEF Exclusive, LockInv, HoldersAreNew, OutsideStep, OthersWait, Locked
<1> QED
  BY <1>1, <1>2, <1>3, SameReceipts DEF Exclusive, LockInv, OutsideStep

LEMMA InsideKeeps ==
    ASSUME Exclusive, lock \subseteq LockFile, NEW p \in Promoters,
           InsideStep(p), OthersWait(p), UNCHANGED now
    PROVE  Exclusive'
<1>0. \A l \in lock : l.owner \in Promoters
  BY DEF LockFile
<1>1. LockIsHeld'
  BY <1>0 DEF Exclusive, LockInv, LockIsHeld, InsideStep, OthersWait
<1>2. HoldersOwn' /\ NoTakeover'
  BY DEF Exclusive, LockInv, HoldersOwn, NoTakeover, InsideStep, OthersWait, Locked
<1>3. HoldersAreNew'
  BY SameReceipts DEF Exclusive, LockInv, HoldersAreNew, InsideStep, OthersWait
<1> QED
  BY <1>1, <1>2, <1>3, SameReceipts DEF Exclusive, LockInv, InsideStep

\* Two promoters are never in the locked block together.
LEMMA HolderIsAlone ==
    ASSUME HoldersOwn, NEW p \in Promoters, NEW q \in Promoters,
           prom[p].pc \in Locked, prom[q].pc \in Locked
    PROVE  p = q
  BY DEF HoldersOwn

\* The holder leaves and takes its lock file with it.
LEMMA LeavingKeeps ==
    ASSUME Exclusive, NEW p \in Promoters, prom[p].pc \in Locked,
           prom'[p] = Idle, OthersWait(p), lock' = {}, UNCHANGED receipts
    PROVE  Exclusive'
<1>1. \A q \in Promoters : prom'[q].pc \notin Locked
  BY HolderIsAlone DEF Exclusive, LockInv, OthersWait, Idle, Locked
<1>2. \A q \in Promoters : prom'[q].pc \notin {"stale", "retry"}
  BY DEF Exclusive, LockInv, NoTakeover, OthersWait, Idle
<1> QED
  BY <1>1, <1>2, SameReceipts
     DEF Exclusive, LockInv, LockIsHeld, HoldersOwn, NoTakeover, HoldersAreNew, Locked

\* One promoter's step, as the lock sees it.
LEMMA CallIsExclusive ==
    ASSUME TypeOK, Exclusive, NEW p \in Promoters,
           \/ StartScan(p)
           \/ \E c \in Candidates : StartByHand(p, c)
           \/ PassStep(p)
           \/ PromoteStep(p),
           UNCHANGED <<outboxVars, archiveVars>>
    PROVE  Exclusive'
<1>0. /\ prom \in [Promoters -> Call \union {Idle}] /\ lock \subseteq LockFile
      /\ now \in Nat /\ UNCHANGED now /\ StaleAfter \in Nat
  BY OutboxAssumption, PromoterAssumption
     DEF TypeOK, PromoterTypeOK, OutboxTypeOK, Time, outboxVars
<1>i. LockIsHeld /\ HoldersOwn /\ NoTakeover /\ HoldersAreNew /\ OneReceiptPerSeed
  BY DEF Exclusive, LockInv
<1>g. ASSUME NEW pc \in Unlocked \union Locked, Goto(p, pc), prom[p].pc \in Unlocked \union Locked
      PROVE  prom'[p].pc = pc /\ prom'[p].cand = prom[p].cand /\ OthersWait(p)
  <2>1. prom[p] \in Call
    BY <1>g, RunningCall DEF TypeOK
  <2> QED BY <1>0, <1>g, <2>1 DEF Goto, OthersWait, Call
<1>s. ASSUME Stop(p) PROVE prom'[p] = Idle /\ OthersWait(p)
  BY <1>0, <1>s DEF Stop, OthersWait
<1>1. CASE \/ StartScan(p) \/ \E c \in Candidates : StartByHand(p, c) \/ Skip(p, c)
  <2>1. UNCHANGED <<lock, receipts, prom>> /\ prom[p] = Idle
    BY <1>1 DEF StartScan, StartByHand, Skip, NextUp
  <2>2. OutsideStep(p) /\ OthersWait(p)
    BY <2>1 DEF OutsideStep, OthersWait, Idle, Locked
  <2> QED BY <1>0, <2>2, OutsideKeeps
<1>2. ASSUME NEW c \in Candidates, Select(p, c) PROVE Exclusive'
  <2>1. PICK d : prom' = [prom EXCEPT ![p] = [pc |-> "selected", cand |-> c, decision |-> d]]
    BY <1>2 DEF Select
  <2>2. UNCHANGED <<lock, receipts>> /\ prom[p] = Idle
    BY <1>2 DEF Select, NextUp
  <2>3. prom'[p].pc = "selected" /\ OthersWait(p)
    BY <1>0, <2>1 DEF OthersWait
  <2>4. OutsideStep(p)
    BY <2>2, <2>3 DEF OutsideStep, Idle, Locked
  <2> QED BY <1>0, <2>3, <2>4, OutsideKeeps
<1>3. CASE Verify(p)
  <2>1. /\ prom[p].pc = "selected" /\ Goto(p, "verified") /\ UNCHANGED <<lock, receipts>>
    BY <1>3 DEF Verify
  <2>2. prom'[p].pc = "verified" /\ OthersWait(p)
    BY <1>g, <2>1 DEF Unlocked
  <2> QED BY <1>0, <2>1, <2>2, OutsideKeeps DEF OutsideStep, Locked
<1>4. CASE Refuse(p) \/ AbortPass(p) \/ LockBusy(p)
  <2>1. prom[p].pc \notin Locked /\ Stop(p) /\ UNCHANGED <<lock, receipts>>
    BY <1>4 DEF Refuse, AbortPass, LockBusy, Locked
  <2> QED BY <1>0, <1>s, <2>1, OutsideKeeps DEF OutsideStep, Idle, Locked
<1>5. ASSUME FindStaleLock(p) PROVE FALSE
  <2>1. PICK l \in lock : Stale(l)
    BY <1>5 DEF FindStaleLock
  <2>2. now - l.mtime <= StaleAfter /\ now - l.mtime > StaleAfter
    BY <1>i, <2>1 DEF LockIsHeld, Stale
  <2>3. l.mtime \in Nat
    BY <1>0, OutboxAssumption DEF LockFile, Time
  <2> QED BY <1>0, <2>2, <2>3
<1>6. ~ UnlinkStaleLock(p)
  BY <1>i DEF UnlinkStaleLock, NoTakeover
<1>7. CASE AcquireLock(p)
  <2>1. /\ prom[p].pc \in {"verified", "retry"} /\ lock = {} /\ UNCHANGED receipts
        /\ lock' = {[owner |-> p, mtime |-> now]} /\ Goto(p, "locked")
    BY <1>7 DEF AcquireLock
  <2>2. prom'[p].pc = "locked" /\ OthersWait(p)
    BY <1>g, <2>1 DEF Unlocked, Locked
  <2>3. \A q \in Promoters : prom[q].pc \notin Locked
    BY <1>i, <2>1 DEF HoldersOwn
  <2>4. LockIsHeld'
    <3>1. now - now <= StaleAfter
      BY <1>0
    <3> QED BY <1>0, <2>1, <2>2, <3>1 DEF LockIsHeld, Locked
  <2>5. HoldersOwn'
    BY <2>1, <2>2, <2>3 DEF HoldersOwn, OthersWait
  <2>6. NoTakeover' /\ HoldersAreNew'
    BY <1>i, <2>2, <2>3 DEF NoTakeover, HoldersAreNew, OthersWait, Locked
  <2> QED BY <1>i, <2>1, <2>4, <2>5, <2>6, SameReceipts DEF Exclusive, LockInv
<1>8. CASE CheckReceipts(p)
  <2>1. /\ prom[p].pc = "locked" /\ Goto(p, "clear") /\ UNCHANGED <<lock, receipts>>
        /\ ~ Recorded(prom[p].cand)
    BY <1>8 DEF CheckReceipts, MayPublish
  <2>2. prom'[p].pc = "clear" /\ prom'[p].cand = prom[p].cand /\ OthersWait(p)
    BY <1>g, <2>1 DEF Locked
  <2> QED BY <1>0, <2>1, <2>2, InsideKeeps DEF InsideStep, Locked
<1>9. CASE Publish(p) \/ OpenReceipt(p)
  <2>1. PICK pc \in {"published", "recording"} :
          /\ prom[p].pc \in {"clear", "published"} /\ Goto(p, pc)
          /\ UNCHANGED <<lock, receipts>>
    BY <1>9 DEF Publish, OpenReceipt
  <2>2. prom'[p].pc = pc /\ prom'[p].cand = prom[p].cand /\ OthersWait(p)
    BY <1>g, <2>1 DEF Locked
  <2>3. ~ Recorded(prom[p].cand)
    BY <1>i, <2>1 DEF HoldersAreNew
  <2> QED BY <1>0, <2>1, <2>2, <2>3, InsideKeeps DEF InsideStep, Locked
<1>10. CASE FinishReceipt(p)
  <2> DEFINE c == prom[p].cand
             new == [cand |-> c, decision |-> prom[p].decision]
  <2>1. /\ prom[p].pc = "recording" /\ receipts' = receipts \union {new}
        /\ UNCHANGED lock /\ Goto(p, "recorded")
    BY <1>10 DEF FinishReceipt
  <2>2. prom'[p].pc = "recorded" /\ OthersWait(p)
    BY <1>g, <2>1 DEF Locked
  <2>3. \A q \in Promoters : q # p => prom[q].pc \notin Locked
    BY <1>i, <2>1, HolderIsAlone DEF Locked
  <2>4. LockIsHeld'
    BY <1>0, <1>i, <2>1, <2>2 DEF LockIsHeld, OthersWait, LockFile, Locked
  <2>5. HoldersOwn' /\ NoTakeover'
    BY <1>i, <2>1, <2>2 DEF HoldersOwn, NoTakeover, OthersWait, Locked
  <2>6. HoldersAreNew'
    BY <2>2, <2>3 DEF HoldersAreNew, OthersWait, Locked
  <2>7. OneReceiptPerSeed'
    <3>1. ~ Recorded(c)
      BY <1>i, <2>1 DEF HoldersAreNew
    <3>2. \A r \in receipts : SeedOf(r.cand) # SeedOf(new.cand)
      BY <3>1 DEF Recorded
    <3>3. \A x : SeedOf(x)' = SeedOf(x)
      BY DEF SeedOf
    <3> HIDE DEF new
    <3> QED BY <1>i, <2>1, <3>2 DEF OneReceiptPerSeed, SeedOf
  <2> QED BY <2>4, <2>5, <2>6, <2>7 DEF Exclusive, LockInv
<1>11. CASE Return(p) \/ DeclineLocked(p) \/ ReceiptExists(p)
  <2>1. prom[p].pc \in Locked /\ Stop(p) /\ lock' = {} /\ UNCHANGED receipts
    BY <1>11 DEF Return, DeclineLocked, ReceiptExists, LeaveLock, Locked
  <2> QED BY <1>s, <2>1, LeavingKeeps
<1> QED
  BY <1>1, <1>2, <1>3, <1>4, <1>5, <1>6, <1>7, <1>8, <1>9, <1>10, <1>11
     DEF PassStep, PromoteStep

\* A fault stays counted.
LEMMA FaultsAreKept ==
    ASSUME TypeOK, [Next]_vars, faults' = 0
    PROVE  faults = 0 /\ \A p \in Promoters : ~ FailLocked(p) /\ ~ CrashPromoter(p)
<1>0. faults \in Nat
  BY DEF TypeOK, OutboxTypeOK
<1>1. faults' # faults + 1
  BY <1>0
<1>2. \A p \in Promoters : ~ FailLocked(p) /\ ~ CrashPromoter(p)
  BY <1>1 DEF FailLocked, CrashPromoter
<1>3. UNCHANGED faults \/ faults' = faults + 1
  <2>1. CASE UNCHANGED outboxVars
    BY <2>1 DEF outboxVars
  <2>2. CASE OutboxNext
    BY <2>2 DEF OutboxNext, Tick, Store, ProjectorStep, ProjectRoots, BeginPass,
       OpenEvent, FinishEvent, FailEvent, CrashProjector
  <2>3. CASE ImporterStep
    BY <2>1, <2>3 DEF ImporterStep, FailDecision, CrashImporter
  <2>4. CASE PromoterStep
    BY <2>1, <2>4 DEF PromoterStep, FailLocked, CrashPromoter
  <2> QED BY <2>1, <2>2, <2>3, <2>4 DEF Next, OutboxNext, vars
<1> QED BY <1>1, <1>2, <1>3

LEMMA ExclusiveStep ==
    ASSUME PromptHolders, TypeOK, faults = 0 => Exclusive, [Next]_vars, faults' = 0
    PROVE  Exclusive'
<1>0. Exclusive /\ \A p \in Promoters : ~ FailLocked(p) /\ ~ CrashPromoter(p)
  BY FaultsAreKept
<1>1. ASSUME UNCHANGED <<lock, prom, receipts, now>> PROVE Exclusive'
  <2>1. LockIsHeld' /\ HoldersOwn' /\ NoTakeover'
    BY <1>0, <1>1 DEF Exclusive, LockInv, LockIsHeld, HoldersOwn, NoTakeover
  <2>2. HoldersAreNew'
    BY <1>0, <1>1, SameReceipts DEF Exclusive, LockInv, HoldersAreNew
  <2> QED BY <1>0, <1>1, <2>1, <2>2, SameReceipts DEF Exclusive, LockInv
<1>2. CASE UNCHANGED vars
  BY <1>1, <1>2 DEF vars, outboxVars, promoterVars
<1>3. CASE Tick /\ HoldersArePrompt /\ UNCHANGED promoterVars
  <2>1. UNCHANGED <<lock, prom, receipts>> /\ now' = now + 1
    BY <1>3 DEF promoterVars, Tick
  <2>2. LockIsHeld'
    <3>1. \A l \in lock : prom[l.owner].pc \in Locked => now + 1 - l.mtime <= StaleAfter
      BY <1>3 DEF HoldersArePrompt
    <3>2. \A l \in lock : prom[l.owner].pc \in Locked
      BY <1>0 DEF Exclusive, LockInv, LockIsHeld
    <3>3. /\ now \in Nat /\ StaleAfter \in Nat
          /\ \A l \in lock : l.mtime \in Nat
      BY OutboxAssumption, PromoterAssumption
         DEF TypeOK, OutboxTypeOK, PromoterTypeOK, LockFile, Time
    <3> QED BY <2>1, <3>1, <3>2, <3>3 DEF LockIsHeld
  <2>3. HoldersOwn' /\ NoTakeover'
    BY <1>0, <2>1 DEF Exclusive, LockInv, HoldersOwn, NoTakeover
  <2>4. HoldersAreNew'
    BY <1>0, <2>1, SameReceipts DEF Exclusive, LockInv, HoldersAreNew
  <2> QED BY <1>0, <2>1, <2>2, <2>3, <2>4, SameReceipts DEF Exclusive, LockInv
<1>4. CASE ((\E s \in Subjects : Store(s)) \/ ProjectorStep) /\ UNCHANGED promoterVars
  <2>1. UNCHANGED now
    BY <1>4 DEF Store, ProjectorStep, ProjectRoots, BeginPass, OpenEvent, FinishEvent,
       FailEvent, CrashProjector
  <2> QED BY <1>1, <1>4, <2>1 DEF promoterVars
<1>5. CASE ImporterStep /\ UNCHANGED promoterVars
  <2>1. UNCHANGED now
    BY <1>5 DEF ImporterStep, FailDecision, CrashImporter, outboxVars
  <2> QED BY <1>1, <1>5, <2>1 DEF promoterVars
<1>6. CASE Drift /\ UNCHANGED <<outboxVars, archiveVars>>
  BY <1>1, <1>6 DEF Drift, outboxVars
<1>7. CASE PromoterStep
  BY <1>0, <1>7, CallIsExclusive DEF PromoterStep
<1> QED BY <1>2, <1>3, <1>4, <1>5, <1>6, <1>7 DEF Next

LEMMA Exclusion == PromptHolders => (Spec => [](TypeOK /\ (faults = 0 => Exclusive)))
<1> SUFFICES ASSUME PromptHolders
             PROVE  Spec => [](TypeOK /\ (faults = 0 => Exclusive))
  OBVIOUS
<1>1. Init => Exclusive
  BY DEF Init, PromoterInit, Exclusive, LockInv, LockIsHeld, HoldersOwn, NoTakeover,
     HoldersAreNew, OneReceiptPerSeed, Idle, Locked
<1>2. TypeOK /\ (faults = 0 => Exclusive) /\ [Next]_vars => (faults = 0 => Exclusive)'
  BY ExclusiveStep
<1> QED BY <1>1, <1>2, TypeCorrect, PTL DEF Spec

(***************************************************************************)
(* "artifact was already published under another candidate": until         *)
(* something fails no two receipts claim one seed, for every number of     *)
(* promoters and candidates, if every holder leaves the locked block       *)
(* before its lock file counts as stale.                                   *)
(***************************************************************************)
THEOREM ReceiptsAreUnique ==
    ASSUME PromptHolders
    PROVE  Spec => [](faults = 0 => OneReceiptPerSeed)
<1>1. Spec => [](TypeOK /\ (faults = 0 => Exclusive))
  BY Exclusion
<1>2. (faults = 0 => Exclusive) => (faults = 0 => OneReceiptPerSeed)
  BY DEF Exclusive
<1> QED BY <1>1, <1>2, PTL

(***************************************************************************)
(* Without faults and with prompt holders the call that makes a seed       *)
(* visible owns the lock file at that moment.  (The run stale_lock shows   *)
(* that a crash is enough to lose this.)                                   *)
(***************************************************************************)
THEOREM LockProtectsPublication ==
    ASSUME PromptHolders, MaxFaults = 0
    PROVE  Spec => PublicationHoldsLock
<1>1. Spec => [](TypeOK /\ (faults = 0 => Exclusive))
  BY Exclusion
<1>2. ASSUME TypeOK, faults = 0 => Exclusive, [Next]_vars, seeds' # seeds
      PROVE  \E p \in Promoters, l \in lock : prom[p].pc = "clear" /\ l.owner = p
  <2>1. faults = 0
    BY <1>2 DEF TypeOK, OutboxTypeOK
  <2>2. \E p \in Promoters : Publish(p)
    <3>1. CASE UNCHANGED promoterVars
      BY <1>2, <3>1 DEF promoterVars
    <3>2. CASE PromoterStep
      BY <1>2, <3>2 DEF PromoterStep, StartScan, StartByHand, PassStep, Select, Skip,
         PromoteStep, Verify, Refuse, AbortPass, AcquireLock, FindStaleLock,
         UnlinkStaleLock, LockBusy, CheckReceipts, DeclineLocked, OpenReceipt,
         ReceiptExists, FinishReceipt, Return, FailLocked, CrashPromoter
    <3> QED BY <1>2, <3>1, <3>2 DEF Next, vars, Drift
  <2>3. PICK p \in Promoters : prom[p].pc = "clear"
    BY <2>2 DEF Publish
  <2>4. \E l \in lock : l.owner = p
    BY <1>2, <2>1, <2>3 DEF Exclusive, LockInv, HoldersOwn, Locked
  <2> QED BY <2>3, <2>4
<1>3. (TypeOK /\ (faults = 0 => Exclusive)) /\ [Next]_vars =>
        [seeds' # seeds =>
           \E p \in Promoters, l \in lock : prom[p].pc = "clear" /\ l.owner = p]_vars
  BY <1>2
<1> QED BY <1>1, <1>3, PTL DEF Spec, PublicationHoldsLock

=============================================================================
