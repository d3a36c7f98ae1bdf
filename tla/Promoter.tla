------------------------------ MODULE Promoter ------------------------------
(***************************************************************************)
(* The promoter, src/iou_ai/promoter.py: the only program that writes into *)
(* an AFL foreign-sync inbox.  promote() looks up the one signed decision  *)
(* of a candidate, re-verifies everything the decision rests on, takes an  *)
(* O_EXCL lock file, publishes the seed by a hard link and records a       *)
(* receipt.  promoter_cli.py calls it for every approved candidate on each *)
(* run of the timer, or for one candidate by hand; each run is a member of *)
(* Promoters.                                                              *)
(*                                                                         *)
(* The lock is a file whose age is its modification time.  A promoter that *)
(* finds a lock older than ten minutes unlinks it and tries once more; on  *)
(* the way out it unlinks whatever lock file is there.                     *)
(***************************************************************************)
EXTENDS DecisionArchive

CONSTANTS
    Promoters,          \* promoter processes
    Artifacts,          \* artifact digests
    Destinations,       \* allowlisted sync inboxes
    Targets,            \* target contracts (kernel, harness, spec hashes)
    ArtifactOf,         \* [Candidates -> Artifacts]
    DestinationOf,      \* [Candidates -> destination named in the signed scope]
    TargetOf,           \* [Candidates -> the target it was canaried on]
    Reproducible,       \* candidates whose validation and evidence rebuild equal
    Raising,            \* candidates whose rebuild raises ExecutionAuthorityError
    Rank,               \* [Candidates -> order of their decision files]
    ByHand,             \* candidates that are also promoted with --candidate
    StaleAfter,         \* lock age beyond which it is stale, in ticks
    PromptHolders       \* TRUE: no live lock holder is ever slower than StaleAfter

ASSUME PromoterAssumption ==
    /\ ArtifactOf \in [Candidates -> Artifacts]
    /\ TargetOf \in [Candidates -> Targets]
    /\ Reproducible \subseteq Candidates
    /\ Raising \subseteq Candidates \ Reproducible
    /\ Rank \in [Candidates -> Nat]
    /\ ByHand \subseteq Candidates
    /\ StaleAfter \in Nat
    /\ PromptHolders \in BOOLEAN

VARIABLES
    target,         \* the current target contract, as the probe reads it
    lock,           \* the lock file, as a set: {} or one [owner, mtime]
    seeds,          \* <<destination, artifact>> pairs visible to AFL
    receipts,       \* receipt files that are complete
    tornReceipts,   \* candidates whose receipt file exists but is not complete
    scan,           \* [Promoters -> candidates the pass has not come to yet]
    prom            \* [Promoters -> the state of the running promote call]

promoterVars == <<target, lock, seeds, receipts, tornReceipts, scan, prom>>
vars == <<outboxVars, archiveVars, promoterVars>>

LockFile == [owner : Promoters, mtime : Time]

Receipt == [cand : Candidates, decision : Decision]

\* Steps before the lock, steps inside the locked block.
Unlocked == {"selected", "verified", "stale", "retry"}
Locked == {"locked", "clear", "published", "recording", "recorded"}

Idle == [pc |-> "idle"]

Call == [pc : Unlocked \union Locked, cand : Candidates, decision : Decision]

PromoterTypeOK ==
    /\ target \in Targets
    /\ lock \subseteq LockFile
    /\ seeds \subseteq Destinations \X Artifacts
    /\ receipts \subseteq Receipt
    /\ tornReceipts \subseteq Candidates
    /\ scan \in [Promoters -> SUBSET Candidates]
    /\ prom \in [Promoters -> Call \union {Idle}]

TypeOK == OutboxTypeOK /\ ArchiveTypeOK /\ PromoterTypeOK

PromoterInit ==
    /\ target \in Targets
    /\ lock = {}
    /\ seeds = {}
    /\ receipts = {}
    /\ tornReceipts = {}
    /\ scan = [p \in Promoters |-> {}]
    /\ prom = [p \in Promoters |-> Idle]

-----------------------------------------------------------------------------

\* The seed a candidate stands for.
SeedOf(c) == <<DestinationOf[c], ArtifactOf[c]>>

ExecutionDecisions(c) == {d \in archive : d.kind = "execution" /\ d.subject = c}

Goto(p, pc) == prom' = [prom EXCEPT ![p].pc = pc]

Stop(p) == prom' = [prom EXCEPT ![p] = Idle]

(***************************************************************************)
(* A pass of promoter_cli begins: with --scan over every candidate that    *)
(* has an archived approval, in the order of the decision files, or with   *)
(* --candidate over a candidate named by hand.                             *)
(***************************************************************************)
ApprovedCandidates ==
    {d.subject : d \in {f \in archive : f.kind = "execution" /\ f.action = "approve"}}

StartScan(p) ==
    /\ prom[p] = Idle
    /\ scan[p] = {}
    /\ ArchiveReadable
    /\ ApprovedCandidates # {}
    /\ scan' = [scan EXCEPT ![p] = ApprovedCandidates]
    /\ UNCHANGED <<target, lock, seeds, receipts, tornReceipts, prom>>

StartByHand(p, c) ==
    /\ prom[p] = Idle
    /\ scan[p] = {}
    /\ c \in ByHand
    /\ scan' = [scan EXCEPT ![p] = {c}]
    /\ UNCHANGED <<target, lock, seeds, receipts, tornReceipts, prom>>

\* The pass comes to candidate c.
NextUp(p, c) ==
    /\ prom[p] = Idle
    /\ c \in scan[p]
    /\ \A k \in scan[p] : Rank[c] <= Rank[k]
    /\ scan' = [scan EXCEPT ![p] = @ \ {c}]

\* A faulty variant: takes any of the candidate's decisions.
SelectAny(p, c) ==
    /\ NextUp(p, c)
    /\ ArchiveReadable
    /\ \E d \in ExecutionDecisions(c) :
         prom' = [prom EXCEPT ![p] = [pc |-> "selected", cand |-> c, decision |-> d]]
    /\ UNCHANGED <<target, lock, seeds, receipts, tornReceipts>>

(***************************************************************************)
(* promote(c) begins: one readable archive, one execution decision for c.  *)
(***************************************************************************)
Select(p, c) ==
    /\ NextUp(p, c)
    /\ ArchiveReadable
    /\ \E d \in archive :
         /\ ExecutionDecisions(c) = {d}
         /\ prom' = [prom EXCEPT ![p] = [pc |-> "selected", cand |-> c, decision |-> d]]
    /\ UNCHANGED <<target, lock, seeds, receipts, tornReceipts>>

\* No decision, several, or an unreadable archive: the pass goes on without c.
Skip(p, c) ==
    /\ NextUp(p, c)
    /\ ArchiveReadable => ~ \E d \in archive : ExecutionDecisions(c) = {d}
    /\ UNCHANGED <<target, lock, seeds, receipts, tornReceipts, prom>>

\* A faulty variant: the action is not looked at.
AuthorizedByAnyDecision(c, d) ==
    /\ ArchiveReadable /\ FindEvent(d.event)
    /\ c \in stored \intersect Reproducible
    /\ DestinationOf[c] \in Destinations /\ target = TargetOf[c]

(***************************************************************************)
(* Everything promote re-checks before the lock.  import_signed finds the  *)
(* decision in the archive and returns before it looks at the event or the *)
(* clock.  When a conflicting decision has been archived meanwhile it sees *)
(* whichever file name sorts first, so it may succeed or fail.             *)
(***************************************************************************)
Authorized(c, d) ==
    /\ ArchiveReadable
    /\ d.action = "approve"
    /\ FindEvent(d.event)
    /\ c \in stored
    /\ c \in Reproducible
    /\ DestinationOf[c] \in Destinations
    /\ target = TargetOf[c]

Verify(p) ==
    /\ prom[p].pc = "selected"
    /\ Authorized(prom[p].cand, prom[p].decision)
    /\ Goto(p, "verified")
    /\ UNCHANGED <<target, lock, seeds, receipts, tornReceipts, scan>>

(***************************************************************************)
(* Checks that fail with neither PromotionError nor DecisionError: the     *)
(* outbox is torn, the candidate's file is gone, or the rebuild raises     *)
(* because the canary runner has been replaced, say.                       *)
(***************************************************************************)
Raises(c, d) ==
    /\ ArchiveReadable
    /\ d.action = "approve"
    /\ tornEvents # {} \/ c \notin stored \/ c \in Raising

\* PromotionError or DecisionError: the pass goes on with the next candidate.
Refuse(p) ==
    LET c == prom[p].cand
        d == prom[p].decision
    IN  /\ prom[p].pc = "selected"
        /\ \/ ~ Authorized(c, d) /\ ~ Raises(c, d)
           \/ DecisionsOn(d.event) # {d}
        /\ Stop(p)
        /\ UNCHANGED <<target, lock, seeds, receipts, tornReceipts, scan>>

\* Any other exception leaves the loop of promoter_cli: the pass ends.
AbortPass(p) ==
    /\ prom[p].pc = "selected"
    /\ Raises(prom[p].cand, prom[p].decision)
    /\ Stop(p)
    /\ scan' = [scan EXCEPT ![p] = {}]
    /\ UNCHANGED <<target, lock, seeds, receipts, tornReceipts>>

-----------------------------------------------------------------------------

\* A faulty variant: minutes taken for hours.
StaleAfterHours(l) == now - l.mtime > 60 * (StaleAfter + 1)

Stale(l) == now - l.mtime > StaleAfter

\* A faulty variant: the lock file is opened without O_EXCL.
AcquireLockShared(p) ==
    /\ prom[p].pc \in {"verified", "retry"}
    /\ lock' = {[owner |-> p, mtime |-> now]}
    /\ Goto(p, "locked")
    /\ UNCHANGED <<target, seeds, receipts, tornReceipts, scan>>

\* O_EXCL creation of the lock file succeeds.
AcquireLock(p) ==
    /\ prom[p].pc \in {"verified", "retry"}
    /\ lock = {}
    /\ lock' = {[owner |-> p, mtime |-> now]}
    /\ Goto(p, "locked")
    /\ UNCHANGED <<target, seeds, receipts, tornReceipts, scan>>

\* First attempt: the lock file exists and is older than ten minutes.
FindStaleLock(p) ==
    /\ prom[p].pc = "verified"
    /\ \E l \in lock : Stale(l)
    /\ Goto(p, "stale")
    /\ UNCHANGED <<target, lock, seeds, receipts, tornReceipts, scan>>

\* The stale lock is unlinked by path: whatever is there now is removed.
UnlinkStaleLock(p) ==
    /\ prom[p].pc = "stale"
    /\ lock' = {}
    /\ Goto(p, "retry")
    /\ UNCHANGED <<target, seeds, receipts, tornReceipts, scan>>

\* "another promoter holds the publication lock".
LockBusy(p) ==
    /\ \/ prom[p].pc = "verified" /\ \E l \in lock : ~ Stale(l)
       \/ prom[p].pc = "retry" /\ lock # {}
    /\ Stop(p)
    /\ UNCHANGED <<target, lock, seeds, receipts, tornReceipts, scan>>

-----------------------------------------------------------------------------

\* A faulty variant: another candidate's receipt for the same seed is ignored.
RecordedForCandidate(c) == \E r \in receipts : r.cand = c

\* A receipt that ends the call: for the candidate itself, or for the same seed.
Recorded(c) ==
    \E r \in receipts : r.cand = c \/ SeedOf(r.cand) = SeedOf(c)

\* _receipts is readable, no receipt concerns c, and the second probe agrees.
MayPublish(c) ==
    /\ tornReceipts = {}
    /\ ~ Recorded(c)
    /\ target = TargetOf[c]

CheckReceipts(p) ==
    /\ prom[p].pc = "locked"
    /\ MayPublish(prom[p].cand)
    /\ Goto(p, "clear")
    /\ UNCHANGED <<target, lock, seeds, receipts, tornReceipts, scan>>

\* _publish: the hard link makes the complete seed visible at once; an
\* existing link to the same bytes is accepted.
Publish(p) ==
    /\ prom[p].pc = "clear"
    /\ seeds' = seeds \union {SeedOf(prom[p].cand)}
    /\ Goto(p, "published")
    /\ UNCHANGED <<target, lock, receipts, tornReceipts, scan>>

\* A faulty variant: the receipt is opened before the link is made.
OpenReceiptEarly(p) ==
    LET c == prom[p].cand
    IN  /\ prom[p].pc = "clear"
        /\ c \notin tornReceipts
        /\ ~ \E r \in receipts : r.cand = c
        /\ tornReceipts' = tornReceipts \union {c}
        /\ Goto(p, "recording")
        /\ UNCHANGED <<target, lock, seeds, receipts, scan>>

\* The receipt file is created with O_EXCL and is visible while still empty.
OpenReceipt(p) ==
    LET c == prom[p].cand
    IN  /\ prom[p].pc = "published"
        /\ c \notin tornReceipts
        /\ ~ \E r \in receipts : r.cand = c
        /\ tornReceipts' = tornReceipts \union {c}
        /\ Goto(p, "recording")
        /\ UNCHANGED <<target, lock, seeds, receipts, scan>>

\* The receipt is written and flushed.
FinishReceipt(p) ==
    LET c == prom[p].cand
    IN  /\ prom[p].pc = "recording"
        /\ receipts' = receipts \union {[cand |-> c, decision |-> prom[p].decision]}
        /\ tornReceipts' = tornReceipts \ {c}
        /\ Goto(p, "recorded")
        /\ UNCHANGED <<target, lock, seeds, scan>>

\* The locked block is left, by return or by exception: the lock file at the
\* path is unlinked, whoever made it.
LeaveLock(p) == lock' = {} /\ Stop(p)

\* promote returns its receipt.
Return(p) ==
    /\ prom[p].pc = "recorded"
    /\ LeaveLock(p)
    /\ UNCHANGED <<target, seeds, receipts, tornReceipts, scan>>

\* The existing receipt is returned, another candidate has published the
\* artifact, a receipt is unreadable, or the target has drifted.
DeclineLocked(p) ==
    /\ prom[p].pc = "locked"
    /\ ~ MayPublish(prom[p].cand)
    /\ LeaveLock(p)
    /\ UNCHANGED <<target, seeds, receipts, tornReceipts, scan>>

\* The receipt file exists already; equal bytes are a success, others an error.
ReceiptExists(p) ==
    LET c == prom[p].cand
    IN  /\ prom[p].pc = "published"
        /\ c \in tornReceipts \/ \E r \in receipts : r.cand = c
        /\ LeaveLock(p)
        /\ UNCHANGED <<target, seeds, receipts, tornReceipts, scan>>

\* An operating-system error while publishing or recording.  Unlike the other
\* stores, an unfinished receipt is not unlinked.
FailLocked(p) ==
    /\ MayFail
    /\ prom[p].pc \in {"clear", "published", "recording"}
    /\ faults' = faults + 1
    /\ LeaveLock(p)
    /\ scan' = [scan EXCEPT ![p] = {}]
    /\ UNCHANGED <<target, seeds, receipts, tornReceipts>>
    /\ UNCHANGED <<now, stored, events, tornEvents, todo, passTime, putting>>
    /\ UNCHANGED archiveVars

\* Power loss, or an error while the process id is written into the new lock
\* file: lock file, torn receipt and seed stay as they are.
CrashPromoter(p) ==
    /\ MayFail
    /\ prom[p] # Idle \/ scan[p] # {}
    /\ faults' = faults + 1
    /\ Stop(p)
    /\ scan' = [scan EXCEPT ![p] = {}]
    /\ UNCHANGED <<target, lock, seeds, receipts, tornReceipts>>
    /\ UNCHANGED <<now, stored, events, tornEvents, todo, passTime, putting>>
    /\ UNCHANGED archiveVars

\* The steps of one promote call on candidate prom[p].cand.
PromoteStep(p) ==
    \/ Verify(p) \/ Refuse(p) \/ AbortPass(p)
    \/ AcquireLock(p) \/ FindStaleLock(p) \/ UnlinkStaleLock(p) \/ LockBusy(p)
    \/ CheckReceipts(p) \/ DeclineLocked(p)
    \/ Publish(p)
    \/ OpenReceipt(p) \/ ReceiptExists(p)
    \/ FinishReceipt(p) \/ Return(p)

\* The steps of a pass between two calls.
PassStep(p) ==
    \E c \in Candidates : Select(p, c) \/ Skip(p, c)

PromoterStep ==
    \E p \in Promoters :
        \/ /\ \/ StartScan(p)
              \/ \E c \in Candidates : StartByHand(p, c)
              \/ PassStep(p)
              \/ PromoteStep(p)
           /\ UNCHANGED <<outboxVars, archiveVars>>
        \/ FailLocked(p)
        \/ CrashPromoter(p)

\* The root-owned contract file is refreshed after a rebuild of the target.
Drift ==
    /\ target' \in Targets \ {target}
    /\ UNCHANGED <<lock, seeds, receipts, tornReceipts, scan, prom>>

\* With PromptHolders the clock waits for the promoter that owns the lock.
HoldersArePrompt ==
    PromptHolders =>
        \A l \in lock : prom[l.owner].pc \in Locked => now + 1 - l.mtime <= StaleAfter

Init == OutboxInit /\ ArchiveInit /\ PromoterInit

Next ==
    \/ /\ \/ Tick /\ HoldersArePrompt
          \/ \E s \in Subjects : Store(s)
          \/ ProjectorStep
       /\ UNCHANGED <<archiveVars, promoterVars>>
    \/ ImporterStep /\ UNCHANGED promoterVars
    \/ PromoterStep
    \/ Drift /\ UNCHANGED <<outboxVars, archiveVars>>

Spec == Init /\ [][Next]_vars

(***************************************************************************)
(* The timers start their programs again and again, and what runs goes on. *)
(***************************************************************************)
ProjectorFairness(p) ==
    LET Alone(A) == A /\ UNCHANGED <<archiveVars, promoterVars>>
    IN  /\ SF_vars(Alone(ProjectExecutionReady(p)))
        /\ WF_vars(Alone(OpenEvent(p)))
        /\ WF_vars(Alone(FinishEvent(p)))

ImporterFairness(i) ==
    LET Alone(A) == A /\ UNCHANGED <<outboxVars, promoterVars>>
    IN  /\ WF_vars(Alone(CreateDecision(i)))
        /\ WF_vars(Alone(FinishDecision(i)))

PromoterFairness(p) ==
    LET Alone(A) == A /\ UNCHANGED <<outboxVars, archiveVars>>
    IN  /\ SF_vars(Alone(StartScan(p)))
        /\ WF_vars(Alone(PassStep(p)))
        /\ WF_vars(Alone(PromoteStep(p)))

Fairness ==
    /\ WF_vars(Tick /\ UNCHANGED <<archiveVars, promoterVars>>)
    /\ \A p \in Projectors : ProjectorFairness(p)
    /\ \A i \in Importers : ImporterFairness(i)
    /\ \A p \in Promoters : PromoterFairness(p)

FairSpec == Spec /\ Fairness

-----------------------------------------------------------------------------

(***************************************************************************)
(* Nothing becomes visible to the fuzzers that was not approved: every     *)
(* seed in a sync inbox belongs to a candidate whose evidence could be     *)
(* rebuilt and for which the archive holds an authentic approval that      *)
(* answers a challenge for exactly this candidate.                         *)
(***************************************************************************)
PublishedIsApproved ==
    \A s \in seeds : \E d \in archive :
        /\ d.authentic
        /\ d.kind = "execution"
        /\ d.action = "approve"
        /\ d.subject = d.event.subject
        /\ d.event \in events
        /\ d.subject \in Reproducible
        /\ s = SeedOf(d.subject)

\* Somebody has denied c.
Denied(c) == \E d \in ExecutionDecisions(c) : d.action = "deny"

\* A running promote call has already looked up an approval of c.
ApprovalInFlight(c) ==
    \E p \in Promoters :
        /\ prom[p] # Idle
        /\ prom[p].cand = c
        /\ prom[p].decision.action = "approve"

(***************************************************************************)
(* A denial is final.  Even if another challenge for the candidate is      *)
(* reissued and approved later, or an approval was archived before, no     *)
(* promote call that starts after the denial is archived gets hold of an   *)
(* approval.                                                               *)
(***************************************************************************)
DenialIsFinal ==
    [][\A c \in Candidates :
          Denied(c) /\ ~ ApprovalInFlight(c) => Denied(c)' /\ ~ ApprovalInFlight(c)']_vars

(***************************************************************************)
(* A receipt is never ahead of its seed: whatever crashes, a receipt file  *)
(* (complete or torn) exists only if the fuzzers can see the seed.         *)
(***************************************************************************)
ReceiptHasSeed ==
    /\ \A r \in receipts : SeedOf(r.cand) \in seeds
    /\ \A c \in tornReceipts : SeedOf(c) \in seeds

(***************************************************************************)
(* Every running call rests on an archived execution decision for its      *)
(* candidate; past its verification that decision is an approval, and past *)
(* the link its seed is visible.  This is what makes the invariants above  *)
(* inductive: a decision read before the lock is still archived when the   *)
(* seed is linked.                                                         *)
(***************************************************************************)
CallsAreAuthorized ==
    \A p \in Promoters : prom[p] # Idle =>
        /\ prom[p].decision \in ExecutionDecisions(prom[p].cand)
        /\ prom[p].pc # "selected" =>
             /\ prom[p].decision.action = "approve"
             /\ prom[p].cand \in Reproducible
             /\ DestinationOf[prom[p].cand] \in Destinations
        /\ prom[p].pc \in {"published", "recording", "recorded"} =>
             SeedOf(prom[p].cand) \in seeds

(***************************************************************************)
(* "artifact was already published under another candidate": two receipts  *)
(* never claim the same artifact in the same destination.                  *)
(***************************************************************************)
OneReceiptPerSeed ==
    \A r, q \in receipts : SeedOf(r.cand) = SeedOf(q.cand) => r = q

(***************************************************************************)
(* "Target authority is checked again while the publication lock is held,  *)
(* immediately before the filesystem mutation": the call that makes a seed *)
(* visible owns the lock file at that moment.                              *)
(***************************************************************************)
PublicationHoldsLock ==
    [][seeds' # seeds =>
          \E p \in Promoters, l \in lock : prom[p].pc = "clear" /\ l.owner = p]_vars

-----------------------------------------------------------------------------

ArchiveWedged == tornDecisions \ UNION {writing[i] : i \in Importers} # {}

ReceiptsWedged ==
    \E c \in tornReceipts :
        ~ \E p \in Promoters : prom[p].pc = "recording" /\ prom[p].cand = c

\* c has one decision, an approval, and everything promote checks is in order.
Approved(c) ==
    /\ c \in stored \intersect Reproducible
    /\ target = TargetOf[c]
    /\ \E d \in archive : ExecutionDecisions(c) = {d} /\ d.action = "approve"

Promoted(c) == \E r \in receipts : SeedOf(r.cand) = SeedOf(c)

\* Every candidate a pass comes to before c can be rebuilt.
NothingRaisesBefore(c) == \A d \in Raising : Rank[c] < Rank[d]

(***************************************************************************)
(* An approved candidate is eventually promoted: a receipt for its seed    *)
(* appears, unless the approval is contradicted, the target drifts, or an  *)
(* interrupted write has wedged one of the three stores.  This holds for   *)
(* the candidates a pass comes to before one whose evidence raises.        *)
(***************************************************************************)
ApprovedIsPromoted ==
    \A c \in Candidates : NothingRaisesBefore(c) =>
        (Approved(c) ~> \/ Promoted(c)
                        \/ ~ Approved(c)
                        \/ OutboxWedged \/ ArchiveWedged \/ ReceiptsWedged)

(***************************************************************************)
(* "One unpromotable candidate must never abort the whole pass": neither   *)
(* evidence of another candidate that can no longer be rebuilt nor another *)
(* candidate's interrupted receipt keeps an approved candidate from being  *)
(* promoted.                                                               *)
(***************************************************************************)
OneFailureStopsNoOther ==
    \A c \in Candidates :
        (Approved(c) /\ c \notin tornReceipts) ~>
            \/ Promoted(c)
            \/ ~ Approved(c)
            \/ OutboxWedged \/ ArchiveWedged
            \/ c \in tornReceipts

=============================================================================
