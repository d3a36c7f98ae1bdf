-------------------------- MODULE DecisionArchive --------------------------
(***************************************************************************)
(* The archive of signed decisions, src/iou_ai/decisions.py, fed by the    *)
(* inbox importer (decision_cli.py) and by the operator's approve command  *)
(* (approve_cli.py).  Both call import_signed; no lock is shared between   *)
(* them.  Each running call is a member of Importers.                      *)
(*                                                                         *)
(* import_signed reads the archive and the outbox, checks the decision     *)
(* against both, and only then creates the archive file.  The file is      *)
(* named after the digest of the decision, so O_EXCL detects a second copy *)
(* of the same decision but not another decision on the same event.        *)
(***************************************************************************)
EXTENDS EventOutbox

CONSTANTS
    Importers,      \* processes inside import_signed
    Skew            \* how far ahead of the host a signer's clock may run, in ticks

ASSUME ArchiveAssumption == Skew \in Nat

Kind == {"execution", "offline"}
Action == {"approve", "deny"}

\* The kind of decision an event of this subject asks for.
KindOf(s) == IF s \in Candidates THEN "execution" ELSE "offline"

(***************************************************************************)
(* A signed decision.  event stands for event_digest, subject for the      *)
(* fields that repeat the event's content (digests, hashes, scope, nonce,  *)
(* code, expiry), authentic for an HMAC made with the shared key.  issued  *)
(* is the signer's clock.                                                  *)
(***************************************************************************)
Decision ==
    [event : Event, subject : Subjects, kind : Kind, action : Action,
     issued : 0 .. MaxTime + Skew, authentic : BOOLEAN]

VARIABLES
    archive,        \* decision files that are complete
    tornDecisions,  \* decision files that exist but are not (yet) complete
    checked,        \* [Importers -> the decision that passed the checks, as a set]
    writing         \* [Importers -> the decision whose file is open, as a set]

archiveVars == <<archive, tornDecisions, checked, writing>>
decisionVars == <<outboxVars, archiveVars>>

ArchiveTypeOK ==
    /\ archive \subseteq Decision
    /\ tornDecisions \subseteq Decision
    /\ checked \in [Importers -> SUBSET Decision]
    /\ writing \in [Importers -> SUBSET Decision]

ArchiveInit ==
    /\ archive = {}
    /\ tornDecisions = {}
    /\ checked = [i \in Importers |-> {}]
    /\ writing = [i \in Importers |-> {}]

-----------------------------------------------------------------------------

\* _read_archive: one torn file makes the whole read fail.
ArchiveReadable == tornDecisions = {}

\* _find_event: reads the whole outbox, so a torn event makes it fail.
FindEvent(e) == tornEvents = {} /\ e \in events

\* A faulty variant: a denial does not settle the event.
ApprovalsOn(e) == {d \in archive : d.event = e /\ d.action = "approve"}

DecisionsOn(e) == {d \in archive : d.event = e}

\* The decision repeats the event it answers: type, subject and binding fields.
BoundToEvent(d) ==
    /\ d.kind = KindOf(d.event.subject)
    /\ d.subject = d.event.subject

\* A faulty variant: a decision may be older than the event it answers.
FreshIfEarly(d, t) ==
    /\ d.issued <= t + Skew
    /\ t <= d.event.expires
    /\ d.issued <= d.event.expires

\* Issue time and response window.
Fresh(d, t) ==
    /\ d.event.created <= d.issued
    /\ d.issued <= t + Skew
    /\ t <= d.event.expires
    /\ d.issued <= d.event.expires

(***************************************************************************)
(* import_signed up to the creation of the file.  A decision that is       *)
(* already archived (an idempotent success), one that conflicts with an    *)
(* archived one, and one that fails a check change nothing.                *)
(***************************************************************************)
CheckDecision(i, d) ==
    /\ checked[i] = {}
    /\ writing[i] = {}
    /\ d.authentic
    /\ ArchiveReadable
    /\ DecisionsOn(d.event) = {}
    /\ FindEvent(d.event)
    /\ BoundToEvent(d)
    /\ Fresh(d, now)
    /\ checked' = [checked EXCEPT ![i] = {d}]
    /\ UNCHANGED <<archive, tornDecisions, writing>>

(***************************************************************************)
(* The O_EXCL creation.  If the file exists the call ends: successfully if *)
(* it is complete, with "digest collision" if another process is writing   *)
(* it or has left it torn.                                                 *)
(***************************************************************************)
CreateDecision(i) ==
    /\ checked[i] # {}
    /\ checked' = [checked EXCEPT ![i] = {}]
    /\ \/ /\ checked[i] \intersect (archive \union tornDecisions) # {}
          /\ UNCHANGED <<tornDecisions, writing>>
       \/ /\ checked[i] \intersect (archive \union tornDecisions) = {}
          /\ tornDecisions' = tornDecisions \union checked[i]
          /\ writing' = [writing EXCEPT ![i] = checked[i]]
    /\ UNCHANGED archive

\* The payload is written and flushed.
FinishDecision(i) ==
    /\ writing[i] # {}
    /\ archive' = archive \union writing[i]
    /\ tornDecisions' = tornDecisions \ writing[i]
    /\ writing' = [writing EXCEPT ![i] = {}]
    /\ UNCHANGED checked

\* The write raises and the file is unlinked.
FailDecision(i) ==
    /\ MayFail
    /\ writing[i] # {}
    /\ faults' = faults + 1
    /\ tornDecisions' = tornDecisions \ writing[i]
    /\ writing' = [writing EXCEPT ![i] = {}]
    /\ UNCHANGED <<archive, checked>>
    /\ UNCHANGED <<now, stored, events, tornEvents, todo, passTime, putting>>

\* Power loss: an open file stays torn.
CrashImporter(i) ==
    /\ MayFail
    /\ checked[i] # {} \/ writing[i] # {}
    /\ faults' = faults + 1
    /\ checked' = [checked EXCEPT ![i] = {}]
    /\ writing' = [writing EXCEPT ![i] = {}]
    /\ UNCHANGED <<archive, tornDecisions>>
    /\ UNCHANGED <<now, stored, events, tornEvents, todo, passTime, putting>>

(***************************************************************************)
(* Decisions that reach import_signed.  The relay copies the event it was  *)
(* sent and the approve command the event it read, but import_signed       *)
(* trusts neither: a decision may name any event it can know of and repeat *)
(* any subject.                                                            *)
(***************************************************************************)
Delivered ==
    [event : events, subject : Subjects, kind : Kind, action : Action,
     issued : 0 .. now + Skew, authentic : BOOLEAN]

ImporterStep ==
    \E i \in Importers :
        \/ \E d \in Delivered : CheckDecision(i, d) /\ UNCHANGED outboxVars
        \/ CreateDecision(i) /\ UNCHANGED outboxVars
        \/ FinishDecision(i) /\ UNCHANGED outboxVars
        \/ FailDecision(i)
        \/ CrashImporter(i)

DecisionInit == OutboxInit /\ ArchiveInit

DecisionNext ==
    \/ OutboxNext /\ UNCHANGED archiveVars
    \/ ImporterStep

DecisionSpec == DecisionInit /\ [][DecisionNext]_decisionVars

-----------------------------------------------------------------------------

\* Signed with the key, answers an event that exists, repeats that event's
\* content, issued inside the event's response window.
Sound(d) ==
    /\ d.authentic
    /\ d.event \in events
    /\ BoundToEvent(d)
    /\ d.event.created <= d.issued
    /\ d.issued <= d.event.expires

(***************************************************************************)
(* Whatever is delivered, in whatever order, and whoever crashes, every    *)
(* archived decision is sound.                                             *)
(***************************************************************************)
ArchivedIsBound == \A d \in archive : Sound(d)

\* So is every decision an importer carries from its checks to its write.
ImportsAreBound ==
    \A i \in Importers : \A d \in checked[i] \union writing[i] : Sound(d)

(***************************************************************************)
(* The archive keeps "one terminal result" per event.                      *)
(***************************************************************************)
OneTerminalDecision ==
    \A d, f \in archive : d.event = f.event => d = f

=============================================================================
