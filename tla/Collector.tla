----------------------------- MODULE Collector -----------------------------
(***************************************************************************)
(* The mailing-list collector, src/iou_ai/lkml.py.  A run loads its cursor *)
(* (the digests of the messages it has dealt with), reads the feed, walks  *)
(* it from the oldest entry, fetches at most MaxMessages new messages and  *)
(* stores evidence for those inside its scope.  The cursor is saved once,  *)
(* at the end of a run that met no error.                                  *)
(*                                                                         *)
(* A message is its place in the list's archive.  Evidence and cursor are  *)
(* published by a hard link and a rename, so neither is ever seen torn; a  *)
(* raw message without its evidence is met by nobody.  One collector runs  *)
(* at a time (its timer starts a oneshot unit).                            *)
(***************************************************************************)
EXTENDS Naturals, FiniteSets, FiniteSetsExt

CONSTANTS
    LastMessage,    \* bound: messages on the list
    Scoped,         \* messages that touch the io_uring code
    Malformed,      \* messages evidence_from_raw cannot parse
    Unfetchable,    \* messages whose raw form is refused every time
    FeedSize,       \* the newest messages the feed shows
    MaxMessages,    \* --max-messages
    MaxSeen,        \* MAX_SEEN_IDS
    MaxFaults       \* bound: failed requests and power losses

Messages == 1 .. LastMessage

ASSUME CollectorAssumption ==
    /\ LastMessage \in Nat
    /\ Scoped \subseteq Messages
    /\ Malformed \subseteq Messages
    /\ Unfetchable \subseteq Messages
    /\ FeedSize \in Nat \ {0}
    /\ MaxMessages \in Nat \ {0}
    /\ MaxSeen \in Nat
    /\ MaxFaults \in Nat

VARIABLES
    posted,         \* how many messages the list has
    cursor,         \* the saved cursor
    evidence,       \* messages with a stored evidence artifact
    running,        \* whether a run is going on
    entries,        \* the feed entries it still has to look at
    seen,           \* its copy of the cursor
    considered,     \* the messages it has tried to fetch
    faults

vars == <<posted, cursor, evidence, running, entries, seen, considered, faults>>

Init ==
    /\ posted = 0
    /\ cursor = {}
    /\ evidence = {}
    /\ running = FALSE
    /\ entries = {}
    /\ seen = {}
    /\ considered = 0
    /\ faults = 0

Fault == faults < MaxFaults /\ faults' = faults + 1

\* Somebody writes to the list.
Post ==
    /\ posted < LastMessage
    /\ posted' = posted + 1
    /\ UNCHANGED <<cursor, evidence, running, entries, seen, considered, faults>>

\* parse_atom_feed: the entries of the feed.
Feed == {m \in 1 .. posted : posted < m + FeedSize}

\* The timer starts a run.  One that finds no new entry changes nothing.
StartRun ==
    /\ ~ running
    /\ Feed \ cursor # {}
    /\ running' = TRUE
    /\ seen' = cursor
    /\ entries' = Feed
    /\ considered' = 0
    /\ UNCHANGED <<posted, cursor, evidence, faults>>

\* The entry the run comes to: the oldest one it has not seen.
NextEntry == Min(entries \ seen)

\* The loop is over: no new entry is left, or MaxMessages were considered.
LoopDone == entries \subseteq seen \/ considered = MaxMessages

\* What a run forgets when it ends, however it ends.
EndRun ==
    /\ running' = FALSE
    /\ entries' = {}
    /\ seen' = {}
    /\ considered' = 0

\* A message in scope: raw form and evidence are stored, then it is marked.
StoreMessage ==
    /\ running
    /\ ~ LoopDone
    /\ NextEntry \in Scoped \ (Unfetchable \union Malformed)
    /\ evidence' = evidence \union {NextEntry}
    /\ seen' = seen \union {NextEntry}
    /\ considered' = considered + 1
    /\ UNCHANGED <<posted, cursor, running, entries, faults>>

\* A malformed message, or one out of scope, is marked and left out.
PassOver ==
    /\ running
    /\ ~ LoopDone
    /\ NextEntry \in (Malformed \union (Messages \ Scoped)) \ Unfetchable
    /\ seen' = seen \union {NextEntry}
    /\ considered' = considered + 1
    /\ UNCHANGED <<posted, cursor, evidence, running, entries, faults>>

\* A faulty variant: a message that cannot be fetched is skipped and marked.
FetchRaisesSkipped ==
    /\ running
    /\ ~ LoopDone
    /\ NextEntry \in Unfetchable
    /\ seen' = seen \union {NextEntry}
    /\ considered' = considered + 1
    /\ UNCHANGED <<posted, cursor, evidence, running, entries, faults>>

\* The message is refused (too large, wrong type or address): the whole run
\* ends with the error and the cursor is not saved.
FetchRaises ==
    /\ running
    /\ ~ LoopDone
    /\ NextEntry \in Unfetchable
    /\ EndRun
    /\ UNCHANGED <<posted, cursor, evidence, faults>>

\* A request times out, a disk is full, or the host loses power.
RunFails ==
    /\ running
    /\ Fault
    /\ EndRun
    /\ UNCHANGED <<posted, cursor, evidence>>

\* A faulty variant: the cursor is saved only by a run that saw the whole feed.
SaveCursorWholeFeed ==
    /\ running
    /\ LoopDone
    /\ cursor' = IF entries \subseteq seen /\ Cardinality(seen) <= MaxSeen
                 THEN seen ELSE cursor
    /\ EndRun
    /\ UNCHANGED <<posted, evidence, faults>>

\* save_cursor: nothing is pruned, and beyond its capacity it raises.
SaveCursor ==
    /\ running
    /\ LoopDone
    /\ cursor' = IF Cardinality(seen) <= MaxSeen THEN seen ELSE cursor
    /\ EndRun
    /\ UNCHANGED <<posted, evidence, faults>>

CollectStep == StartRun \/ StoreMessage \/ PassOver \/ FetchRaises \/ SaveCursor

Next == Post \/ CollectStep \/ RunFails

\* The timer starts a run again and again, and a run goes on.
Fairness == WF_vars(CollectStep)

Spec == Init /\ [][Next]_vars
FairSpec == Spec /\ Fairness

-----------------------------------------------------------------------------

(***************************************************************************)
(* The cursor never runs ahead of the evidence: what it names will not be  *)
(* looked at again, so a message in scope is in the cursor only after its  *)
(* evidence was stored, whichever run was cut short in between, and a      *)
(* message that was refused is never taken for one that was dealt with.    *)
(***************************************************************************)
SeenIsStored == cursor \intersect (Scoped \ Malformed) \subseteq evidence

\* An older message of the feed makes every run fail before it reaches m.
BlockedByOlder(m) == \E u \in (Feed \intersect Unfetchable) : u < m

\* The cursor has no room left for what one run may add to it.
CursorFull == Cardinality(cursor) + MaxMessages > MaxSeen

(***************************************************************************)
(* Every message in scope becomes evidence, unless it leaves the feed      *)
(* first, an older message that cannot be fetched ends every run before it,*)
(* or the cursor has reached its capacity: a run takes MaxMessages of the  *)
(* feed, and the next one goes on behind them.                             *)
(***************************************************************************)
MailIsCollected ==
    \A m \in Scoped \ (Malformed \union Unfetchable) :
        (m \in Feed) ~>
            m \in evidence \/ m \notin Feed \/ BlockedByOlder(m) \/ CursorFull

============================================================================
