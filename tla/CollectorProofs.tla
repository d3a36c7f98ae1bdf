--------------------------- MODULE CollectorProofs ---------------------------
(***************************************************************************)
(* What the collector's cursor guarantees for every list of messages, feed *)
(* size and message limit, wherever its runs are cut short.                *)
(***************************************************************************)
EXTENDS Collector, TLAPS

(***************************************************************************)
(* The inductive invariant.  A saved cursor is the copy of a run, so what  *)
(* is said of the cursor has to hold of the copy at every step of the run. *)
(***************************************************************************)
CopyIsStored == seen \intersect (Scoped \ Malformed) \subseteq evidence

CollectorInv == SeenIsStored /\ CopyIsStored

\* Every way for a run to end forgets the copy.
LEMMA EndOfRun ==
    ASSUME SeenIsStored, EndRun, UNCHANGED <<cursor, evidence>>
    PROVE  CollectorInv'
  BY DEF CollectorInv, SeenIsStored, CopyIsStored, EndRun

(***************************************************************************)
(* A message in scope is in the cursor only once its evidence is stored:   *)
(* neither a failed run, nor a refused message, nor the message limit lets *)
(* collect (lkml.py) save a cursor that is ahead of the evidence.          *)
(***************************************************************************)
THEOREM CursorBehindEvidence == Spec => []SeenIsStored
<1>1. Init => CollectorInv
  BY DEF Init, CollectorInv, SeenIsStored, CopyIsStored
<1>2. CollectorInv /\ [Next]_vars => CollectorInv'
  <2> SUFFICES ASSUME CollectorInv, [Next]_vars PROVE CollectorInv'
    OBVIOUS
  <2>1. CASE Post
    BY <2>1 DEF Post, CollectorInv, SeenIsStored, CopyIsStored
  <2>2. CASE StartRun
    BY <2>2 DEF StartRun, CollectorInv, SeenIsStored, CopyIsStored
  <2>3. CASE StoreMessage
    BY <2>3 DEF StoreMessage, CollectorInv, SeenIsStored, CopyIsStored
  <2>4. CASE PassOver
    BY <2>4 DEF PassOver, CollectorInv, SeenIsStored, CopyIsStored
  <2>5. CASE FetchRaises \/ RunFails
    BY <2>5, EndOfRun DEF FetchRaises, RunFails, CollectorInv
  <2>6. CASE SaveCursor
    <3>1. SeenIsStored'
      BY <2>6 DEF SaveCursor, CollectorInv, SeenIsStored, CopyIsStored
    <3>2. CopyIsStored'
      BY <2>6 DEF SaveCursor, EndRun, CopyIsStored
    <3> QED BY <3>1, <3>2 DEF CollectorInv
  <2>7. CASE UNCHANGED vars
    BY <2>7 DEF vars, CollectorInv, SeenIsStored, CopyIsStored
  <2> QED BY <2>1, <2>2, <2>3, <2>4, <2>5, <2>6, <2>7 DEF Next, CollectStep
<1>3. CollectorInv => SeenIsStored
  BY DEF CollectorInv
<1> QED BY <1>1, <1>2, <1>3, PTL DEF Spec

-----------------------------------------------------------------------------
(***************************************************************************)
(* What the collector has dealt with stays dealt with: a run may fail, be  *)
(* refused a message or meet a full cursor, and neither a digest of the    *)
(* cursor nor an evidence artifact is lost.                                *)
(***************************************************************************)
NothingForgotten == [][cursor \subseteq cursor' /\ evidence \subseteq evidence']_vars

\* A run's copy starts as the saved cursor and only has digests added to it.
CopyExtendsCursor == running => cursor \subseteq seen

\* The copy covers the cursor at every step, so saving it loses nothing.
THEOREM CollectorForgetsNothing == Spec => NothingForgotten
<1>1. Init => CopyExtendsCursor
  BY DEF Init, CopyExtendsCursor
<1>2. CopyExtendsCursor /\ [Next]_vars
        => /\ CopyExtendsCursor'
           /\ [cursor \subseteq cursor' /\ evidence \subseteq evidence']_vars
  <2> SUFFICES ASSUME CopyExtendsCursor, [Next]_vars
               PROVE  /\ CopyExtendsCursor'
                      /\ cursor \subseteq cursor' /\ evidence \subseteq evidence'
    OBVIOUS
  <2>1. CASE Post \/ StartRun
    BY <2>1 DEF Post, StartRun, CopyExtendsCursor
  <2>2. CASE StoreMessage \/ PassOver
    BY <2>2 DEF StoreMessage, PassOver, CopyExtendsCursor
  <2>3. CASE FetchRaises \/ RunFails
    BY <2>3 DEF FetchRaises, RunFails, EndRun, CopyExtendsCursor
  <2>4. CASE SaveCursor
    BY <2>4 DEF SaveCursor, EndRun, CopyExtendsCursor
  <2>5. CASE UNCHANGED vars
    BY <2>5 DEF vars, CopyExtendsCursor
  <2> QED BY <2>1, <2>2, <2>3, <2>4, <2>5 DEF Next, CollectStep
<1> QED BY <1>1, <1>2, PTL DEF Spec, NothingForgotten

=============================================================================
