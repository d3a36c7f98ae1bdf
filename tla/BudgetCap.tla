----------------------------- MODULE BudgetCap -----------------------------
(***************************************************************************)
(* What the budget ledger promises, without rows, requests or callers: an  *)
(* account per period (a month, or a UTC day) in which money is first held *)
(* and then, when the hold is closed, charged up to what was held.  Money  *)
(* is only held while the period's total stays within the limit.           *)
(***************************************************************************)
EXTENDS Integers

CONSTANTS
    Periods,        \* months, or days
    Limit           \* the cap on one period, in microdollars

VARIABLES
    held,           \* [Periods -> amounts of the holds that are still open]
    charged         \* [Periods -> amounts of the holds that were closed]

capVars == <<held, charged>>

CapTypeOK ==
    /\ held \in [Periods -> Nat]
    /\ charged \in [Periods -> Nat]

CapInit ==
    /\ held = [p \in Periods |-> 0]
    /\ charged = [p \in Periods |-> 0]

\* Effective spend: what has been charged and what is still held.
Effective(p) == charged[p] + held[p]

\* A reservation of any amount that the limit still covers.
Hold(p) ==
    /\ \E h \in 0 .. Limit :
         /\ Effective(p) + h <= Limit
         /\ held' = [held EXCEPT ![p] = @ + h]
    /\ UNCHANGED charged

(***************************************************************************)
(* Closing holds, of one or of several periods at once: the charge of a    *)
(* period is at most what is released there.                               *)
(***************************************************************************)
Close ==
    /\ held' \in [Periods -> 0 .. Limit]
    /\ charged' \in [Periods -> 0 .. Limit]
    /\ \A p \in Periods :
         /\ charged[p] <= charged'[p]
         /\ charged'[p] - charged[p] <= held[p] - held'[p]

CapNext == Close \/ \E p \in Periods : Hold(p)

CapSpec == CapInit /\ [][CapNext]_capVars

-----------------------------------------------------------------------------

(***************************************************************************)
(* The effective spend of a period never exceeds its limit.                *)
(***************************************************************************)
WithinLimit == \A p \in Periods : Effective(p) <= Limit

=============================================================================
