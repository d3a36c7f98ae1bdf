-------------------------- MODULE MCBudgetLedger --------------------------
(***************************************************************************)
(* Small instances of BudgetLedger.  Rates are per two tokens (Unit = 2).  *)
(***************************************************************************)
EXTENDS BudgetLedger

CONSTANTS planner, fallback, reviewer

Pipeline == <<<<planner, fallback>>, <<reviewer>>>>

OneModel == <<<<planner>>>>

TwoModels == <<<<planner, fallback>>>>

\* Every model reserves two microdollars: one input and one output token.
WholePrice == [m \in Models |->
    [input |-> 2, output |-> 2, cached |-> 2, maxInput |-> 1, maxOutput |-> 1,
     expires |-> MaxDay + 1]]

\* Prices that expire on the last day.
ExpiringPrice == [m \in Models |-> [WholePrice[m] EXCEPT !.expires = MaxDay]]

\* Less than the reservation's maxima.
HalfUsed == {[input |-> 1, output |-> 0, cached |-> 0]}

\* Less than, or all of, the reservation's maxima.
WithinMaxima == HalfUsed \union {[input |-> 1, output |-> 1, cached |-> 0]}

\* More input than max_input_tokens: only the byte cap bounds the request.
LongInput == {[input |-> 3, output |-> 1, cached |-> 0]}

OneCallEach == [m \in Models |-> 1]

TwoCallsEach == [m \in Models |-> 2]

===========================================================================
