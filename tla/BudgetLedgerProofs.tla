------------------------- MODULE BudgetLedgerProofs -------------------------
(***************************************************************************)
(* What the budget ledger guarantees for every number of pipeline runs on  *)
(* it, every price list, quota and limit, and every interleaving of calls, *)
(* crashes, reconciliations and kill switches.                             *)
(***************************************************************************)
EXTENDS BudgetLedger, FiniteLemmas

-----------------------------------------------------------------------------
(***************************************************************************)
(* Quotes are amounts of money.                                            *)
(***************************************************************************)

\* Rounding up a quotient of naturals gives a natural.
LEMMA CeilNat ==
    ASSUME NEW x \in Nat, NEW n \in Nat \ {0}
    PROVE  (x + n - 1) \div n \in Nat
<1>1. x + n - 1 \in Nat
  OBVIOUS
<1> DEFINE y == x + n - 1
<1>2. y \in Nat
  BY <1>1
<1> HIDE DEF y
<1>3. y \div n \in Nat
  BY <1>2
<1> QED BY <1>3 DEF y

\* The price of a number of tokens is an amount.
LEMMA CeilRateNat ==
    ASSUME NEW t \in Nat, NEW p \in Nat
    PROVE  CeilRate(t, p) \in Nat
<1> DEFINE x == t * p
<1>1. x \in Nat
  OBVIOUS
<1>2. Unit \in Nat \ {0}
  BY LedgerAssumption
<1> HIDE DEF x
<1>3. (x + Unit - 1) \div Unit \in Nat
  BY <1>1, <1>2, CeilNat
<1> QED BY <1>3 DEF CeilRate, x

\* What a consistent usage costs.
LEMMA QuoteNat ==
    ASSUME NEW m \in Models, NEW u \in Tokens, u.cached <= u.input
    PROVE  QuoteTokens(m, u) \in Nat
<1>1. /\ u.input - u.cached \in Nat /\ u.cached \in Nat /\ u.output \in Nat
  BY DEF Tokens
<1>2. /\ Price[m].input \in Nat /\ Price[m].cached \in Nat
      /\ Price[m].output \in Nat
  BY LedgerAssumption
<1>3. /\ CeilRate(u.input - u.cached, Price[m].input) \in Nat
      /\ CeilRate(u.cached, Price[m].cached) \in Nat
      /\ CeilRate(u.output, Price[m].output) \in Nat
  BY <1>1, <1>2, CeilRateNat
<1> QED BY <1>3 DEF QuoteTokens

\* The worst case of a model, and what a call that gave this usage is charged.
LEMMA ChargeNat ==
    ASSUME NEW m \in Models
    PROVE  /\ WorstCase(m) \in Nat
           /\ \A u \in Usages : QuoteTokens(m, u) \in Nat
           /\ \A u \in Usages \union {NoUsage, ZeroUsage} : ChargeFor(m, u) \in Nat
<1> DEFINE w == [input |-> Price[m].maxInput, output |-> Price[m].maxOutput,
                 cached |-> 0]
<1>1. w \in Tokens /\ w.cached <= w.input
  BY LedgerAssumption DEF Tokens
<1>2. WorstCase(m) \in Nat
  BY <1>1, QuoteNat DEF WorstCase
<1>3. \A u \in Usages : QuoteTokens(m, u) \in Nat
  BY QuoteNat, LedgerAssumption
<1>4. QuoteTokens(m, ZeroUsage) \in Nat
  BY QuoteNat DEF ZeroUsage, Tokens
<1> QED BY <1>2, <1>3, <1>4 DEF ChargeFor, ValidUsage

-----------------------------------------------------------------------------
(***************************************************************************)
(* Type correctness.  A run is on a model its stage has, which makes the   *)
(* row it will write one of Row; and it only closes a row that is there.   *)
(***************************************************************************)
RunsAreTyped ==
    /\ run \in [Callers -> Run]
    /\ \A c \in Callers :
         ~At(c, "idle") => run[c].try \in 1 .. Len(Stages[run[c].stage])

RowsAreFinite == IsFiniteSet(rows)

OwnRow == \A c \in Callers : run[c].pc \in {"sent", "closing"} => RowOf(c) \in rows

LedgerTyped == TypeOK /\ RunsAreTyped /\ RowsAreFinite /\ OwnRow

\* Every stage is a list of models, and not an empty one.
LEMMA StageLists ==
    \A i \in DOMAIN Stages :
        /\ Stages[i] \in Seq(Models) /\ Stages[i] # <<>>
        /\ Len(Stages[i]) \in Nat \ {0}
        /\ \A j \in 1 .. Len(Stages[i]) : Stages[i][j] \in Models
<1> TAKE i \in DOMAIN Stages
<1>1. Stages \in Seq(Seq(Models)) /\ Stages[i] # <<>>
  BY LedgerAssumption
<1>2. Stages[i] \in Seq(Models)
  BY <1>1
<1>3. Len(Stages[i]) \in Nat \ {0} /\ \A j \in 1 .. Len(Stages[i]) : Stages[i][j] \in Models
  BY <1>1, <1>2
<1> QED BY <1>1, <1>2, <1>3

\* What the fields of a run are, by its place.
LEMMA RunFields ==
    ASSUME RunsAreTyped, NEW c \in Callers, ~At(c, "idle")
    PROVE  /\ run[c].key \in Keys
           /\ run[c].stage \in DOMAIN Stages
           /\ run[c].try \in 1 .. Len(Stages[run[c].stage])
           /\ Model(c) \in Models
           /\ run[c].pc \in {"call", "ready", "locked", "admitted", "sent", "closing"}
           /\ run[c].pc # "call" =>
                /\ run[c].day \in Days
                /\ RowOf(c) \in Row
           /\ run[c].pc \in {"ready", "locked", "admitted", "sent"} =>
                run[c] \in [pc : {"ready", "locked", "admitted", "sent"}, key : Keys,
                            stage : DOMAIN Stages, try : Nat, day : Days]
           /\ run[c].pc = "closing" =>
                /\ run[c].usage \in Usages \union {NoUsage, ZeroUsage}
                /\ run[c].then \in {"next", "failover", "stop"}
<1>1. run[c] \in Run /\ run[c].pc # "idle"
  BY DEF RunsAreTyped, At
<1>2. /\ run[c].key \in Keys
      /\ run[c].stage \in DOMAIN Stages
      /\ run[c].pc \in {"call", "ready", "locked", "admitted", "sent", "closing"}
  BY <1>1 DEF Run, Idle
<1>3. run[c].pc # "call" => run[c].day \in Days
  BY <1>1 DEF Run, Idle
<1>4. run[c].pc \in {"ready", "locked", "admitted", "sent"} =>
        run[c] \in [pc : {"ready", "locked", "admitted", "sent"}, key : Keys,
                    stage : DOMAIN Stages, try : Nat, day : Days]
  BY <1>1 DEF Run, Idle
<1>5. run[c].pc = "closing" =>
        /\ run[c].usage \in Usages \union {NoUsage, ZeroUsage}
        /\ run[c].then \in {"next", "failover", "stop"}
  BY <1>1 DEF Run, Idle
<1>6. run[c].try \in 1 .. Len(Stages[run[c].stage])
  BY DEF RunsAreTyped
<1>7. Model(c) \in Models
  BY <1>2, <1>6, StageLists DEF Model
<1>8. run[c].pc # "call" => RowOf(c) \in Row
  BY <1>2, <1>3, <1>7 DEF RowOf, Row
<1> QED BY <1>2, <1>3, <1>4, <1>5, <1>6, <1>7, <1>8

\* A step of one caller does not touch the run, or the row, of another.
LEMMA OthersKeepTheirRun ==
    ASSUME RunsAreTyped, NEW c \in Callers, NEW d \in Callers \ {c}, NEW x, Step(c, x)
    PROVE  /\ run'[d] = run[d]
           /\ Model(d)' = Model(d)
           /\ RowOf(d)' = RowOf(d)
<1>1. run'[d] = run[d]
  BY DEF Step, RunsAreTyped
<1> QED BY <1>1 DEF Model, RowOf

\* A step of one caller to a well-formed place keeps the runs well-formed.
LEMMA StepKeepsRuns ==
    ASSUME RunsAreTyped, OwnRow, NEW c \in Callers, NEW x \in Run, Step(c, x),
           x.pc # "idle" => x.try \in 1 .. Len(Stages[x.stage]),
           rows \subseteq rows',
           x.pc \in {"sent", "closing"} => RowOf(c)' \in rows'
    PROVE  RunsAreTyped' /\ OwnRow'
<1>1. run'[c] = x /\ run' \in [Callers -> Run]
  BY DEF Step, RunsAreTyped
<1>2. \A d \in Callers \ {c} : run'[d] = run[d] /\ RowOf(d)' = RowOf(d)
  BY OthersKeepTheirRun
<1>3. RunsAreTyped'
  BY <1>1, <1>2 DEF RunsAreTyped, At
<1>4. OwnRow'
  BY <1>1, <1>2 DEF OwnRow
<1> QED BY <1>3, <1>4

\* The end of a run, and the model that a run falls over to.
LEMMA StopAndFailover ==
    ASSUME RunsAreTyped, OwnRow, NEW c \in Callers, rows \subseteq rows',
           Step(c, Idle) \/ (~At(c, "idle") /\ Failover(c))
    PROVE  RunsAreTyped' /\ OwnRow'
<1>1. CASE Step(c, Idle)
  BY <1>1, StepKeepsRuns, Idle \in Run DEF Idle, Run
<1>2. CASE /\ ~At(c, "idle") /\ Failover(c)
           /\ run[c].try < Len(Stages[run[c].stage])
  <2> DEFINE x == [pc |-> "call", key |-> run[c].key, stage |-> run[c].stage,
                   try |-> run[c].try + 1]
  <2>1. Step(c, x)
    BY <1>2 DEF Failover
  <2>2. Len(Stages[run[c].stage]) \in Nat
    <3>1. run[c].stage \in DOMAIN Stages
      BY <1>2, RunFields
    <3> QED BY <3>1, StageLists
  <2>3. x \in Run /\ x.try \in 1 .. Len(Stages[x.stage])
    BY <1>2, <2>2, RunFields DEF Run
  <2> QED BY <2>1, <2>3, StepKeepsRuns
<1>3. CASE Failover(c) /\ ~(run[c].try < Len(Stages[run[c].stage]))
  BY <1>1, <1>3 DEF Failover
<1> QED BY <1>1, <1>2, <1>3

\* The steps of reserve keep the ledger well-typed.
LEMMA ReserveTyped ==
    ASSUME LedgerTyped, NEW c \in Callers,
           \/ \E k \in Keys : StartRun(c, k)
           \/ Precheck(c) \/ RefuseCall(c) \/ Begin(c) \/ Admit(c) \/ Commit(c)
    PROVE  LedgerTyped'
<1> USE DEF LedgerTyped
<1>1. ASSUME NEW k \in Keys, StartRun(c, k) PROVE LedgerTyped'
  <2> DEFINE x == [pc |-> "call", key |-> k, stage |-> 1, try |-> 1]
  <2>1. 1 \in DOMAIN Stages /\ 1 \in 1 .. Len(Stages[1])
    BY LedgerAssumption
  <2>2. x \in Run
    BY <2>1 DEF Run
  <2>3. RunsAreTyped' /\ OwnRow'
    BY <1>1, <2>1, <2>2, StepKeepsRuns DEF StartRun
  <2> QED BY <1>1, <2>3 DEF StartRun, TypeOK, RunsAreTyped, RowsAreFinite
<1>2. CASE Precheck(c)
  <2> DEFINE x == [pc |-> "ready", key |-> run[c].key, stage |-> run[c].stage,
                   try |-> run[c].try, day |-> today]
  <2>1. /\ run[c].key \in Keys /\ run[c].stage \in DOMAIN Stages
        /\ run[c].try \in 1 .. Len(Stages[run[c].stage])
    BY <1>2, RunFields DEF Precheck, At
  <2>2. x \in Run
    BY <2>1 DEF Run, TypeOK
  <2>3. RunsAreTyped' /\ OwnRow'
    BY <1>2, <2>1, <2>2, StepKeepsRuns DEF Precheck
  <2> QED BY <1>2, <2>3 DEF Precheck, TypeOK, RunsAreTyped, RowsAreFinite
<1>3. CASE RefuseCall(c)
  <2>1. RunsAreTyped' /\ OwnRow'
    BY <1>3, StopAndFailover DEF RefuseCall
  <2> QED BY <1>3, <2>1 DEF RefuseCall, TypeOK, RunsAreTyped, RowsAreFinite
<1>4. ASSUME NEW pc \in {"locked", "admitted", "sent"}, NEW q \in {"ready", "locked", "admitted"},
             At(c, q), Goto(c, pc), rows \subseteq rows',
             pc = "sent" => RowOf(c) \in rows'
      PROVE  RunsAreTyped' /\ OwnRow'
  <2> DEFINE x == [run[c] EXCEPT !.pc = pc]
  <2>1. run[c] \in [pc : {"ready", "locked", "admitted", "sent"}, key : Keys,
                    stage : DOMAIN Stages, try : Nat, day : Days]
    BY <1>4, RunFields DEF At
  <2>2. x \in [pc : {"ready", "locked", "admitted", "sent"}, key : Keys,
               stage : DOMAIN Stages, try : Nat, day : Days]
    BY <2>1
  <2>3. x \in Run /\ x.pc = pc /\ x.try = run[c].try /\ x.stage = run[c].stage
    BY <2>1, <2>2 DEF Run
  <2>4. RowOf(c)' = RowOf(c)
    BY <1>4, <2>1 DEF Goto, Step, RowOf, Model, RunsAreTyped
  <2>5. run[c].try \in 1 .. Len(Stages[run[c].stage])
    BY <1>4, RunFields DEF At
  <2> QED BY <1>4, <2>3, <2>4, <2>5, StepKeepsRuns DEF Goto
<1>5. CASE Begin(c)
  <2>1. RunsAreTyped' /\ OwnRow'
    BY <1>4, <1>5, StopAndFailover DEF Begin
  <2> QED BY <1>5, <2>1 DEF Begin, TypeOK, RunsAreTyped, RowsAreFinite
<1>6. CASE Admit(c)
  <2>1. RunsAreTyped' /\ OwnRow'
    BY <1>4, <1>6, StopAndFailover DEF Admit, At
  <2> QED BY <1>6, <2>1 DEF Admit, TypeOK, RunsAreTyped, RowsAreFinite
<1>7. CASE Commit(c)
  <2>1. RunsAreTyped' /\ OwnRow'
    BY <1>4, <1>7 DEF Commit
  <2>2. RowOf(c) \in Row
    BY <1>7, RunFields DEF Commit, At
  <2>3. IsFiniteSet(rows')
    BY <1>7, FS_AddElement DEF Commit, RowsAreFinite
  <2> QED BY <1>7, <2>1, <2>2, <2>3 DEF Commit, TypeOK, RunsAreTyped, RowsAreFinite
<1> QED BY <1>1, <1>2, <1>3, <1>5, <1>6, <1>7

\* Closing rows that exist, with amounts, keeps the closed rows well-typed.
LEMMA CloseRowsTyped ==
    ASSUME TypeOK, NEW charge, DOMAIN charge \subseteq rows,
           \A r \in DOMAIN charge : charge[r] \in Nat,
           CloseRows(charge), UNCHANGED rows
    PROVE  DOMAIN closed' \subseteq rows' /\ \A r \in DOMAIN closed' : closed'[r] \in Nat
  BY DEF CloseRows, TypeOK

\* An invoice for a row that exists keeps the invoices well-typed.
LEMMA InvoiceTyped ==
    ASSUME TypeOK, NEW r \in rows, NEW b \in Nat, Invoice(r, b), UNCHANGED rows
    PROVE  DOMAIN bill' \subseteq rows' /\ \A s \in DOMAIN bill' : bill'[s] \in Nat
  BY DEF Invoice, TypeOK

\* A run that goes on to close its reservation keeps its row.
LEMMA ClosingTyped ==
    ASSUME RunsAreTyped, OwnRow, NEW c \in Callers, At(c, "sent"),
           NEW u \in Usages \union {NoUsage, ZeroUsage},
           NEW next \in {"next", "failover", "stop"},
           Closing(c, u, next), UNCHANGED rows
    PROVE  /\ RunsAreTyped' /\ OwnRow'
           /\ run'[c].pc = "closing" /\ run'[c].usage = u
           /\ Model(c)' = Model(c) /\ RowOf(c)' = RowOf(c)
<1> DEFINE x == [pc |-> "closing", key |-> run[c].key, stage |-> run[c].stage,
                 try |-> run[c].try, day |-> run[c].day, usage |-> u, then |-> next]
<1>1. /\ run[c].key \in Keys /\ run[c].stage \in DOMAIN Stages
      /\ run[c].try \in 1 .. Len(Stages[run[c].stage])
      /\ run[c].day \in Days
  BY RunFields DEF At
<1>2. Step(c, x)
  BY DEF Closing
<1>3. run'[c] = x
  BY <1>2 DEF Step, RunsAreTyped
<1>4. Model(c)' = Model(c) /\ RowOf(c)' = RowOf(c)
  BY <1>3 DEF Model, RowOf
<1>5. RowOf(c) \in rows
  BY DEF OwnRow, At
<1>6. x \in Run
  BY <1>1 DEF Run
<1>7. RunsAreTyped' /\ OwnRow'
  BY <1>1, <1>2, <1>4, <1>5, <1>6, StepKeepsRuns
<1> QED BY <1>3, <1>4, <1>7

\* The provider's answer, or the lack of one, keeps the ledger well-typed.
LEMMA OutcomeTyped ==
    ASSUME LedgerTyped, NEW c \in Callers,
           Answered(c) \/ Declined(c) \/ Uncertain(c)
    PROVE  LedgerTyped'
<1> USE DEF LedgerTyped
<1>1. At(c, "sent") /\ UNCHANGED <<today, rows, closed, writer, killed, afterKill>>
  BY DEF Answered, Declined, Uncertain
<1>2. RowOf(c) \in rows /\ Model(c) \in Models
  BY <1>1, RunFields DEF OwnRow, At
<1>3. \E u \in Usages \union {NoUsage, ZeroUsage}, next \in {"next", "failover", "stop"} :
        Closing(c, u, next)
  BY DEF Answered, Declined, Uncertain
<1>4. RunsAreTyped' /\ OwnRow'
  BY <1>1, <1>3, ClosingTyped
<1>5. UNCHANGED bill \/ \E u \in Usages : Invoice(RowOf(c), QuoteTokens(Model(c), u))
  BY DEF Answered, Declined, Uncertain
<1>6. DOMAIN bill' \subseteq rows' /\ \A s \in DOMAIN bill' : bill'[s] \in Nat
  BY <1>1, <1>2, <1>5, InvoiceTyped, ChargeNat DEF TypeOK
<1> QED BY <1>1, <1>4, <1>6 DEF TypeOK, RunsAreTyped, RowsAreFinite

\* Closing a reservation keeps the ledger well-typed.
LEMMA CloseTyped ==
    ASSUME LedgerTyped, NEW c \in Callers, Close(c)
    PROVE  LedgerTyped'
<1> USE DEF LedgerTyped
<1> DEFINE charge == [r \in {RowOf(c)} |-> ChargeFor(r.model, run[c].usage)]
<1>1. /\ At(c, "closing")
      /\ UNCHANGED <<today, rows, writer, killed, bill, afterKill>>
  BY DEF Close
<1>2. /\ RowOf(c) \in rows /\ RowOf(c).model \in Models
      /\ run[c].usage \in Usages \union {NoUsage, ZeroUsage}
      /\ run[c].stage \in DOMAIN Stages
      /\ run[c].key \in Keys
  BY <1>1, RunFields DEF OwnRow, At, RowOf
<1>3. UNCHANGED closed \/ CloseRows(charge)
  BY DEF Close
<1>4. DOMAIN charge = {RowOf(c)} /\ \A r \in DOMAIN charge : charge[r] \in Nat
  BY <1>2, ChargeNat
<1>5. DOMAIN closed' \subseteq rows' /\ \A r \in DOMAIN closed' : closed'[r] \in Nat
  <2> HIDE DEF charge
  <2> QED BY <1>1, <1>2, <1>3, <1>4, CloseRowsTyped DEF TypeOK
<1>6. RunsAreTyped' /\ OwnRow'
  <2>1. CASE Step(c, Idle) \/ Failover(c)
    BY <2>1, <1>1, StopAndFailover DEF At
  <2>2. CASE /\ run[c].stage < Len(Stages)
             /\ Step(c, [pc |-> "call", key |-> run[c].key,
                         stage |-> run[c].stage + 1, try |-> 1])
    <3> DEFINE x == [pc |-> "call", key |-> run[c].key, stage |-> run[c].stage + 1,
                     try |-> 1]
    <3>1. run[c].stage + 1 \in DOMAIN Stages
      <4>1. DOMAIN Stages = 1 .. Len(Stages) /\ Len(Stages) \in Nat
        BY LedgerAssumption
      <4> QED BY <1>2, <2>2, <4>1
    <3>2. x \in Run
      BY <1>2, <3>1 DEF Run
    <3>3. x.stage \in DOMAIN Stages /\ x.try = 1
      BY <3>1
    <3>4. x.try \in 1 .. Len(Stages[x.stage])
      <4>1. Len(Stages[x.stage]) \in Nat \ {0}
        BY <3>3, StageLists
      <4> QED BY <3>3, <4>1
    <3> QED BY <1>1, <2>2, <3>2, <3>4, StepKeepsRuns
  <2> QED BY <2>1, <2>2 DEF Close
<1> QED BY <1>1, <1>5, <1>6 DEF TypeOK, RunsAreTyped, RowsAreFinite

\* Reconciliation, a crash, a new day or the kill switch keep the types.
LEMMA SurroundingsTyped ==
    ASSUME LedgerTyped,
           \/ \E age \in Days : Reconcile(age)
           \/ \E c \in Callers : Crash(c)
           \/ NextDay \/ ToggleKillSwitch
    PROVE  LedgerTyped'
<1> USE DEF LedgerTyped
<1>1. ASSUME NEW age \in Days, Reconcile(age) PROVE LedgerTyped'
  <2> DEFINE stale == {r \in rows \ DOMAIN closed : r.day <= today - age}
  <2> DEFINE charge == [r \in stale |-> WorstCase(r.model)]
  <2>1. /\ CloseRows(charge)
        /\ UNCHANGED <<today, rows, writer, killed, run, bill, afterKill>>
    BY <1>1 DEF Reconcile
  <2>2. DOMAIN charge \subseteq rows /\ \A r \in DOMAIN charge : charge[r] \in Nat
    BY ChargeNat DEF TypeOK, Row
  <2>3. DOMAIN closed' \subseteq rows' /\ \A r \in DOMAIN closed' : closed'[r] \in Nat
    <3> HIDE DEF charge
    <3> QED BY <2>1, <2>2, CloseRowsTyped
  <2> QED BY <2>1, <2>3 DEF TypeOK, RunsAreTyped, RowsAreFinite, OwnRow, RowOf, Model, At
<1>2. ASSUME NEW c \in Callers, Crash(c) PROVE LedgerTyped'
  <2>1. UNCHANGED <<today, rows, closed, killed, afterKill>> /\ Step(c, Idle)
    BY <1>2 DEF Crash
  <2>2. RunsAreTyped' /\ OwnRow'
    BY <2>1, StopAndFailover
  <2>3. DOMAIN bill' \subseteq rows' /\ \A s \in DOMAIN bill' : bill'[s] \in Nat
    <3>1. CASE UNCHANGED bill
      BY <2>1, <3>1 DEF TypeOK
    <3>2. ASSUME At(c, "sent"), NEW u \in Usages,
                 Invoice(RowOf(c), QuoteTokens(Model(c), u))
          PROVE  DOMAIN bill' \subseteq rows' /\ \A s \in DOMAIN bill' : bill'[s] \in Nat
      <4>1. RowOf(c) \in rows /\ QuoteTokens(Model(c), u) \in Nat
        BY <3>2, RunFields, ChargeNat DEF OwnRow, At
      <4> QED BY <2>1, <3>2, <4>1, InvoiceTyped
    <3> QED BY <1>2, <3>1, <3>2 DEF Crash
  <2> QED BY <1>2, <2>1, <2>2, <2>3 DEF Crash, TypeOK, RunsAreTyped, RowsAreFinite
<1>3. CASE NextDay
  BY <1>3, LedgerAssumption
     DEF NextDay, TypeOK, Days, RunsAreTyped, RowsAreFinite, OwnRow, RowOf, Model, At
<1>4. CASE ToggleKillSwitch
  BY <1>4 DEF ToggleKillSwitch, TypeOK, RunsAreTyped, RowsAreFinite, OwnRow, RowOf, Model, At
<1> QED BY <1>1, <1>2, <1>3, <1>4

\* The ledger starts well-typed, and every step keeps it so.
LEMMA LedgerTypedInductive ==
    /\ Init => LedgerTyped
    /\ LedgerTyped /\ [Next]_vars => LedgerTyped'
<1>1. Init => LedgerTyped
  <2> SUFFICES ASSUME Init PROVE LedgerTyped
    OBVIOUS
  <2>1. Idle \in Run /\ 0 \in Days
    BY LedgerAssumption DEF Run, Days
  <2>2. DOMAIN closed = {} /\ DOMAIN bill = {}
    BY DEF Init
  <2>3. RunsAreTyped /\ OwnRow
    BY <2>1 DEF Init, RunsAreTyped, OwnRow, At, Idle
  <2>4. RowsAreFinite
    BY FS_EmptySet DEF Init, RowsAreFinite
  <2> QED BY <2>1, <2>2, <2>3, <2>4 DEF Init, LedgerTyped, TypeOK, RunsAreTyped
<1>2. ASSUME LedgerTyped, Next PROVE LedgerTyped'
  BY <1>2, ReserveTyped, OutcomeTyped, CloseTyped, SurroundingsTyped DEF Next, CallStep
<1>3. ASSUME LedgerTyped, UNCHANGED vars PROVE LedgerTyped'
  BY <1>3 DEF vars, LedgerTyped, TypeOK, RunsAreTyped, RowsAreFinite, OwnRow,
              RowOf, Model, At
<1> QED BY <1>1, <1>2, <1>3

(***************************************************************************)
(* Every row of the ledger is a reservation of a configured model, charges *)
(* and invoices are amounts for rows that exist, and a run of the pipeline *)
(* is always at a stage and a model that the configuration has.            *)
(***************************************************************************)
THEOREM LedgerTypeCorrect == Spec => []TypeOK
<1>1. LedgerTyped => TypeOK
  BY DEF LedgerTyped
<1> QED BY <1>1, LedgerTypedInductive, PTL DEF Spec

-----------------------------------------------------------------------------
(***************************************************************************)
(* The write lock.  A run inside its transaction holds the lock, so there  *)
(* is one at most; whoever is there when the kill switch appears is the    *)
(* last to commit, because Begin looks at the switch under the lock.       *)
(***************************************************************************)
InTransaction(c) == run[c].pc \in {"locked", "admitted"}

LockIsHeld == \A c \in Callers : InTransaction(c) => writer = c

LastOne ==
    killed => /\ afterKill <= 1
              /\ afterKill = 1 => \A c \in Callers : ~InTransaction(c)

\* What a step of a caller does to the other callers' transactions.
LEMMA StepAndLock ==
    ASSUME LedgerTyped, LockIsHeld, NEW c \in Callers, NEW x, Step(c, x),
           writer' = writer \/ writer' = c \/ (writer' = Nobody /\ writer = c),
           writer' = c /\ writer # c => writer = Nobody,
           x.pc \in {"locked", "admitted"} => writer' = c
    PROVE  /\ LockIsHeld'
           /\ \A d \in Callers \ {c} : InTransaction(d)' <=> InTransaction(d)
<1>1. run'[c] = x /\ \A d \in Callers \ {c} : run'[d] = run[d]
  BY OthersKeepTheirRun DEF Step, LedgerTyped, RunsAreTyped
<1>2. \A d \in Callers \ {c} : InTransaction(d)' <=> InTransaction(d)
  BY <1>1 DEF InTransaction
<1>3. Nobody \notin Callers
  BY LedgerAssumption
<1>4. LockIsHeld'
  BY <1>1, <1>2, <1>3 DEF LockIsHeld, InTransaction
<1> QED BY <1>2, <1>4

\* Where a run goes when it stops, falls over, or closes its reservation.
LEMMA LeavesTransaction ==
    ASSUME LedgerTyped, NEW c \in Callers
    PROVE  /\ Failover(c) => \E x : Step(c, x) /\ x.pc \in {"call", "idle"}
           /\ \A u, next : Closing(c, u, next) => \E x : Step(c, x) /\ x.pc = "closing"
           /\ Idle.pc = "idle"
  BY DEF Failover, Closing, Idle

\* Goto keeps everything but the place.
LEMMA GotoPlace ==
    ASSUME LedgerTyped, NEW c \in Callers, NEW pc, Goto(c, pc),
           run[c].pc \in {"ready", "locked", "admitted"}
    PROVE  /\ Step(c, [run[c] EXCEPT !.pc = pc])
           /\ [run[c] EXCEPT !.pc = pc].pc = pc
           /\ run'[c].pc = pc
           /\ Model(c)' = Model(c) /\ RowOf(c)' = RowOf(c)
<1>1. run[c] \in [pc : {"ready", "locked", "admitted", "sent"}, key : Keys,
                  stage : DOMAIN Stages, try : Nat, day : Days]
  BY RunFields DEF LedgerTyped, At
<1>2. run'[c] = [run[c] EXCEPT !.pc = pc]
  BY DEF Goto, Step, LedgerTyped, RunsAreTyped
<1> QED BY <1>1, <1>2 DEF Goto, RowOf, Model

\* The lock and the kill switch through the steps of one caller.
LEMMA CallerAndLock ==
    ASSUME LedgerTyped, LockIsHeld, LastOne, NEW c \in Callers,
           CallStep(c) \/ Crash(c) \/ \E k \in Keys : StartRun(c, k)
    PROVE  LockIsHeld' /\ LastOne'
<1>1. ASSUME NEW x, Step(c, x), x.pc \notin {"locked", "admitted"},
             writer' = writer \/ (writer' = Nobody /\ writer = c),
             UNCHANGED <<killed, afterKill>>
      PROVE  LockIsHeld' /\ LastOne'
  <2>1. run'[c] = x
    BY <1>1 DEF Step, LedgerTyped, RunsAreTyped
  <2>2. /\ LockIsHeld'
        /\ \A d \in Callers \ {c} : InTransaction(d)' <=> InTransaction(d)
    BY <1>1, StepAndLock, LedgerAssumption
  <2> QED BY <1>1, <2>1, <2>2 DEF LastOne, InTransaction
<1>2. CASE \E k \in Keys : StartRun(c, k)
  <2>1. PICK k \in Keys : StartRun(c, k)
    BY <1>2
  <2> QED BY <1>1, <2>1 DEF StartRun
<1>3. CASE Precheck(c) \/ RefuseCall(c)
  BY <1>1, <1>3, LeavesTransaction DEF Precheck, RefuseCall
<1>4. CASE Begin(c)
  <2>1. CASE ~killed /\ writer' = c /\ Goto(c, "locked")
    <3>1. run[c].pc = "ready" /\ writer = Nobody /\ UNCHANGED <<killed, afterKill>>
      BY <1>4 DEF Begin, At
    <3>2. LockIsHeld'
      BY <2>1, <3>1, GotoPlace, StepAndLock
    <3> QED BY <2>1, <3>1, <3>2 DEF LastOne
  <2>2. CASE Step(c, Idle) /\ UNCHANGED writer
    BY <1>1, <1>4, <2>2, LeavesTransaction DEF Begin
  <2> QED BY <1>4, <2>1, <2>2 DEF Begin
<1>5. CASE Admit(c)
  <2>1. /\ InTransaction(c) /\ writer = c /\ run[c].pc = "locked"
        /\ UNCHANGED <<killed, afterKill>>
    BY <1>5 DEF Admit, At, InTransaction, LockIsHeld
  <2>2. CASE Goto(c, "admitted") /\ UNCHANGED writer
    <3>1. /\ LockIsHeld'
          /\ \A d \in Callers \ {c} : InTransaction(d)' <=> InTransaction(d)
      BY <2>1, <2>2, GotoPlace, StepAndLock
    <3> QED BY <2>1, <3>1 DEF LastOne
  <2>3. CASE (Failover(c) \/ Step(c, Idle)) /\ writer' = Nobody
    BY <1>1, <2>1, <2>3, LeavesTransaction
  <2> QED BY <1>5, <2>2, <2>3 DEF Admit
<1>6. CASE Commit(c)
  <2>1. /\ InTransaction(c) /\ writer = c /\ run[c].pc = "admitted"
        /\ writer' = Nobody /\ Goto(c, "sent") /\ killed' = killed
        /\ afterKill' = IF killed THEN afterKill + 1 ELSE afterKill
    BY <1>6 DEF Commit, At, InTransaction, LockIsHeld
  <2>2. /\ LockIsHeld'
        /\ \A d \in Callers \ {c} : InTransaction(d)' <=> InTransaction(d)
    BY <2>1, GotoPlace, StepAndLock
  <2>3. \A d \in Callers : ~InTransaction(d)'
    <3>0. run'[c].pc = "sent"
      BY <2>1, GotoPlace
    <3>1. ~InTransaction(c)'
      BY <3>0 DEF InTransaction
    <3>2. \A d \in Callers \ {c} : ~InTransaction(d)
      BY <2>1 DEF LockIsHeld
    <3> QED BY <2>2, <3>1, <3>2
  <2>4. killed => afterKill = 0
    BY <2>1 DEF LastOne, LedgerTyped, TypeOK
  <2> QED BY <2>1, <2>2, <2>3, <2>4 DEF LastOne
<1>7. CASE Answered(c) \/ Declined(c) \/ Uncertain(c)
  BY <1>1, <1>7, LeavesTransaction DEF Answered, Declined, Uncertain
<1>8. CASE Close(c)
  BY <1>1, <1>8, LeavesTransaction DEF Close
<1>9. CASE Crash(c)
  BY <1>1, <1>9, LeavesTransaction DEF Crash
<1> QED BY <1>2, <1>3, <1>4, <1>5, <1>6, <1>7, <1>8, <1>9 DEF CallStep

\* The discipline of the lock is established and kept.
LEMMA LockInductive ==
    /\ Init => LockIsHeld /\ LastOne
    /\ LedgerTyped /\ LockIsHeld /\ LastOne /\ [Next]_vars => LockIsHeld' /\ LastOne'
<1>1. Init => LockIsHeld /\ LastOne
  BY DEF Init, LockIsHeld, LastOne, InTransaction, Idle
<1>2. ASSUME LedgerTyped, LockIsHeld, LastOne, [Next]_vars
      PROVE  LockIsHeld' /\ LastOne'
  <2>1. CASE \E c \in Callers :
               CallStep(c) \/ Crash(c) \/ \E k \in Keys : StartRun(c, k)
    BY <1>2, <2>1, CallerAndLock
  <2>2. CASE UNCHANGED <<run, writer, killed, afterKill>>
    BY <1>2, <2>2 DEF LockIsHeld, LastOne, InTransaction
  <2>3. CASE NextDay \/ (\E age \in Days : Reconcile(age)) \/ UNCHANGED vars
    BY <2>2, <2>3 DEF NextDay, Reconcile, vars
  <2>4. CASE ToggleKillSwitch
    BY <1>2, <2>4 DEF ToggleKillSwitch, LockIsHeld, LastOne, InTransaction
  <2> QED BY <1>2, <2>1, <2>3, <2>4 DEF Next
<1> QED BY <1>1, <1>2

(***************************************************************************)
(* After AI_CALLS_DISABLED appears at most one reservation is committed,   *)
(* the one that was inside its transaction, for any number of processes.   *)
(***************************************************************************)
THEOREM KillSwitchIsPrompt == Spec => []KillSwitchAdmitsOne
<1>1. LastOne => KillSwitchAdmitsOne
  BY DEF LastOne, KillSwitchAdmitsOne
<1> QED BY <1>1, LedgerTypedInductive, LockInductive, PTL DEF Spec

-----------------------------------------------------------------------------
(***************************************************************************)
(* One call per request.  What a transaction found of the ledger is still  *)
(* true when it inserts its row, because nobody else can insert meanwhile. *)
(***************************************************************************)
AdmittedIsNew ==
    \A c \in Callers : At(c, "admitted") => ~Duplicate(RowOf(c)) /\ QuotaLeft(RowOf(c))

\* A step that leaves the rows alone, and admits nobody unchecked.
LEMMA RowsUntouched ==
    ASSUME AdmittedIsNew, OneCallPerRequest, UNCHANGED rows,
           \A c \in Callers : At(c, "admitted")' =>
               \/ At(c, "admitted") /\ RowOf(c)' = RowOf(c)
               \/ ~Duplicate(RowOf(c)) /\ QuotaLeft(RowOf(c)) /\ RowOf(c)' = RowOf(c)
    PROVE  AdmittedIsNew' /\ OneCallPerRequest'
<1>1. OneCallPerRequest'
  BY DEF OneCallPerRequest, InMonth
<1>2. \A r : Duplicate(r)' <=> Duplicate(r)
  BY DEF Duplicate
<1>3. \A r : QuotaLeft(r)' <=> QuotaLeft(r)
  BY DEF QuotaLeft, InMonth
<1>4. AdmittedIsNew'
  <2> SUFFICES ASSUME NEW c \in Callers, At(c, "admitted")'
               PROVE  ~Duplicate(RowOf(c))' /\ QuotaLeft(RowOf(c))'
    BY DEF AdmittedIsNew
  <2>1. RowOf(c)' = RowOf(c) /\ ~Duplicate(RowOf(c)) /\ QuotaLeft(RowOf(c))
    BY DEF AdmittedIsNew
  <2>2. ~Duplicate(RowOf(c))'
    BY <2>1, <1>2 DEF Duplicate
  <2>3. QuotaLeft(RowOf(c))'
    BY <2>1, <1>3 DEF QuotaLeft, InMonth
  <2> QED BY <2>2, <2>3
<1> QED BY <1>1, <1>4

\* A row that is no duplicate and fits the quota may be inserted.
LEMMA InsertRow ==
    ASSUME OneCallPerRequest, RowsAreFinite, NEW r, rows' = rows \union {r},
           ~Duplicate(r), QuotaLeft(r)
    PROVE  OneCallPerRequest'
<1>1. ASSUME NEW s \in rows', NEW t \in rows',
             MonthOf(s.day) = MonthOf(t.day), s.model = t.model,
             s.key = t.key, s.stage = t.stage
      PROVE  s = t
  BY <1>1 DEF OneCallPerRequest, Duplicate
<1>2. ASSUME NEW m \in Months, NEW x \in Models
      PROVE  Cardinality({s \in InMonth(m)' : s.model = x}) <= Quota[x]
  <2> DEFINE S == {s \in InMonth(m) : s.model = x}
             T == {s \in InMonth(m)' : s.model = x}
  <2>1. IsFiniteSet(S) /\ Cardinality(S) \in Nat /\ Cardinality(S) <= Quota[x]
    BY FS_Subset, FS_CardinalityType DEF RowsAreFinite, InMonth, OneCallPerRequest
  <2>2. CASE MonthOf(r.day) = m /\ r.model = x
    <3>1. T = S \union {r}
      BY <2>2 DEF InMonth
    <3>2. Cardinality(S) < Quota[x]
      BY <2>2 DEF QuotaLeft
    <3>3. Cardinality(S \union {r}) = IF r \in S THEN Cardinality(S) ELSE Cardinality(S) + 1
      <4> HIDE DEF S
      <4> QED BY <2>1, FS_AddElement
    <3>4. Quota[x] \in Nat
      BY LedgerAssumption
    <3>5. Cardinality(T) <= Quota[x]
      <4> HIDE DEF S, T
      <4> QED BY <2>1, <3>1, <3>2, <3>3, <3>4
    <3> QED BY <3>5
  <2>3. CASE ~(MonthOf(r.day) = m /\ r.model = x)
    <3>1. T = S
      BY <2>3 DEF InMonth
    <3> QED BY <2>1, <3>1
  <2> QED BY <2>2, <2>3
<1> QED BY <1>1, <1>2 DEF OneCallPerRequest

\* The step of one caller.
LEMMA CallerAndRequests ==
    ASSUME LedgerTyped, LockIsHeld, AdmittedIsNew, OneCallPerRequest,
           NEW c \in Callers,
           CallStep(c) \/ Crash(c) \/ \E k \in Keys : StartRun(c, k)
    PROVE  AdmittedIsNew' /\ OneCallPerRequest'
<1> USE DEF LedgerTyped
<1>1. ASSUME NEW x, Step(c, x), UNCHANGED rows,
             x.pc = "admitted" =>
               RowOf(c)' = RowOf(c) /\ ~Duplicate(RowOf(c)) /\ QuotaLeft(RowOf(c))
      PROVE  AdmittedIsNew' /\ OneCallPerRequest'
  <2>1. run'[c] = x
    BY <1>1 DEF Step, RunsAreTyped
  <2>2. \A d \in Callers \ {c} : run'[d] = run[d] /\ RowOf(d)' = RowOf(d)
    BY <1>1, OthersKeepTheirRun
  <2>3. ASSUME NEW d \in Callers, At(d, "admitted")'
        PROVE  \/ At(d, "admitted") /\ RowOf(d)' = RowOf(d)
               \/ ~Duplicate(RowOf(d)) /\ QuotaLeft(RowOf(d)) /\ RowOf(d)' = RowOf(d)
    BY <1>1, <2>1, <2>2, <2>3 DEF At
  <2> QED BY <1>1, <2>3, RowsUntouched
<1>2. CASE \E k \in Keys : StartRun(c, k)
  <2>1. PICK k \in Keys : StartRun(c, k)
    BY <1>2
  <2> QED BY <1>1, <2>1 DEF StartRun
<1>3. CASE Precheck(c) \/ RefuseCall(c)
  BY <1>1, <1>3, LeavesTransaction DEF Precheck, RefuseCall
<1>4. CASE Begin(c)
  BY <1>1, <1>4, GotoPlace, LeavesTransaction DEF Begin, At
<1>5. CASE Admit(c)
  <2>1. run[c].pc = "locked" /\ UNCHANGED rows
    BY <1>5 DEF Admit, At
  <2>2. CASE ~Duplicate(RowOf(c)) /\ QuotaLeft(RowOf(c)) /\ Goto(c, "admitted")
    BY <1>1, <2>1, <2>2, GotoPlace
  <2>3. CASE Failover(c) \/ Step(c, Idle)
    BY <1>1, <2>1, <2>3, LeavesTransaction
  <2> QED BY <1>5, <2>2, <2>3 DEF Admit
<1>6. CASE Commit(c)
  <2>1. run[c].pc = "admitted" /\ Goto(c, "sent") /\ rows' = rows \union {RowOf(c)}
    BY <1>6 DEF Commit, At
  <2>2. ~Duplicate(RowOf(c)) /\ QuotaLeft(RowOf(c))
    BY <2>1 DEF AdmittedIsNew, At
  <2>3. OneCallPerRequest'
    BY <2>1, <2>2, InsertRow
  <2>4. \A d \in Callers : ~At(d, "admitted")'
    <3>0. run'[c].pc = "sent"
      BY <2>1, GotoPlace
    <3>1. ~At(c, "admitted")'
      BY <3>0 DEF At
    <3>2. ASSUME NEW d \in Callers \ {c} PROVE run[d].pc # "admitted" /\ run'[d] = run[d]
      BY <2>1, GotoPlace, OthersKeepTheirRun DEF LockIsHeld, InTransaction
    <3> QED BY <3>1, <3>2 DEF At
  <2> QED BY <2>3, <2>4 DEF AdmittedIsNew
<1>7. CASE Answered(c) \/ Declined(c) \/ Uncertain(c)
  BY <1>1, <1>7, LeavesTransaction DEF Answered, Declined, Uncertain
<1>8. CASE Close(c)
  BY <1>1, <1>8, LeavesTransaction DEF Close
<1>9. CASE Crash(c)
  BY <1>1, <1>9, LeavesTransaction DEF Crash
<1> QED BY <1>2, <1>3, <1>4, <1>5, <1>6, <1>7, <1>8, <1>9 DEF CallStep

\* Established, and kept by every step.
LEMMA RequestsInductive ==
    /\ Init => AdmittedIsNew /\ OneCallPerRequest
    /\ /\ LedgerTyped /\ LockIsHeld /\ AdmittedIsNew /\ OneCallPerRequest
       /\ [Next]_vars
       => AdmittedIsNew' /\ OneCallPerRequest'
<1>1. ASSUME Init PROVE AdmittedIsNew /\ OneCallPerRequest
  <2>1. AdmittedIsNew
    BY <1>1 DEF Init, AdmittedIsNew, At, Idle
  <2>2. ASSUME NEW m \in Months, NEW x \in Models
        PROVE  Cardinality({r \in InMonth(m) : r.model = x}) <= Quota[x]
    <3>1. {r \in InMonth(m) : r.model = x} = {}
      BY <1>1 DEF Init, InMonth
    <3>2. Cardinality({r \in InMonth(m) : r.model = x}) = 0
      BY <3>1, FS_EmptySet
    <3>3. Quota[x] \in Nat
      BY LedgerAssumption
    <3> QED BY <3>2, <3>3
  <2> QED BY <1>1, <2>1, <2>2 DEF Init, OneCallPerRequest
<1>2. ASSUME LedgerTyped, LockIsHeld, AdmittedIsNew, OneCallPerRequest, [Next]_vars
      PROVE  AdmittedIsNew' /\ OneCallPerRequest'
  <2>1. CASE \E c \in Callers :
               CallStep(c) \/ Crash(c) \/ \E k \in Keys : StartRun(c, k)
    BY <1>2, <2>1, CallerAndRequests
  <2>2. CASE UNCHANGED <<run, rows>>
    BY <1>2, <2>2, RowsUntouched DEF At, RowOf, Model
  <2>3. CASE NextDay \/ ToggleKillSwitch \/ (\E age \in Days : Reconcile(age))
             \/ UNCHANGED vars
    BY <2>2, <2>3 DEF NextDay, ToggleKillSwitch, Reconcile, vars
  <2> QED BY <1>2, <2>1, <2>3 DEF Next
<1> QED BY <1>1, <1>2

(***************************************************************************)
(* However many processes run the same request, the provider is asked once *)
(* in a month, and no model is asked more often than monthly_call_limit.   *)
(***************************************************************************)
THEOREM RequestsAreUnique == Spec => []OneCallPerRequest
  BY LedgerTypedInductive, LockInductive, RequestsInductive, PTL DEF Spec

-----------------------------------------------------------------------------
(***************************************************************************)
(* The ledger never knows of less than the provider will invoice, provided *)
(* no call costs more than its reservation (the run overshoot shows that    *)
(* the code does not enforce this of the provider's side).                 *)
(***************************************************************************)
CallsFitReservations ==
    \A m \in Models, u \in Usages : QuoteTokens(m, u) <= WorstCase(m)

\* Rounding up is monotone, in the tokens and in the rate.
LEMMA CeilRateMonotone ==
    ASSUME NEW s \in Nat, NEW t \in Nat, NEW p \in Nat, NEW q \in Nat, s <= t, p <= q
    PROVE  CeilRate(s, p) <= CeilRate(t, q)
<1>1. Unit \in Nat \ {0}
  BY LedgerAssumption
<1> DEFINE x == s * p
           y == t * q
<1>2. x \in Nat /\ y \in Nat
  OBVIOUS
<1>3. x <= y
  <2>1. s * p <= t * p
    OBVIOUS
  <2>2. t * p <= t * q
    OBVIOUS
  <2> QED BY <2>1, <2>2
<1> HIDE DEF x, y
<1> DEFINE v == x + Unit - 1
           w == y + Unit - 1
<1>4. v \in Nat /\ w \in Nat /\ v <= w
  BY <1>1, <1>2, <1>3
<1> HIDE DEF v, w
<1>5. v \div Unit <= w \div Unit
  BY <1>1, <1>4
<1> QED BY <1>5 DEF CeilRate, v, w, x, y

\* Rounding a split amount up in two parts costs at most one unit of money more.
LEMMA CeilRateSplit ==
    ASSUME NEW s \in Nat, NEW t \in Nat, NEW p \in Nat
    PROVE  CeilRate(s, p) + CeilRate(t, p) <= CeilRate(s + t, p) + 1
<1>1. Unit \in Nat \ {0}
  BY LedgerAssumption
<1> DEFINE x == s * p
           y == t * p
<1>2. x \in Nat /\ y \in Nat /\ (s + t) * p = x + y
  OBVIOUS
<1> HIDE DEF x, y
<1> DEFINE a == (x + Unit - 1) \div Unit
           b == (y + Unit - 1) \div Unit
           c == (x + y + Unit - 1) \div Unit
<1>3. a \in Nat /\ b \in Nat /\ c \in Nat
  BY <1>1, <1>2, CeilNat
<1>4. /\ Unit * a <= x + Unit - 1
      /\ Unit * b <= y + Unit - 1
      /\ x + y <= Unit * c
  <2>1. \A z \in Nat : Unit * (z \div Unit) <= z /\ z < Unit * (z \div Unit) + Unit
    BY <1>1
  <2>2. x + Unit - 1 \in Nat /\ y + Unit - 1 \in Nat /\ x + y + Unit - 1 \in Nat
    BY <1>1, <1>2
  <2>3. x + y + Unit - 1 < Unit * c + Unit
    BY <2>1, <2>2
  <2>4. Unit * c \in Nat
    BY <1>1, <1>3
  <2> HIDE DEF c
  <2>5. x + y <= Unit * c
    BY <1>1, <1>2, <2>3, <2>4
  <2> QED BY <2>1, <2>2, <2>5
<1> HIDE DEF a, b, c
<1>5. Unit * (a + b) < Unit * (c + 2)
  <2>1. Unit * (a + b) = Unit * a + Unit * b /\ Unit * (c + 2) = Unit * c + Unit + Unit
    BY <1>1, <1>3
  <2> QED BY <1>1, <1>2, <1>3, <1>4, <2>1
<1>6. a + b < c + 2
  BY <1>1, <1>3, <1>5
<1>7. a + b <= c + 1
  BY <1>3, <1>6
<1> QED BY <1>2, <1>7 DEF CeilRate, a, b, c, x, y

(***************************************************************************)
(* What reserve_for_tokens holds is enough for every usage within the      *)
(* configured maxima if nothing is cached, and one microdollar short at    *)
(* the most if a part is cached at no higher a rate: quote_tokens rounds   *)
(* the cached and the uncached input up separately.                        *)
(***************************************************************************)
THEOREM ReservationCoversMaxima ==
    ASSUME NEW m \in Models, NEW u \in Tokens, u.cached <= u.input,
           u.input <= Price[m].maxInput, u.output <= Price[m].maxOutput,
           Price[m].cached <= Price[m].input
    PROVE  /\ QuoteTokens(m, u) <= WorstCase(m) + 1
           /\ u.cached = 0 => QuoteTokens(m, u) <= WorstCase(m)
<1>1. /\ u.input \in Nat /\ u.cached \in Nat /\ u.output \in Nat
      /\ u.input - u.cached \in Nat
  BY DEF Tokens
<1>2. /\ Price[m].input \in Nat /\ Price[m].cached \in Nat /\ Price[m].output \in Nat
      /\ Price[m].maxInput \in Nat /\ Price[m].maxOutput \in Nat
  BY LedgerAssumption
<1> DEFINE fresh  == CeilRate(u.input - u.cached, Price[m].input)
           cached == CeilRate(u.cached, Price[m].cached)
           output == CeilRate(u.output, Price[m].output)
           none   == CeilRate(0, Price[m].cached)
           maxIn  == CeilRate(Price[m].maxInput, Price[m].input)
           maxOut == CeilRate(Price[m].maxOutput, Price[m].output)
<1>3. /\ fresh \in Nat /\ cached \in Nat /\ output \in Nat
      /\ none \in Nat /\ maxIn \in Nat /\ maxOut \in Nat
  BY <1>1, <1>2, CeilRateNat
<1>4. WorstCase(m) = maxIn + none + maxOut /\ QuoteTokens(m, u) = fresh + cached + output
  <2>1. Price[m].maxInput - 0 = Price[m].maxInput
    BY <1>2
  <2> QED BY <2>1 DEF WorstCase, QuoteTokens
<1>5. output <= maxOut
  BY <1>1, <1>2, CeilRateMonotone
<1>6. fresh + cached <= maxIn + 1
  <2>1. cached <= CeilRate(u.cached, Price[m].input)
    BY <1>1, <1>2, CeilRateMonotone
  <2>2. fresh + CeilRate(u.cached, Price[m].input) <= CeilRate(u.input, Price[m].input) + 1
    <3>1. (u.input - u.cached) + u.cached = u.input
      BY <1>1
    <3> QED BY <1>1, <1>2, <3>1, CeilRateSplit
  <2>3. CeilRate(u.input, Price[m].input) <= maxIn
    BY <1>1, <1>2, CeilRateMonotone
  <2>4. CeilRate(u.cached, Price[m].input) \in Nat /\ CeilRate(u.input, Price[m].input) \in Nat
    BY <1>1, <1>2, CeilRateNat
  <2> HIDE DEF fresh, cached, maxIn
  <2> QED BY <1>3, <2>1, <2>2, <2>3, <2>4
<1>7. u.cached = 0 => fresh <= maxIn /\ cached = none
  BY <1>1, <1>2, CeilRateMonotone
<1> HIDE DEF fresh, cached, output, none, maxIn, maxOut
<1>8. QuoteTokens(m, u) <= WorstCase(m) + 1
  BY <1>3, <1>4, <1>5, <1>6
<1>9. u.cached = 0 => QuoteTokens(m, u) <= WorstCase(m)
  BY <1>3, <1>4, <1>5, <1>7
<1> QED BY <1>8, <1>9

\* At a whole number of microdollars per token nothing is rounded.
LEMMA CeilRateWhole ==
    ASSUME NEW t \in Nat, NEW k \in Nat
    PROVE  CeilRate(t, k * Unit) = t * k
<1>1. Unit \in Nat \ {0}
  BY LedgerAssumption
<1> DEFINE x == t * k
<1>2. x \in Nat /\ t * (k * Unit) = x * Unit
  BY <1>1
<1> HIDE DEF x
<1> DEFINE d == (x * Unit + Unit - 1) \div Unit
<1>3. d \in Nat /\ Unit * d <= x * Unit + Unit - 1 /\ x * Unit + Unit - 1 < Unit * d + Unit
  <2>1. x * Unit + Unit - 1 \in Nat
    BY <1>1, <1>2
  <2> QED BY <1>1, <2>1
<1> HIDE DEF d
<1>4. d < x + 1
  <2>1. Unit * d < Unit * (x + 1)
    <3>1. Unit * (x + 1) = x * Unit + Unit
      BY <1>1, <1>2
    <3> QED BY <1>1, <1>2, <1>3, <3>1
  <2> QED BY <1>1, <1>2, <1>3, <2>1
<1>5. x < d + 1
  <2>1. Unit * x < Unit * (d + 1)
    <3>1. Unit * (d + 1) = Unit * d + Unit /\ Unit * x = x * Unit /\ Unit * d \in Nat
      BY <1>1, <1>2, <1>3
    <3> QED BY <1>1, <1>2, <1>3, <3>1
  <2> QED BY <1>1, <1>2, <1>3, <2>1
<1>6. d = x
  BY <1>2, <1>3, <1>4, <1>5
<1> QED BY <1>2, <1>6 DEF CeilRate, d, x

(***************************************************************************)
(* CallsFitReservations follows from the configuration, as long as the     *)
(* provider's usage keeps to the maxima: the deployed input rates are      *)
(* whole microdollars per token (config.shadow.toml) and cached input is   *)
(* no dearer than fresh input.                                             *)
(***************************************************************************)
THEOREM WholeRatesFit ==
    ASSUME \A m \in Models : \E k \in Nat : Price[m].input = k * Unit,
           \A m \in Models : Price[m].cached <= Price[m].input,
           \A m \in Models, u \in Usages :
               u.input <= Price[m].maxInput /\ u.output <= Price[m].maxOutput
    PROVE  CallsFitReservations
<1> SUFFICES ASSUME NEW m \in Models, NEW u \in Usages
             PROVE  QuoteTokens(m, u) <= WorstCase(m)
  BY DEF CallsFitReservations
<1>1. /\ u.input \in Nat /\ u.cached \in Nat /\ u.output \in Nat
      /\ u.input - u.cached \in Nat /\ (u.input - u.cached) + u.cached = u.input
  BY LedgerAssumption DEF Tokens
<1>2. /\ Price[m].input \in Nat /\ Price[m].cached \in Nat /\ Price[m].output \in Nat
      /\ Price[m].maxInput \in Nat /\ Price[m].maxOutput \in Nat
  BY LedgerAssumption
<1>3. PICK k \in Nat : Price[m].input = k * Unit
  OBVIOUS
<1> DEFINE fresh  == CeilRate(u.input - u.cached, Price[m].input)
           cached == CeilRate(u.cached, Price[m].cached)
           output == CeilRate(u.output, Price[m].output)
           none   == CeilRate(0, Price[m].cached)
           maxIn  == CeilRate(Price[m].maxInput, Price[m].input)
           maxOut == CeilRate(Price[m].maxOutput, Price[m].output)
<1>4. WorstCase(m) = maxIn + none + maxOut /\ QuoteTokens(m, u) = fresh + cached + output
  <2>1. Price[m].maxInput - 0 = Price[m].maxInput
    BY <1>2
  <2> QED BY <2>1 DEF WorstCase, QuoteTokens
<1>5. /\ fresh \in Nat /\ cached \in Nat /\ output \in Nat
      /\ none \in Nat /\ maxIn \in Nat /\ maxOut \in Nat
  BY <1>1, <1>2, CeilRateNat
<1>6. output <= maxOut
  BY <1>1, <1>2, CeilRateMonotone
<1>7. fresh + cached <= maxIn
  <2>1. cached <= CeilRate(u.cached, Price[m].input)
    BY <1>1, <1>2, CeilRateMonotone
  <2>2. /\ fresh = (u.input - u.cached) * k
        /\ CeilRate(u.cached, Price[m].input) = u.cached * k
        /\ maxIn = Price[m].maxInput * k
    BY <1>1, <1>2, <1>3, CeilRateWhole
  <2>3. (u.input - u.cached) * k + u.cached * k = u.input * k
    BY <1>1
  <2>4. u.input * k <= Price[m].maxInput * k
    BY <1>1, <1>2
  <2>5. u.cached * k \in Nat /\ u.input * k \in Nat
    BY <1>1
  <2>6. fresh + u.cached * k = u.input * k
    BY <2>2, <2>3
  <2>7. cached <= u.cached * k /\ u.input * k <= maxIn
    BY <2>1, <2>2, <2>4
  <2> HIDE DEF fresh, cached, maxIn
  <2> QED BY <1>5, <2>5, <2>6, <2>7
<1> HIDE DEF fresh, cached, output, none, maxIn, maxOut
<1> QED BY <1>4, <1>5, <1>6, <1>7

(***************************************************************************)
(* A row in flight has no invoice yet and, if it is closed already, it was *)
(* reconciled, at its worst case.  A row about to be closed is charged at  *)
(* least its invoice.                                                      *)
(***************************************************************************)
InFlight ==
    \A c \in Callers : At(c, "sent") =>
        /\ RowOf(c) \notin DOMAIN bill
        /\ RowOf(c) \in DOMAIN closed => closed[RowOf(c)] = WorstCase(RowOf(c).model)

ChargeCovers ==
    \A c \in Callers : At(c, "closing") /\ RowOf(c) \in DOMAIN bill =>
        bill[RowOf(c)] <= ChargeFor(RowOf(c).model, run[c].usage)

MoneyInv == Conservative /\ InFlight /\ ChargeCovers

\* Rows of different callers differ.
LEMMA RowsDiffer ==
    ASSUME NEW c \in Callers, NEW d \in Callers \ {c}
    PROVE  RowOf(c) # RowOf(d)
  BY DEF RowOf

\* A step that touches neither charges nor invoices, nor sends a request.
LEMMA MoneyUntouched ==
    ASSUME RunsAreTyped, MoneyInv, NEW c \in Callers, NEW x, Step(c, x),
           x.pc \notin {"sent", "closing"}, UNCHANGED <<closed, bill>>
    PROVE  MoneyInv'
<1>1. run'[c] = x /\ \A d \in Callers \ {c} : run'[d] = run[d] /\ RowOf(d)' = RowOf(d)
  BY OthersKeepTheirRun DEF Step, RunsAreTyped
<1> QED BY <1>1 DEF MoneyInv, Conservative, InFlight, ChargeCovers, At

\* A new row is in flight.
LEMMA CommitMoney ==
    ASSUME LedgerTyped, AdmittedIsNew, MoneyInv, NEW c \in Callers, Commit(c)
    PROVE  MoneyInv'
<1> USE DEF LedgerTyped
<1>1. run[c].pc = "admitted" /\ Goto(c, "sent") /\ UNCHANGED <<closed, bill>>
  BY DEF Commit, At
<1>2. run'[c].pc = "sent" /\ RowOf(c)' = RowOf(c)
  BY <1>1, GotoPlace
<1>3. \A d \in Callers \ {c} : run'[d] = run[d] /\ RowOf(d)' = RowOf(d)
  BY <1>1, OthersKeepTheirRun DEF Goto
<1>4. RowOf(c) \notin rows
  BY <1>1 DEF AdmittedIsNew, At, Duplicate
<1>5. RowOf(c) \notin DOMAIN bill /\ RowOf(c) \notin DOMAIN closed
  BY <1>4 DEF TypeOK
<1> QED BY <1>1, <1>2, <1>3, <1>5 DEF MoneyInv, Conservative, InFlight, ChargeCovers, At

\* The invoice of a row in flight is covered by what the ledger holds for it.
LEMMA InvoiceMoney ==
    ASSUME CallsFitReservations, LedgerTyped, MoneyInv, NEW c \in Callers,
           At(c, "sent"), NEW u \in Usages,
           Invoice(RowOf(c), QuoteTokens(Model(c), u)), UNCHANGED closed
    PROVE  /\ Conservative'
           /\ RowOf(c) \in DOMAIN bill'
           /\ bill'[RowOf(c)] = QuoteTokens(Model(c), u)
           /\ bill'[RowOf(c)] <= WorstCase(Model(c))
           /\ \A r \in DOMAIN bill' \ {RowOf(c)} : r \in DOMAIN bill /\ bill'[r] = bill[r]
<1>1. Model(c) \in Models /\ RowOf(c).model = Model(c)
  BY RunFields DEF LedgerTyped, At, RowOf
<1>2. bill'[RowOf(c)] = QuoteTokens(Model(c), u) /\ RowOf(c) \in DOMAIN bill'
  BY DEF Invoice
<1>3. bill'[RowOf(c)] <= WorstCase(Model(c))
  BY <1>1, <1>2 DEF CallsFitReservations
<1>4. \A r \in DOMAIN bill' \ {RowOf(c)} : r \in DOMAIN bill /\ bill'[r] = bill[r]
  BY DEF Invoice
<1>5. Conservative'
  BY <1>1, <1>3, <1>4 DEF MoneyInv, Conservative, InFlight
<1> QED BY <1>2, <1>3, <1>4, <1>5

\* The provider's answer, or the lack of one.
LEMMA OutcomeMoney ==
    ASSUME CallsFitReservations, LedgerTyped, MoneyInv, NEW c \in Callers,
           Answered(c) \/ Declined(c) \/ Uncertain(c)
    PROVE  MoneyInv'
<1> USE DEF LedgerTyped
<1>1. At(c, "sent") /\ UNCHANGED <<rows, closed>>
  BY DEF Answered, Declined, Uncertain
<1>2. PICK v \in Usages \union {NoUsage, ZeroUsage}, next \in {"next", "failover", "stop"} :
        /\ Closing(c, v, next)
        /\ \/ UNCHANGED bill
           \/ \E u \in Usages : /\ Invoice(RowOf(c), QuoteTokens(Model(c), u))
                                /\ v \in {u, NoUsage}
  BY DEF Answered, Declined, Uncertain
<1>3. run'[c].pc = "closing" /\ run'[c].usage = v /\ RowOf(c)' = RowOf(c)
  BY <1>1, <1>2, ClosingTyped
<1>4. \A d \in Callers \ {c} : run'[d] = run[d] /\ RowOf(d)' = RowOf(d)
  BY <1>2, OthersKeepTheirRun DEF Closing
<1>5. RowOf(c).model = Model(c) /\ \A d \in Callers \ {c} : RowOf(d) # RowOf(c)
  BY RowsDiffer DEF RowOf
<1>6. CASE UNCHANGED bill
  BY <1>1, <1>3, <1>4, <1>6 DEF MoneyInv, Conservative, InFlight, ChargeCovers, At
<1>7. ASSUME NEW u \in Usages, v \in {u, NoUsage},
             Invoice(RowOf(c), QuoteTokens(Model(c), u))
      PROVE  MoneyInv'
  <2>1. /\ Conservative'
        /\ bill'[RowOf(c)] = QuoteTokens(Model(c), u)
        /\ bill'[RowOf(c)] <= WorstCase(Model(c))
        /\ \A r \in DOMAIN bill' \ {RowOf(c)} : r \in DOMAIN bill /\ bill'[r] = bill[r]
    BY <1>1, <1>7, InvoiceMoney
  <2>2. InFlight'
    BY <1>1, <1>3, <1>4, <1>5, <2>1 DEF MoneyInv, InFlight, At
  <2>3. bill'[RowOf(c)] <= ChargeFor(Model(c), v)
    <3>1. Model(c) \in Models
      BY <1>1, RunFields DEF At
    <3>2. QuoteTokens(Model(c), u) \in Nat
      BY <3>1, ChargeNat
    <3>3. u # NoUsage
      BY LedgerAssumption
    <3> QED BY <1>7, <2>1, <3>2, <3>3 DEF ChargeFor, ValidUsage
  <2>4. ChargeCovers'
    BY <1>3, <1>4, <1>5, <2>1, <2>3 DEF MoneyInv, ChargeCovers, At
  <2> QED BY <2>1, <2>2, <2>4 DEF MoneyInv
<1> QED BY <1>2, <1>6, <1>7

\* Closing a reservation charges what covers its invoice.
LEMMA CloseMoney ==
    ASSUME LedgerTyped, MoneyInv, NEW c \in Callers, Close(c)
    PROVE  MoneyInv'
<1> USE DEF LedgerTyped
<1>1. At(c, "closing") /\ UNCHANGED bill
  BY DEF Close
<1>2. PICK x : Step(c, x) /\ x.pc \in {"idle", "call"}
  BY LeavesTransaction DEF Close
<1>3. CASE UNCHANGED closed
  BY <1>1, <1>2, <1>3, MoneyUntouched
<1>4. CASE CloseRows([r \in {RowOf(c)} |-> ChargeFor(r.model, run[c].usage)])
  <2>1. /\ closed'[RowOf(c)] = ChargeFor(RowOf(c).model, run[c].usage)
        /\ DOMAIN closed' = DOMAIN closed \union {RowOf(c)}
        /\ \A r \in DOMAIN closed' \ {RowOf(c)} : closed'[r] = closed[r]
    BY <1>4 DEF CloseRows
  <2>2. run'[c] = x /\ \A d \in Callers \ {c} : run'[d] = run[d] /\ RowOf(d)' = RowOf(d)
    BY <1>2, OthersKeepTheirRun DEF Step, RunsAreTyped
  <2>3. Conservative'
    BY <1>1, <2>1 DEF MoneyInv, Conservative, ChargeCovers
  <2>4. \A d \in Callers \ {c} : RowOf(d) # RowOf(c)
    BY RowsDiffer
  <2>5. InFlight' /\ ChargeCovers'
    BY <1>1, <1>2, <2>1, <2>2, <2>4 DEF MoneyInv, InFlight, ChargeCovers, At
  <2> QED BY <2>3, <2>5 DEF MoneyInv
<1> QED BY <1>3, <1>4 DEF Close

\* Reconciliation charges the worst case.
LEMMA ReconcileMoney ==
    ASSUME LedgerTyped, MoneyInv, NEW age \in Days, Reconcile(age)
    PROVE  MoneyInv'
<1> DEFINE stale == {r \in rows \ DOMAIN closed : r.day <= today - age}
<1>1. CloseRows([r \in stale |-> WorstCase(r.model)]) /\ UNCHANGED <<run, bill>>
  BY DEF Reconcile
<1>2. /\ DOMAIN closed' = DOMAIN closed \union stale
      /\ \A r \in DOMAIN closed : r \notin stale /\ closed'[r] = closed[r]
      /\ \A r \in stale : r \notin DOMAIN closed /\ closed'[r] = WorstCase(r.model)
  BY <1>1 DEF CloseRows
<1>3. \A d \in Callers : RowOf(d)' = RowOf(d)
  BY <1>1 DEF RowOf, Model
<1> HIDE DEF stale
<1>4. Conservative'
  BY <1>1, <1>2 DEF MoneyInv, Conservative
<1>5. InFlight' /\ ChargeCovers'
  BY <1>1, <1>2, <1>3 DEF MoneyInv, InFlight, ChargeCovers, At
<1> QED BY <1>4, <1>5 DEF MoneyInv

\* A caller that dies with a request in flight may leave an invoice behind.
LEMMA CrashMoney ==
    ASSUME CallsFitReservations, LedgerTyped, MoneyInv, NEW c \in Callers, Crash(c)
    PROVE  MoneyInv'
<1> USE DEF LedgerTyped
<1>1. Step(c, Idle) /\ UNCHANGED closed
  BY DEF Crash
<1>2. CASE UNCHANGED bill
  BY <1>1, <1>2, MoneyUntouched, LeavesTransaction
<1>3. ASSUME At(c, "sent"), NEW u \in Usages,
             Invoice(RowOf(c), QuoteTokens(Model(c), u))
      PROVE  MoneyInv'
  <2>1. /\ Conservative'
        /\ \A r \in DOMAIN bill' \ {RowOf(c)} : r \in DOMAIN bill /\ bill'[r] = bill[r]
    BY <1>1, <1>3, InvoiceMoney
  <2>2. /\ run'[c].pc = "idle"
        /\ \A d \in Callers \ {c} : run'[d] = run[d] /\ RowOf(d)' = RowOf(d)
    BY <1>1, OthersKeepTheirRun DEF Step, RunsAreTyped, Idle
  <2>3. \A d \in Callers \ {c} : RowOf(d) # RowOf(c)
    BY RowsDiffer
  <2>4. InFlight' /\ ChargeCovers'
    BY <1>1, <2>1, <2>2, <2>3 DEF MoneyInv, InFlight, ChargeCovers, At
  <2> QED BY <2>1, <2>4 DEF MoneyInv
<1> QED BY <1>2, <1>3 DEF Crash

(***************************************************************************)
(* Every call is on the books for at least what the provider invoices for  *)
(* it, whichever way it ended, when it was reconciled and whether or not   *)
(* its caller survived: for every price list, usage and number of callers. *)
(***************************************************************************)
THEOREM LedgerIsConservative ==
    ASSUME CallsFitReservations
    PROVE  Spec => []Conservative
<1>1. Init => MoneyInv
  BY DEF Init, MoneyInv, Conservative, InFlight, ChargeCovers, At, Idle
<1>2. LedgerTyped /\ AdmittedIsNew /\ MoneyInv /\ [Next]_vars => MoneyInv'
  <2> SUFFICES ASSUME LedgerTyped, AdmittedIsNew, MoneyInv, [Next]_vars
               PROVE  MoneyInv'
    OBVIOUS
  <2>1. ASSUME NEW c \in Callers, CallStep(c) PROVE MoneyInv'
    <3>1. CASE Precheck(c) \/ RefuseCall(c)
      BY <3>1, MoneyUntouched, LeavesTransaction DEF Precheck, RefuseCall, LedgerTyped
    <3>i. CASE Step(c, Idle) /\ UNCHANGED <<closed, bill>>
      BY <3>i, MoneyUntouched, LeavesTransaction DEF LedgerTyped
    <3>g. ASSUME run[c].pc \in {"ready", "locked"}, NEW pc \in {"locked", "admitted"},
                 Goto(c, pc), UNCHANGED <<closed, bill>>
          PROVE  MoneyInv'
      <4>1. Step(c, [run[c] EXCEPT !.pc = pc]) /\ [run[c] EXCEPT !.pc = pc].pc = pc
        BY <3>g, GotoPlace
      <4> QED BY <3>g, <4>1, MoneyUntouched DEF LedgerTyped
    <3>2. CASE Begin(c)
      <4>1. run[c].pc = "ready" /\ UNCHANGED <<closed, bill>>
            /\ (Goto(c, "locked") \/ Step(c, Idle))
        BY <3>2 DEF Begin, At
      <4> QED BY <3>i, <3>g, <4>1
    <3>3. CASE Admit(c)
      <4>1. run[c].pc = "locked" /\ UNCHANGED <<closed, bill>>
            /\ (Goto(c, "admitted") \/ Failover(c) \/ Step(c, Idle))
        BY <3>3 DEF Admit, At
      <4>2. CASE Failover(c)
        <5>1. PICK x : Step(c, x) /\ x.pc \in {"call", "idle"}
          BY <4>2, LeavesTransaction
        <5> QED BY <4>1, <5>1, MoneyUntouched DEF LedgerTyped
      <4> QED BY <3>i, <3>g, <4>1, <4>2
    <3> QED BY <2>1, <3>1, <3>2, <3>3, CommitMoney, OutcomeMoney, CloseMoney DEF CallStep
  <2>2. ASSUME NEW c \in Callers, NEW k \in Keys, StartRun(c, k) PROVE MoneyInv'
    BY <2>2, MoneyUntouched DEF StartRun, LedgerTyped
  <2>3. CASE UNCHANGED <<run, closed, bill>>
    BY <2>3 DEF MoneyInv, Conservative, InFlight, ChargeCovers, At, RowOf, Model
  <2>4. CASE NextDay \/ ToggleKillSwitch \/ UNCHANGED vars
    BY <2>3, <2>4 DEF NextDay, ToggleKillSwitch, vars
  <2> QED BY <2>1, <2>2, <2>4, CrashMoney, ReconcileMoney DEF Next
<1>3. MoneyInv => Conservative
  BY DEF MoneyInv
<1> QED
  BY <1>1, <1>2, <1>3, LedgerTypedInductive, LockInductive, RequestsInductive, PTL
     DEF Spec

-----------------------------------------------------------------------------
(***************************************************************************)
(* The ledger implements the account of BudgetCap.  Months and days are    *)
(* treated at once: per assigns a period to every day, and the rows of a   *)
(* period are those whose day it has.                                      *)
(***************************************************************************)
RowsOf(per, p) == {r \in rows : per[r.day] = p}

HeldBy(per, p) == Reserved(RowsOf(per, p))

ChargedBy(per, p) == Charged(RowsOf(per, p))

\* The rows of a period are finitely many, and their totals are amounts.
LEMMA TotalsAreAmounts ==
    ASSUME LedgerTyped, NEW S \in SUBSET rows
    PROVE  /\ IsFiniteSet(S)
           /\ \A r \in S : Worst[r] \in Nat /\ Worst[r] = WorstCase(r.model)
           /\ Reserved(S) = Sum(Worst, S \ DOMAIN closed)
           /\ Charged(S) = Sum(closed, S \cap DOMAIN closed)
           /\ Reserved(S) \in Nat /\ Charged(S) \in Nat
<1>1. IsFiniteSet(S) /\ IsFiniteSet(S \ DOMAIN closed) /\ IsFiniteSet(S \cap DOMAIN closed)
  BY FS_Subset DEF LedgerTyped, RowsAreFinite
<1>2. \A r \in S : Worst[r] \in Nat /\ Worst[r] = WorstCase(r.model)
  BY ChargeNat DEF LedgerTyped, TypeOK, Worst, Row
<1>3. \A r \in S \cap DOMAIN closed : closed[r] \in Nat
  BY DEF LedgerTyped, TypeOK
<1>4. Reserved(S) = Sum(Worst, S \ DOMAIN closed) /\ Charged(S) = Sum(closed, S \cap DOMAIN closed)
  BY DEF Reserved, Charged, Sum
<1>5. Reserved(S) \in Nat /\ Charged(S) \in Nat
  BY <1>1, <1>2, <1>3, <1>4, SumNat
<1> QED BY <1>1, <1>2, <1>4, <1>5

\* Inserting a row holds its worst case in its own period.
LEMMA InsertHolds ==
    ASSUME LedgerTyped, NEW r \in Row, r \notin rows, rows' = rows \union {r},
           UNCHANGED closed, NEW per, NEW p
    PROVE  /\ ChargedBy(per, p)' = ChargedBy(per, p)
           /\ HeldBy(per, p)' = IF per[r.day] = p THEN HeldBy(per, p) + WorstCase(r.model)
                                ELSE HeldBy(per, p)
<1> DEFINE S == RowsOf(per, p)
<1>1. S \in SUBSET rows /\ r \notin S /\ r \notin DOMAIN closed
  BY DEF RowsOf, LedgerTyped, TypeOK
<1>2. CASE per[r.day] # p
  <2>1. RowsOf(per, p)' = S
    BY <1>2 DEF RowsOf
  <2> QED BY <1>2, <2>1 DEF ChargedBy, HeldBy, Charged, Reserved
<1>3. CASE per[r.day] = p
  <2>1. RowsOf(per, p)' = S \union {r}
    BY <1>3 DEF RowsOf
  <2>2. /\ (S \union {r}) \cap DOMAIN closed = S \cap DOMAIN closed
        /\ (S \union {r}) \ DOMAIN closed = (S \ DOMAIN closed) \union {r}
    BY <1>1
  <2>3. ChargedBy(per, p)' = ChargedBy(per, p)
    BY <2>1, <2>2 DEF ChargedBy, Charged
  <2>4. HeldBy(per, p)' = Sum(Worst, (S \ DOMAIN closed) \union {r})
    BY <2>1, <2>2 DEF HeldBy, Reserved, Sum
  <2> DEFINE T == S \ DOMAIN closed
  <2>5. /\ IsFiniteSet(T) /\ r \notin T
        /\ \A q \in T \union {r} : Worst[q] \in Nat
        /\ Worst[r] = WorstCase(r.model)
    <3>1. IsFiniteSet(T) /\ \A q \in T : Worst[q] \in Nat
      BY <1>1, TotalsAreAmounts, FS_Subset
    <3>2. Worst[r] \in Nat /\ Worst[r] = WorstCase(r.model)
      BY ChargeNat DEF Worst, Row
    <3> QED BY <1>1, <3>1, <3>2
  <2> HIDE DEF T
  <2>6. Sum(Worst, T \union {r}) = Worst[r] + Sum(Worst, T)
    BY <2>5, SumAdd
  <2>7. HeldBy(per, p) = Sum(Worst, T) /\ HeldBy(per, p) \in Nat
    BY <1>1, TotalsAreAmounts DEF HeldBy, T
  <2>8. HeldBy(per, p)' = HeldBy(per, p) + WorstCase(r.model)
    <3>1. WorstCase(r.model) \in Nat
      BY ChargeNat DEF Row
    <3>2. HeldBy(per, p)' = Sum(Worst, T \union {r})
      BY <2>4 DEF T
    <3> QED BY <2>5, <2>6, <2>7, <3>1, <3>2
  <2> QED BY <1>3, <2>3, <2>8
<1> QED BY <1>2, <1>3

\* Closing open rows for at most their worst case releases at least as much
\* as it charges, in every period.
LEMMA CloseReleases ==
    ASSUME LedgerTyped, UNCHANGED rows, NEW charge,
           DOMAIN charge \subseteq rows \ DOMAIN closed,
           \A r \in DOMAIN charge : charge[r] \in Nat /\ charge[r] <= WorstCase(r.model),
           CloseRows(charge), NEW per, NEW p
    PROVE  /\ ChargedBy(per, p) \in Nat /\ HeldBy(per, p) \in Nat
           /\ ChargedBy(per, p)' \in Nat /\ HeldBy(per, p)' \in Nat
           /\ ChargedBy(per, p) <= ChargedBy(per, p)'
           /\ ChargedBy(per, p)' - ChargedBy(per, p) <= HeldBy(per, p) - HeldBy(per, p)'
<1> DEFINE S == RowsOf(per, p)
           D == S \cap DOMAIN closed
           C == S \cap DOMAIN charge
           R == S \ (DOMAIN closed \union DOMAIN charge)
<1>1. /\ S \in SUBSET rows /\ RowsOf(per, p)' = S
      /\ D \in SUBSET S /\ C \in SUBSET S /\ R \in SUBSET S
      /\ D \cap C = {} /\ R \cap C = {}
  BY DEF RowsOf
<1>2. /\ DOMAIN closed' = DOMAIN closed \union DOMAIN charge
      /\ \A r \in D : closed'[r] = closed[r]
      /\ \A r \in C : closed'[r] = charge[r]
  BY DEF CloseRows
<1>3. /\ S \cap DOMAIN closed' = D \union C
      /\ S \ DOMAIN closed' = R
      /\ S \ DOMAIN closed = R \union C
  BY <1>1, <1>2
<1>4. /\ IsFiniteSet(D) /\ IsFiniteSet(C) /\ IsFiniteSet(R)
      /\ \A r \in S : Worst[r] \in Nat /\ Worst[r] = WorstCase(r.model)
      /\ \A r \in D : closed[r] \in Nat
  BY <1>1, TotalsAreAmounts, FS_Subset DEF LedgerTyped, TypeOK
<1>5. /\ ChargedBy(per, p) = Sum(closed, D)
      /\ ChargedBy(per, p)' = Sum(closed', D \union C)
      /\ HeldBy(per, p) = Sum(Worst, R \union C)
      /\ HeldBy(per, p)' = Sum(Worst, R)
  BY <1>1, <1>3 DEF ChargedBy, HeldBy, Charged, Reserved, Sum
<1> HIDE DEF S, D, C, R
<1>6. Sum(closed', D \union C) = Sum(closed', D) + Sum(closed', C)
  BY <1>1, <1>2, <1>4, SumUnion DEF C
<1>7. Sum(Worst, R \union C) = Sum(Worst, R) + Sum(Worst, C)
  BY <1>1, <1>4, SumUnion
<1>8. Sum(closed', D) = Sum(closed, D)
  BY <1>2, <1>4, SumEqual
<1>9. Sum(closed', C) <= Sum(Worst, C)
  BY <1>1, <1>2, <1>4, SumMonotone DEF C
<1>10. /\ Sum(closed, D) \in Nat /\ Sum(closed', C) \in Nat
       /\ Sum(Worst, R) \in Nat /\ Sum(Worst, C) \in Nat
  BY <1>1, <1>2, <1>4, SumNat DEF C
<1> QED BY <1>5, <1>6, <1>7, <1>8, <1>9, <1>10

MonthPer == [d \in Days |-> MonthOf(d)]
DayPer == [d \in Days |-> d]

\* What a transaction found of the budget is still true when it commits: rows
\* are inserted, and reservations closed, under the lock only.
AdmittedFits == \A c \in Callers : At(c, "admitted") => BudgetLeft(RowOf(c))

\* The totals depend on the rows and on what was charged, nothing else.
LEMMA BudgetUntouched ==
    ASSUME AdmittedFits, UNCHANGED <<rows, closed>>,
           \A c \in Callers : At(c, "admitted")' =>
               RowOf(c)' = RowOf(c) /\ (At(c, "admitted") \/ BudgetLeft(RowOf(c)))
    PROVE  AdmittedFits'
<1> SUFFICES ASSUME NEW c \in Callers, At(c, "admitted")'
             PROVE  BudgetLeft(RowOf(c))'
  BY DEF AdmittedFits
<1>1. RowOf(c)' = RowOf(c) /\ BudgetLeft(RowOf(c))
  BY DEF AdmittedFits
<1> QED BY <1>1 DEF BudgetLeft, Spend, Charged, Reserved, InMonth, OnDay

\* A step that closes reservations finds nobody in a transaction.
LEMMA AdmittedFitsStep ==
    ASSUME LedgerTyped, LockIsHeld, AdmittedFits, [Next]_vars
    PROVE  AdmittedFits'
<1> USE DEF LedgerTyped
<1>1. ASSUME NEW c \in Callers, NEW x, Step(c, x), UNCHANGED <<rows, closed>>,
             x.pc = "admitted" => RowOf(c)' = RowOf(c) /\ BudgetLeft(RowOf(c))
      PROVE  AdmittedFits'
  <2>1. run'[c] = x /\ \A d \in Callers \ {c} : run'[d] = run[d] /\ RowOf(d)' = RowOf(d)
    BY <1>1, OthersKeepTheirRun DEF Step, RunsAreTyped
  <2>2. ASSUME NEW d \in Callers, At(d, "admitted")'
        PROVE  RowOf(d)' = RowOf(d) /\ (At(d, "admitted") \/ BudgetLeft(RowOf(d)))
    BY <1>1, <2>1, <2>2 DEF At
  <2> QED BY <1>1, <2>2, BudgetUntouched
<1>2. ASSUME NEW c \in Callers, NEW x, Step(c, x), x.pc # "admitted",
             \A d \in Callers \ {c} : ~InTransaction(d)
      PROVE  AdmittedFits'
  <2>1. run'[c] = x /\ \A d \in Callers \ {c} : run'[d] = run[d]
    BY <1>2, OthersKeepTheirRun DEF Step, RunsAreTyped
  <2> QED BY <1>2, <2>1 DEF AdmittedFits, At, InTransaction
<1>3. ASSUME NEW c \in Callers, NEW k \in Keys, StartRun(c, k) PROVE AdmittedFits'
  BY <1>1, <1>3 DEF StartRun
<1>4. ASSUME NEW c \in Callers, CallStep(c) PROVE AdmittedFits'
  <2>1. CASE Precheck(c) \/ RefuseCall(c)
    BY <1>1, <2>1, LeavesTransaction DEF Precheck, RefuseCall
  <2>2. CASE Begin(c)
    BY <1>1, <2>2, GotoPlace, LeavesTransaction DEF Begin, At
  <2>3. CASE Admit(c)
    <3>1. run[c].pc = "locked" /\ UNCHANGED <<rows, closed>>
      BY <2>3 DEF Admit, At
    <3>2. CASE BudgetLeft(RowOf(c)) /\ Goto(c, "admitted")
      BY <1>1, <3>1, <3>2, GotoPlace
    <3>3. CASE Failover(c) \/ Step(c, Idle)
      BY <1>1, <3>1, <3>3, LeavesTransaction
    <3> QED BY <2>3, <3>2, <3>3 DEF Admit
  <2>4. CASE Commit(c)
    <3>1. run[c].pc = "admitted" /\ Goto(c, "sent")
      BY <2>4 DEF Commit, At
    <3>2. \A d \in Callers \ {c} : ~InTransaction(d)
      BY <3>1 DEF LockIsHeld, InTransaction
    <3>3. PICK x : Step(c, x) /\ x.pc = "sent"
      BY <3>1, GotoPlace
    <3> QED BY <1>2, <3>2, <3>3
  <2>5. CASE Answered(c) \/ Declined(c) \/ Uncertain(c)
    BY <1>1, <2>5, LeavesTransaction DEF Answered, Declined, Uncertain
  <2>6. CASE Close(c)
    <3>1. \A d \in Callers \ {c} : ~InTransaction(d)
      BY <2>6, LedgerAssumption DEF Close, LockIsHeld
    <3>2. PICK x : Step(c, x) /\ x.pc \in {"idle", "call"}
      BY <2>6, LeavesTransaction DEF Close
    <3> QED BY <1>2, <3>1, <3>2
  <2> QED BY <1>4, <2>1, <2>2, <2>3, <2>4, <2>5, <2>6 DEF CallStep
<1>5. ASSUME NEW c \in Callers, Crash(c) PROVE AdmittedFits'
  BY <1>1, <1>5, LeavesTransaction DEF Crash
<1>6. ASSUME NEW age \in Days, Reconcile(age) PROVE AdmittedFits'
  <2>1. writer = Nobody /\ UNCHANGED run
    BY <1>6 DEF Reconcile
  <2>2. \A d \in Callers : ~InTransaction(d)
    BY <2>1, LedgerAssumption DEF LockIsHeld
  <2> QED BY <2>1, <2>2 DEF AdmittedFits, At, InTransaction
<1>7. CASE UNCHANGED <<run, rows, closed>>
  BY <1>7, BudgetUntouched DEF At, RowOf, Model
<1>8. CASE NextDay \/ ToggleKillSwitch \/ UNCHANGED vars
  BY <1>7, <1>8 DEF NextDay, ToggleKillSwitch, vars
<1> QED BY <1>3, <1>4, <1>5, <1>6, <1>8 DEF Next

\* A call is never charged more than its worst case.
LEMMA ChargeFits ==
    ASSUME CallsFitReservations, NEW m \in Models,
           NEW u \in Usages \union {NoUsage, ZeroUsage}
    PROVE  ChargeFor(m, u) <= WorstCase(m)
<1>1. WorstCase(m) \in Nat
  BY ChargeNat
<1>2. QuoteTokens(m, ZeroUsage) <= WorstCase(m)
  <2>1. /\ Price[m].input \in Nat /\ Price[m].cached \in Nat /\ Price[m].output \in Nat
        /\ Price[m].maxInput \in Nat /\ Price[m].maxOutput \in Nat
    BY LedgerAssumption
  <2> DEFINE i == CeilRate(0, Price[m].input)
             o == CeilRate(0, Price[m].output)
             z == CeilRate(0, Price[m].cached)
             I == CeilRate(Price[m].maxInput, Price[m].input)
             O == CeilRate(Price[m].maxOutput, Price[m].output)
  <2>2. i <= I /\ o <= O
    BY <2>1, CeilRateMonotone
  <2>3. i \in Nat /\ o \in Nat /\ z \in Nat /\ I \in Nat /\ O \in Nat
    BY <2>1, CeilRateNat
  <2>4. WorstCase(m) = I + z + O /\ QuoteTokens(m, ZeroUsage) = i + z + o
    <3>1. Price[m].maxInput - 0 = Price[m].maxInput /\ 0 - 0 = 0
      BY <2>1
    <3> QED BY <3>1 DEF WorstCase, QuoteTokens, ZeroUsage
  <2> HIDE DEF i, o, z, I, O
  <2> QED BY <2>2, <2>3, <2>4
<1> QED BY <1>1, <1>2 DEF ChargeFor, ValidUsage, CallsFitReservations

(***************************************************************************)
(* Every step of the ledger, seen in the accounts of one kind of period:   *)
(* it leaves them alone, holds an amount that the limits cover, or closes  *)
(* holds for no more than they held.                                       *)
(***************************************************************************)
Untouched(per) ==
    \A p : ChargedBy(per, p)' = ChargedBy(per, p) /\ HeldBy(per, p)' = HeldBy(per, p)

Holds(per, q, h) ==
    /\ \A p : ChargedBy(per, p)' = ChargedBy(per, p)
    /\ \A p : HeldBy(per, p)' = IF p = q THEN HeldBy(per, p) + h ELSE HeldBy(per, p)

Releases(per) ==
    \A p : /\ ChargedBy(per, p)' \in Nat /\ HeldBy(per, p)' \in Nat
           /\ ChargedBy(per, p) <= ChargedBy(per, p)'
           /\ ChargedBy(per, p)' - ChargedBy(per, p) <= HeldBy(per, p) - HeldBy(per, p)'

LEMMA AccountStep ==
    ASSUME CallsFitReservations, LedgerTyped, AdmittedIsNew, AdmittedFits, [Next]_vars
    PROVE  \/ \A per : Untouched(per)
           \/ \E r \in Row : BudgetLeft(r) /\ \A per : Holds(per, per[r.day], WorstCase(r.model))
           \/ \A per : Releases(per)
<1> USE DEF LedgerTyped
<1>1. CASE UNCHANGED <<rows, closed>>
  BY <1>1 DEF Untouched, ChargedBy, HeldBy, Charged, Reserved, RowsOf
<1>2. ASSUME NEW c \in Callers, Commit(c)
      PROVE  \E r \in Row : BudgetLeft(r) /\ \A per : Holds(per, per[r.day], WorstCase(r.model))
  <2> DEFINE r == RowOf(c)
  <2>1. At(c, "admitted") /\ rows' = rows \union {r} /\ UNCHANGED closed
    BY <1>2 DEF Commit
  <2>2. BudgetLeft(r) /\ r \notin rows /\ r \in Row
    BY <2>1, RunFields DEF AdmittedFits, AdmittedIsNew, Duplicate, At
  <2> HIDE DEF r
  <2>3. ASSUME NEW per PROVE Holds(per, per[r.day], WorstCase(r.model))
    BY <2>1, <2>2, InsertHolds DEF Holds
  <2> QED BY <2>2, <2>3
<1>3. ASSUME NEW c \in Callers, Close(c)
      PROVE  UNCHANGED <<rows, closed>> \/ \A per : Releases(per)
  <2> DEFINE charge == [r \in {RowOf(c)} |-> ChargeFor(r.model, run[c].usage)]
  <2>1. At(c, "closing") /\ UNCHANGED rows
    BY <1>3 DEF Close
  <2>2. CASE UNCHANGED closed
    BY <2>1, <2>2
  <2>3. CASE RowOf(c) \notin DOMAIN closed /\ CloseRows(charge)
    <3>1. /\ RowOf(c) \in rows /\ RowOf(c).model \in Models
          /\ run[c].usage \in Usages \union {NoUsage, ZeroUsage}
      BY <2>1, RunFields DEF OwnRow, At, RowOf
    <3>2. /\ DOMAIN charge \subseteq rows \ DOMAIN closed
          /\ \A r \in DOMAIN charge : charge[r] \in Nat /\ charge[r] <= WorstCase(r.model)
      BY <2>3, <3>1, ChargeNat, ChargeFits
    <3> HIDE DEF charge
    <3> QED BY <2>1, <2>3, <3>2, CloseReleases DEF Releases
  <2> QED BY <1>3, <2>2, <2>3 DEF Close
<1>4. ASSUME NEW age \in Days, Reconcile(age)
      PROVE  \A per : Releases(per)
  <2> DEFINE stale == {r \in rows \ DOMAIN closed : r.day <= today - age}
             charge == [r \in stale |-> WorstCase(r.model)]
  <2>1. CloseRows(charge) /\ UNCHANGED rows
    BY <1>4 DEF Reconcile
  <2>2. /\ DOMAIN charge \subseteq rows \ DOMAIN closed
        /\ \A r \in DOMAIN charge : charge[r] \in Nat /\ charge[r] <= WorstCase(r.model)
    BY ChargeNat DEF TypeOK, Row
  <2> HIDE DEF charge
  <2> QED BY <2>1, <2>2, CloseReleases DEF Releases
<1>5. ASSUME NEW c \in Callers,
             \/ Precheck(c) \/ RefuseCall(c) \/ Begin(c) \/ Admit(c)
             \/ Answered(c) \/ Declined(c) \/ Uncertain(c) \/ Crash(c)
             \/ \E k \in Keys : StartRun(c, k)
      PROVE  UNCHANGED <<rows, closed>>
  BY <1>5 DEF Precheck, RefuseCall, Begin, Admit, Answered, Declined, Uncertain,
              Crash, StartRun
<1>6. NextDay \/ ToggleKillSwitch \/ UNCHANGED vars => UNCHANGED <<rows, closed>>
  BY DEF NextDay, ToggleKillSwitch, vars
<1> QED BY <1>1, <1>2, <1>3, <1>4, <1>5, <1>6 DEF Next, CallStep

\* A month's rows, and a day's, are the rows of a period.
LEMMA PeriodRows ==
    ASSUME LedgerTyped
    PROVE  /\ \A m : /\ InMonth(m) = RowsOf(MonthPer, m)
                     /\ Reserved(InMonth(m)) = HeldBy(MonthPer, m)
                     /\ Charged(InMonth(m)) = ChargedBy(MonthPer, m)
           /\ \A d : /\ OnDay(d) = RowsOf(DayPer, d)
                     /\ Reserved(OnDay(d)) = HeldBy(DayPer, d)
                     /\ Charged(OnDay(d)) = ChargedBy(DayPer, d)
           /\ \A per, p : HeldBy(per, p) \in Nat /\ ChargedBy(per, p) \in Nat
<1>1. \A r \in rows : r.day \in Days
  BY DEF LedgerTyped, TypeOK, Row
<1>2. \A m : InMonth(m) = RowsOf(MonthPer, m)
  BY <1>1 DEF InMonth, RowsOf, MonthPer
<1>3. \A d : OnDay(d) = RowsOf(DayPer, d)
  BY <1>1 DEF OnDay, RowsOf, DayPer
<1>4. \A per, p : RowsOf(per, p) \in SUBSET rows
  BY DEF RowsOf
<1>5. \A per, p : HeldBy(per, p) \in Nat /\ ChargedBy(per, p) \in Nat
  BY <1>4, TotalsAreAmounts DEF HeldBy, ChargedBy
<1> QED BY <1>2, <1>3, <1>5 DEF HeldBy, ChargedBy

\* The same after a step.
LEMMA PeriodRowsNext ==
    ASSUME LedgerTyped'
    PROVE  /\ \A m : /\ Reserved(InMonth(m))' = HeldBy(MonthPer, m)'
                     /\ Charged(InMonth(m))' = ChargedBy(MonthPer, m)'
           /\ \A d : /\ Reserved(OnDay(d))' = HeldBy(DayPer, d)'
                     /\ Charged(OnDay(d))' = ChargedBy(DayPer, d)'
<1>1. \A r \in rows' : r.day \in Days
  BY DEF LedgerTyped, TypeOK, Row
<1>2. \A m : InMonth(m)' = RowsOf(MonthPer, m)'
  BY <1>1 DEF InMonth, RowsOf, MonthPer
<1>3. \A d : OnDay(d)' = RowsOf(DayPer, d)'
  BY <1>1 DEF OnDay, RowsOf, DayPer
<1> QED BY <1>2, <1>3 DEF HeldBy, ChargedBy, Reserved, Charged

\* One account per period, within its limit, and its admissible steps.
Account(per, Periods, Limit) ==
    \A p \in Periods : ChargedBy(per, p) + HeldBy(per, p) <= Limit

AccountNext(per, Periods, Limit) ==
    \/ \A p \in Periods :
         ChargedBy(per, p)' = ChargedBy(per, p) /\ HeldBy(per, p)' = HeldBy(per, p)
    \/ \E q \in Periods, h \in 0 .. Limit :
         /\ ChargedBy(per, q) + HeldBy(per, q) + h <= Limit
         /\ \A p \in Periods :
              /\ ChargedBy(per, p)' = ChargedBy(per, p)
              /\ HeldBy(per, p)' = IF p = q THEN HeldBy(per, p) + h ELSE HeldBy(per, p)
    \/ \A p \in Periods :
         /\ ChargedBy(per, p)' \in 0 .. Limit /\ HeldBy(per, p)' \in 0 .. Limit
         /\ ChargedBy(per, p) <= ChargedBy(per, p)'
         /\ ChargedBy(per, p)' - ChargedBy(per, p) <= HeldBy(per, p) - HeldBy(per, p)'

\* Holding within the limit and closing below the hold keep an account within it.
LEMMA AccountStaysWithin ==
    ASSUME LedgerTyped, LedgerTyped', NEW per, NEW Periods, NEW Limit \in Nat,
           Account(per, Periods, Limit),
           \/ Untouched(per)
           \/ \E q \in Periods, h \in Nat :
                ChargedBy(per, q) + HeldBy(per, q) + h <= Limit /\ Holds(per, q, h)
           \/ Releases(per)
    PROVE  AccountNext(per, Periods, Limit) /\ Account(per, Periods, Limit)'
<1>1. \A p : HeldBy(per, p) \in Nat /\ ChargedBy(per, p) \in Nat
  BY PeriodRows
<1>2. CASE Untouched(per)
  BY <1>1, <1>2 DEF Untouched, Account, AccountNext
<1>3. ASSUME NEW q \in Periods, NEW h \in Nat,
             ChargedBy(per, q) + HeldBy(per, q) + h <= Limit, Holds(per, q, h)
      PROVE  AccountNext(per, Periods, Limit) /\ Account(per, Periods, Limit)'
  <2>1. h \in 0 .. Limit
    BY <1>1, <1>3
  <2>2. \A p \in Periods : ChargedBy(per, p)' + HeldBy(per, p)' <= Limit
    BY <1>1, <1>3 DEF Holds, Account
  <2> QED BY <1>3, <2>1, <2>2 DEF Holds, Account, AccountNext
<1>4. CASE Releases(per)
  <2>1. ASSUME NEW p \in Periods
        PROVE  /\ ChargedBy(per, p)' + HeldBy(per, p)' <= Limit
               /\ ChargedBy(per, p)' \in 0 .. Limit /\ HeldBy(per, p)' \in 0 .. Limit
    BY <1>1, <1>4 DEF Releases, Account
  <2> QED BY <1>4, <2>1 DEF Releases, Account, AccountNext
<1> QED BY <1>2, <1>3, <1>4

WithinCaps == Account(MonthPer, Months, HardLimit) /\ Account(DayPer, Days, DailyLimit)

\* The two accounts start empty and take admissible steps only.
LEMMA CapsInductive ==
    ASSUME CallsFitReservations
    PROVE  /\ Init => WithinCaps
           /\ /\ LedgerTyped /\ LedgerTyped' /\ AdmittedIsNew /\ AdmittedFits
              /\ WithinCaps /\ [Next]_vars
              => /\ WithinCaps'
                 /\ AccountNext(MonthPer, Months, HardLimit)
                 /\ AccountNext(DayPer, Days, DailyLimit)
<1>1. HardLimit \in Nat /\ DailyLimit \in Nat
  BY LedgerAssumption
<1>2. ASSUME Init PROVE \A per, p : ChargedBy(per, p) = 0 /\ HeldBy(per, p) = 0
  <2> TAKE per, p
  <2>1. RowsOf(per, p) = {}
    BY <1>2 DEF Init, RowsOf
  <2>2. RowsOf(per, p) \cap DOMAIN closed = {} /\ RowsOf(per, p) \ DOMAIN closed = {}
    BY <2>1
  <2>3. Sum(closed, {}) = 0 /\ Sum(Worst, {}) = 0
    BY SumUnfold, FS_EmptySet
  <2> QED BY <2>2, <2>3 DEF ChargedBy, HeldBy, Charged, Reserved, Sum
<1>3. Init => WithinCaps
  BY <1>1, <1>2 DEF WithinCaps, Account
<1>4. ASSUME LedgerTyped, LedgerTyped', AdmittedIsNew, AdmittedFits, WithinCaps, [Next]_vars
      PROVE  /\ WithinCaps'
             /\ AccountNext(MonthPer, Months, HardLimit)
             /\ AccountNext(DayPer, Days, DailyLimit)
  <2>1. CASE (\A per : Untouched(per)) \/ (\A per : Releases(per))
    BY <1>1, <1>4, <2>1, AccountStaysWithin DEF WithinCaps
  <2>2. ASSUME NEW r \in Row, BudgetLeft(r),
               \A per : Holds(per, per[r.day], WorstCase(r.model))
        PROVE  /\ WithinCaps'
               /\ AccountNext(MonthPer, Months, HardLimit)
               /\ AccountNext(DayPer, Days, DailyLimit)
    <3>1. /\ MonthPer[r.day] = MonthOf(r.day) /\ MonthPer[r.day] \in Months
          /\ DayPer[r.day] = r.day /\ r.day \in Days
          /\ WorstCase(r.model) \in Nat
      BY ChargeNat DEF Row, MonthPer, DayPer, Months
    <3>2. /\ ChargedBy(MonthPer, MonthPer[r.day]) + HeldBy(MonthPer, MonthPer[r.day])
               + WorstCase(r.model) <= HardLimit
          /\ ChargedBy(DayPer, DayPer[r.day]) + HeldBy(DayPer, DayPer[r.day])
               + WorstCase(r.model) <= DailyLimit
      BY <1>4, <2>2, <3>1, PeriodRows DEF BudgetLeft, Spend
    <3>3. /\ Holds(MonthPer, MonthPer[r.day], WorstCase(r.model))
          /\ Holds(DayPer, DayPer[r.day], WorstCase(r.model))
      BY <2>2
    <3>4. AccountNext(MonthPer, Months, HardLimit) /\ Account(MonthPer, Months, HardLimit)'
      BY <1>1, <1>4, <3>1, <3>2, <3>3, AccountStaysWithin DEF WithinCaps
    <3>5. AccountNext(DayPer, Days, DailyLimit) /\ Account(DayPer, Days, DailyLimit)'
      BY <1>1, <1>4, <3>1, <3>2, <3>3, AccountStaysWithin DEF WithinCaps
    <3> QED BY <3>4, <3>5 DEF WithinCaps
  <2> QED BY <1>4, <2>1, <2>2, AccountStep
<1> QED BY <1>3, <1>4

\* The mapped account of the ledger takes a step of BudgetCap.
LEMMA MonthlyStep ==
    ASSUME LedgerTyped, LedgerTyped', AccountNext(MonthPer, Months, HardLimit)
    PROVE  [Monthly!CapNext]_(Monthly!capVars)
<1> DEFINE held == [m \in Months |-> Reserved(InMonth(m))]
           charged == [m \in Months |-> Charged(InMonth(m))]
<1>1. /\ held = [m \in Months |-> HeldBy(MonthPer, m)]
      /\ charged = [m \in Months |-> ChargedBy(MonthPer, m)]
  BY PeriodRows
<1>2. /\ held' = [m \in Months |-> HeldBy(MonthPer, m)']
      /\ charged' = [m \in Months |-> ChargedBy(MonthPer, m)']
  BY PeriodRowsNext
<1> HIDE DEF held, charged
<1>3. \/ held' = held /\ charged' = charged
      \/ \E q \in Months, h \in 0 .. HardLimit :
           /\ charged[q] + held[q] + h <= HardLimit
           /\ held' = [held EXCEPT ![q] = @ + h]
           /\ charged' = charged
      \/ /\ held' \in [Months -> 0 .. HardLimit]
         /\ charged' \in [Months -> 0 .. HardLimit]
         /\ \A p \in Months : /\ charged[p] <= charged'[p]
                              /\ charged'[p] - charged[p] <= held[p] - held'[p]
  BY <1>1, <1>2 DEF AccountNext
<1> QED
  BY <1>3 DEF Monthly!CapNext, Monthly!Hold, Monthly!Close, Monthly!Effective,
              Monthly!capVars, held, charged

LEMMA DailyStep ==
    ASSUME LedgerTyped, LedgerTyped', AccountNext(DayPer, Days, DailyLimit)
    PROVE  [Daily!CapNext]_(Daily!capVars)
<1> DEFINE held == [d \in Days |-> Reserved(OnDay(d))]
           charged == [d \in Days |-> Charged(OnDay(d))]
<1>1. /\ held = [d \in Days |-> HeldBy(DayPer, d)]
      /\ charged = [d \in Days |-> ChargedBy(DayPer, d)]
  BY PeriodRows
<1>2. /\ held' = [d \in Days |-> HeldBy(DayPer, d)']
      /\ charged' = [d \in Days |-> ChargedBy(DayPer, d)']
  BY PeriodRowsNext
<1> HIDE DEF held, charged
<1>3. \/ held' = held /\ charged' = charged
      \/ \E q \in Days, h \in 0 .. DailyLimit :
           /\ charged[q] + held[q] + h <= DailyLimit
           /\ held' = [held EXCEPT ![q] = @ + h]
           /\ charged' = charged
      \/ /\ held' \in [Days -> 0 .. DailyLimit]
         /\ charged' \in [Days -> 0 .. DailyLimit]
         /\ \A p \in Days : /\ charged[p] <= charged'[p]
                            /\ charged'[p] - charged[p] <= held[p] - held'[p]
  BY <1>1, <1>2 DEF AccountNext
<1> QED
  BY <1>3 DEF Daily!CapNext, Daily!Hold, Daily!Close, Daily!Effective,
              Daily!capVars, held, charged

\* Both accounts start empty.
LEMMA CapInitially ==
    ASSUME Init
    PROVE  Monthly!CapInit /\ Daily!CapInit
<1>1. \A m : InMonth(m) = {} /\ OnDay(m) = {}
  BY DEF Init, InMonth, OnDay
<1>2. Sum(closed, {}) = 0 /\ Sum(Worst, {}) = 0
  BY SumUnfold, FS_EmptySet
<1>3. Charged({}) = 0 /\ Reserved({}) = 0
  <2>1. {} \cap DOMAIN closed = {} /\ {} \ DOMAIN closed = {}
    OBVIOUS
  <2> QED BY <1>2, <2>1 DEF Charged, Reserved, Sum
<1>4. \A m : /\ Charged(InMonth(m)) = 0 /\ Reserved(InMonth(m)) = 0
             /\ Charged(OnDay(m)) = 0 /\ Reserved(OnDay(m)) = 0
  BY <1>1, <1>3
<1> QED BY <1>4 DEF Monthly!CapInit, Daily!CapInit

\* The inductive invariant of the ledger's totals.
CapInv == LedgerTyped /\ LockIsHeld /\ LastOne /\ AdmittedIsNew /\ OneCallPerRequest
          /\ AdmittedFits /\ WithinCaps

LEMMA CapInvInductive ==
    ASSUME CallsFitReservations
    PROVE  /\ Init => CapInv
           /\ CapInv /\ [Next]_vars => CapInv' /\ [Monthly!CapNext]_(Monthly!capVars)
                                               /\ [Daily!CapNext]_(Daily!capVars)
<1>1. Init => AdmittedFits
  BY DEF Init, AdmittedFits, At, Idle
<1>2. Init => CapInv
  BY <1>1, LedgerTypedInductive, LockInductive, RequestsInductive, CapsInductive
     DEF CapInv
<1>3. ASSUME CapInv, [Next]_vars
      PROVE  /\ CapInv' /\ [Monthly!CapNext]_(Monthly!capVars)
             /\ [Daily!CapNext]_(Daily!capVars)
  <2>1. LedgerTyped' /\ LockIsHeld' /\ LastOne' /\ AdmittedIsNew' /\ OneCallPerRequest'
    BY <1>3, LedgerTypedInductive, LockInductive, RequestsInductive DEF CapInv
  <2>2. AdmittedFits'
    BY <1>3, AdmittedFitsStep DEF CapInv
  <2>3. /\ WithinCaps'
        /\ AccountNext(MonthPer, Months, HardLimit)
        /\ AccountNext(DayPer, Days, DailyLimit)
    BY <1>3, <2>1, CapsInductive DEF CapInv
  <2>4. [Monthly!CapNext]_(Monthly!capVars) /\ [Daily!CapNext]_(Daily!capVars)
    BY <1>3, <2>1, <2>3, MonthlyStep, DailyStep DEF CapInv
  <2> QED BY <2>1, <2>2, <2>3, <2>4 DEF CapInv
<1> QED BY <1>2, <1>3

(***************************************************************************)
(* The ledger implements the monthly account: for every number of callers, *)
(* price list and limit, no interleaving of calls, crashes and             *)
(* reconciliations holds money the hard limit does not cover, or charges   *)
(* more than was held, as long as no call costs more than its reservation. *)
(***************************************************************************)
THEOREM MonthlyRefinement ==
    ASSUME CallsFitReservations
    PROVE  Spec => MonthlyCap
<1>1. Init => Monthly!CapInit
  BY CapInitially
<1> QED BY <1>1, CapInvInductive, PTL DEF Spec, MonthlyCap, Monthly!CapSpec

(***************************************************************************)
(* The same for the UTC day, although a reservation may be committed and   *)
(* closed on a later day than the one it counts for.                       *)
(***************************************************************************)
THEOREM DailyRefinement ==
    ASSUME CallsFitReservations
    PROVE  Spec => DailyCap
<1>1. Init => Daily!CapInit
  BY CapInitially
<1> QED BY <1>1, CapInvInductive, PTL DEF Spec, DailyCap, Daily!CapSpec

(***************************************************************************)
(* What BudgetCap promises, of the ledger: effective spend never exceeds   *)
(* the hard limit in a month, nor the daily limit on a day.                *)
(***************************************************************************)
THEOREM SpendIsCapped ==
    ASSUME CallsFitReservations
    PROVE  Spec => [](Monthly!WithinLimit /\ Daily!WithinLimit)
<1>1. CapInv => Monthly!WithinLimit /\ Daily!WithinLimit
  <2> SUFFICES ASSUME CapInv PROVE Monthly!WithinLimit /\ Daily!WithinLimit
    OBVIOUS
  <2>1. /\ \A m \in Months : Charged(InMonth(m)) + Reserved(InMonth(m)) <= HardLimit
        /\ \A d \in Days : Charged(OnDay(d)) + Reserved(OnDay(d)) <= DailyLimit
    BY PeriodRows DEF CapInv, WithinCaps, Account
  <2> QED BY <2>1 DEF Monthly!WithinLimit, Daily!WithinLimit, Monthly!Effective,
                      Daily!Effective
<1> QED BY <1>1, CapInvInductive, PTL DEF Spec

-----------------------------------------------------------------------------
(***************************************************************************)
(* The invoices.  A row counts for what it was charged, or for its worst   *)
(* case while it is open; that covers its invoice.                         *)
(***************************************************************************)
LEMMA InvoicesBelowSpend ==
    ASSUME LedgerTyped, Conservative, NEW S \in SUBSET rows
    PROVE  SumFunctionOnSet(bill, S \cap DOMAIN bill) <= Charged(S) + Reserved(S)
<1> DEFINE known == [r \in S |-> IF r \in DOMAIN closed THEN closed[r] ELSE Worst[r]]
           C == S \cap DOMAIN closed
           O == S \ DOMAIN closed
           B == S \cap DOMAIN bill
<1>1. /\ IsFiniteSet(S)
      /\ \A r \in S : Worst[r] \in Nat /\ Worst[r] = WorstCase(r.model)
      /\ Reserved(S) = Sum(Worst, O) /\ Charged(S) = Sum(closed, C)
  BY TotalsAreAmounts
<1>2. /\ \A r \in C : closed[r] \in Nat
      /\ \A r \in B : bill[r] \in Nat
  BY DEF LedgerTyped, TypeOK
<1>3. /\ \A r \in S : known[r] \in Nat
      /\ \A r \in C : known[r] = closed[r]
      /\ \A r \in O : known[r] = Worst[r]
  BY <1>1, <1>2
<1>4. \A r \in B : bill[r] <= known[r]
  BY <1>1 DEF Conservative
<1>5. /\ IsFiniteSet(B) /\ IsFiniteSet(C) /\ IsFiniteSet(O)
      /\ B \in SUBSET S /\ C \in SUBSET S /\ O \in SUBSET S
      /\ C \cap O = {} /\ C \union O = S
  BY <1>1, FS_Subset
<1> HIDE DEF known, B, C, O
<1>6. Sum(bill, B) <= Sum(known, B)
  BY <1>2, <1>3, <1>4, <1>5, SumMonotone
<1>7. Sum(known, B) <= Sum(known, S)
  BY <1>1, <1>3, <1>5, SumSubset
<1>8. Sum(known, C \union O) = Sum(known, C) + Sum(known, O)
  BY <1>3, <1>5, SumUnion
<1>9. Sum(known, C) = Sum(closed, C) /\ Sum(known, O) = Sum(Worst, O)
  BY <1>3, <1>5, SumEqual
<1>10. Sum(known, S) = Sum(closed, C) + Sum(Worst, O)
  BY <1>5, <1>8, <1>9, Zenon
<1>11. /\ Sum(bill, B) \in Nat /\ Sum(known, B) \in Nat
       /\ Sum(closed, C) \in Nat /\ Sum(Worst, O) \in Nat
  BY <1>1, <1>2, <1>3, <1>5, SumNat
<1>12. Sum(bill, B) <= Charged(S) + Reserved(S)
  BY <1>1, <1>6, <1>7, <1>10, <1>11
<1> QED BY <1>12 DEF B, Sum

(***************************************************************************)
(* "hard-caps daily/monthly spend" (README), of what the provider really   *)
(* invoices: for any number of processes the invoices of a month stay      *)
(* within the hard limit and those of a day within the daily limit, as     *)
(* long as no call costs more than its reservation.                        *)
(***************************************************************************)
THEOREM InvoiceCap ==
    ASSUME CallsFitReservations
    PROVE  Spec => []InvoicesAreCapped
<1>1. CapInv /\ Conservative => InvoicesAreCapped
  <2> SUFFICES ASSUME CapInv, Conservative PROVE InvoicesAreCapped
    OBVIOUS
  <2>1. ASSUME NEW S \in SUBSET rows, NEW L \in Nat, Charged(S) + Reserved(S) <= L
        PROVE  SumFunctionOnSet(bill, S \cap DOMAIN bill) <= L
    <3>1. SumFunctionOnSet(bill, S \cap DOMAIN bill) <= Charged(S) + Reserved(S)
      BY InvoicesBelowSpend DEF CapInv
    <3>2. Charged(S) \in Nat /\ Reserved(S) \in Nat
      BY TotalsAreAmounts DEF CapInv
    <3>3. SumFunctionOnSet(bill, S \cap DOMAIN bill) \in Nat
      <4>1. /\ IsFiniteSet(S \cap DOMAIN bill)
            /\ \A r \in S \cap DOMAIN bill : bill[r] \in Nat
        BY FS_Subset DEF CapInv, LedgerTyped, TypeOK, RowsAreFinite
      <4> QED BY <4>1, SumNat DEF Sum
    <3> QED BY <2>1, <3>1, <3>2, <3>3
  <2>2. HardLimit \in Nat /\ DailyLimit \in Nat
    BY LedgerAssumption
  <2>3. /\ \A m \in Months : Charged(InMonth(m)) + Reserved(InMonth(m)) <= HardLimit
        /\ \A d \in Days : Charged(OnDay(d)) + Reserved(OnDay(d)) <= DailyLimit
    BY PeriodRows DEF CapInv, WithinCaps, Account
  <2>4. \A m : InMonth(m) \in SUBSET rows /\ OnDay(m) \in SUBSET rows
    BY DEF InMonth, OnDay
  <2>5. \A m \in Months : SumFunctionOnSet(bill, InMonth(m) \cap DOMAIN bill) <= HardLimit
    BY <2>1, <2>2, <2>3, <2>4
  <2>6. \A d \in Days : SumFunctionOnSet(bill, OnDay(d) \cap DOMAIN bill) <= DailyLimit
    BY <2>1, <2>2, <2>3, <2>4
  <2> QED BY <2>5, <2>6 DEF InvoicesAreCapped
<1> QED BY <1>1, CapInvInductive, LedgerIsConservative, PTL DEF Spec

=============================================================================
