---------------------------- MODULE BudgetLedger ----------------------------
(***************************************************************************)
(* The append-only budget ledger of src/iou_ai/budget.py, driven by the    *)
(* provider calls of src/iou_ai/pipeline.py.                               *)
(*                                                                         *)
(* Several processes may run the pipeline on one ledger (the timer's       *)
(* service, an operator's manual run): each is a member of Callers.  A run *)
(* makes the calls of its stages in order - planner, reviewer, auditor -   *)
(* and a call reserves its worst case, asks the provider, and closes the   *)
(* reservation.  SQLite's write lock makes a transaction exclusive; the    *)
(* kill switch is a file, which the lock does not cover.                   *)
(***************************************************************************)
EXTENDS Integers, Sequences, FiniteSets, FiniteSetsExt

CONSTANTS
    Callers,        \* processes running the pipeline
    Models,         \* (provider, model) pairs
    Stages,         \* Stages[i]: the models that stage i tries, in order
    Keys,           \* what a run is about: telemetry and contract
    Price,          \* [Models -> pricing policy and token maxima]
    Unit,           \* TOKENS_PER_MILLION
    Quota,          \* [Models -> monthly_call_limit]
    HardLimit,      \* hard_limit_microdollars, per month
    DailyLimit,     \* daily_limit_microdollars
    DaysPerMonth,
    MaxDay,         \* bound: the last day of the calendar
    Usages,         \* token counts a provider may really use and report
    NoUsage,        \* usage that is missing or not consistent
    Nobody,         \* the write lock is free
    MayCrash,       \* whether a caller can die in the middle of a run
    OperatorActs    \* whether the operator stops calls and reconciles

Tokens == [input : Nat, output : Nat, cached : Nat]

ASSUME LedgerAssumption ==
    /\ Stages \in Seq(Seq(Models)) /\ Stages # <<>>
    /\ \A i \in DOMAIN Stages : Stages[i] # <<>>
    /\ Price \in [Models -> [input : Nat, output : Nat, cached : Nat,
                             maxInput : Nat, maxOutput : Nat, expires : Nat]]
    /\ Unit \in Nat \ {0}
    /\ Quota \in [Models -> Nat]
    /\ HardLimit \in Nat \ {0}
    /\ DailyLimit \in 1 .. HardLimit
    /\ DaysPerMonth \in Nat \ {0}
    /\ MaxDay \in Nat
    /\ Usages \subseteq Tokens /\ \A u \in Usages : u.cached <= u.input
    /\ NoUsage \notin Usages
    /\ Nobody \notin Callers
    /\ MayCrash \in BOOLEAN
    /\ OperatorActs \in BOOLEAN

Days == 0 .. MaxDay

MonthOf(day) == day \div DaysPerMonth

Months == {MonthOf(d) : d \in Days}

-----------------------------------------------------------------------------

\* Each part of a quote is rounded up on its own.
CeilRate(tokens, rate) == (tokens * rate + Unit - 1) \div Unit

QuoteTokens(m, u) ==
    CeilRate(u.input - u.cached, Price[m].input)
        + CeilRate(u.cached, Price[m].cached)
        + CeilRate(u.output, Price[m].output)

\* What reserve_for_tokens asks for: the configured maxima, nothing cached.
WorstCase(m) ==
    QuoteTokens(m, [input |-> Price[m].maxInput, output |-> Price[m].maxOutput,
                    cached |-> 0])

\* What a clean decline is settled with.
ZeroUsage == [input |-> 0, output |-> 0, cached |-> 0]

ValidUsage(u) == u # NoUsage

-----------------------------------------------------------------------------

(***************************************************************************)
(* A reserve row.  The key of a request is a digest of the role and of     *)
(* everything sent, so it is represented by the run's key and the stage.   *)
(* by, the caller that was handed the reservation_id, tells apart rows     *)
(* that agree in everything else.                                          *)
(***************************************************************************)
Row == [day : Days, model : Models, key : Keys, stage : DOMAIN Stages, by : Callers]

VARIABLES
    today,          \* the UTC date
    rows,           \* reserve events
    closed,         \* [rows with a settle or abandon event -> amount charged]
    writer,         \* the caller inside BEGIN IMMEDIATE, or Nobody
    killed,         \* AI_CALLS_DISABLED exists
    run,            \* [Callers -> where its run is]
    bill,           \* history: [rows sent to a provider -> what it will invoice]
    afterKill       \* history: reservations committed since killed became true

vars == <<today, rows, closed, writer, killed, run, bill, afterKill>>

Idle == [pc |-> "idle"]

\* Where a run is: idle, between two calls, or in the steps of one call.
Run ==
    {Idle}
    \union [pc : {"call"}, key : Keys, stage : DOMAIN Stages, try : Nat]
    \union [pc : {"ready", "locked", "admitted", "sent"}, key : Keys,
            stage : DOMAIN Stages, try : Nat, day : Days]
    \union [pc : {"closing"}, key : Keys, stage : DOMAIN Stages, try : Nat,
            day : Days, usage : Usages \union {NoUsage, ZeroUsage},
            then : {"next", "failover", "stop"}]

TypeOK ==
    /\ today \in Days
    /\ rows \subseteq Row
    /\ DOMAIN closed \subseteq rows
    /\ \A r \in DOMAIN closed : closed[r] \in Nat
    /\ writer \in Callers \union {Nobody}
    /\ killed \in BOOLEAN
    /\ \A c \in Callers : run[c] \in Run
    /\ DOMAIN bill \subseteq rows
    /\ \A r \in DOMAIN bill : bill[r] \in Nat
    /\ afterKill \in Nat

Init ==
    /\ today = 0
    /\ rows = {}
    /\ closed = <<>>
    /\ writer = Nobody
    /\ killed = FALSE
    /\ run = [c \in Callers |-> Idle]
    /\ bill = <<>>
    /\ afterKill = 0

-----------------------------------------------------------------------------

Model(c) == Stages[run[c].stage][run[c].try]

RowOf(c) == [day |-> run[c].day, model |-> Model(c), key |-> run[c].key,
             stage |-> run[c].stage, by |-> c]

Charged(S) == SumFunctionOnSet(closed, S \cap DOMAIN closed)

\* What each row was reserved for.
Worst == [r \in Row |-> WorstCase(r.model)]

Reserved(S) == SumFunctionOnSet(Worst, S \ DOMAIN closed)

\* A faulty variant: what has been charged is forgotten.
SpendOpen(S) == Reserved(S)

Spend(S) == Charged(S) + Reserved(S)

InMonth(m) == {r \in rows : MonthOf(r.day) = m}

\* Rows count for the day of their reservation, whenever they are closed.
OnDay(d) == {r \in rows : r.day = d}

Step(c, r) == run' = [run EXCEPT ![c] = r]

At(c, pc) == run[c].pc = pc

Goto(c, pc) == Step(c, [run[c] EXCEPT !.pc = pc])

\* The next model of the same stage, or the end of the run if there is none.
Failover(c) ==
    Step(c, IF run[c].try < Len(Stages[run[c].stage])
            THEN [pc |-> "call", key |-> run[c].key, stage |-> run[c].stage,
                  try |-> run[c].try + 1]
            ELSE Idle)

-----------------------------------------------------------------------------

StartRun(c, k) ==
    /\ At(c, "idle")
    /\ Step(c, [pc |-> "call", key |-> k, stage |-> 1, try |-> 1])
    /\ UNCHANGED <<today, rows, closed, writer, killed, bill, afterKill>>

(***************************************************************************)
(* reserve up to the transaction: the date that the reservation will carry *)
(* is read here, prices must be in force on it, and the kill switch is     *)
(* looked at for the first time.                                           *)
(***************************************************************************)
Precheck(c) ==
    /\ At(c, "call")
    /\ today < Price[Model(c)].expires
    /\ ~killed
    /\ Step(c, [pc |-> "ready", key |-> run[c].key, stage |-> run[c].stage,
                try |-> run[c].try, day |-> today])
    /\ UNCHANGED <<today, rows, closed, writer, killed, bill, afterKill>>

\* PricingNotEffective, KillSwitchActive, or an input over the byte cap.
RefuseCall(c) ==
    /\ At(c, "call")
    /\ Step(c, Idle)
    /\ UNCHANGED <<today, rows, closed, writer, killed, bill, afterKill>>

\* Faulty variants: the kill switch is not looked at again; BEGIN without
\* IMMEDIATE lets two transactions read the same totals.
BeginUnchecked(c) ==
    /\ At(c, "ready")
    /\ writer = Nobody
    /\ writer' = c
    /\ Goto(c, "locked")
    /\ UNCHANGED <<today, rows, closed, killed, bill, afterKill>>
BeginDeferred(c) ==
    /\ At(c, "ready")
    /\ ~killed
    /\ writer' = c
    /\ Goto(c, "locked")
    /\ UNCHANGED <<today, rows, closed, killed, bill, afterKill>>

\* BEGIN IMMEDIATE, and the second look at the kill switch under the lock.
Begin(c) ==
    /\ At(c, "ready")
    /\ writer = Nobody
    /\ \/ /\ ~killed
          /\ writer' = c
          /\ Goto(c, "locked")
       \/ /\ killed
          /\ Step(c, Idle)
          /\ UNCHANGED writer
    /\ UNCHANGED <<today, rows, closed, killed, bill, afterKill>>

\* one_reservation_per_request: the month, the model and the request key.
Duplicate(r) ==
    \E s \in rows : /\ MonthOf(s.day) = MonthOf(r.day)
                    /\ s.model = r.model /\ s.key = r.key /\ s.stage = r.stage

QuotaLeft(r) ==
    Cardinality({s \in InMonth(MonthOf(r.day)) : s.model = r.model}) < Quota[r.model]

\* Faulty variants: open reservations do not count; there is no daily limit.
BudgetLeftCharged(r) ==
    /\ Charged(InMonth(MonthOf(r.day))) + WorstCase(r.model) <= HardLimit
    /\ Charged(OnDay(r.day)) + WorstCase(r.model) <= DailyLimit
BudgetLeftMonthly(r) ==
    Spend(InMonth(MonthOf(r.day))) + WorstCase(r.model) <= HardLimit

BudgetLeft(r) ==
    /\ Spend(InMonth(MonthOf(r.day))) + WorstCase(r.model) <= HardLimit
    /\ Spend(OnDay(r.day)) + WorstCase(r.model) <= DailyLimit

(***************************************************************************)
(* The reads of the transaction, in the order of the code.  A refusal rolls *)
(* back; an exhausted quota advances to the stage's next model (reviewer   *)
(* and auditor have none), anything else ends the run.                     *)
(***************************************************************************)
Admit(c) ==
    LET r == RowOf(c)
    IN  /\ At(c, "locked")
        /\ \/ /\ ~Duplicate(r) /\ QuotaLeft(r) /\ BudgetLeft(r)
              /\ Goto(c, "admitted")
              /\ UNCHANGED writer
           \/ /\ ~Duplicate(r) /\ ~QuotaLeft(r)
              /\ Failover(c)
              /\ writer' = Nobody
           \/ /\ Duplicate(r) \/ (QuotaLeft(r) /\ ~BudgetLeft(r))
              /\ Step(c, Idle)
              /\ writer' = Nobody
        /\ UNCHANGED <<today, rows, closed, killed, bill, afterKill>>

\* A faulty variant: the transaction is never committed.
CommitLost(c) ==
    /\ At(c, "admitted")
    /\ writer' = Nobody
    /\ Goto(c, "sent")
    /\ UNCHANGED <<today, rows, closed, killed, bill, afterKill>>

\* INSERT and COMMIT; the request leaves for the provider right after.
Commit(c) ==
    /\ At(c, "admitted")
    /\ rows' = rows \union {RowOf(c)}
    /\ writer' = Nobody
    /\ afterKill' = IF killed THEN afterKill + 1 ELSE afterKill
    /\ Goto(c, "sent")
    /\ UNCHANGED <<today, closed, killed, bill>>

-----------------------------------------------------------------------------

\* The provider will invoice this call at cost b.
Invoice(r, b) ==
    bill' = [s \in DOMAIN bill \union {r} |-> IF s = r THEN b ELSE bill[s]]

Closing(c, u, next) ==
    Step(c, [pc |-> "closing", key |-> run[c].key, stage |-> run[c].stage,
             try |-> run[c].try, day |-> run[c].day, usage |-> u, then |-> next])

\* generate returned a result, with usage or without.
Answered(c) ==
    /\ At(c, "sent")
    /\ \E u \in Usages :
         /\ Invoice(RowOf(c), QuoteTokens(Model(c), u))
         /\ Closing(c, u, "next") \/ Closing(c, NoUsage, "next")
    /\ UNCHANGED <<today, rows, closed, writer, killed, afterKill>>

\* A refusal or an HTTP error that is not retryable: settled with zero usage.
Declined(c) ==
    /\ At(c, "sent")
    /\ Closing(c, ZeroUsage, "failover")
    /\ UNCHANGED <<today, rows, closed, writer, killed, bill, afterKill>>

\* A faulty variant: the reservation is not abandoned.
UncertainLeftOpen(c) ==
    /\ At(c, "sent")
    /\ Failover(c)
    /\ UNCHANGED <<today, rows, closed, writer, killed, bill, afterKill>>

(***************************************************************************)
(* A timeout, a lost connection, a retryable HTTP error, a malformed       *)
(* answer: the provider may have done all the work.  Anything that is not  *)
(* a ProviderError ends the run once the reservation is abandoned.         *)
(***************************************************************************)
Uncertain(c) ==
    /\ At(c, "sent")
    /\ \/ UNCHANGED bill
       \/ \E u \in Usages : Invoice(RowOf(c), QuoteTokens(Model(c), u))
    /\ \E next \in {"failover", "stop"} : Closing(c, NoUsage, next)
    /\ UNCHANGED <<today, rows, closed, writer, killed, afterKill>>

\* A faulty variant: a call without usage is free.
ChargeForUsage(m, u) == IF ValidUsage(u) THEN QuoteTokens(m, u) ELSE 0

\* What _close charges: the quote of valid usage, otherwise the reservation.
ChargeFor(m, u) == IF ValidUsage(u) THEN QuoteTokens(m, u) ELSE WorstCase(m)

\* The rows in the domain of charge are closed with these amounts.
CloseRows(charge) ==
    closed' = [r \in DOMAIN closed \union DOMAIN charge |->
                 IF r \in DOMAIN charge THEN charge[r] ELSE closed[r]]

(***************************************************************************)
(* settle or abandon, one transaction.  A reservation that was reconciled  *)
(* meanwhile raises ReservationAlreadyClosed, which ends the run.  After an *)
(* answer the run goes on with the next stage, unless a local check        *)
(* rejects the output, the planner abstains, or this was the last stage.   *)
(***************************************************************************)
Close(c) ==
    /\ At(c, "closing")
    /\ writer = Nobody
    /\ IF RowOf(c) \in DOMAIN closed
       THEN Step(c, Idle) /\ UNCHANGED closed
       ELSE /\ CloseRows([r \in {RowOf(c)} |-> ChargeFor(r.model, run[c].usage)])
            /\ \/ run[c].then = "failover" /\ Failover(c)
               \/ run[c].then # "failover" /\ Step(c, Idle)
               \/ /\ run[c].then = "next"
                  /\ run[c].stage < Len(Stages)
                  /\ Step(c, [pc |-> "call", key |-> run[c].key,
                              stage |-> run[c].stage + 1, try |-> 1])
    /\ UNCHANGED <<today, rows, writer, killed, bill, afterKill>>

\* reconcile_abandoned: charge every open row that is at least so many days old.
Reconcile(age) ==
    LET stale == {r \in rows \ DOMAIN closed : r.day <= today - age}
    IN  /\ OperatorActs
        /\ writer = Nobody
        /\ stale # {}
        /\ CloseRows([r \in stale |-> WorstCase(r.model)])
        /\ UNCHANGED <<today, rows, writer, killed, run, bill, afterKill>>

-----------------------------------------------------------------------------

\* A caller dies, or SQLite fails its transaction; the lock is released.
Crash(c) ==
    /\ MayCrash
    /\ ~At(c, "idle")
    /\ writer' = IF writer = c THEN Nobody ELSE writer
    /\ \/ UNCHANGED bill
       \/ /\ At(c, "sent")
          /\ \E u \in Usages : Invoice(RowOf(c), QuoteTokens(Model(c), u))
    /\ Step(c, Idle)
    /\ UNCHANGED <<today, rows, closed, killed, afterKill>>

NextDay ==
    /\ today < MaxDay
    /\ today' = today + 1
    /\ UNCHANGED <<rows, closed, writer, killed, run, bill, afterKill>>

\* The operator creates or removes AI_CALLS_DISABLED.
ToggleKillSwitch ==
    /\ OperatorActs
    /\ killed' = ~killed
    /\ afterKill' = 0
    /\ UNCHANGED <<today, rows, closed, writer, run, bill>>

CallStep(c) ==
    \/ Precheck(c) \/ RefuseCall(c) \/ Begin(c) \/ Admit(c) \/ Commit(c)
    \/ Answered(c) \/ Declined(c) \/ Uncertain(c) \/ Close(c)

Next ==
    \/ \E c \in Callers :
         \/ CallStep(c)
         \/ Crash(c)
         \/ \E k \in Keys : StartRun(c, k)
    \/ NextDay
    \/ ToggleKillSwitch
    \/ \E age \in Days : Reconcile(age)

Spec == Init /\ [][Next]_vars

(***************************************************************************)
(* A caller that is in a call takes its next step: generate returns or     *)
(* raises within request_timeout_seconds, and the write lock is only held  *)
(* for the length of a transaction, so the busy handler of a closing       *)
(* transaction finds it free before its 30 seconds are over.  Nobody has   *)
(* to start a run, and days need not pass.                                 *)
(***************************************************************************)
FairSpec == Spec /\ \A c \in Callers : WF_vars(CallStep(c)) /\ SF_vars(Close(c))

-----------------------------------------------------------------------------

(***************************************************************************)
(* The ledger implements the account of BudgetCap, per month and per day.  *)
(***************************************************************************)
Monthly == INSTANCE BudgetCap WITH
    Periods <- Months, Limit <- HardLimit,
    held <- [m \in Months |-> Reserved(InMonth(m))],
    charged <- [m \in Months |-> Charged(InMonth(m))]

Daily == INSTANCE BudgetCap WITH
    Periods <- Days, Limit <- DailyLimit,
    held <- [d \in Days |-> Reserved(OnDay(d))],
    charged <- [d \in Days |-> Charged(OnDay(d))]

(***************************************************************************)
(* Whatever callers, crashes and reconciliations do to the ledger, seen as *)
(* a monthly account it only ever holds money that the hard limit covers   *)
(* and charges at most what it held.                                       *)
(***************************************************************************)
MonthlyCap == Monthly!CapSpec

(***************************************************************************)
(* The same for the UTC day, although a reservation may be committed, and  *)
(* closed, on a later day than the one it was dated and counted on.        *)
(***************************************************************************)
DailyCap == Daily!CapSpec

(***************************************************************************)
(* The ledger never knows of less than the provider will invoice: a call   *)
(* whose outcome is uncertain, whose usage is missing, or whose caller     *)
(* died is on the books for at least its price.                            *)
(***************************************************************************)
Conservative ==
    \A r \in DOMAIN bill :
        bill[r] <= IF r \in DOMAIN closed THEN closed[r] ELSE WorstCase(r.model)

(***************************************************************************)
(* The invoices themselves stay within the hard limit of a month and the   *)
(* daily limit (README: "hard-caps daily/monthly spend").                  *)
(***************************************************************************)
InvoicesAreCapped ==
    /\ \A m \in Months :
         SumFunctionOnSet(bill, InMonth(m) \cap DOMAIN bill) <= HardLimit
    /\ \A d \in Days :
         SumFunctionOnSet(bill, OnDay(d) \cap DOMAIN bill) <= DailyLimit

(***************************************************************************)
(* "Recheck after taking the write lock, minimizing the kill-switch race"  *)
(* (budget.py): after the operator creates AI_CALLS_DISABLED at most one   *)
(* reservation, the one already inside its transaction, is committed.      *)
(***************************************************************************)
KillSwitchAdmitsOne == killed => afterKill <= 1

(***************************************************************************)
(* The provider is asked once for a request in a month, no matter how many *)
(* processes run it, and within the model's call quota.                    *)
(***************************************************************************)
OneCallPerRequest ==
    /\ \A r, s \in rows :
         (/\ MonthOf(r.day) = MonthOf(s.day) /\ r.model = s.model
          /\ r.key = s.key /\ r.stage = s.stage) => r = s
    /\ \A m \in Months, x \in Models :
         Cardinality({r \in InMonth(m) : r.model = x}) <= Quota[x]

(***************************************************************************)
(* If no caller dies, every reservation is eventually closed: none is left *)
(* to weigh on the month's budget.                                         *)
(***************************************************************************)
EveryReservationCloses ==
    \A r \in Row : r \in rows ~> r \in DOMAIN closed

=============================================================================
