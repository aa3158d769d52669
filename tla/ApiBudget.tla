----------------------------- MODULE ApiBudget -----------------------------
(***************************************************************************)
(* The budget for model requests: every attempt reserves an upper bound of *)
(* its cost in api_usage, and the reservation is replaced by the cost only *)
(* when a usage report arrives.  llm.DecisionClient.decide, costs.py and   *)
(* storage.py; one process at a time, which may die anywhere and may work  *)
(* across midnight.  OpenAI may process a request whose answer was lost,   *)
(* even after the failure was recorded.                                    *)
(*                                                                         *)
(* Amounts are integers; time is the number of the day.                    *)
(***************************************************************************)
EXTENDS Integers, Sequences, Functions

CONSTANTS Reservations,  \* what reservation() may return for a prompt
          Daily,         \* llm.daily_budget_usd
          Monthly,       \* llm.monthly_budget_usd
          Attempts,      \* llm.attempts
          DaysInMonth,   \* length of a month
          MaxDay,        \* bound: last day
          MaxRequests    \* bound: rows of api_usage

ASSUME BudgetAssumption ==
  /\ Reservations \subseteq Nat \ {0}
  /\ Daily \in Nat \ {0} /\ Monthly \in Nat \ {0}
  /\ Attempts \in Nat \ {0} /\ DaysInMonth \in Nat \ {0}
  /\ MaxDay \in Nat /\ MaxRequests \in Nat

VARIABLES today,    \* the date
          rows,     \* api_usage: day, estimated_usd, status; and as history what was charged
          pc,       \* where the process is in its cycle
          amount,   \* decide: the reservation for this prompt
          attempt   \* decide: the attempt

vars == <<today, rows, pc, amount, attempt>>

Init == today = 0 /\ rows = <<>> /\ pc = "idle" /\ amount = 0 /\ attempt = 1

Month(day) == day \div DaysInMonth
Last == Len(rows)

\* Mutant: a reservation counts only once its request was answered.
SpentAnswered(days) ==
  SumFunctionOnSet([i \in DOMAIN rows |-> rows[i].usd],
                   {i \in DOMAIN rows : rows[i].day \in days /\ rows[i].status = "answered"})

\* Storage.spending: the rows of a day, and those since the start of the month.
Spent(days) ==
  SumFunctionOnSet([i \in DOMAIN rows |-> rows[i].usd], {i \in DOMAIN rows : rows[i].day \in days})
DaySpent == Spent({today})
MonthSpent == Spent({d \in 0..MaxDay : Month(d) >= Month(today)})

\* budget_available, of nothing more.
BudgetAvailable == DaySpent < Daily /\ MonthSpent < Monthly

-----------------------------------------------------------------------------
EndCycle == pc' = "idle" /\ amount' = 0 /\ attempt' = 1

\* startup finds budget left, and decide computes the reservation of the prompt.
Startup(a) ==
  /\ pc = "idle" /\ Last + Attempts <= MaxRequests
  /\ BudgetAvailable
  /\ pc' = "reserve" /\ amount' = a
  /\ UNCHANGED <<today, rows, attempt>>

Reserved == [day |-> today, usd |-> amount, status |-> "reserved", charged |-> 0]
Fits == DaySpent + amount <= Daily /\ MonthSpent + amount <= Monthly

\* Mutant: the budget is checked before the first attempt only.
ReserveRequestOnce ==
  /\ pc = "reserve"
  /\ attempt = 1 => Fits
  /\ rows' = Append(rows, Reserved)
  /\ pc' = "call"
  /\ UNCHANGED <<today, amount, attempt>>

\* reserve_request, before every attempt: a retry must fit beside what it repeats.
ReserveRequest ==
  /\ pc = "reserve"
  /\ Fits
  /\ rows' = Append(rows, Reserved)
  /\ pc' = "call"
  /\ UNCHANGED <<today, amount, attempt>>

\* API_BUDGET_EXCEEDED.
OverBudget ==
  /\ pc = "reserve"
  /\ ~Fits
  /\ EndCycle
  /\ UNCHANGED <<today, rows>>

Finish(status, usd) == rows' = [rows EXCEPT ![Last].status = status, ![Last].usd = usd]

Retry == /\ attempt < Attempts
         /\ pc' = "reserve" /\ attempt' = attempt + 1
         /\ UNCHANGED amount

\* Mutant: a failed attempt is taken for free.
RequestFailsRefunding ==
  /\ pc = "call"
  /\ Finish("unknown", 0)
  /\ Retry \/ EndCycle
  /\ UNCHANGED today

\* responses.create raises: ERROR_UNKNOWN_COST keeps the reservation.  A transport error, 429
\* or 5xx is tried again while attempts remain; anything else ends the cycle.
RequestFails ==
  /\ pc = "call"
  /\ Finish("unknown", rows[Last].usd)
  /\ Retry \/ EndCycle
  /\ UNCHANGED today

\* The answer to a request that was charged.  With usage its cost replaces the reservation;
\* a refusal or an incomplete answer ends the cycle.
Answer ==
  /\ pc = "call" /\ rows[Last].charged > 0
  /\ Finish("answered", rows[Last].charged)
  /\ EndCycle \/ (pc' = "parse" /\ UNCHANGED <<amount, attempt>>)
  /\ UNCHANGED today

\* OPENAI_USAGE_MISSING; or API_USAGE_INVALID, raised before the row is touched.
AnswerWithoutUsage ==
  /\ pc = "call" /\ rows[Last].charged > 0
  /\ UNCHANGED rows \/ Finish("answered", rows[Last].usd)
  /\ EndCycle
  /\ UNCHANGED today

\* OPENAI_DECISION_INVALID: a second finish_request changes the status alone.
InvalidDecision ==
  /\ pc = "parse"
  /\ Finish("invalid", rows[Last].usd)
  /\ EndCycle
  /\ UNCHANGED today

\* The decision is recorded; the assessments that follow ask for the budget again.
Decide ==
  /\ pc = "parse"
  /\ pc' = "assess"
  /\ UNCHANGED <<today, rows, amount, attempt>>

\* The cycle ends after its assessments; or fails or dies anywhere.
Stop ==
  /\ pc # "idle"
  /\ EndCycle
  /\ UNCHANGED <<today, rows>>

-----------------------------------------------------------------------------
\* OpenAI processes a request that reached it, now or later, for less than the reservation:
\* bytes plus framing exceed the input tokens.
Process(i, cost) ==
  /\ rows[i].status \in {"reserved", "unknown"} /\ rows[i].charged = 0
  /\ cost < rows[i].usd
  /\ rows' = [rows EXCEPT ![i].charged = cost]
  /\ UNCHANGED <<today, pc, amount, attempt>>

NewDay ==
  /\ today < MaxDay
  /\ today' = today + 1
  /\ UNCHANGED <<rows, pc, amount, attempt>>

Next ==
  \/ \E a \in Reservations : Startup(a)
  \/ ReserveRequest \/ OverBudget
  \/ RequestFails \/ Answer \/ AnswerWithoutUsage
  \/ InvalidDecision \/ Decide \/ Stop
  \/ \E i \in 1..Len(rows) : \E cost \in 1..rows[i].usd : Process(i, cost)
  \/ NewDay

Spec == Init /\ [][Next]_vars

-----------------------------------------------------------------------------
\* Properties.

Row == [day : Nat, usd : Nat, status : {"reserved", "unknown", "answered", "invalid"},
        charged : Nat]

\* Every variable has its type; no prompt is sent more often than configured.
TypeOK ==
  /\ today \in 0..MaxDay
  /\ rows \in Seq(Row)
  /\ pc \in {"idle", "reserve", "call", "parse", "assess"}
  /\ amount \in Reservations \union {0}
  /\ attempt \in 1..Attempts

\* No row books less than what OpenAI charged for its request, whether its answer arrived,
\* was lost, came without usage, or its process died.
ChargesCovered == \A i \in 1..Len(rows) : rows[i].charged <= rows[i].usd

Charged(days) ==
  SumFunctionOnSet([i \in DOMAIN rows |-> rows[i].charged], {i \in DOMAIN rows : rows[i].day \in days})

\* The requests of no day cost more than the daily budget, those of no month more than the
\* monthly one: in charges, not in bookings.
ChargesWithinBudget ==
  \A day \in 0..today :
    /\ Charged({day}) <= Daily
    /\ Charged({d \in 0..today : Month(d) = Month(day)}) <= Monthly

\* A decision that was paid for is not rejected for the budget it has used itself:
\* reserve_request may use the budget up, budget_available wants some left.
DecisionUsable == pc = "assess" => BudgetAvailable

(***************************************************************************)
(* The inductive invariant.  Bookings stay within the budgets because they *)
(* fit when they are made, only shrink, and are dated no later than today; *)
(* a usage report leaves some of the budget because a request costs less   *)
(* than its reservation.                                                   *)
(***************************************************************************)

\* A prompt under way has a reservation; a request that was sent is the last row.
CallInv ==
  /\ pc # "idle" => amount \in Reservations
  /\ pc \in {"call", "parse"} => rows # <<>>
  /\ pc = "call" => rows[Last].status = "reserved"

\* Rows are dated in order, and a reservation exceeds what its request was charged.
RowsInv ==
  \A i \in DOMAIN rows :
    /\ rows[i].day <= rows[Last].day /\ rows[i].day <= today
    /\ rows[i].status \in {"reserved", "unknown"} => rows[i].charged < rows[i].usd

\* The bookings of no day and of no month exceed its budget.
DaysOfMonth(day) == {d \in 0..MaxDay : Month(d) = Month(day)}

BookedWithinBudget ==
  \A day \in 0..MaxDay : Spent({day}) <= Daily /\ Spent(DaysOfMonth(day)) <= Monthly

\* From a usage report to the end of the cycle some budget is left.
SomeLeft == pc \in {"parse", "assess"} => BudgetAvailable

IInv ==
  /\ TypeOK /\ CallInv /\ RowsInv
  /\ ChargesCovered /\ BookedWithinBudget /\ SomeLeft
=============================================================================
