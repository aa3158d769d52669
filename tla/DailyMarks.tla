----------------------------- MODULE DailyMarks -----------------------------
(***************************************************************************)
(* The daily loss of a portfolio in one mode: Storage.mark_equity, called  *)
(* whenever value_portfolio values it, with the deposits that              *)
(* record-deposit books in between and the days that pass.  The price may  *)
(* move, and trades may cost, at any time; every valuation is a            *)
(* transaction of its own, so that crashes add nothing here.               *)
(*                                                                         *)
(* Amounts are integers.  cash_deposits is kept as the sums the code takes *)
(* of it; a paper portfolio ignores the deposits of its live namesake.     *)
(***************************************************************************)
EXTENDS Integers

CONSTANTS Amounts,    \* sizes of a deposit
          MaxEquity,  \* bound: the most the market makes of a portfolio
          MaxDeposit, \* bound: all deposits together
          MaxDay      \* bound: last day

ASSUME MarksAssumption ==
  /\ Amounts \subseteq Nat \ {0}
  /\ MaxEquity \in Nat /\ MaxDeposit \in Nat /\ MaxDay \in Nat

VARIABLES mode,     \* paper or live
          day,      \* the date
          equity,   \* cash and positions at the current price
          funding,  \* cash_deposits: sum of all amounts
          today,    \* cash_deposits: sum of today's
          first,    \* cash_deposits: the first amount of today, if any
          marks,    \* daily_marks
          loss,     \* daily_loss_fraction of the last valuation, and when it was taken
          lastGain, \* history: what trading had gained at the last valuation
          dayGain   \* history: the same, at the last valuation before today's first

flowVars == <<funding, today, first>>
vars == <<mode, day, equity, flowVars, marks, loss, lastGain, dayGain>>

Days == 0..MaxDay
Row == [baseline : Int, latest : Nat, funding : Nat]
Fraction == [day : Days, num : Nat, den : Int]
NoRow == [baseline |-> 0, latest |-> -1, funding |-> 0]

Init ==
  /\ mode \in {"paper", "live"}
  /\ day = 0
  /\ equity \in 0..MaxEquity
  /\ funding = 0 /\ today = 0 /\ first = 0
  /\ marks = [d \in Days |-> NoRow]
  /\ loss = [day |-> 0, num |-> 0, den |-> 0]
  /\ lastGain = 0 /\ dayGain = 0

Marked(d) == marks[d] # NoRow
Previous(d) == d < day /\ Marked(d) /\ \A e \in Days : d < e /\ e < day => ~Marked(e)

Counted(amount) == IF mode = "live" THEN amount ELSE 0

Gain == equity - Counted(funding)

\* Mutants: today's deposits enlarge the fraction's base; a day that began with nothing has none.
AllFunded(baseline) == IF baseline > 0 THEN baseline + Counted(today) ELSE Counted(today)
NeverFunded(baseline) == IF baseline > 0 THEN baseline ELSE 0
\* What the loss is a fraction of: a portfolio that began the day empty has its first deposit.
Denominator(baseline) == IF baseline > 0 THEN baseline ELSE Counted(first)

Over(amount) == IF amount > 0 THEN amount ELSE 0
\* daily_loss_fraction, as numerator and denominator.
Loss(baseline) ==
  LET den == Denominator(baseline)
  IN  [day |-> day, den |-> den,
       num |-> IF den = 0 THEN 0 ELSE Over(baseline - equity + Counted(today))]

\* The row of the day and the fraction, given the baseline.
Valued(baseline) ==
  /\ marks' = [marks EXCEPT ![day] =
                 [baseline |-> baseline, latest |-> equity, funding |-> Counted(funding)]]
  /\ loss' = Loss(baseline)
  /\ lastGain' = Gain
  /\ UNCHANGED <<mode, day, equity, flowVars>>

\* A later valuation of the day keeps its baseline.
MarkAgain ==
  /\ Marked(day)
  /\ Valued(marks[day].baseline)
  /\ UNCHANGED dayGain

\* Mutant: deposits after the last valuation of a day are forgotten.
MarkNewDayUnfunded ==
  /\ ~Marked(day)
  /\ \E d \in Days : Previous(d) /\ Valued(marks[d].latest)
  /\ dayGain' = lastGain

\* The first valuation of a day starts from the last one of an earlier day and what was deposited
\* between them, today's deposits excepted.
MarkNewDay ==
  /\ ~Marked(day)
  /\ \E d \in Days :
       /\ Previous(d)
       /\ Valued(marks[d].latest + Counted(funding) - Counted(today) - marks[d].funding)
  /\ dayGain' = lastGain

\* The first of all.
MarkFirst ==
  /\ \A d \in Days : d <= day => ~Marked(d)
  /\ Valued(equity - Counted(today))
  /\ dayGain' = Gain

-----------------------------------------------------------------------------
\* record-deposit demands a mark of the live portfolio; the equity there has it at once.
Deposit(amount) ==
  /\ mode = "live" => \E d \in Days : Marked(d)
  /\ funding + amount <= MaxDeposit
  /\ funding' = funding + amount /\ today' = today + amount
  /\ first' = IF first = 0 THEN amount ELSE first
  /\ equity' = equity + Counted(amount)
  /\ UNCHANGED <<mode, day, marks, loss, lastGain, dayGain>>

\* Prices and fees; nothing comes of nothing.
Move(value) ==
  /\ equity > 0
  /\ equity' = value
  /\ UNCHANGED <<mode, day, flowVars, marks, loss, lastGain, dayGain>>

NewDay ==
  /\ day < MaxDay
  /\ day' = day + 1 /\ today' = 0 /\ first' = 0
  /\ UNCHANGED <<mode, equity, funding, marks, loss, lastGain, dayGain>>

Next ==
  \/ MarkAgain \/ MarkNewDay \/ MarkFirst
  \/ \E amount \in Amounts : Deposit(amount)
  \/ \E value \in 0..MaxEquity : Move(value)
  \/ NewDay

Spec == Init /\ [][Next]_vars

-----------------------------------------------------------------------------
\* Properties.

\* Every variable has its type.
TypeOK ==
  /\ mode \in {"paper", "live"} /\ day \in Days /\ equity \in Nat
  /\ funding \in Nat /\ today \in Nat /\ first \in Nat
  /\ marks \in [Days -> Row \union {NoRow}]
  /\ loss \in Fraction
  /\ lastGain \in Int /\ dayGain \in Int

\* The loss of the day is what trading lost since the last valuation before the day, whatever
\* was deposited in between, before midnight or after, before the day's first valuation or after.
LossIsTradingLoss ==
  Marked(day) /\ loss.day = day => loss.num = Over(dayGain - lastGain)

\* A loss is always a fraction of something: no funded portfolio escapes its limit because it
\* began the day, or its life, empty.
LossIsLimited == Marked(day) /\ loss.day = day /\ dayGain > lastGain => loss.den > 0

\* Within a day the fraction's base never changes once there is one: no deposit dilutes a loss.
BaseKept ==
  [][day' = day /\ loss.day = day /\ loss.den > 0 => loss'.den = loss.den]_vars
=============================================================================
