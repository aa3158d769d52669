-------------------------- MODULE DailyMarksProofs --------------------------
(***************************************************************************)
(* Proofs about DailyMarks, for every number of days and every deposit.    *)
(*                                                                         *)
(* The inductive invariant says what the rows of daily_marks mean: the     *)
(* last one, what trading had gained when it was written, and today's      *)
(* baseline, what it had gained before the day.  Both follow from sums of  *)
(* deposits alone, so that the loss of the day is their difference.        *)
(***************************************************************************)
EXTENDS DailyMarks, TLAPS

\* The last row, its funding taken off, is the gain of the last valuation.
LastRow ==
  \A d \in Days :
    Marked(d) /\ (\A e \in Days : d < e => ~Marked(e)) =>
      lastGain = marks[d].latest - marks[d].funding

\* Today's baseline, all deposits before today taken off, is the gain before the day.
Baseline ==
  Marked(day) => dayGain = marks[day].baseline - (Counted(funding) - Counted(today))

\* No row or loss is of the future, and today has a first deposit if it has any.
Calendar ==
  /\ \A d \in Days : Marked(d) => d <= day
  /\ loss.day <= day
  /\ first = 0 => today = 0

\* The last loss, if it is today's.
LossToday ==
  loss.day = day =>
    /\ Marked(day) =>
         /\ loss.num = Over(dayGain - lastGain)
         /\ loss.den >= 0
         /\ loss.den = 0 => dayGain <= lastGain
    /\ loss.den > 0 => Marked(day) /\ loss.den = Denominator(marks[day].baseline)

IInv == TypeOK /\ LastRow /\ Baseline /\ Calendar /\ LossToday

-----------------------------------------------------------------------------
\* Counted and Over stay within the natural numbers, and Counted is additive.
LEMMA CountedType ==
  ASSUME mode \in {"paper", "live"}, NEW x \in Nat, NEW y \in Nat
  PROVE  /\ Counted(x) \in Nat /\ Counted(0) = 0
         /\ Counted(x + y) = Counted(x) + Counted(y)
BY DEF Counted

\* The loss is clamped at zero.
LEMMA OverType == ASSUME NEW x \in Int PROVE Over(x) \in Nat
BY DEF Over

\* A day without a row can be told from one with a row.
LEMMA RowIsMarked == \A r \in Row : r # NoRow /\ r.latest \in Nat
BY DEF Row, NoRow

\* The invariant holds initially.
LEMMA InitInv == Init => IInv
<1> SUFFICES ASSUME Init PROVE IInv
  OBVIOUS
<1> USE MarksAssumption DEF Init, Days
<1>1. \A d \in Days : ~Marked(d)
  BY DEF Marked
<1>2. TypeOK
  BY DEF TypeOK, Fraction
<1>3. QED
  BY <1>1, <1>2 DEF IInv, LastRow, Baseline, Calendar, LossToday

-----------------------------------------------------------------------------
\* What a valuation does, given what its baseline means.
LEMMA ValuedInv ==
  ASSUME IInv, NEW b \in Int, Valued(b), dayGain' \in Int,
         dayGain' = b - (Counted(funding) - Counted(today)),
         Marked(day) => b = marks[day].baseline
  PROVE  IInv'
<1> DEFINE r == [baseline |-> b, latest |-> equity, funding |-> Counted(funding)]
<1>1. /\ day \in Days /\ equity \in Nat /\ funding \in Nat /\ today \in Nat /\ first \in Nat
      /\ Days \subseteq Nat /\ mode \in {"paper", "live"}
      /\ marks \in [Days -> Row \union {NoRow}]
  BY MarksAssumption DEF IInv, TypeOK, Days
<1>2. /\ Counted(funding) \in Nat /\ Counted(today) \in Nat /\ Counted(first) \in Nat
      /\ Counted(0) = 0
  BY <1>1, CountedType
<1>3. r \in Row /\ r # NoRow
  BY <1>1, <1>2, RowIsMarked DEF Row
<1>4. /\ marks' = [marks EXCEPT ![day] = r]
      /\ loss' = Loss(b) /\ lastGain' = equity - Counted(funding)
      /\ UNCHANGED <<mode, day, equity, funding, today, first>>
  BY DEF Valued, Gain, flowVars
<1>5. \A x \in Nat : Counted(x)' = Counted(x)
  BY <1>4 DEF Counted
<1>6. marks'[day] = r /\ \A d \in Days : d # day => marks'[d] = marks[d]
  BY <1>1, <1>4
<1>7. Marked(day)' /\ \A d \in Days : d # day => (Marked(d)' <=> Marked(d))
  BY <1>3, <1>4, <1>6 DEF Marked
<1>8. /\ Loss(b).day = day /\ Loss(b).den = Denominator(b) /\ Denominator(b) \in Nat
      /\ Loss(b).num = IF Denominator(b) = 0 THEN 0 ELSE Over(b - equity + Counted(today))
  BY <1>1, <1>2 DEF Loss, Denominator
<1>9. b - equity + Counted(today) = dayGain' - lastGain'
  BY <1>1, <1>2, <1>4
<1>10. Denominator(b) = 0 => dayGain' <= lastGain'
  <2>1. SUFFICES ASSUME Denominator(b) = 0 PROVE b - equity + Counted(today) <= 0
    BY <1>1, <1>2, <1>4, <1>9
  <2>2. b <= 0 /\ Counted(first) = 0
    BY <1>2, <2>1 DEF Denominator
  <2>3. Counted(today) = 0
    BY <1>1, <2>2 DEF IInv, Calendar, Counted
  <2>4. QED
    BY <1>1, <2>2, <2>3
<1>11. TypeOK'
  <2>1. Loss(b) \in Fraction
    BY <1>1, <1>2, <1>8, OverType DEF Fraction, Loss
  <2>2. lastGain' \in Int
    BY <1>1, <1>2, <1>4
  <2>3. marks' \in [Days -> Row \union {NoRow}]
    BY <1>1, <1>3, <1>4
  <2>4. QED
    BY <1>1, <1>4, <2>1, <2>2, <2>3 DEF TypeOK
<1>12. LastRow'
  <2> SUFFICES ASSUME NEW d \in Days, Marked(d)', \A e \in Days : d < e => ~Marked(e)'
               PROVE  lastGain' = marks'[d].latest - marks'[d].funding
    BY DEF LastRow
  <2>1. d <= day
    BY <1>1, <1>7 DEF IInv, Calendar
  <2>2. ~(d < day)
    BY <1>1, <1>3, <1>4, <1>6 DEF Marked
  <2>3. d = day
    BY <1>1, <2>1, <2>2
  <2>4. QED
    BY <1>4, <1>6, <2>3
<1>13. Baseline'
  BY <1>1, <1>4, <1>5, <1>6 DEF Baseline
<1>14. Calendar'
  BY <1>1, <1>4, <1>7, <1>8 DEF Calendar, IInv
<1>15. LossToday'
  <2>1. loss'.num = Over(dayGain' - lastGain')
    <3>1. CASE Denominator(b) = 0
      <4>1. dayGain' - lastGain' \in Int /\ dayGain' - lastGain' <= 0
        BY <1>1, <1>2, <1>4, <1>10, <3>1
      <4>2. QED
        BY <1>4, <1>8, <3>1, <4>1 DEF Over
    <3>2. CASE Denominator(b) # 0
      BY <1>4, <1>8, <1>9, <3>2
    <3>3. QED
      BY <3>1, <3>2
  <2>2. Denominator(b)' = Denominator(b)
    BY <1>1, <1>4, <1>5 DEF Denominator
  <2>3. QED
    BY <1>4, <1>6, <1>7, <1>8, <1>10, <2>1, <2>2 DEF LossToday, Over
<1>16. QED
  BY <1>11, <1>12, <1>13, <1>14, <1>15 DEF IInv
-----------------------------------------------------------------------------
\* A later valuation of the day: its baseline keeps its meaning.
LEMMA AgainInv == ASSUME IInv, MarkAgain PROVE IInv'
<1>1. marks[day] \in Row /\ dayGain \in Int
  BY MarksAssumption, RowIsMarked DEF IInv, TypeOK, MarkAgain, Marked
<1>2. PICK b \in Int : b = marks[day].baseline
  BY <1>1 DEF Row
<1>3. Valued(b) /\ dayGain' \in Int /\ dayGain' = b - (Counted(funding) - Counted(today))
  BY <1>1, <1>2 DEF MarkAgain, IInv, Baseline
<1>4. QED
  BY <1>2, <1>3, ValuedInv

\* The first of a day: the last row, which is of an earlier day, carries the gain over.
LEMMA NewDayInv == ASSUME IInv, MarkNewDay PROVE IInv'
<1>1. PICK d \in Days :
        /\ Previous(d)
        /\ Valued(marks[d].latest + Counted(funding) - Counted(today) - marks[d].funding)
  BY DEF MarkNewDay
<1>2. /\ marks[d] \in Row /\ d < day /\ day \in Days /\ Days \subseteq Nat
      /\ funding \in Nat /\ today \in Nat /\ lastGain \in Int /\ mode \in {"paper", "live"}
  BY <1>1, MarksAssumption DEF IInv, TypeOK, Previous, Marked, Days
<1>3. /\ Counted(funding) \in Nat /\ Counted(today) \in Nat
      /\ marks[d].latest \in Nat /\ marks[d].funding \in Nat
  BY <1>2, CountedType DEF Row
<1>4. PICK b \in Int :
        b = marks[d].latest + Counted(funding) - Counted(today) - marks[d].funding
  BY <1>3
<1>5. lastGain = marks[d].latest - marks[d].funding
  <2>1. SUFFICES ASSUME NEW e \in Days, d < e PROVE ~Marked(e)
    BY <1>1 DEF Previous, IInv, LastRow
  <2>2. CASE e < day
    BY <1>1, <2>1, <2>2 DEF Previous
  <2>3. CASE e = day
    BY <2>3 DEF MarkNewDay
  <2>4. CASE e > day
    BY <1>2, <2>4 DEF IInv, Calendar
  <2>5. QED
    BY <1>2, <2>2, <2>3, <2>4
<1>6. dayGain' \in Int /\ dayGain' = b - (Counted(funding) - Counted(today))
  BY <1>2, <1>3, <1>4, <1>5 DEF MarkNewDay
<1>7. QED
  BY <1>1, <1>4, <1>6, ValuedInv DEF MarkNewDay

\* The first of all starts from what there is.
LEMMA FirstInv == ASSUME IInv, MarkFirst PROVE IInv'
<1>1. /\ day \in Days /\ Days \subseteq Nat /\ funding \in Nat /\ today \in Nat
      /\ equity \in Nat /\ mode \in {"paper", "live"}
  BY MarksAssumption DEF IInv, TypeOK, Days
<1>2. Counted(funding) \in Nat /\ Counted(today) \in Nat
  BY <1>1, CountedType
<1>3. PICK b \in Int : b = equity - Counted(today)
  BY <1>1, <1>2
<1>4. dayGain' \in Int /\ dayGain' = b - (Counted(funding) - Counted(today))
  BY <1>1, <1>2, <1>3 DEF MarkFirst, Gain
<1>5. ~Marked(day)
  BY <1>1 DEF MarkFirst
<1>6. QED
  BY <1>3, <1>4, <1>5, ValuedInv DEF MarkFirst

\* A deposit moves the sums of all and of today's deposits alike.
LEMMA DepositInv == ASSUME IInv, NEW amount \in Amounts, Deposit(amount) PROVE IInv'
<1>1. /\ amount \in Nat \ {0} /\ funding \in Nat /\ today \in Nat /\ first \in Nat /\ equity \in Nat
      /\ mode \in {"paper", "live"} /\ day \in Days /\ Days \subseteq Nat
  BY MarksAssumption DEF IInv, TypeOK, Days
<1>2. /\ funding' = funding + amount /\ today' = today + amount
      /\ first' = IF first = 0 THEN amount ELSE first
      /\ equity' = equity + Counted(amount)
      /\ UNCHANGED <<mode, day, marks, loss, lastGain, dayGain>>
  BY DEF Deposit
<1>3. \A x \in Nat : Counted(x)' = Counted(x)
  BY <1>2 DEF Counted
<1>4. /\ Counted(funding + amount) = Counted(funding) + Counted(amount)
      /\ Counted(today + amount) = Counted(today) + Counted(amount)
      /\ Counted(funding) \in Nat /\ Counted(today) \in Nat /\ Counted(amount) \in Nat
  BY <1>1, CountedType
<1>5. TypeOK'
  BY <1>1, <1>2, <1>4 DEF IInv, TypeOK
<1>6. LastRow'
  BY <1>2 DEF IInv, LastRow, Marked
<1>7. Baseline'
  <2>1. SUFFICES ASSUME Marked(day)
                 PROVE dayGain = marks[day].baseline
                                   - (Counted(funding + amount) - Counted(today + amount))
    <3>1. Counted(funding)' = Counted(funding + amount) /\ Counted(today)' = Counted(today + amount)
      BY <1>2 DEF Counted
    <3>2. QED
      BY <1>2, <3>1 DEF Baseline, Marked
  <2>2. marks[day] \in Row
    BY <1>1, <2>1 DEF IInv, TypeOK, Marked
  <2>3. QED
    BY <1>4, <2>1, <2>2 DEF IInv, Baseline, Row
<1>8. Calendar'
  BY <1>1, <1>2 DEF IInv, Calendar, Marked
<1>9. LossToday'
  <2>1. SUFFICES ASSUME loss.day = day, loss.den > 0, Marked(day),
                        loss.den = Denominator(marks[day].baseline)
                 PROVE  loss.den = Denominator(marks[day].baseline)'
    BY <1>2 DEF IInv, LossToday, Marked, Over
  <2>2. CASE marks[day].baseline > 0
    BY <1>2, <2>1, <2>2 DEF Denominator
  <2>3. CASE ~(marks[day].baseline > 0)
    <3>1. first # 0
      BY <1>1, <2>1, <2>3 DEF Denominator, Counted
    <3>2. QED
      BY <1>1, <1>2, <2>1, <2>3, <3>1 DEF Denominator, Counted
  <2>4. QED
    BY <2>2, <2>3
<1>10. QED
  BY <1>5, <1>6, <1>7, <1>8, <1>9 DEF IInv

\* Only the equity moves.
LEMMA MoveInv == ASSUME IInv, NEW value \in 0..MaxEquity, Move(value) PROVE IInv'
<1>1. value \in Nat /\ equity' = value
      /\ UNCHANGED <<mode, day, funding, today, first, marks, loss, lastGain, dayGain>>
  BY MarksAssumption DEF Move, flowVars
<1>2. TypeOK'
  BY <1>1 DEF IInv, TypeOK
<1>3. \A x \in Int : Over(x)' = Over(x) /\ Denominator(x)' = Denominator(x)
  BY <1>1 DEF Over, Denominator, Counted
<1>4. LastRow' /\ Baseline' /\ Calendar'
  BY <1>1 DEF IInv, LastRow, Baseline, Calendar, Marked, Counted
<1>5. LossToday'
  BY <1>1 DEF IInv, LossToday, Marked, Over, Denominator, Counted
<1>6. QED
  BY <1>2, <1>4, <1>5 DEF IInv

\* A new day has no row and no loss yet.
LEMMA MidnightInv == ASSUME IInv, NewDay PROVE IInv'
<1>1. /\ day \in Days /\ day < MaxDay /\ day' = day + 1 /\ Days \subseteq Nat /\ loss.day <= day
      /\ loss.day \in Days /\ today' = 0 /\ first' = 0
      /\ UNCHANGED <<mode, equity, funding, marks, loss, lastGain, dayGain>>
  BY MarksAssumption DEF IInv, TypeOK, Days, Calendar, Fraction, NewDay
<1>2. day' \in Days /\ ~Marked(day')
  BY <1>1, MarksAssumption DEF IInv, Calendar, Days
<1>3. TypeOK'
  BY <1>1, <1>2 DEF IInv, TypeOK
<1>4. LastRow'
  BY <1>1 DEF IInv, LastRow, Marked
<1>5. Baseline'
  BY <1>1, <1>2 DEF Baseline, Marked
<1>6. Calendar'
  <2>1. \A d \in Days : Marked(d)' => d <= day'
    BY <1>1 DEF IInv, Calendar, Marked
  <2>2. loss'.day <= day'
    <3>1. loss.day \in Nat /\ day \in Nat /\ loss.day <= day
      BY <1>1
    <3>2. loss'.day = loss.day /\ day' = day + 1
      BY <1>1
    <3>3. QED
      BY <3>1, <3>2
  <2>3. first' = 0 => today' = 0
    BY <1>1
  <2>4. QED
    BY <2>1, <2>2, <2>3 DEF Calendar
<1>7. LossToday'
  BY <1>1 DEF LossToday
<1>8. QED
  BY <1>3, <1>4, <1>5, <1>6, <1>7 DEF IInv

\* A step that changes nothing.
LEMMA StutterInv == ASSUME IInv, UNCHANGED vars PROVE IInv'
BY DEF IInv, vars, flowVars, TypeOK, LastRow, Baseline, Calendar, LossToday, Marked, Denominator,
       Counted, Over

\* IInv is an inductive invariant.
LEMMA Inductive == Spec => []IInv
<1>1. IInv /\ [Next]_vars => IInv'
  BY AgainInv, NewDayInv, FirstInv, DepositInv, MoveInv, MidnightInv, StutterInv DEF Next
<1>2. QED
  BY InitInv, <1>1, PTL DEF Spec

-----------------------------------------------------------------------------
\* Every variable of DailyMarks keeps its type: a loss is never negative.
THEOREM TypeCorrect == Spec => []TypeOK
BY Inductive, PTL DEF IInv

\* The daily loss is what trading lost since the last valuation before the day, for deposits of
\* every size and date.
THEOREM LossCorrect == Spec => []LossIsTradingLoss
<1>1. IInv => LossIsTradingLoss
  BY DEF IInv, LossToday, LossIsTradingLoss
<1>2. QED
  BY Inductive, <1>1, PTL

\* Whenever something was lost there is a base the loss is a fraction of.
THEOREM LossLimited == Spec => []LossIsLimited
<1>1. IInv => LossIsLimited
  BY DEF IInv, TypeOK, Fraction, LossToday, LossIsLimited
<1>2. QED
  BY Inductive, <1>1, PTL

\* No deposit changes the base of the day's loss.
THEOREM BaseIsKept == Spec => BaseKept
<1>1. IInv /\ [Next]_vars =>
        [day' = day /\ loss.day = day /\ loss.den > 0 => loss'.den = loss.den]_vars
  <2> SUFFICES ASSUME IInv, Next, loss.day = day, loss.den > 0 PROVE loss'.den = loss.den
    BY DEF vars
  <2>1. Marked(day) /\ loss.den = Denominator(marks[day].baseline)
    BY DEF IInv, LossToday
  <2>2. CASE MarkAgain
    BY <2>1, <2>2 DEF MarkAgain, Valued, Loss
  <2>3. ~MarkNewDay /\ ~MarkFirst
    BY <2>1, MarksAssumption DEF MarkNewDay, MarkFirst, IInv, TypeOK, Days
  <2>4. CASE \/ \E amount \in Amounts : Deposit(amount)
             \/ \E value \in 0..MaxEquity : Move(value)
             \/ NewDay
    BY <2>4 DEF Deposit, Move, NewDay
  <2>5. QED
    BY <2>2, <2>3, <2>4 DEF Next
<1>2. QED
  BY Inductive, <1>1, PTL DEF Spec, BaseKept
=============================================================================
