-------------------------- MODULE ApiBudgetProofs --------------------------
(***************************************************************************)
(* IInv is an inductive invariant of ApiBudget: whatever happens to an     *)
(* attempt, its row books at least what it was charged, and the bookings   *)
(* of a day and of a month stay within their budgets.                      *)
(*                                                                         *)
(* The first section says how the sums that Storage.spending computes      *)
(* change with the rows; the second what that means for the budgets; then  *)
(* there is one lemma per kind of step.                                    *)
(***************************************************************************)
EXTENDS ApiBudget, SumTheorems

-----------------------------------------------------------------------------
\* The sums, for any rows.

RowsOf(r, days) == {i \in DOMAIN r : r[i].day \in days}

Booked(r, days) == SumFunctionOnSet([i \in DOMAIN r |-> r[i].usd], RowsOf(r, days))

\* The rows of the table, one by one.
LEMMA RowTypes ==
  ASSUME NEW r \in Seq(Row)
  PROVE  /\ DOMAIN r = 1..Len(r)
         /\ \A i \in DOMAIN r : r[i] \in Row /\ r[i].usd \in Nat /\ r[i].charged \in Nat
<1>1. \A i \in DOMAIN r : r[i] \in Row
  OBVIOUS
<1> QED BY <1>1 DEF Row

\* The rows of some days are finitely many.
LEMMA FiniteRows == ASSUME NEW r \in Seq(Row), NEW days PROVE IsFiniteSet(RowsOf(r, days))
<1>1. DOMAIN r = 1..Len(r) /\ IsFiniteSet(1..Len(r))
  BY FS_Interval
<1> QED BY <1>1, FS_Subset DEF RowsOf

\* What is booked on some days is an amount.
LEMMA BookedNat == ASSUME NEW r \in Seq(Row), NEW days PROVE Booked(r, days) \in Nat
<1> DEFINE usd == [i \in DOMAIN r |-> r[i].usd]
<1>1. \A i \in RowsOf(r, days) : usd[i] \in Nat
  BY RowTypes DEF RowsOf
<1> HIDE DEF usd
<1>2. SumFunctionOnSet(usd, RowsOf(r, days)) \in Nat
  BY <1>1, FiniteRows, SumNat
<1> QED BY <1>2 DEF Booked, usd

\* Only the days that have rows count.
LEMMA BookedSameDays ==
  ASSUME NEW r \in Seq(Row), NEW days, NEW others,
         \A i \in DOMAIN r : r[i].day \in days <=> r[i].day \in others
  PROVE  Booked(r, days) = Booked(r, others)
<1>1. RowsOf(r, days) = RowsOf(r, others)
  BY DEF RowsOf
<1> QED BY <1>1 DEF Booked

\* Nothing is booked on days without rows.
LEMMA BookedNothing ==
  ASSUME NEW r \in Seq(Row), NEW days, \A i \in DOMAIN r : r[i].day \notin days
  PROVE  Booked(r, days) = 0
<1>1. RowsOf(r, days) = {}
  BY DEF RowsOf
<1> QED BY <1>1, SumEmpty DEF Booked

\* A new row adds its amount on its own day.
LEMMA BookedAppend ==
  ASSUME NEW r \in Seq(Row), NEW row \in Row, NEW days
  PROVE  Booked(Append(r, row), days) =
           Booked(r, days) + (IF row.day \in days THEN row.usd ELSE 0)
<1> DEFINE more == Append(r, row)
           last == Len(r) + 1
           f == [i \in DOMAIN r |-> r[i].usd]
           g == [i \in DOMAIN more |-> more[i].usd]
           S == RowsOf(r, days)
<1>1. /\ more \in Seq(Row) /\ DOMAIN more = 1..last /\ last \in DOMAIN more
      /\ more[last] = row /\ \A i \in DOMAIN r : i \in DOMAIN more /\ more[i] = r[i]
      /\ DOMAIN r = 1..Len(r) /\ Len(r) \in Nat
  OBVIOUS
<1> HIDE DEF more
<1>2. IsFiniteSet(S) /\ last \notin S
  <2>1. IsFiniteSet(S)
    BY FiniteRows
  <2> QED BY <1>1, <2>1 DEF RowsOf
<1>3. \A i \in S : f[i] = g[i]
  BY <1>1 DEF RowsOf
<1>4. \A i \in S \union {last} : g[i] \in Int
  <2>1. \A i \in DOMAIN more : more[i].usd \in Nat
    BY <1>1, RowTypes
  <2> QED BY <1>1, <2>1 DEF RowsOf
<1>5. g[last] = row.usd /\ row.usd \in Nat
  BY <1>1 DEF Row
<1>6. RowsOf(more, days) = IF row.day \in days THEN S \union {last} ELSE S
  BY <1>1 DEF RowsOf
<1> HIDE DEF f, g, S
<1>7. SumFunctionOnSet(f, S) = SumFunctionOnSet(g, S)
  BY <1>2, <1>3, SumSame
<1>8. CASE row.day \in days
  <2>1. SumFunctionOnSet(g, S \union {last}) = g[last] + SumFunctionOnSet(g, S)
    BY <1>2, <1>4, SumInsert
  <2>2. SumFunctionOnSet(g, S) \in Int
    BY <1>2, <1>4, SumInt
  <2>3. Booked(more, days) = SumFunctionOnSet(g, S \union {last})
    BY <1>6, <1>8 DEF Booked, g
  <2>4. Booked(r, days) = SumFunctionOnSet(f, S)
    BY DEF Booked, f, S
  <2> QED BY <1>5, <1>7, <1>8, <2>1, <2>2, <2>3, <2>4 DEF more
<1>9. CASE row.day \notin days
  <2>1. Booked(more, days) = Booked(r, days)
    BY <1>6, <1>7, <1>9 DEF Booked, f, g, S
  <2> QED BY <1>9, <2>1, BookedNat DEF more
<1> QED BY <1>8, <1>9

\* One row rebooked.
LEMMA BookedReplace ==
  ASSUME NEW r \in Seq(Row), NEW s \in Seq(Row), Len(s) = Len(r),
         NEW k \in DOMAIN r, \A i \in DOMAIN r \ {k} : s[i].usd = r[i].usd,
         \A i \in DOMAIN r : s[i].day = r[i].day, NEW days
  PROVE  Booked(s, days) =
           Booked(r, days) + (IF r[k].day \in days THEN s[k].usd - r[k].usd ELSE 0)
<1> DEFINE f == [i \in DOMAIN r |-> r[i].usd]
           g == [i \in DOMAIN s |-> s[i].usd]
           S == RowsOf(r, days)
<1>1. DOMAIN r = 1..Len(r) /\ DOMAIN s = 1..Len(r)
  OBVIOUS
<1>2. RowsOf(s, days) = S
  BY <1>1 DEF RowsOf
<1>3. IsFiniteSet(S) /\ S \subseteq DOMAIN r /\ (k \in S <=> r[k].day \in days)
  BY FiniteRows DEF RowsOf
<1>4. \A i \in DOMAIN r : f[i] \in Int /\ g[i] \in Int
  BY <1>1, RowTypes
<1>5. /\ \A i \in DOMAIN r \ {k} : f[i] = g[i]
      /\ f[k] = r[k].usd /\ g[k] = s[k].usd
  BY <1>1
<1>6. Booked(r, days) = SumFunctionOnSet(f, S) /\ Booked(s, days) = SumFunctionOnSet(g, S)
  BY <1>2 DEF Booked
<1> HIDE DEF f, g, S
<1>7. CASE k \in S
  <2>1. SumFunctionOnSet(g, S) = SumFunctionOnSet(f, S) - f[k] + g[k]
    BY <1>3, <1>4, <1>5, <1>7, SumReplace
  <2>2. SumFunctionOnSet(f, S) \in Int
    BY <1>3, <1>4, SumInt
  <2> QED BY <1>3, <1>4, <1>5, <1>6, <1>7, <2>1, <2>2
<1>8. CASE k \notin S
  <2>1. SumFunctionOnSet(g, S) = SumFunctionOnSet(f, S)
    BY <1>3, <1>5, <1>8, SumSame
  <2>2. Booked(r, days) \in Nat
    BY BookedNat
  <2> QED BY <1>3, <1>6, <1>8, <2>1, <2>2
<1> QED BY <1>7, <1>8

-----------------------------------------------------------------------------
\* The budgets, for any rows and any day.

Within(r) ==
  \A day \in 0..MaxDay : Booked(r, {day}) <= Daily /\ Booked(r, DaysOfMonth(day)) <= Monthly

Left(r, day) == Booked(r, {day}) < Daily /\ Booked(r, DaysOfMonth(day)) < Monthly

Dated(r, day) == day \in 0..MaxDay /\ \A i \in DOMAIN r : r[i].day <= day

\* Later days are of later months.
LEMMA MonthMonotone ==
  ASSUME NEW a \in Nat, NEW b \in Nat, a <= b
  PROVE  Month(a) <= Month(b) /\ Month(a) \in Nat /\ Month(b) \in Nat
  BY BudgetAssumption DEF Month

\* Storage.spending adds up the rows since the first of the month: no row has a later day.
LEMMA SinceFirstOfMonth ==
  ASSUME NEW r \in Seq(Row), NEW day, Dated(r, day)
  PROVE  Booked(r, {d \in 0..MaxDay : Month(d) >= Month(day)}) = Booked(r, DaysOfMonth(day))
<1>1. ASSUME NEW i \in DOMAIN r
      PROVE  r[i].day \in {d \in 0..MaxDay : Month(d) >= Month(day)} <=> r[i].day \in DaysOfMonth(day)
  <2>1. r[i].day \in 0..MaxDay /\ r[i].day <= day /\ day \in Nat
    BY RowTypes, BudgetAssumption DEF Dated, Row
  <2>2. Month(r[i].day) <= Month(day) /\ Month(r[i].day) \in Nat /\ Month(day) \in Nat
    BY <2>1, MonthMonotone
  <2> QED BY <2>1, <2>2 DEF DaysOfMonth
<1> QED BY <1>1, BookedSameDays

\* No row is dated in the future.
LEMMA DatedRows ==
  ASSUME TypeOK, RowsInv
  PROVE  rows \in Seq(Row) /\ Dated(rows, today)
  BY RowTypes DEF TypeOK, RowsInv, Dated

\* budget_available on the table of a day without later rows.
LEMMA BudgetAvailableLeft ==
  rows \in Seq(Row) /\ Dated(rows, today) => (BudgetAvailable <=> Left(rows, today))
  BY SinceFirstOfMonth
  DEF BudgetAvailable, DaySpent, MonthSpent, Spent, Left, Booked, RowsOf

\* The test of reserve_request is about the bookings of the day and of the month.
LEMMA FitsBooked ==
  ASSUME TypeOK, RowsInv
  PROVE  Fits <=> /\ Booked(rows, {today}) + amount <= Daily
                  /\ Booked(rows, DaysOfMonth(today)) + amount <= Monthly
  BY DatedRows, SinceFirstOfMonth
  DEF Fits, DaySpent, MonthSpent, Spent, Booked, RowsOf

\* A row that is added must fit on its day.
LEMMA AppendWithin ==
  ASSUME NEW r \in Seq(Row), Within(r), NEW row \in Row, row.day \in 0..MaxDay,
         Booked(r, {row.day}) + row.usd <= Daily,
         Booked(r, DaysOfMonth(row.day)) + row.usd <= Monthly
  PROVE  Within(Append(r, row))
<1> SUFFICES ASSUME NEW day \in 0..MaxDay
             PROVE  /\ Booked(Append(r, row), {day}) <= Daily
                    /\ Booked(Append(r, row), DaysOfMonth(day)) <= Monthly
  BY DEF Within
<1>1. /\ Booked(Append(r, row), {day}) =
            Booked(r, {day}) + (IF row.day \in {day} THEN row.usd ELSE 0)
      /\ Booked(Append(r, row), DaysOfMonth(day)) =
            Booked(r, DaysOfMonth(day)) + (IF row.day \in DaysOfMonth(day) THEN row.usd ELSE 0)
  BY BookedAppend
<1>2. row.day \in DaysOfMonth(day) => DaysOfMonth(day) = DaysOfMonth(row.day)
  BY DEF DaysOfMonth
<1>3. /\ Booked(r, {day}) \in Nat /\ Booked(r, DaysOfMonth(day)) \in Nat
      /\ Booked(r, {day}) <= Daily /\ Booked(r, DaysOfMonth(day)) <= Monthly
  BY BookedNat DEF Within
<1>4. row.usd \in Nat
  BY DEF Row
<1>5. Booked(Append(r, row), {day}) <= Daily
  <2>1. CASE row.day = day
    BY <1>1, <1>4, <2>1
  <2>2. CASE row.day # day
    BY <1>1, <1>3, <2>2
  <2> QED BY <2>1, <2>2
<1>6. Booked(Append(r, row), DaysOfMonth(day)) <= Monthly
  BY <1>1, <1>2, <1>3, <1>4
<1> QED BY <1>5, <1>6

\* A row that is rebooked for less leaves more.
LEMMA RebookLess ==
  ASSUME NEW r \in Seq(Row), NEW k \in DOMAIN r, NEW row \in Row,
         row.day = r[k].day, row.usd <= r[k].usd, NEW days
  PROVE  LET s == [r EXCEPT ![k] = row] IN
         /\ Booked(s, days) <= Booked(r, days)
         /\ row.usd < r[k].usd /\ row.day \in days => Booked(s, days) < Booked(r, days)
<1> DEFINE s == [r EXCEPT ![k] = row]
<1>1. /\ s \in Seq(Row) /\ Len(s) = Len(r) /\ s[k] = row
      /\ \A i \in DOMAIN r \ {k} : s[i] = r[i]
  BY RowTypes
<1> HIDE DEF s
<1>2. /\ \A i \in DOMAIN r \ {k} : s[i].usd = r[i].usd
      /\ \A i \in DOMAIN r : s[i].day = r[i].day
  BY <1>1
<1>3. Booked(s, days) = Booked(r, days) + (IF r[k].day \in days THEN s[k].usd - r[k].usd ELSE 0)
  BY <1>1, <1>2, BookedReplace, ZenonT(30)
<1>4. Booked(r, days) \in Nat /\ row.usd \in Nat /\ r[k].usd \in Nat
  BY BookedNat, RowTypes DEF Row
<1>5. /\ Booked(s, days) <= Booked(r, days)
      /\ row.usd < r[k].usd /\ row.day \in days => Booked(s, days) < Booked(r, days)
  BY <1>1, <1>3, <1>4
<1> QED BY <1>5 DEF s

\* Nothing is booked yet on a later day, and in a month that has only begun.
LEMMA NoRowsYet ==
  ASSUME NEW r \in Seq(Row), NEW day, Dated(r, day), NEW later \in 0..MaxDay, day < later
  PROVE  /\ Booked(r, {later}) = 0
         /\ Month(day) # Month(later) => Booked(r, DaysOfMonth(later)) = 0
<1>1. ASSUME NEW i \in DOMAIN r
      PROVE  /\ r[i].day \notin {later}
             /\ Month(day) # Month(later) => r[i].day \notin DaysOfMonth(later)
  <2>1. r[i].day \in Nat /\ r[i].day <= day /\ day \in Nat /\ later \in Nat
    BY RowTypes, BudgetAssumption DEF Dated, Row
  <2>2. Month(r[i].day) <= Month(day) /\ Month(r[i].day) \in Nat /\ Month(day) \in Nat
    BY <2>1, MonthMonotone
  <2>3. Month(day) <= Month(later) /\ Month(later) \in Nat
    BY <2>1, MonthMonotone
  <2> QED BY <2>1, <2>2, <2>3 DEF DaysOfMonth
<1> QED BY <1>1, BookedNothing

-----------------------------------------------------------------------------
\* The steps.

\* A row is rebooked for no more than its reservation and no less than its charge.
LEMMA RebookStep ==
  ASSUME IInv, NEW k \in DOMAIN rows, NEW row \in Row,
         row.day = rows[k].day, row.charged <= row.usd, row.usd <= rows[k].usd,
         row.status \in {"reserved", "unknown"} => row.charged < row.usd,
         rows' = [rows EXCEPT ![k] = row], today' = today
  PROVE  /\ rows' \in Seq(Row) /\ Len(rows') = Len(rows)
         /\ RowsInv' /\ ChargesCovered' /\ BookedWithinBudget'
<1>1. /\ rows \in Seq(Row) /\ rows' \in Seq(Row) /\ Len(rows') = Len(rows)
      /\ rows'[k] = row /\ \A i \in DOMAIN rows \ {k} : rows'[i] = rows[i]
      /\ DOMAIN rows = 1..Len(rows) /\ DOMAIN rows' = 1..Len(rows)
  BY RowTypes DEF IInv, TypeOK
<1>2. \A i \in DOMAIN rows : rows'[i].day = rows[i].day
  BY <1>1
<1>3. Last' = Last /\ (DOMAIN rows # {} => Last \in DOMAIN rows)
  BY <1>1 DEF Last
<1>4. RowsInv'
  BY <1>1, <1>2, <1>3 DEF IInv, RowsInv
<1>5. ChargesCovered'
  BY <1>1 DEF IInv, ChargesCovered
<1>6. BookedWithinBudget'
  <2>1. ASSUME NEW day \in 0..MaxDay
        PROVE  Booked(rows', {day}) <= Daily /\ Booked(rows', DaysOfMonth(day)) <= Monthly
    <3>1. Booked(rows, {day}) <= Daily /\ Booked(rows, DaysOfMonth(day)) <= Monthly
      BY DEF IInv, BookedWithinBudget, Spent, Booked, RowsOf
    <3>2. Booked(rows', {day}) <= Booked(rows, {day})
      BY <1>1, RebookLess
    <3>3. Booked(rows', DaysOfMonth(day)) <= Booked(rows, DaysOfMonth(day))
      BY <1>1, RebookLess
    <3>4. /\ Booked(rows, {day}) \in Nat /\ Booked(rows, DaysOfMonth(day)) \in Nat
          /\ Booked(rows', {day}) \in Nat /\ Booked(rows', DaysOfMonth(day)) \in Nat
      BY <1>1, BookedNat
    <3> QED BY <3>1, <3>2, <3>3, <3>4, BudgetAssumption
  <2> QED BY <2>1 DEF BookedWithinBudget, Spent, Booked, RowsOf
<1> QED BY <1>1, <1>4, <1>5, <1>6

\* What was left is left.
LEMMA RebookLeaves ==
  ASSUME IInv, NEW k \in DOMAIN rows, NEW row \in Row,
         row.day = rows[k].day, row.usd <= rows[k].usd,
         rows' = [rows EXCEPT ![k] = row], today' = today,
         rows' \in Seq(Row), Dated(rows', today'), BudgetAvailable
  PROVE  BudgetAvailable'
<1>1. rows \in Seq(Row) /\ Dated(rows, today)
  BY DatedRows DEF IInv
<1>2. Left(rows, today)
  BY <1>1, BudgetAvailableLeft
<1>3. ASSUME NEW days PROVE Booked(rows', days) <= Booked(rows, days)
  BY <1>1, RebookLess
<1>4. \A days : Booked(rows, days) \in Nat /\ Booked(rows', days) \in Nat
  BY <1>1, BookedNat
<1>5. Left(rows', today')
  <2>1. ASSUME NEW days, NEW limit \in Nat, Booked(rows, days) < limit
        PROVE  Booked(rows', days) < limit
    <3>1. Booked(rows, days) \in Nat /\ Booked(rows', days) \in Nat
      BY <1>4
    <3>2. Booked(rows', days) <= Booked(rows, days)
      BY <1>3
    <3> QED BY <2>1, <3>1, <3>2
  <2> QED BY <1>2, <2>1, BudgetAssumption DEF Left
<1>6. (rows \in Seq(Row) /\ Dated(rows, today) => (BudgetAvailable <=> Left(rows, today)))'
  BY BudgetAvailableLeft, PTL
<1> QED BY <1>5, <1>6

\* A request that cost less than its reservation leaves some of the budget, whatever the day.
LEMMA AnswerLeaves ==
  ASSUME IInv, NEW k \in DOMAIN rows, k = Last, NEW row \in Row,
         row.day = rows[k].day, row.usd < rows[k].usd,
         rows' = [rows EXCEPT ![k] = row], today' = today,
         rows' \in Seq(Row), Dated(rows', today')
  PROVE  BudgetAvailable'
<1> DEFINE day == rows[k].day
<1>1. /\ rows \in Seq(Row) /\ Dated(rows, today)
      /\ rows[k] \in Row /\ row.usd \in Nat /\ rows[k].usd \in Nat
  BY DatedRows, RowTypes DEF IInv, Row
<1>2. day \in 0..MaxDay /\ day <= today /\ today \in 0..MaxDay
  BY <1>1, BudgetAssumption DEF Dated, Row
<1>3. ASSUME NEW days, NEW limit \in Nat, day \in days, Booked(rows, days) <= limit
      PROVE  Booked(rows', days) < limit
  <2>1. Booked(rows, days) \in Nat /\ Booked(rows', days) \in Nat
    BY <1>1, BookedNat
  <2>2. row.day \in days /\ row.usd <= rows[k].usd
    BY <1>1, <1>3
  <2>3. Booked(rows', days) < Booked(rows, days)
    BY <1>1, <2>2, RebookLess
  <2> QED BY <1>3, <2>1, <2>3
<1>4. Booked(rows, {today}) <= Daily /\ Booked(rows, DaysOfMonth(today)) <= Monthly
  BY <1>2 DEF IInv, BookedWithinBudget, Spent, Booked, RowsOf
<1>5. Dated(rows', day)
  <2>1. DOMAIN rows' = DOMAIN rows /\ \A i \in DOMAIN rows : rows'[i].day = rows[i].day
    BY <1>1
  <2>2. \A i \in DOMAIN rows : rows[i].day <= day
    BY DEF IInv, RowsInv
  <2> QED BY <1>2, <2>1, <2>2 DEF Dated
<1> HIDE DEF day
<1>6. Booked(rows', {today}) < Daily
  <2>1. CASE day = today
    BY <1>3, <1>4, <2>1, BudgetAssumption
  <2>2. CASE day # today
    <3>1. day < today
      BY <1>2, <2>2, BudgetAssumption
    <3>2. Booked(rows', {today}) = 0
      BY <1>2, <1>5, <3>1, NoRowsYet
    <3> QED BY <3>2, BudgetAssumption
  <2> QED BY <2>1, <2>2
<1>7. Booked(rows', DaysOfMonth(today)) < Monthly
  <2>1. CASE Month(day) = Month(today)
    <3>1. day \in DaysOfMonth(today)
      BY <1>2, <2>1 DEF DaysOfMonth
    <3> QED BY <1>3, <1>4, <3>1, BudgetAssumption
  <2>2. CASE Month(day) # Month(today)
    <3>1. day < today
      BY <1>2, <2>2, BudgetAssumption
    <3>2. Booked(rows', DaysOfMonth(today)) = 0
      BY <1>2, <1>5, <2>2, <3>1, NoRowsYet
    <3> QED BY <3>2, BudgetAssumption
  <2> QED BY <2>1, <2>2
<1>8. (rows \in Seq(Row) /\ Dated(rows, today) => (BudgetAvailable <=> Left(rows, today)))'
  BY BudgetAvailableLeft, PTL
<1> QED BY <1>6, <1>7, <1>8 DEF Left

\* A new day has its whole budget, and what was left of its month or all of a new month's.
LEMMA NewDayLeaves ==
  ASSUME IInv, BudgetAvailable, NewDay
  PROVE  BudgetAvailable'
<1>1. rows \in Seq(Row) /\ Dated(rows, today) /\ rows' = rows
  BY DatedRows DEF IInv, NewDay
<1>2. today \in 0..MaxDay /\ today' \in 0..MaxDay /\ today < today'
  BY BudgetAssumption DEF NewDay, IInv, TypeOK
<1>3. /\ Booked(rows, {today'}) = 0
      /\ Month(today) # Month(today') => Booked(rows, DaysOfMonth(today')) = 0
  BY <1>1, <1>2, NoRowsYet
<1>4. Booked(rows, DaysOfMonth(today)) < Monthly
  BY <1>1, BudgetAvailableLeft DEF Left
<1>5. Month(today) = Month(today') => DaysOfMonth(today) = DaysOfMonth(today')
  BY DEF DaysOfMonth
<1>6. Left(rows', today')
  BY <1>1, <1>3, <1>4, <1>5, BudgetAssumption DEF Left
<1>7. Dated(rows', today')
  <2>1. \A i \in DOMAIN rows : rows[i].day \in Nat /\ rows[i].day <= today
    BY <1>1, RowTypes DEF Dated, Row
  <2> QED BY <1>1, <1>2, <2>1, BudgetAssumption DEF Dated
<1>8. (rows \in Seq(Row) /\ Dated(rows, today) => (BudgetAvailable <=> Left(rows, today)))'
  BY BudgetAvailableLeft, PTL
<1> QED BY <1>1, <1>6, <1>7, <1>8

\* The last row is replaced by one of its type that covers its charge: nothing else changes.
LEMMA FinishStep ==
  ASSUME IInv, rows # <<>>, NEW status \in {"unknown", "answered", "invalid"}, NEW usd \in Nat,
         rows[Last].charged <= usd, usd <= rows[Last].usd,
         status = "unknown" => rows[Last].charged < usd,
         Finish(status, usd), today' = today
  PROVE  /\ rows' \in Seq(Row) /\ rows' # <<>>
         /\ RowsInv' /\ ChargesCovered' /\ BookedWithinBudget'
         /\ usd < rows[Last].usd => BudgetAvailable'
<1> DEFINE k == Last
           row == [rows[k] EXCEPT !.status = status, !.usd = usd]
<1>1. rows \in Seq(Row) /\ k \in DOMAIN rows /\ rows[k] \in Row
  BY RowTypes DEF IInv, TypeOK, Last
<1>2. /\ row \in Row /\ row.day = rows[k].day /\ row.usd = usd
      /\ row.status = status /\ row.charged = rows[k].charged
  BY <1>1 DEF Row
<1>3. rows' = [rows EXCEPT ![k] = row]
  BY <1>1 DEF Finish
<1>4. k = Last
  OBVIOUS
<1> HIDE DEF k, row
<1>5. /\ rows' \in Seq(Row) /\ Len(rows') = Len(rows)
      /\ RowsInv' /\ ChargesCovered' /\ BookedWithinBudget'
  BY <1>1, <1>2, <1>3, <1>4, RebookStep
<1>6. Dated(rows', today')
  BY <1>5 DEF IInv, TypeOK, RowsInv, Dated
<1>7. usd < rows[k].usd => BudgetAvailable'
  BY <1>1, <1>2, <1>3, <1>4, <1>5, <1>6, AnswerLeaves
<1> QED BY <1>1, <1>4, <1>5, <1>7

\* What is charged for a row is less than its reservation.
LEMMA ProcessStep ==
  ASSUME IInv, NEW i \in DOMAIN rows, NEW cost \in 1..rows[i].usd, Process(i, cost)
  PROVE  IInv'
<1> DEFINE row == [rows[i] EXCEPT !.charged = cost]
<1>1. rows \in Seq(Row) /\ rows[i] \in Row /\ rows[i].usd \in Nat /\ cost \in Nat
  BY RowTypes DEF IInv, TypeOK
<1>2. /\ row \in Row /\ row.day = rows[i].day /\ row.usd = rows[i].usd
      /\ row.status = rows[i].status /\ row.charged = cost
  BY <1>1 DEF Row
<1>3. /\ rows' = [rows EXCEPT ![i] = row] /\ cost < rows[i].usd
      /\ UNCHANGED <<today, pc, amount, attempt>>
  BY <1>1 DEF Process
<1> HIDE DEF row
<1>4. row.charged < row.usd /\ row.charged <= row.usd /\ row.usd <= rows[i].usd
  BY <1>1, <1>2, <1>3
<1>5. /\ rows' \in Seq(Row) /\ Len(rows') = Len(rows)
      /\ RowsInv' /\ ChargesCovered' /\ BookedWithinBudget'
  BY <1>2, <1>3, <1>4, RebookStep
<1>6. TypeOK' /\ Dated(rows', today')
  BY <1>3, <1>5 DEF IInv, TypeOK, RowsInv, Dated
<1>7. CallInv'
  <2>1. rows # <<>> => rows' # <<>> /\ Last' = Last /\ Last \in DOMAIN rows
    BY <1>1, <1>5 DEF Last
  <2>2. \A j \in DOMAIN rows : rows'[j].status = rows[j].status
    BY <1>1, <1>2, <1>3
  <2> QED BY <1>3, <2>1, <2>2 DEF IInv, CallInv
<1>8. SomeLeft'
  <2>1. BudgetAvailable => BudgetAvailable'
    BY <1>2, <1>3, <1>5, <1>6, <1>4, RebookLeaves
  <2> QED BY <1>3, <2>1 DEF IInv, SomeLeft
<1> QED BY <1>5, <1>6, <1>7, <1>8 DEF IInv

\* A new row has not been charged yet, and fits.
LEMMA ReserveStep == ASSUME IInv, ReserveRequest PROVE IInv'
<1>1. rows \in Seq(Row) /\ Dated(rows, today) /\ today \in 0..MaxDay
  BY DatedRows DEF IInv, TypeOK
<1>2. amount \in Nat \ {0}
  BY BudgetAssumption DEF ReserveRequest, IInv, CallInv
<1>3. /\ Reserved \in Row /\ Reserved.charged = 0 /\ Reserved.usd = amount
      /\ Reserved.day = today /\ Reserved.status = "reserved"
  BY <1>1, <1>2, BudgetAssumption DEF Reserved, Row
<1>4. /\ rows' \in Seq(Row) /\ rows' # <<>> /\ Last' = Len(rows) + 1
      /\ rows'[Last'] = Reserved /\ DOMAIN rows' = 1..(Len(rows) + 1)
      /\ \A i \in 1..Len(rows) : rows'[i] = rows[i]
      /\ UNCHANGED <<today, amount, attempt>> /\ pc' = "call"
  BY <1>1, <1>3 DEF ReserveRequest, Last
<1>5. TypeOK' /\ CallInv' /\ SomeLeft'
  BY <1>3, <1>4 DEF IInv, TypeOK, CallInv, SomeLeft, ReserveRequest
<1>6. RowsInv'
  <2> SUFFICES ASSUME NEW i \in DOMAIN rows'
               PROVE  /\ rows'[i].day <= rows'[Last'].day /\ rows'[i].day <= today'
                      /\ rows'[i].status \in {"reserved", "unknown"} => rows'[i].charged < rows'[i].usd
    BY DEF RowsInv
  <2>1. CASE i = Len(rows) + 1
    BY <1>1, <1>2, <1>3, <1>4, <2>1, BudgetAssumption
  <2>2. CASE i \in 1..Len(rows)
    BY <1>1, <1>3, <1>4, <2>2 DEF IInv, RowsInv
  <2> QED BY <1>1, <1>4, <2>1, <2>2
<1>7. ChargesCovered'
  <2> SUFFICES ASSUME NEW i \in 1..Len(rows') PROVE rows'[i].charged <= rows'[i].usd
    BY DEF ChargesCovered
  <2>1. CASE i = Len(rows) + 1
    BY <1>2, <1>3, <1>4, <2>1
  <2>2. CASE i \in 1..Len(rows)
    BY <1>4, <2>2 DEF IInv, ChargesCovered
  <2> QED BY <1>1, <1>4, <2>1, <2>2
<1>8. BookedWithinBudget'
  <2>1. /\ Booked(rows, {today}) + amount <= Daily
        /\ Booked(rows, DaysOfMonth(today)) + amount <= Monthly
    BY FitsBooked DEF ReserveRequest, IInv
  <2>2. Within(rows)
    BY DEF IInv, BookedWithinBudget, Within, Spent, Booked, RowsOf
  <2>3. Within(Append(rows, Reserved))
    BY <1>1, <1>3, <2>1, <2>2, AppendWithin
  <2> QED BY <2>3 DEF ReserveRequest, BookedWithinBudget, Within, Spent, Booked, RowsOf
<1> QED BY <1>5, <1>6, <1>7, <1>8 DEF IInv

\* A call that ended: its row covers its charge, and only a usage report below the reservation
\* lets the cycle go on.
LEMMA CallStep ==
  ASSUME IInv, RequestFails \/ Answer \/ AnswerWithoutUsage \/ InvalidDecision
  PROVE  IInv'
<1>1. rows # <<>> /\ today' = today
  BY DEF IInv, CallInv, RequestFails, Answer, AnswerWithoutUsage, InvalidDecision
<1>2. /\ rows \in Seq(Row) /\ Last \in DOMAIN rows
      /\ rows[Last].charged \in Nat /\ rows[Last].usd \in Nat
      /\ rows[Last].charged <= rows[Last].usd
  BY <1>1, RowTypes DEF IInv, TypeOK, Last, ChargesCovered
<1>3. pc = "call" => rows[Last].charged < rows[Last].usd
  BY <1>2 DEF IInv, CallInv, RowsInv
<1>4. CASE RequestFails
  <2>1. /\ rows' \in Seq(Row) /\ RowsInv' /\ ChargesCovered' /\ BookedWithinBudget'
    BY <1>1, <1>2, <1>3, <1>4, FinishStep DEF RequestFails
  <2>2. TypeOK' /\ CallInv' /\ SomeLeft'
    BY <1>1, <1>4, <2>1, BudgetAssumption
    DEF RequestFails, Retry, EndCycle, IInv, TypeOK, CallInv, SomeLeft
  <2> QED BY <2>1, <2>2 DEF IInv
<1>5. CASE Answer
  <2>1. /\ rows' \in Seq(Row) /\ rows' # <<>> /\ RowsInv' /\ ChargesCovered' /\ BookedWithinBudget'
        /\ BudgetAvailable'
    BY <1>1, <1>2, <1>3, <1>5, FinishStep DEF Answer
  <2>2. TypeOK' /\ CallInv' /\ SomeLeft'
    BY <1>1, <1>5, <2>1, BudgetAssumption
    DEF Answer, EndCycle, IInv, TypeOK, CallInv, SomeLeft
  <2> QED BY <2>1, <2>2 DEF IInv
<1>6. CASE AnswerWithoutUsage \/ InvalidDecision
  <2>1. rows' \in Seq(Row) /\ RowsInv' /\ ChargesCovered' /\ BookedWithinBudget'
    <3>1. CASE UNCHANGED rows
      BY <1>1, <3>1 DEF IInv, TypeOK, RowsInv, ChargesCovered, BookedWithinBudget, Spent, Last
    <3>2. CASE Finish("answered", rows[Last].usd) \/ Finish("invalid", rows[Last].usd)
      BY <1>1, <1>2, <3>2, FinishStep
    <3> QED BY <1>6, <3>1, <3>2 DEF AnswerWithoutUsage, InvalidDecision
  <2>2. TypeOK' /\ CallInv' /\ SomeLeft'
    BY <1>1, <1>6, <2>1, BudgetAssumption
    DEF AnswerWithoutUsage, InvalidDecision, EndCycle, IInv, TypeOK, CallInv, SomeLeft
  <2> QED BY <2>1, <2>2 DEF IInv
<1> QED BY <1>4, <1>5, <1>6

\* The steps that leave the rows alone, on the same day.
LEMMA RowsKept ==
  ASSUME IInv, UNCHANGED <<rows, today>>, TypeOK', CallInv',
         pc' \in {"parse", "assess"} => pc \in {"parse", "assess"}
  PROVE  IInv'
<1>1. RowsInv' /\ ChargesCovered' /\ BookedWithinBudget'
  BY DEF IInv, RowsInv, Last, ChargesCovered, BookedWithinBudget, Spent
<1>2. BudgetAvailable' <=> BudgetAvailable
  BY DEF BudgetAvailable, DaySpent, MonthSpent, Spent
<1> QED BY <1>1, <1>2 DEF IInv, SomeLeft

\* Midnight makes budgets available again and touches no row.
LEMMA NewDayStep == ASSUME IInv, NewDay PROVE IInv'
<1>1. TypeOK' /\ CallInv'
  BY BudgetAssumption DEF NewDay, IInv, TypeOK, CallInv, Last
<1>2. RowsInv'
  <2>1. \A i \in DOMAIN rows : rows[i].day \in Nat
    BY RowTypes DEF IInv, TypeOK, Row
  <2> QED BY <2>1, BudgetAssumption DEF NewDay, IInv, TypeOK, RowsInv, Last
<1>3. ChargesCovered' /\ BookedWithinBudget'
  BY DEF NewDay, IInv, ChargesCovered, BookedWithinBudget, Spent
<1>4. SomeLeft'
  BY NewDayLeaves DEF NewDay, IInv, SomeLeft
<1> QED BY <1>1, <1>2, <1>3, <1>4 DEF IInv

\* Without rows nothing is spent.
LEMMA InitStep == Init => IInv
<1> SUFFICES ASSUME Init PROVE IInv
  OBVIOUS
<1>1. rows = <<>> /\ rows \in Seq(Row) /\ DOMAIN rows = {} /\ Len(rows) = 0
  BY DEF Init
<1>2. \A days : Booked(rows, days) = 0
  BY <1>1, BookedNothing
<1>3. BookedWithinBudget
  <2>1. Within(rows)
    BY <1>2, BudgetAssumption DEF Within
  <2> QED BY <2>1 DEF BookedWithinBudget, Within, Spent, Booked, RowsOf
<1> QED
  BY <1>1, <1>3, BudgetAssumption
  DEF Init, IInv, TypeOK, CallInv, RowsInv, ChargesCovered, SomeLeft

-----------------------------------------------------------------------------
\* The invariant for every budget, prompt and calendar.
THEOREM BudgetInvariance == Spec => []IInv
<1>1. IInv /\ [Next]_vars => IInv'
  <2> SUFFICES ASSUME IInv, [Next]_vars PROVE IInv'
    OBVIOUS
  <2>1. CASE UNCHANGED vars
    BY <2>1, RowsKept DEF vars, IInv, TypeOK, CallInv, Last
  <2>2. ASSUME NEW a \in Reservations, Startup(a) PROVE IInv'
    BY <2>2, RowsKept DEF Startup, IInv, TypeOK, CallInv
  <2>3. CASE OverBudget \/ Decide \/ Stop
    BY <2>3, RowsKept, BudgetAssumption
    DEF OverBudget, Decide, Stop, EndCycle, IInv, TypeOK, CallInv
  <2>4. 1..Len(rows) = DOMAIN rows
    BY RowTypes DEF IInv, TypeOK
  <2> QED
    BY <2>1, <2>2, <2>3, <2>4, ReserveStep, CallStep, ProcessStep, NewDayStep DEF Next
<1> QED BY <1>1, InitStep, PTL DEF Spec

\* Every variable keeps its type, and no prompt is sent more often than configured (llm.attempts).
THEOREM TypeCorrect == Spec => []TypeOK
<1>1. IInv => TypeOK
  BY DEF IInv
<1> QED BY <1>1, BudgetInvariance, PTL

\* No row books less than what was charged for its request.
THEOREM ChargesCoveredHolds == Spec => []ChargesCovered
<1>1. IInv => ChargesCovered
  BY DEF IInv
<1> QED BY <1>1, BudgetInvariance, PTL

\* What is charged for the requests of some days is at most what is booked for them.
LEMMA ChargedBooked ==
  ASSUME IInv, NEW days
  PROVE  Charged(days) <= Booked(rows, days) /\ Charged(days) \in Nat
<1> DEFINE charged == [i \in DOMAIN rows |-> rows[i].charged]
           usd == [i \in DOMAIN rows |-> rows[i].usd]
           S == RowsOf(rows, days)
<1>1. rows \in Seq(Row) /\ DOMAIN rows = 1..Len(rows)
  BY RowTypes DEF IInv, TypeOK
<1>2. IsFiniteSet(S) /\ S \subseteq DOMAIN rows
  BY <1>1, FiniteRows DEF RowsOf
<1>3. \A i \in DOMAIN rows : charged[i] \in Nat /\ usd[i] \in Nat /\ charged[i] <= usd[i]
  BY <1>1, RowTypes DEF IInv, ChargesCovered
<1>4. Charged(days) = SumFunctionOnSet(charged, S) /\ Booked(rows, days) = SumFunctionOnSet(usd, S)
  BY DEF Charged, Booked, RowsOf
<1> HIDE DEF charged, usd, S
<1>5. SumFunctionOnSet(charged, S) <= SumFunctionOnSet(usd, S)
  BY <1>2, <1>3, SumMonotone
<1>6. SumFunctionOnSet(charged, S) \in Nat
  BY <1>2, <1>3, SumNat
<1> QED BY <1>4, <1>5, <1>6

\* What OpenAI charges for the requests of a day stays within the daily budget, and for those of a
\* month within the monthly one: reserve_request keeps the bookings within them, and every charge
\* is covered by its booking.
THEOREM ChargesWithinBudgetHolds == Spec => []ChargesWithinBudget
<1>1. ASSUME IInv PROVE ChargesWithinBudget
  <2> SUFFICES ASSUME NEW day \in 0..today
               PROVE  /\ Charged({day}) <= Daily
                      /\ Charged({d \in 0..today : Month(d) = Month(day)}) <= Monthly
    BY DEF ChargesWithinBudget
  <2>1. rows \in Seq(Row) /\ Dated(rows, today) /\ today \in 0..MaxDay /\ day \in 0..MaxDay
    BY <1>1, DatedRows, BudgetAssumption DEF IInv, TypeOK
  <2>2. Booked(rows, {day}) <= Daily /\ Booked(rows, DaysOfMonth(day)) <= Monthly
    BY <1>1, <2>1 DEF IInv, BookedWithinBudget, Spent, Booked, RowsOf
  <2> DEFINE soFar == {d \in 0..today : Month(d) = Month(day)}
  <2>3. Booked(rows, soFar) = Booked(rows, DaysOfMonth(day))
    <3>1. ASSUME NEW i \in DOMAIN rows
          PROVE  rows[i].day \in soFar <=> rows[i].day \in DaysOfMonth(day)
      <4>1. rows[i].day \in 0..today /\ rows[i].day \in 0..MaxDay
        BY <2>1, RowTypes, BudgetAssumption DEF Dated, Row
      <4> QED BY <4>1 DEF DaysOfMonth
    <3> HIDE DEF soFar
    <3> QED BY <2>1, <3>1, BookedSameDays
  <2> HIDE DEF soFar
  <2>4. /\ Charged({day}) <= Booked(rows, {day}) /\ Charged({day}) \in Nat
        /\ Charged(soFar) <= Booked(rows, soFar) /\ Charged(soFar) \in Nat
    BY <1>1, ChargedBooked
  <2>5. Booked(rows, {day}) \in Nat /\ Booked(rows, soFar) \in Nat
    BY <2>1, BookedNat
  <2>6. Charged({day}) <= Daily
    BY <2>2, <2>4, <2>5, BudgetAssumption
  <2>7. Charged(soFar) <= Monthly
    BY <2>2, <2>3, <2>4, <2>5, BudgetAssumption
  <2> QED BY <2>6, <2>7 DEF soFar
<1> QED BY <1>1, BudgetInvariance, PTL

\* budget_available, asked again after the decision, never rejects a decision that was paid for.
THEOREM DecisionUsableHolds == Spec => []DecisionUsable
<1>1. IInv => DecisionUsable
  BY DEF IInv, SomeLeft, DecisionUsable
<1> QED BY <1>1, BudgetInvariance, PTL
=============================================================================
