--------------------------- MODULE OutcomesProofs ---------------------------
(***************************************************************************)
(* Proofs about Outcomes, for any decisions, horizons and batch limits.    *)
(* Beside the types, the inductive invariant needs only that no row of a   *)
(* batch is COMPLETE; the rest is what a due horizon means for a candle.   *)
(***************************************************************************)
EXTENDS Outcomes, FiniteSetTheorems, TLAPS

\* A run has no completed row to check.
BatchPending == \A d \in batch : status[d] # "COMPLETE"

IInv == TypeOK /\ SettledPrices /\ CompleteWhole /\ BatchPending

\* Horizons in ticks are natural numbers, and so is the last age.
LEMMA Ticks == /\ \A h \in Horizons : h \in Nat /\ h * Hour \in Nat
               /\ Longest \in Nat /\ Longest * Hour \in Nat /\ MaxAge \in Nat
               /\ Hour \in Nat /\ Grace \in Nat
<1>1. \A m, n \in Nat : m * n \in Nat
  OBVIOUS
<1>2. QED
  BY <1>1, OutcomesAssumption DEF MaxAge

\* Latest counts the decisions, and one.
LEMMA LatestType == Latest \in Nat \ {0}
BY OutcomesAssumption, FS_CardinalityType DEF Latest

\* Ranks stay ranks.
LEMMA RankType == ASSUME TypeOK, NEW d \in Decisions PROVE Rank(d) \in 0..Latest
<1>1. checked[d] \in 0..Latest /\ Latest \in Nat
  BY LatestType DEF TypeOK
<1>2. CASE checked[d] = 0
  BY <1>1, <1>2 DEF Rank
<1>3. CASE checked[d] # 0
  <2> DEFINE S == {checked[e] : e \in Decisions} \intersect 1..checked[d]
  <2>1. IsFiniteSet(1..checked[d]) /\ Cardinality(1..checked[d]) = checked[d]
    <3>1. PICK n \in Nat \ {0} : n = checked[d]
      BY <1>1, <1>3
    <3>2. Cardinality(1..n) = (IF 1 > n THEN 0 ELSE n - 1 + 1) /\ IsFiniteSet(1..n)
      BY FS_Interval
    <3>3. Cardinality(1..n) = n
      BY <3>2
    <3>4. QED
      BY <3>1, <3>2, <3>3
  <2>2. S \subseteq 1..checked[d]
    OBVIOUS
  <2>3. IsFiniteSet(S) /\ Cardinality(S) <= checked[d]
    BY <2>1, <2>2, FS_Subset
  <2>4. Cardinality(S) \in Nat
    BY <2>3, FS_CardinalityType
  <2>5. QED
    BY <1>1, <1>3, <2>3, <2>4 DEF Rank
<1>4. QED
  BY <1>2, <1>3

\* The invariant holds initially.
LEMMA InitInv == Init => IInv
<1> SUFFICES ASSUME Init PROVE IInv
  OBVIOUS
<1>1. TypeOK
  BY Ticks, LatestType DEF Init, TypeOK, Unrecorded, Statuses, Values
<1>2. QED
  BY <1>1 DEF Init, IInv, SettledPrices, CompleteWhole, BatchPending

-----------------------------------------------------------------------------
\* Saving a row of the batch keeps the types and completes no other row.
LEMMA SaveType ==
  ASSUME IInv, NEW d \in batch, NEW s \in Statuses, NEW w \in Nat, Save(d, s, w)
  PROVE  /\ d \in Decisions
         /\ age' = age /\ quiet' = quiet
         /\ status' \in [Decisions -> Statuses]
         /\ wait' \in [Decisions -> Nat]
         /\ checked' \in [Decisions -> 0..Latest]
         /\ batch' \in SUBSET Decisions
         /\ status'[d] = s /\ \A e \in Decisions \ {d} : status'[e] = status[e]
         /\ BatchPending'
<1>1. d \in Decisions /\ batch \subseteq Decisions
  BY DEF IInv, TypeOK
<1>2. Latest \in 0..Latest
  BY LatestType
<1>3. QED
  BY <1>1, <1>2 DEF Save, IInv, TypeOK, BatchPending

\* A read measures settled candles only, keeps what was measured, and completes what is whole.
LEMMA CheckInv ==
  ASSUME IInv, NEW d \in batch, NEW candles \in SUBSET Traded(d), Check(d, candles)
  PROVE  /\ IInv'
         /\ excursion[d] # "none" => excursion'[d] = excursion[d]
         /\ \A h \in Horizons : observed[d][h] # "none" => observed'[d][h] = observed[d][h]
         /\ \A e \in Decisions \ {d} : /\ excursion'[e] = excursion[e]
                                       /\ observed'[e] = observed[e]
                                       /\ status'[e] = status[e]
<1>1. /\ d \in Decisions /\ age[d] \in Int
      /\ observed \in [Decisions -> [Horizons -> Values]] /\ excursion \in [Decisions -> Values]
  BY Ticks DEF IInv, TypeOK, Unrecorded
<1> DEFINE o == [h \in Horizons |-> IF h \in Missing(d) /\ h * Hour \in candles
                                    THEN Value(d, h * Hour) ELSE observed[d][h]]
           x == IF NoExcursion(d) /\ candles = Buckets THEN Value(d, Longest * Hour)
                ELSE excursion[d]
<1>2. observed' = [observed EXCEPT ![d] = o] /\ excursion' = [excursion EXCEPT ![d] = x]
  BY <1>1 DEF Check
<1>3. \A h \in Horizons : h \in Due(d) => Value(d, h * Hour) = "settled"
  BY DEF Due, Value
<1>4. /\ o \in [Horizons -> Values] /\ x \in Values
      /\ \A h \in Horizons : o[h] # "early" /\ (observed[d][h] # "none" => o[h] = observed[d][h])
      /\ x # "early" /\ (excursion[d] # "none" => x = excursion[d])
  <2>1. \A h \in Horizons : o[h] = observed[d][h] \/ (observed[d][h] = "none" /\ o[h] = "settled")
    BY <1>3 DEF Missing
  <2>2. x = excursion[d] \/ (excursion[d] = "none" /\ x = "settled")
    BY <1>3, OutcomesAssumption DEF NoExcursion
  <2>3. QED
    BY <1>1, <2>1, <2>2 DEF Values, IInv, SettledPrices
<1>5. /\ observed' \in [Decisions -> [Horizons -> Values]] /\ excursion' \in [Decisions -> Values]
      /\ observed'[d] = o /\ excursion'[d] = x
      /\ \A e \in Decisions \ {d} : observed'[e] = observed[e] /\ excursion'[e] = excursion[e]
  <2> HIDE DEF o, x
  <2> QED BY <1>1, <1>2, <1>4
<1>6. SettledPrices'
  <2> HIDE DEF o, x
  <2> QED BY <1>4, <1>5 DEF IInv, SettledPrices
<1>7. PICK w \in Nat : Save(d, StatusOf(d), w)
  <2>1. CASE StatusOf(d) = "PENDING"
    <3>1. PICK h \in Ahead(d) : Save(d, "PENDING", h * Hour + Grace - age[d])
      BY <2>1 DEF Check
    <3>2. h * Hour + Grace - age[d] \in Nat
      BY <1>1, Ticks DEF Ahead, Due
    <3>3. QED
      BY <2>1, <3>1, <3>2
  <2>2. CASE StatusOf(d) # "PENDING"
    BY <2>2, Ticks DEF Check
  <2>3. QED
    BY <2>1, <2>2
<1>8. StatusOf(d) \in Statuses
  BY DEF StatusOf, Statuses
<1>9. StatusOf(d) = "COMPLETE" => Observed(d) = Horizons /\ excursion'[d] # "none"
  BY DEF StatusOf
<1>10. CompleteWhole'
  <2>1. \A e \in Decisions \ {d} : status'[e] = status[e]
    BY <1>7, <1>8, SaveType
  <2>2. status'[d] = StatusOf(d)
    BY <1>7, <1>8, SaveType
  <2> SUFFICES ASSUME NEW e \in Decisions, status'[e] = "COMPLETE"
               PROVE  excursion'[e] # "none" /\ \A h \in Horizons : observed'[e][h] # "none"
    BY DEF CompleteWhole
  <2>3. CASE e = d
    BY <1>9, <2>2, <2>3 DEF Observed
  <2>4. CASE e # d
    <3> HIDE DEF o, x
    <3> QED BY <1>5, <2>1, <2>4 DEF IInv, CompleteWhole
  <2>5. QED
    BY <2>3, <2>4
<1>11. TypeOK' /\ BatchPending'
  BY <1>5, <1>7, <1>8, SaveType DEF IInv, TypeOK
<1>12. \A e \in Decisions \ {d} : status'[e] = status[e]
  BY <1>7, <1>8, SaveType
<1>13. QED
  BY <1>4, <1>5, <1>6, <1>10, <1>11, <1>12 DEF IInv

\* An error changes nothing but the row's status and next check.
LEMMA FailInv == ASSUME IInv, NEW d \in batch, Fail(d)
                 PROVE  /\ IInv' /\ UNCHANGED <<observed, excursion>>
                        /\ \A e \in Decisions \ {d} : status'[e] = status[e]
<1>1. "ERROR" \in Statuses /\ Hour \in Nat
  BY Ticks DEF Statuses
<1>2. Save(d, "ERROR", Hour) /\ UNCHANGED <<observed, excursion>>
  BY DEF Fail
<1>3. /\ status'[d] = "ERROR" /\ \A e \in Decisions \ {d} : status'[e] = status[e]
      /\ TypeOK' /\ BatchPending'
  BY <1>1, <1>2, SaveType DEF IInv, TypeOK
<1>4. SettledPrices' /\ CompleteWhole'
  BY <1>2, <1>3 DEF IInv, SettledPrices, CompleteWhole
<1>5. QED
  BY <1>2, <1>3, <1>4 DEF IInv

\* Whatever happens between runs touches ages, waits and ranks only.
LEMMA BetweenInv ==
  ASSUME IInv,
         (\E d \in Decisions : Record(d)) \/ Tick \/ (\E limit \in Limits : Begin(limit)) \/ Crash
  PROVE  IInv' /\ UNCHANGED <<status, observed, excursion>>
<1>1. CASE \E d \in Decisions : Record(d)
  <2>1. PICK d \in Decisions : Record(d)
    BY <1>1
  <2>2. age' \in [Decisions -> Unrecorded..MaxAge]
    BY <2>1, Ticks DEF Record, IInv, TypeOK, Unrecorded
  <2>3. QED
    BY <2>1, <2>2 DEF Record, row, IInv, TypeOK, SettledPrices, CompleteWhole, BatchPending
<1>2. CASE Tick
  <2>1. ASSUME NEW d \in Decisions PROVE Older(age[d]) \in Unrecorded..MaxAge
    BY Ticks DEF IInv, TypeOK, Older, Unrecorded
  <2>2. age' \in [Decisions -> Unrecorded..MaxAge]
    BY <1>2, <2>1 DEF Tick
  <2>3. wait' \in [Decisions -> Nat]
    BY <1>2 DEF Tick, IInv, TypeOK
  <2>4. QED
    BY <1>2, <2>2, <2>3 DEF Tick, IInv, TypeOK, SettledPrices, CompleteWhole, BatchPending
<1>3. CASE \E limit \in Limits : Begin(limit)
  <2>1. PICK limit \in Limits : Begin(limit)
    BY <1>3
  <2>2. checked' \in [Decisions -> 0..Latest]
    BY <2>1, RankType DEF Begin, IInv
  <2>3. batch' \subseteq Decisions /\ \A d \in batch' : status[d] # "COMPLETE"
    BY <2>1 DEF Begin, Pending
  <2>4. UNCHANGED <<age, quiet, status, wait, observed, excursion>>
    BY <2>1 DEF Begin
  <2>5. QED
    BY <2>2, <2>3, <2>4 DEF IInv, TypeOK, SettledPrices, CompleteWhole, BatchPending
<1>4. CASE Crash
  BY <1>4 DEF Crash, row, IInv, TypeOK, SettledPrices, CompleteWhole, BatchPending
<1>5. QED
  BY <1>1, <1>2, <1>3, <1>4

\* A step that changes nothing.
LEMMA StutterInv == ASSUME IInv, UNCHANGED vars PROVE IInv'
BY DEF IInv, vars, row, TypeOK, SettledPrices, CompleteWhole, BatchPending

\* IInv is an inductive invariant.
LEMMA Inductive == Spec => []IInv
<1>1. IInv /\ [Next]_vars => IInv'
  BY CheckInv, FailInv, BetweenInv, StutterInv DEF Next, Step
<1>2. QED
  BY InitInv, <1>1, PTL DEF Spec

-----------------------------------------------------------------------------
\* Every variable of Outcomes keeps its type: the next check is never before the last one.
THEOREM TypeCorrect == Spec => []TypeOK
BY Inductive, PTL DEF IInv

\* No candle that may still change is ever measured.
THEOREM PricesSettled == Spec => []SettledPrices
BY Inductive, PTL DEF IInv

\* A completed outcome has every return and both extremes.
THEOREM CompleteIsWhole == Spec => []CompleteWhole
BY Inductive, PTL DEF IInv

\* No retry, failure or crash takes a measurement or a completion back.
THEOREM MeasuredOnce == Spec => NothingLost
<1> DEFINE Kept ==
      \A d \in Decisions :
        /\ status[d] = "COMPLETE" => status'[d] = "COMPLETE"
        /\ excursion[d] # "none" => excursion'[d] = excursion[d]
        /\ \A h \in Horizons : observed[d][h] # "none" => observed'[d][h] = observed[d][h]
<1>1. IInv /\ Next => Kept
  <2> SUFFICES ASSUME IInv, Next PROVE Kept
    OBVIOUS
  <2>1. CASE (\E d \in Decisions : Record(d)) \/ Tick \/ (\E limit \in Limits : Begin(limit)) \/ Crash
    BY <2>1, BetweenInv
  <2>2. ASSUME NEW d \in batch, Fail(d) PROVE Kept
    BY <2>2, FailInv DEF IInv, BatchPending
  <2>3. ASSUME NEW d \in batch, NEW candles \in SUBSET Traded(d), Check(d, candles) PROVE Kept
    BY <2>3, CheckInv DEF IInv, BatchPending
  <2>4. QED
    BY <2>1, <2>2, <2>3 DEF Next, Step
<1>2. IInv /\ [Next]_vars => [Kept]_vars
  BY <1>1
<1>3. QED
  BY Inductive, <1>2, PTL DEF Spec, NothingLost
=============================================================================
