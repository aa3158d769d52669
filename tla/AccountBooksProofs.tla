------------------------- MODULE AccountBooksProofs -------------------------
(***************************************************************************)
(* IInv is an inductive invariant of AccountBooks for every tolerance, any *)
(* rounding and every order of trades, deposits, crashes and commands; it  *)
(* bounds how far checkpoint, ledger and recorded deposits can be from the *)
(* truth.                                                                  *)
(***************************************************************************)
EXTENDS AccountBooks, TLAPS

USE DEF books

\* The allowance for rounding is a number, and grows by Rounding with each order.
LEMMA Slack ==
  ASSUME orders \in Nat
  PROVE  /\ Rounding * orders \in Nat
         /\ Rounding * (orders + 1) = Rounding * orders + Rounding
  BY BooksAssumption

\* What a fill does to the two currencies.
LEMMA EffectType ==
  ASSUME NEW side, NEW n \in Nat
  PROVE  /\ Effect(side, n) \in [Currencies -> Int]
         /\ Effect(side, n)["cash"] = IF side = "BUY" THEN -n ELSE n
         /\ Effect(side, n)["base"] = IF side = "BUY" THEN n ELSE -n
  BY DEF Effect, Currencies

-----------------------------------------------------------------------------
\* Nothing is booked before the first command.
LEMMA InitHolds == Init => IInv
<1> SUFFICES ASSUME Init PROVE IInv
  OBVIOUS
<1>1. TypeOK
  BY BooksAssumption
  DEF Init, TypeOK, BooksTypeOK, Sides, Zero, NoOrder, NoClaim
<1>2. RowsInv /\ ReadInv /\ BooksAgree /\ DriftBounded
  BY DEF Init, RowsInv, ReadInv, BooksAgree, DriftBounded, NoOrder
<1>3. PhantomBounded
  BY BooksAssumption DEF Init, PhantomBounded
<1> QED BY <1>1, <1>2, <1>3 DEF IInv

\* Steps that leave the account, the checkpoint, the order and the deposits alone.
LEMMA BooksUnchanged ==
  ASSUME IInv, UNCHANGED <<actual, checkpoint, order, outside, orders>>, rows \subseteq rows',
         "checkpoint" \in rows
  PROVE  DriftBounded' /\ PhantomBounded'
<1>1. \A c \in Currencies : Drift(c)' = Drift(c)
  BY DEF Drift, Unbooked
<1> QED BY <1>1 DEF IInv, DriftBounded, PhantomBounded

\* The first checkpoint is the account itself; later reconciliations leave it alone.
LEMMA ReconcileStep == ASSUME IInv, NEW mode, Reconcile(mode) PROVE IInv'
<1> USE DEF Reconcile, IInv
<1>1. TypeOK'
  BY BooksAssumption DEF TypeOK, BooksTypeOK
<1>2. RowsInv'
  BY DEF RowsInv
<1>3. ReadInv'
  <2>1. CASE mode = "live" /\ "checkpoint" \in rows
    <3>1. Near(actual, checkpoint) /\ view' = actual /\ checkpoint' = checkpoint
      BY <2>1 DEF Reconciles
    <3> QED BY <2>1, <3>1 DEF ReadInv, Near
  <2>2. CASE mode = "live" /\ "checkpoint" \notin rows
    <3>1. Near(actual, actual)
      BY BooksAssumption DEF Near, TypeOK
    <3> QED BY <2>2, <3>1 DEF ReadInv, Near
  <2>3. CASE mode # "live"
    BY <2>3 DEF ReadInv
  <2> QED BY <2>1, <2>2, <2>3
<1>4. CASE "checkpoint" \in rows
  <2>1. BooksAgree'
    BY <1>4 DEF BooksAgree, Near
  <2>2. DriftBounded' /\ PhantomBounded'
    BY <1>4, BooksUnchanged
  <2> QED BY <1>1, <1>2, <1>3, <2>1, <2>2
<1>5. CASE "checkpoint" \notin rows
  <2>1. BooksAgree'
    BY <1>5 DEF RowsInv, BooksAgree
  <2>2. PhantomBounded'
    BY DEF PhantomBounded
  <2>3. ASSUME NEW c \in Currencies PROVE Drift(c)' = 0
    BY <1>5, <2>3 DEF Drift, Unbooked, Cash, RowsInv, TypeOK
  <2>4. DriftBounded'
    BY <2>3, Slack DEF DriftBounded, TypeOK
  <2> QED BY <1>1, <1>2, <1>3, <2>1, <2>2, <2>4
<1> QED BY <1>4, <1>5

\* The ledger is seeded from an account that agreed with the checkpoint.
LEMMA LoadLedgerStep == ASSUME IInv, LoadLedger PROVE IInv'
<1> USE DEF LoadLedger, IInv
<1>1. TypeOK'
  BY DEF TypeOK, BooksTypeOK, Zero
<1>2. RowsInv' /\ ReadInv'
  BY DEF RowsInv, ReadInv
<1>3. BooksAgree'
  BY DEF BooksAgree, ReadInv, Near
<1>4. DriftBounded' /\ PhantomBounded'
  BY BooksUnchanged DEF RowsInv
<1> QED BY <1>1, <1>2, <1>3, <1>4

\* The equity mark only adds a row.
LEMMA MarkEquityStep == ASSUME IInv, MarkEquity PROVE IInv'
<1> USE DEF MarkEquity, IInv
<1>1. TypeOK'
  BY DEF TypeOK, BooksTypeOK
<1>2. RowsInv' /\ ReadInv' /\ BooksAgree'
  BY DEF RowsInv, ReadInv, BooksAgree, Near
<1>3. DriftBounded' /\ PhantomBounded'
  BY BooksUnchanged DEF RowsInv
<1> QED BY <1>1, <1>2, <1>3

\* Sending an order only adds the order.
LEMMA TradeStep ==
  ASSUME IInv, NEW side \in Sides, NEW size, Trade(side, size) PROVE IInv'
<1> USE DEF Trade, IInv
<1>1. size \in Nat
  BY DEF TypeOK, Capacity, Currencies
<1>2. TypeOK'
  BY <1>1 DEF TypeOK, BooksTypeOK, Zero
<1>3. RowsInv' /\ ReadInv' /\ BooksAgree'
  BY DEF RowsInv, ReadInv, BooksAgree, Near
<1>4. \A c \in Currencies : Drift(c)' = Drift(c)
  BY DEF Drift, Unbooked, RowsInv
<1>5. DriftBounded' /\ PhantomBounded'
  BY <1>4 DEF DriftBounded, PhantomBounded
<1> QED BY <1>2, <1>3, <1>5

\* Whatever a process had read is forgotten, whatever it had committed stays.
LEMMA StopStep == ASSUME IInv, Stop PROVE IInv'
<1> USE DEF Stop, IInv
<1>1. TypeOK'
  BY DEF TypeOK, BooksTypeOK, Zero, NoClaim
<1>2. RowsInv' /\ ReadInv' /\ BooksAgree'
  BY DEF RowsInv, ReadInv, BooksAgree, Near
<1>3. DriftBounded' /\ PhantomBounded'
  BY BooksUnchanged DEF RowsInv
<1> QED BY <1>1, <1>2, <1>3

\* Fills move ledger and checkpoint alike, and what was unbooked is booked.
LEMMA BookStep == ASSUME IInv, Book PROVE IInv'
<1> USE DEF Book, IInv
<1> DEFINE moved == Effect(order.side, order.fill)
<1>1. order.fill \in Nat /\ moved \in [Currencies -> Int]
  BY EffectType DEF TypeOK
<1>2. \A c \in Currencies : /\ ledger'[c] = ledger[c] + moved[c]
                            /\ checkpoint'[c] = checkpoint[c] + moved[c]
  BY DEF Plus
<1>3. TypeOK'
  <2>1. \A c \in Currencies : ledger[c] + moved[c] \in Nat
    BY <1>1, EffectType DEF Fits, TypeOK, BooksTypeOK, Currencies, Sides
  <2>2. ledger' \in [Currencies -> Nat]
    BY <2>1 DEF Plus
  <2>3. checkpoint' \in [Currencies -> Int]
    BY <1>1 DEF Plus, TypeOK, BooksTypeOK
  <2> QED BY <2>2, <2>3 DEF TypeOK, BooksTypeOK
<1>4. RowsInv' /\ ReadInv'
  BY DEF RowsInv, ReadInv, TypeOK
<1>5. BooksAgree'
  BY <1>1, <1>2, BooksAssumption DEF BooksAgree, Near, TypeOK, BooksTypeOK
<1>6. ASSUME NEW c \in Currencies PROVE Drift(c)' = Drift(c)
  <2>1. Unbooked(c) = Cash(outside)[c] + moved[c] /\ Unbooked(c)' = Cash(outside)[c]
    BY DEF Unbooked, TypeOK, Cash
  <2> QED BY <1>1, <1>2, <2>1 DEF Drift, TypeOK, BooksTypeOK, Cash
<1>7. DriftBounded' /\ PhantomBounded'
  BY <1>6 DEF DriftBounded, PhantomBounded
<1> QED BY <1>3, <1>4, <1>5, <1>7

\* A confirmed order leaves the books as they are.
LEMMA ConfirmStep == ASSUME IInv, Confirm PROVE IInv'
<1> USE DEF Confirm, IInv
<1>1. TypeOK'
  BY BooksAssumption DEF TypeOK, BooksTypeOK, NoOrder, Sides
<1>2. RowsInv' /\ ReadInv' /\ BooksAgree'
  BY DEF RowsInv, ReadInv, BooksAgree, Near, NoOrder
<1>3. \A c \in Currencies : Drift(c)' = Drift(c)
  BY DEF Drift, Unbooked, NoOrder
<1>4. DriftBounded' /\ PhantomBounded'
  BY <1>3 DEF DriftBounded, PhantomBounded
<1> QED BY <1>1, <1>2, <1>4

\* An increase over the checkpoint is a deposit, up to the drift.
LEMMA CheckDepositStep ==
  ASSUME IInv, NEW r \in References, NEW a \in Amounts, CheckDeposit(r, a) PROVE IInv'
<1> USE DEF CheckDeposit, IInv
<1>1. a \in Nat
  BY BooksAssumption
<1>2. TypeOK'
  BY <1>1 DEF TypeOK, BooksTypeOK
<1>3. RowsInv' /\ BooksAgree'
  BY DEF RowsInv, BooksAgree, Near
<1>4. a <= outside + Rounding * orders
  <2>1. Drift("cash") = a - outside
    BY <1>1 DEF Drift, Unbooked, Cash, Currencies, TypeOK, BooksTypeOK
  <2>2. Drift("cash") <= Rounding * orders
    BY DEF DriftBounded, Currencies
  <2> QED BY <1>1, <2>1, <2>2, Slack DEF TypeOK
<1>5. ReadInv'
  BY <1>4 DEF ReadInv
<1>6. DriftBounded' /\ PhantomBounded'
  BY BooksUnchanged
<1> QED BY <1>2, <1>3, <1>5, <1>6

\* A deposit moves ledger and checkpoint alike.
LEMMA RecordDepositStep == ASSUME IInv, RecordDeposit PROVE IInv'
<1> USE DEF RecordDeposit, IInv
<1>1. claim.cash \in Nat /\ Cash(claim.cash) \in [Currencies -> Nat]
  BY DEF TypeOK, Cash
<1>2. \A c \in Currencies : /\ ledger'[c] = ledger[c] + Cash(claim.cash)[c]
                            /\ checkpoint'[c] = checkpoint[c] + Cash(claim.cash)[c]
  BY DEF Plus
<1>3. TypeOK'
  <2>1. gap' \in 0..(MaxGap + 1)
    BY BooksAssumption DEF TypeOK, BooksTypeOK
  <2>2. BooksTypeOK'
    BY <1>1, <2>1 DEF TypeOK, BooksTypeOK, Plus
  <2> QED BY <1>1, <2>2 DEF TypeOK, NoClaim
<1>4. RowsInv' /\ ReadInv'
  BY DEF RowsInv, ReadInv
<1>5. BooksAgree'
  BY <1>1, <1>2, BooksAssumption DEF BooksAgree, Near, TypeOK, BooksTypeOK
<1>6. ASSUME NEW c \in Currencies PROVE Drift(c)' = Drift(c)
  BY <1>1, <1>2 DEF Drift, Unbooked, Cash, RowsInv, TypeOK, BooksTypeOK
<1>7. DriftBounded'
  BY <1>6 DEF DriftBounded
<1>8. PhantomBounded'
  BY <1>1, Slack DEF PhantomBounded, ReadInv, TypeOK
<1> QED BY <1>3, <1>4, <1>5, <1>7, <1>8

\* A transfer is unbooked until it is recorded.
LEMMA TransferStep == ASSUME IInv, NEW a \in Amounts, Transfer(a) PROVE IInv'
<1> USE DEF Transfer, IInv
<1>1. a \in Nat /\ Cash(a) \in [Currencies -> Nat]
  BY BooksAssumption DEF Cash
<1>2. TypeOK'
  BY <1>1 DEF TypeOK, BooksTypeOK, Plus
<1>3. RowsInv' /\ BooksAgree'
  BY DEF RowsInv, BooksAgree, Near
<1>4. ReadInv'
  BY <1>1, Slack DEF ReadInv, Near, TypeOK
<1>5. ASSUME NEW c \in Currencies PROVE Drift(c)' = Drift(c)
  <2>1. Unbooked(c)' = Unbooked(c) + Cash(a)[c]
    <3>1. CASE order.status = "final"
      BY <1>1, <3>1, EffectType DEF Unbooked, Cash, TypeOK
    <3>2. CASE order.status # "final"
      BY <1>1, <3>2 DEF Unbooked, Cash, TypeOK
    <3> QED BY <3>1, <3>2
  <2>2. Unbooked(c) \in Int
    BY EffectType DEF Unbooked, Cash, TypeOK
  <2>3. actual'[c] = actual[c] + Cash(a)[c]
    BY DEF Plus
  <2> QED BY <1>1, <2>1, <2>2, <2>3 DEF Drift, TypeOK, BooksTypeOK
<1>6. DriftBounded'
  BY <1>5 DEF DriftBounded
<1>7. PhantomBounded'
  BY <1>1, Slack DEF PhantomBounded, TypeOK
<1> QED BY <1>2, <1>3, <1>4, <1>6, <1>7

\* A fill is unbooked until Book; only its rounding is drift.
LEMMA FillStep ==
  ASSUME IInv, NEW n \in 0..order.size, NEW off \in Errors, Fill(n, off) PROVE IInv'
<1> USE DEF Fill, IInv
<1> DEFINE moved == Effect(order.side, n)
<1>1. n \in Nat /\ moved \in [Currencies -> Int] /\ off \in [Currencies -> Int]
  BY EffectType, BooksAssumption DEF TypeOK, Errors
<1>2. \A c \in Currencies : actual'[c] = actual[c] + moved[c] + off[c]
  BY DEF Plus
<1>3. TypeOK'
  <2>1. actual' \in [Currencies -> Nat]
    <3>1. \A c \in Currencies : actual'[c] \in Nat
      BY <1>1, <1>2 DEF TypeOK
    <3> QED BY <3>1 DEF Plus
  <2>2. order'.status = "final" /\ order'.side = order.side
        /\ order'.size = order.size /\ order'.fill = n
    BY DEF TypeOK
  <2>3. order' \in [status : {"none", "sent", "final", "booked"}, side : Sides,
                    size : Nat, fill : Nat]
    BY <1>1, <2>2 DEF TypeOK
  <2> QED BY <2>1, <2>3 DEF TypeOK, BooksTypeOK
<1>4. RowsInv' /\ BooksAgree'
  BY DEF RowsInv, BooksAgree, Near, TypeOK
<1>5. pc = "idle"
  BY DEF RowsInv
<1>6. ReadInv'
  BY <1>5 DEF ReadInv
<1>7. ASSUME NEW c \in Currencies PROVE Drift(c)' = Drift(c) + off[c]
  <2>1. Unbooked(c) = Cash(outside)[c] /\ Unbooked(c)' = Cash(outside)[c] + moved[c]
    BY DEF Unbooked, TypeOK, Cash
  <2> QED BY <1>1, <1>2, <2>1 DEF Drift, TypeOK, BooksTypeOK, Cash
<1>8. \A c \in Currencies : off[c] <= Rounding /\ -off[c] <= Rounding
  BY BooksAssumption DEF Errors
<1>9. \A c \in Currencies : Drift(c) \in Int
  BY DEF Drift, Unbooked, Cash, TypeOK, BooksTypeOK
<1>10. DriftBounded'
  BY <1>1, <1>7, <1>8, <1>9, Slack, BooksAssumption DEF DriftBounded, TypeOK
<1>11. PhantomBounded'
  BY Slack, BooksAssumption DEF PhantomBounded, TypeOK
<1> QED BY <1>3, <1>4, <1>6, <1>10, <1>11

\* Time changes nothing but the gap.
LEMMA TickStep == ASSUME IInv, Tick PROVE IInv'
<1> USE DEF Tick, IInv
<1>1. TypeOK'
  BY BooksAssumption DEF TypeOK, BooksTypeOK, HistoryGap
<1>2. RowsInv' /\ ReadInv' /\ BooksAgree'
  BY DEF RowsInv, ReadInv, BooksAgree, Near
<1>3. DriftBounded' /\ PhantomBounded'
  BY BooksUnchanged
<1> QED BY <1>1, <1>2, <1>3

\* Every step preserves the invariant.
LEMMA NextHolds == IInv /\ [Next]_vars => IInv'
<1> SUFFICES ASSUME IInv, [Next]_vars PROVE IInv'
  OBVIOUS
<1>1. CASE UNCHANGED vars
  <2>1. \A c \in Currencies : Drift(c)' = Drift(c)
    BY <1>1 DEF vars, Drift, Unbooked
  <2>2. DriftBounded' /\ PhantomBounded'
    BY <1>1, <2>1 DEF vars, IInv, DriftBounded, PhantomBounded
  <2> QED
    BY <1>1, <2>2
    DEF vars, IInv, TypeOK, BooksTypeOK, RowsInv, ReadInv, BooksAgree, Near
<1>2. CASE Next
  BY <1>2, ReconcileStep, LoadLedgerStep, MarkEquityStep, TradeStep, StopStep, BookStep,
     ConfirmStep, CheckDepositStep, RecordDepositStep, TransferStep, FillStep,
     TickStep
  DEF Next, Fills, Sides
<1> QED BY <1>1, <1>2

-----------------------------------------------------------------------------
\* The inductive invariant: rows, reads in flight, agreement and drift of the books.
THEOREM BooksInvariance == Spec => []IInv
  BY InitHolds, NextHolds, PTL DEF Spec

\* Neither cash nor position of the strategy is ever negative.
THEOREM BooksTypeCorrect == Spec => []TypeOK
<1>1. IInv => TypeOK
  BY DEF IInv
<1> QED BY <1>1, BooksInvariance, PTL

\* The two books that fills and deposits are applied to stay within the seeding tolerance.
THEOREM BooksAgreeHolds == Spec => []BooksAgree
<1>1. IInv => BooksAgree
  BY DEF IInv
<1> QED BY <1>1, BooksInvariance, PTL

\* The checkpoint is off by accumulated rounding and by nothing else.
THEOREM DriftBoundedHolds == Spec => []DriftBounded
<1>1. IInv => DriftBounded
  BY DEF IInv
<1> QED BY <1>1, BooksInvariance, PTL

\* What was recorded without having arrived is at most accumulated rounding.
THEOREM PhantomBoundedHolds == Spec => []PhantomBounded
<1>1. IInv => PhantomBounded
  BY DEF IInv
<1> QED BY <1>1, BooksInvariance, PTL

\* funding.py's claim that an absent transfer cannot be accepted is true when fills are exact.
THEOREM ExactFillsNoPhantom == Rounding = 0 => (Spec => []NoPhantomDeposit)
<1>1. ASSUME Rounding = 0, IInv PROVE NoPhantomDeposit
  BY <1>1 DEF IInv, PhantomBounded, NoPhantomDeposit, TypeOK
<1> SUFFICES ASSUME Rounding = 0 PROVE Spec => []NoPhantomDeposit
  OBVIOUS
<1>2. IInv => NoPhantomDeposit
  BY <1>1
<1> QED BY <1>2, BooksInvariance, PTL

\* When fills are exact, record-deposit accepts exactly what was credited.
THEOREM ExactFillsExactDeposits == Rounding = 0 => (Spec => []DepositsExact)
<1> SUFFICES ASSUME Rounding = 0 PROVE Spec => []DepositsExact
  OBVIOUS
<1>1. ASSUME IInv PROVE DepositsExact
  <2> SUFFICES ASSUME "checkpoint" \in rows, order.status = "none"
               PROVE  actual["cash"] - checkpoint["cash"] = outside
    BY DEF DepositsExact
  <2>1. Drift("cash") = actual["cash"] - checkpoint["cash"] - outside
    BY <1>1 DEF IInv, Drift, Unbooked, Cash, Currencies, TypeOK, BooksTypeOK
  <2>2. Drift("cash") <= 0 /\ -Drift("cash") <= 0
    BY <1>1 DEF IInv, DriftBounded, Currencies, TypeOK
  <2> QED BY <1>1, <2>1, <2>2 DEF IInv, TypeOK, BooksTypeOK, Currencies
<1>2. IInv => DepositsExact
  BY <1>1
<1> QED BY <1>2, BooksInvariance, PTL
=============================================================================
