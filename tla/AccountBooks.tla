---------------------------- MODULE AccountBooks ----------------------------
(***************************************************************************)
(* Three accounts of one live portfolio and what keeps them together:      *)
(* the balances at Coinbase, the checkpoint of them in exchange_state, and *)
(* the strategy ledger in strategy_state.  portfolio.py compares them with *)
(* a tolerance, seeds the latter two from the first, and applies fills to  *)
(* both; funding.py adds external deposits to both.  The checkpoint is     *)
(* never rebased on what a comparison tolerated.                           *)
(*                                                                         *)
(* Amounts are integers in units of the rounding of balances; the price is *)
(* one and fees are part of the amounts.  What becomes of an order between *)
(* its request and its final status is the subject of LiveExecutor; here   *)
(* an order is sent, final, booked, and gone once it is terminal.          *)
(***************************************************************************)
EXTENDS Integers, FiniteSets

CONSTANTS References,   \* references an operator may give to record-deposit
          None,         \* no reference
          Amounts,      \* sizes of external deposits
          Tolerance,    \* balance_tolerance_quote and _base, by currency
          MaxGap,       \* the six days of reconciliation_reasons, in ticks
          Rounding,     \* most that a balance moves beside what its fills say
          MaxOpening,   \* bound: balances before the first command
          MaxOutside,   \* bound: deposits that wait to be recorded
          MaxOrders,    \* bound: orders sent
          DepositsWait  \* TRUE when deposits are made as the README prescribes

Currencies == {"cash", "base"}

ASSUME BooksAssumption ==
  /\ IsFiniteSet(References) /\ None \notin References
  /\ Amounts \subseteq Nat \ {0}
  /\ Tolerance \in [Currencies -> Nat]
  /\ MaxGap \in Nat /\ Rounding \in Nat /\ MaxOpening \in Nat /\ MaxOutside \in Nat /\ MaxOrders \in Nat
  /\ DepositsWait \in BOOLEAN

VARIABLES actual,      \* balances at Coinbase
          rows,        \* which of checkpoint, ledger and mark exist
          checkpoint,  \* exchange_state.balances
          gap,         \* ticks since exchange_state.last_reconciled_at, to MaxGap + 1
          ledger,      \* strategy_state, mode live: cash, and the position
          deposits,    \* cash_deposits: amount of each reference, 0 if not recorded
          order,       \* the portfolio's unresolved order
          pc, view,    \* where the process is, and the account as it read it
          claim,       \* record_deposit: the reference and the amount it checked
          outside,     \* history: deposits since the checkpoint minus recorded ones
          orders       \* history: orders that traded

books == <<rows, checkpoint, gap, ledger, deposits>>
vars == <<actual, books, order, pc, view, claim, outside, orders>>

NoOrder == [status |-> "none", side |-> "BUY", size |-> 0, fill |-> 0]
NoClaim == [ref |-> None, cash |-> 0]
Zero == [c \in Currencies |-> 0]

\* reconciliation_reasons: no balance differs by more than its tolerance.
Near(f, g) == \A c \in Currencies : f[c] - g[c] <= Tolerance[c] /\ g[c] - f[c] <= Tolerance[c]

\* RECONCILIATION_HISTORY_GAP: the window of recent fills no longer reaches back to the
\* last reconciliation.
HistoryGap == gap > MaxGap

\* reconciliation_reasons finds nothing; Storage.exchange_seen then moves the checkpoint's time.
Reconciles == Near(actual, checkpoint) /\ ~HistoryGap

Plus(f, g) == [c \in Currencies |-> f[c] + g[c]]
Cash(a) == [c \in Currencies |-> IF c = "cash" THEN a ELSE 0]

\* apply_fills, expected_after_fills: what n units bought or sold do to the books.
Effect(side, n) ==
  [c \in Currencies |-> IF (side = "BUY") = (c = "base") THEN n ELSE -n]

Init ==
  /\ actual \in [Currencies -> 0..MaxOpening]
  /\ rows = {} /\ checkpoint = Zero /\ gap = 0 /\ ledger = Zero
  /\ deposits = [r \in References |-> 0]
  /\ order = NoOrder
  /\ pc = "idle" /\ view = Zero /\ claim = NoClaim
  /\ outside = 0 /\ orders = 0

-----------------------------------------------------------------------------
\* A trading cycle of the live strategy, up to its order.

\* Mutant: a paper cycle rebases the checkpoint on the difference it observed.
ReconcileAccepting(mode) ==
  /\ pc = "idle" /\ order.status = "none"
  /\ "checkpoint" \in rows /\ mode = "live" => Reconciles
  /\ rows' = rows \union {"checkpoint"}
  /\ checkpoint' = IF "checkpoint" \in rows /\ mode = "live" THEN checkpoint ELSE actual
  /\ gap' = 0
  /\ IF mode = "live" THEN pc' = "load" /\ view' = actual ELSE UNCHANGED <<pc, view>>
  /\ UNCHANGED <<actual, ledger, deposits, order, claim, outside, orders>>

\* reconcile_actual, once recover_orders found nothing unresolved.  In paper mode a
\* different balance or a history gap is an observation only, which leaves the checkpoint
\* and its time alone; either mode may make the first checkpoint.
Reconcile(mode) ==
  /\ pc = "idle" /\ order.status = "none"
  /\ "checkpoint" \in rows /\ mode = "live" => Reconciles
  /\ rows' = rows \union {"checkpoint"}
  /\ checkpoint' = IF "checkpoint" \in rows THEN checkpoint ELSE actual
  /\ gap' = IF "checkpoint" \in rows /\ ~Reconciles THEN gap ELSE 0
  /\ IF mode = "live" THEN pc' = "load" /\ view' = actual ELSE UNCHANGED <<pc, view>>
  /\ UNCHANGED <<actual, ledger, deposits, order, claim, outside, orders>>

\* CoinbaseLiveExecutor.load_ledger: seed_ledger the first time, then the ledger must
\* agree with the account.  The strategy goes on with the account's balances.
LoadLedger ==
  /\ pc = "load"
  /\ rows' = rows \union {"ledger"}
  /\ ledger' = IF "ledger" \in rows THEN ledger ELSE view
  /\ IF Near(ledger', view) THEN pc' = "mark" /\ view' = view ELSE pc' = "idle" /\ view' = Zero
  /\ UNCHANGED <<actual, checkpoint, gap, deposits, order, claim, outside, orders>>

\* value_portfolio: the day's equity mark.
MarkEquity ==
  /\ pc = "mark"
  /\ rows' = rows \union {"mark"} /\ pc' = "trade"
  /\ UNCHANGED <<actual, checkpoint, gap, ledger, deposits, order, view, claim, outside, orders>>

\* assess: an order never exceeds what the account read shows.
Capacity(side) == IF side = "BUY" THEN view["cash"] ELSE view["base"]

Trade(side, size) ==
  /\ pc = "trade" /\ orders < MaxOrders
  /\ size \in 1..Capacity(side)
  /\ order' = [status |-> "sent", side |-> side, size |-> size, fill |-> 0]
  /\ pc' = "idle" /\ view' = Zero
  /\ UNCHANGED <<actual, books, claim, outside, orders>>

\* The process ends without an order or a deposit, or dies.
Stop ==
  /\ pc # "idle"
  /\ pc' = "idle" /\ view' = Zero /\ claim' = NoClaim
  /\ UNCHANGED <<actual, books, order, outside, orders>>

-----------------------------------------------------------------------------
\* _settle, by the process that sent the order or by a later one.

\* Mutants: fills are applied whatever the books hold; the whole position cannot be sold,
\* nor all cash spent.
FitsAlways == TRUE
FitsStrictly == /\ order.side = "SELL" => order.fill < ledger["base"]
                /\ order.side = "BUY" => order.fill < ledger["cash"]

\* apply_fills raises FILL_EXCEEDS_POSITION or FILL_EXCEEDS_CASH otherwise, and nothing
\* is recorded.
Fits == /\ order.side = "SELL" => order.fill <= ledger["base"]
        /\ order.side = "BUY" => order.fill <= ledger["cash"]

\* Mutant: the expected balances are left to the next reconciliation.
BookLedgerOnly ==
  /\ pc = "idle" /\ order.status = "final" /\ Fits
  /\ ledger' = Plus(ledger, Effect(order.side, order.fill))
  /\ order' = [order EXCEPT !.status = "booked"]
  /\ UNCHANGED <<actual, rows, checkpoint, gap, deposits, pc, view, claim, outside, orders>>

\* One transaction: fills, ledger and expected balances.
Book ==
  /\ pc = "idle" /\ order.status = "final" /\ Fits
  /\ LET moved == Effect(order.side, order.fill) IN
       /\ ledger' = Plus(ledger, moved)
       /\ checkpoint' = Plus(checkpoint, moved)
  /\ order' = [order EXCEPT !.status = "booked"]
  /\ UNCHANGED <<actual, rows, gap, deposits, pc, view, claim, outside, orders>>

\* The account agrees with the expected balances, and no history gap has opened since they
\* were last seen to: the order is terminal.
Confirm ==
  /\ pc = "idle" /\ order.status = "booked"
  /\ Reconciles
  /\ gap' = 0 /\ order' = NoOrder
  /\ UNCHANGED <<actual, rows, checkpoint, ledger, deposits, pc, view, claim, outside, orders>>

-----------------------------------------------------------------------------
\* funding.record_deposit.

\* Mutant: pending orders are not looked for, so what a sale earned passes for a deposit.
CheckDepositPending(r, a) ==
  /\ pc = "idle"
  /\ deposits[r] = 0
  /\ rows = {"checkpoint", "ledger", "mark"}
  /\ Near(ledger, checkpoint)
  /\ actual["cash"] - checkpoint["cash"] = a
  /\ Near(actual, Plus(checkpoint, Cash(a))) /\ ~HistoryGap
  /\ pc' = "deposit" /\ claim' = [ref |-> r, cash |-> a]
  /\ UNCHANGED <<actual, books, order, view, outside, orders>>

\* A reference that is recorded already changes nothing.  A new one needs resolved orders,
\* the three baselines, books that agree, no history gap, and an increase of exactly the
\* declared amount.
CheckDeposit(r, a) ==
  /\ pc = "idle" /\ order.status = "none"
  /\ deposits[r] = 0
  /\ rows = {"checkpoint", "ledger", "mark"}
  /\ Near(ledger, checkpoint)
  /\ actual["cash"] - checkpoint["cash"] = a
  /\ Near(actual, Plus(checkpoint, Cash(a))) /\ ~HistoryGap
  /\ pc' = "deposit" /\ claim' = [ref |-> r, cash |-> a]
  /\ UNCHANGED <<actual, books, order, view, outside, orders>>

\* Storage.record_deposit, one transaction.  The checkpoint is then as old as the account
\* read of CheckDeposit.
RecordDeposit ==
  /\ pc = "deposit"
  /\ deposits' = [deposits EXCEPT ![claim.ref] = claim.cash]
  /\ ledger' = Plus(ledger, Cash(claim.cash))
  /\ checkpoint' = Plus(checkpoint, Cash(claim.cash))
  /\ gap' \in 0..gap
  /\ outside' = outside - claim.cash
  /\ pc' = "idle" /\ claim' = NoClaim
  /\ UNCHANGED <<actual, rows, order, view, orders>>

-----------------------------------------------------------------------------
\* The world outside.

\* USDC is credited to the portfolio.  The README asks to resolve orders and to pause the
\* timers first; DepositsWait says whether that is done.
Transfer(a) ==
  /\ DepositsWait => order.status = "none" /\ pc = "idle"
  /\ "checkpoint" \in rows /\ outside + a <= MaxOutside
  /\ actual' = Plus(actual, Cash(a))
  /\ outside' = outside + a
  /\ UNCHANGED <<books, order, pc, view, claim, orders>>

\* The order ends with n units traded.  The balances move by what the fills say, up to
\* rounding: coinbase_client.py divides sizes in quote, execution.py tolerates the rest.
Fill(n, off) ==
  /\ order.status = "sent" /\ n <= order.size
  /\ n = 0 => off = Zero
  /\ actual' = Plus(Plus(actual, Effect(order.side, n)), off)
  /\ \A c \in Currencies : actual'[c] >= 0
  /\ order' = [order EXCEPT !.status = "final", !.fill = n]
  /\ orders' = orders + 1
  /\ UNCHANGED <<books, pc, view, claim, outside>>

\* Time passes since the last reconciliation.
Tick ==
  /\ "checkpoint" \in rows /\ ~HistoryGap
  /\ gap' = gap + 1
  /\ UNCHANGED <<actual, rows, checkpoint, ledger, deposits, order, pc, view, claim,
                 outside, orders>>

Errors == [Currencies -> (-Rounding)..Rounding]
Fills == \E n \in 0..order.size, off \in Errors : Fill(n, off)

Next ==
  \/ \E mode \in {"live", "paper"} : Reconcile(mode)
  \/ LoadLedger \/ MarkEquity
  \/ \E side \in {"BUY", "SELL"} : \E size \in 1..Capacity(side) : Trade(side, size)
  \/ Stop \/ Book \/ Confirm
  \/ \E r \in References, a \in Amounts : CheckDeposit(r, a)
  \/ RecordDeposit
  \/ \E a \in Amounts : Transfer(a)
  \/ Fills \/ Tick

Spec == Init /\ [][Next]_vars

\* The exchange ends its orders, a process ends, and the maintenance timer starts another
\* while an order is unresolved.
FairSpec == Spec /\ WF_vars(Fills) /\ WF_vars(Stop) /\ WF_vars(Book) /\ WF_vars(Confirm)

-----------------------------------------------------------------------------
\* Properties.

Sides == {"BUY", "SELL"}
BooksTypeOK ==
  /\ rows \subseteq {"checkpoint", "ledger", "mark"}
  /\ checkpoint \in [Currencies -> Int]
  /\ gap \in 0..(MaxGap + 1)
  /\ ledger \in [Currencies -> Nat]
  /\ deposits \in [References -> Nat]

\* Every variable has its type: neither cash nor position of the strategy is ever negative.
TypeOK ==
  /\ BooksTypeOK
  /\ actual \in [Currencies -> Nat]
  /\ order \in [status : {"none", "sent", "final", "booked"}, side : Sides, size : Nat, fill : Nat]
  /\ pc \in {"idle", "load", "mark", "trade", "deposit"}
  /\ view \in [Currencies -> Nat]
  /\ claim \in [ref : References \union {None}, cash : Nat]
  /\ pc = "deposit" => claim.ref \in References
  /\ outside \in Int
  /\ orders \in Nat

\* Ledger and checkpoint never differ by more than the tolerance they were seeded within,
\* whatever was traded, deposited or interrupted since: a deposit that reconciles is never
\* refused with STRATEGY_CASH_MISMATCH or STRATEGY_POSITION_MISMATCH.
BooksAgree == {"checkpoint", "ledger"} \subseteq rows => Near(ledger, checkpoint)

\* What the balances hold beyond the checkpoint: deposits to be recorded, and fills to be booked.
Unbooked(c) == Cash(outside)[c]
               + IF order.status = "final" THEN Effect(order.side, order.fill)[c] ELSE 0
Drift(c) == actual[c] - checkpoint[c] - Unbooked(c)

\* The checkpoint is off by the rounding of the orders so far and by nothing else.  It is
\* not reset by a reconciliation, so enough orders exceed any tolerance.
DriftBounded ==
  "checkpoint" \in rows =>
    \A c \in Currencies : Drift(c) <= Rounding * orders /\ -Drift(c) <= Rounding * orders

\* Recorded deposits exceed those that arrived by accumulated rounding at most: one transfer
\* is never recorded under two references, and trading gains are not taken for funding.
PhantomBounded == -outside <= Rounding * orders

\* funding.py: "A second reference cannot credit the same small deposit again, and an
\* absent transfer cannot be accepted."
NoPhantomDeposit == outside >= 0

\* execution.py: "Record actual fills even when post-trade balances have not yet converged":
\* the fills of a final order can be recorded.
FillsRecordable == order.status = "final" => Fits

\* README: declare "the exact credited USDC amount".  While no order is pending, that is what
\* record-deposit demands when fills are exact; with rounding, it refuses a true deposit.
DepositsExact ==
  "checkpoint" \in rows /\ order.status = "none" => actual["cash"] - checkpoint["cash"] = outside

\* When deposits are made as the README says and fills are exact, every order is booked and
\* confirmed in the end, unless this takes until the history gap, when the operator has to
\* review the account.
OrdersResolve == order.status # "none" ~> order.status = "none" \/ HistoryGap

(***************************************************************************)
(* The inductive invariant: which rows exist when, what the account read   *)
(* of a process is still good for, and what a checked claim is worth.      *)
(***************************************************************************)
RowsInv ==
  /\ "checkpoint" \notin rows => rows = {} /\ outside = 0 /\ orders = 0
  /\ pc # "idle" => "checkpoint" \in rows /\ order.status = "none"
  /\ order.status # "none" => {"checkpoint", "ledger"} \subseteq rows
  /\ pc \in {"mark", "trade", "deposit"} => "ledger" \in rows

ReadInv ==
  /\ pc = "load" => Near(view, checkpoint)
  /\ pc = "deposit" => claim.cash <= outside + Rounding * orders

IInv == TypeOK /\ RowsInv /\ ReadInv /\ BooksAgree /\ DriftBounded /\ PhantomBounded
=============================================================================
