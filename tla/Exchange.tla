------------------------------ MODULE Exchange ------------------------------
(***************************************************************************)
(* The part of Coinbase that the trader talks to, as coinbase_client.py    *)
(* uses it: one immediate-or-cancel order per client order id, its fills,  *)
(* and the balances those fills move.  None of this code is in the         *)
(* repository; it is the environment of the modules that extend this one.  *)
(*                                                                         *)
(* A POST is a message on `wire`: it may reach the exchange long after the *)
(* client has stopped waiting for the answer, or never.  A fill is a pair  *)
(* <<order, k>>, the k-th execution of the order; it moves the same amount *)
(* each time, so the account's balance is the number of credited fills.    *)
(***************************************************************************)
EXTENDS Naturals, FiniteSets

CONSTANTS LiveIntents,   \* client order ids the live strategy may create
          MaxFills       \* executions one order can have at most

ASSUME MaxFillsAssumption == MaxFills \in Nat \ {0}
ASSUME LiveIntentsAssumption == IsFiniteSet(LiveIntents)

VARIABLES wire,          \* POSTs that have neither arrived nor been lost
          exStatus,      \* status of the order of each client id, or "none"
          executed,      \* number of executions of each order
          settled,       \* TRUE when the order's totals are final and complete
          credited       \* fills the account balances already show

exVars == <<wire, exStatus, executed, settled, credited>>

\* Representatives of the two sets of statuses: the client treats OPEN, PENDING,
\* QUEUED and EDIT_QUEUED alike, EXPIRED as CANCELLED and REJECTED as FAILED.
ActiveStatuses == {"OPEN", "CANCEL_QUEUED"}
FinalStatuses == {"FILLED", "CANCELLED", "FAILED"}

LiveFills == LiveIntents \X (1..MaxFills)
FillsOf(i) == {<<i, k>> : k \in 1..executed[i]}
ExecutedFills == {f \in LiveFills : f[2] <= executed[f[1]]}
Balance == Cardinality(credited)

ExchangeInit ==
  /\ wire = {}
  /\ exStatus = [i \in LiveIntents |-> "none"]
  /\ executed = [i \in LiveIntents |-> 0]
  /\ settled = [i \in LiveIntents |-> FALSE]
  /\ credited = {}

ExchangeTypeOK ==
  /\ wire \subseteq LiveIntents
  /\ exStatus \in [LiveIntents -> ActiveStatuses \union FinalStatuses \union {"none"}]
  /\ executed \in [LiveIntents -> 0..MaxFills]
  /\ settled \in [LiveIntents -> BOOLEAN]
  /\ credited \subseteq LiveFills

-----------------------------------------------------------------------------
\* The exchange accepts a POST and opens the order.
Deliver(i) ==
  /\ i \in wire
  /\ exStatus[i] = "none"
  /\ wire' = wire \ {i}
  /\ exStatus' = [exStatus EXCEPT ![i] = "OPEN"]
  /\ UNCHANGED <<executed, settled, credited>>

\* A POST is lost, or rejected by an answer that is lost.
Drop(i) ==
  /\ i \in wire
  /\ wire' = wire \ {i}
  /\ UNCHANGED <<exStatus, executed, settled, credited>>

\* The open order trades once more, also while a cancellation is queued.
Trade(i) ==
  /\ exStatus[i] \in ActiveStatuses
  /\ executed[i] < MaxFills
  /\ executed' = [executed EXCEPT ![i] = @ + 1]
  /\ UNCHANGED <<wire, exStatus, settled, credited>>

\* The order ends; a filled order has executions, a failed one has none.
Finish(i, s) ==
  /\ exStatus[i] \in ActiveStatuses
  /\ s = "FILLED" => executed[i] > 0
  /\ s = "FAILED" => executed[i] = 0
  /\ exStatus' = [exStatus EXCEPT ![i] = s]
  /\ UNCHANGED <<wire, executed, settled, credited>>

\* The totals of an ended order become final.
Settle(i) ==
  /\ exStatus[i] \in FinalStatuses
  /\ ~settled[i]
  /\ settled' = [settled EXCEPT ![i] = TRUE]
  /\ UNCHANGED <<wire, exStatus, executed, credited>>

\* The account balances catch up with one more execution.
Credit(f) ==
  /\ f \in ExecutedFills \ credited
  /\ credited' = credited \union {f}
  /\ UNCHANGED <<wire, exStatus, executed, settled>>

ExchangeNext ==
  \/ \E i \in LiveIntents :
       \/ Deliver(i)
       \/ Drop(i)
       \/ Trade(i)
       \/ \E s \in FinalStatuses : Finish(i, s)
       \/ Settle(i)
  \/ \E f \in LiveFills : Credit(f)

-----------------------------------------------------------------------------
(***************************************************************************)
(* What the reads answer.  GET order is truthful about the status.  Until  *)
(* the order is settled its number of fills may lag, but it does not show  *)
(* zero for an order that traded: this is the assumption under which the   *)
(* client closes an unfilled order whose totals are not settled.  The list *)
(* of fills is paginated and eventually consistent, so it shows some of    *)
(* the executions.                                                         *)
(***************************************************************************)
ReportedCounts(i) ==
  IF settled[i] THEN {executed[i]}
  ELSE {n \in 0..executed[i] : executed[i] > 0 => n > 0}

FillListings(i) == SUBSET (1..executed[i])

OpenOrders == {i \in LiveIntents : exStatus[i] \in ActiveStatuses}
=============================================================================
