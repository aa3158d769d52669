---------------------------- MODULE OrderPromise ----------------------------
(***************************************************************************)
(* What order execution promises the rest of the system, without a         *)
(* network, a process or a database: orders are pending one at a time;     *)
(* while one is pending it may trade; what it traded is booked whole and   *)
(* once; then it is closed, and nothing about it changes any more.         *)
(***************************************************************************)
EXTENDS Naturals, FiniteSets

CONSTANTS Orders, MaxFills

VARIABLES phase,     \* of each order: idle, pending or closed
          traded,    \* number of executions of each order
          recorded,  \* number of executions the books hold, of each order
          books      \* executions the books were charged for, all orders together

promiseVars == <<phase, traded, recorded, books>>

PromiseInit ==
  /\ phase = [o \in Orders |-> "idle"]
  /\ traded = [o \in Orders |-> 0]
  /\ recorded = [o \in Orders |-> 0]
  /\ books = 0

Begin(o) ==
  /\ phase[o] = "idle"
  /\ \A p \in Orders : phase[p] # "pending"
  /\ phase' = [phase EXCEPT ![o] = "pending"]
  /\ UNCHANGED <<traded, recorded, books>>

Execute(o) ==
  /\ phase[o] = "pending" /\ recorded[o] = 0
  /\ traded[o] < MaxFills
  /\ traded' = [traded EXCEPT ![o] = @ + 1]
  /\ UNCHANGED <<phase, recorded, books>>

\* All of the order's executions are booked in one step, which happens once.
BookTrades(o) ==
  /\ phase[o] = "pending" /\ recorded[o] = 0 /\ traded[o] > 0
  /\ recorded' = [recorded EXCEPT ![o] = traded[o]]
  /\ books' = books + traded[o]
  /\ UNCHANGED <<phase, traded>>

Close(o) ==
  /\ phase[o] = "pending" /\ recorded[o] = traded[o]
  /\ phase' = [phase EXCEPT ![o] = "closed"]
  /\ UNCHANGED <<traded, recorded, books>>

PromiseNext == \E o \in Orders : Begin(o) \/ Execute(o) \/ BookTrades(o) \/ Close(o)

PromiseSpec == PromiseInit /\ [][PromiseNext]_promiseVars
=============================================================================
