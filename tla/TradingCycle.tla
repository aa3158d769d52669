---------------------------- MODULE TradingCycle ----------------------------
(***************************************************************************)
(* One trading cycle after another on one database: Orchestrator.run and   *)
(* the commands maintain-orders and doctor (__main__.py), under the        *)
(* process lock, with the schema, the strategy bindings, the slots, the    *)
(* decision records and the order intents they write (storage.py).  A      *)
(* process may fail or die between any two writes; between processes the   *)
(* operator may move a portfolio to another strategy.                      *)
(*                                                                         *)
(* What an executor does between SUBMITTING and the verdict is one outcome *)
(* here; module LiveExecutor has the detail.  The model's decision, prices *)
(* and sizes are a free choice between an order and none; the trading mode *)
(* is chosen at each start, and a later switch is one of the failures.     *)
(***************************************************************************)
EXTENDS StorageMigration, Integers, Sequences, FiniteSets

CONSTANTS Portfolios, Products, Strategies,
          Default,        \* the strategy named "default"
          Layouts,        \* the sequences of assets that may be configured
          Cadence,        \* cadence_minutes of each strategy, in units of time
          DayLength,      \* of a day, in units of time
          LegacyLedgers,  \* the sets of ledgers an older release may have left
          MaxTradesPerDay,
          MaxTime,        \* bound: last moment
          MaxCycles,      \* bound: rows of trading_cycles
          MaxMoves        \* bound: portfolios moved to another strategy

Asset == [portfolio : Portfolios, product : Products]
Modes == {"paper", "live"}
None == "none"

ASSUME CycleAssumption ==
  /\ Default \in Strategies
  /\ None \notin Strategies
  /\ IsFiniteSet(Portfolios) /\ IsFiniteSet(Products)
  /\ Layouts \subseteq Seq(Asset)
  /\ \A layout \in Layouts : \A i, j \in 1..Len(layout) : layout[i] = layout[j] => i = j
  /\ LegacyLedgers \subseteq SUBSET (Modes \X Portfolios)
  /\ Cadence \in [Strategies -> Nat \ {0}]
  /\ DayLength \in Nat \ {0} /\ MaxTradesPerDay \in Nat \ {0}
  /\ MaxTime \in Nat /\ MaxCycles \in Nat /\ MaxMoves \in Nat

CycleIds == 1..MaxCycles

VARIABLES now,         \* the clock
          strategyOf,  \* config: the strategy of each portfolio
          assets,      \* config: the enabled assets, in order
          bound,       \* portfolio_strategies
          ledgers,     \* strategy_state: the ledgers older than portfolio_strategies
          cycles,      \* trading_cycles
          log,         \* decision_records of each cycle and asset
          intents,     \* order_intents
          pc,          \* where the process that holds the lock is
          proc,        \* its local variables
          seen,        \* its counts of the day's trades
          moves        \* portfolios moved

configVars == <<strategyOf, assets, ledgers>>
storeVars == <<bound, cycles, log, intents>>
vars == <<now, schema, opening, configVars, storeVars, pc, proc, seen, moves>>

Idle == [mode |-> None, strategy |-> None, cycle |-> 0, next |-> 0,
         day |-> 0, todo |-> {}, failed |-> FALSE]
NoIntent == [status |-> None, mode |-> None, day |-> 0]
NoEntry == [execution |-> None, notional |-> FALSE, exposure |-> FALSE]

Init ==
  /\ StorageInit
  /\ now = 0 /\ moves = 0
  /\ strategyOf = [p \in Portfolios |-> Default] /\ assets \in Layouts
  /\ bound = [m \in Modes |-> [p \in Portfolios |-> None]]
  /\ ledgers \in LegacyLedgers
  /\ schema.version = 0 => ledgers = {}
  /\ cycles = <<>>
  /\ log = [c \in CycleIds |-> [a \in Asset |-> NoEntry]]
  /\ intents = [c \in CycleIds |-> [a \in Asset |-> NoIntent]]
  /\ pc = "off" /\ proc = Idle /\ seen = [p \in Portfolios |-> 0]

-----------------------------------------------------------------------------
\* Reading the store.

\* Mutant: an intent counts once it was submitted.
UnresolvedSent == {d \in CycleIds \X Asset : intents[d[1]][d[2]].status = "SENT"}

Unresolved == {d \in CycleIds \X Asset : intents[d[1]][d[2]].status \in {"PREPARED", "SENT"}}

Day(t) == t \div DayLength
Intended(m, p, day) ==
  {d \in CycleIds \X Asset :
     /\ intents[d[1]][d[2]].status # None
     /\ intents[d[1]][d[2]].mode = m /\ d[2].portfolio = p /\ intents[d[1]][d[2]].day = day}
TradesToday == [p \in Portfolios |-> Cardinality(Intended(proc.mode, p, Day(now)))]

\* The assets of this cycle's strategy, the one under way, and the one that follows an index.
Mine == {i \in 1..Len(assets) : strategyOf[assets[i].portfolio] = proc.strategy}
Current == assets[proc.next]
Follows(i, j) == j \in Mine /\ i < j /\ \A k \in Mine : i < k => j <= k

Entry == log[proc.cycle][Current]
Record(entry) == log' = [log EXCEPT ![proc.cycle][Current] = entry]

Goto(place) == pc' = place /\ UNCHANGED <<storageVars, proc, seen>>
Exit ==
  /\ pc' = "off" /\ proc' = Idle /\ seen' = [p \in Portfolios |-> 0]
  /\ CloseDatabase
Running == UNCHANGED <<now, configVars, moves>>
Recovering(cycle) ==
  /\ pc' = "recover" /\ proc' = [proc EXCEPT !.cycle = cycle, !.todo = Unresolved]
  /\ UNCHANGED <<storageVars, seen>>

-----------------------------------------------------------------------------
\* Starting: the lock, the database, the command, the strategy bindings, the slot.

Start ==
  /\ pc = "off"
  /\ OpenDatabase
  /\ pc' = "open"
  /\ Running /\ UNCHANGED <<storeVars, proc, seen>>

OpenFurther ==
  /\ pc = "open"
  /\ Migrate
  /\ Running /\ UNCHANGED <<storeVars, pc, proc, seen>>

\* maintain-orders; with nothing to recover it ends at once.
Maintain ==
  /\ pc = "open" /\ opening = "open"
  /\ Unresolved # {}
  /\ Recovering(0)
  /\ Running /\ UNCHANGED storeVars

Configured == {assets[i].portfolio : i \in 1..Len(assets)}

\* Mutant: a portfolio without a row may take any strategy.
PreviousRow(m, p) == bound[m][p]

\* A portfolio with a ledger but no row traded before there were strategies.
Previous(m, p) ==
  IF bound[m][p] # None THEN bound[m][p]
  ELSE IF <<m, p>> \in ledgers THEN Default ELSE None

\* bind_strategies, one transaction: PORTFOLIO_STRATEGY_CHANGED unless every portfolio agrees.
Bind(m) ==
  /\ pc = "open" /\ opening = "open"
  /\ \A p \in Configured : Previous(m, p) \in {None, strategyOf[p]}
  /\ bound' = [bound EXCEPT ![m] =
                 [p \in Portfolios |-> IF p \in Configured THEN strategyOf[p] ELSE @[p]]]

\* doctor and reconcile: the startup of a cycle without a cycle.
Doctor(m) ==
  /\ Bind(m)
  /\ Recovering(0)
  /\ Running /\ UNCHANGED <<cycles, log, intents>>

Run(m, s) ==
  /\ Bind(m)
  /\ pc' = "begin" /\ proc' = [proc EXCEPT !.mode = m, !.strategy = s]
  /\ Running /\ UNCHANGED <<storageVars, cycles, log, intents, seen>>

Slot == [strategy |-> proc.strategy, period |-> now \div Cadence[proc.strategy]]
\* Mutant: a cycle that did not complete may be started over.
SlotCompleted == \E c \in 1..Len(cycles) : cycles[c].slot = Slot /\ cycles[c].status = "COMPLETED"
SlotTaken == \E c \in 1..Len(cycles) : cycles[c].slot = Slot

\* begin_cycle, in a slot of its strategy that no cycle of either mode has claimed.
BeginCycle ==
  /\ pc = "begin" /\ Len(cycles) < MaxCycles
  /\ Mine # {}
  /\ ~SlotTaken
  /\ cycles' = Append(cycles, [slot |-> Slot, mode |-> proc.mode, status |-> "RUNNING"])
  /\ Recovering(Len(cycles'))
  /\ Running /\ UNCHANGED <<bound, log, intents>>

\* Nothing to do, PORTFOLIO_STRATEGY_CHANGED, STRATEGY_NOT_CONFIGURED, DUPLICATE_CYCLE, or a
\* scheduled start outside its window.
Refuse ==
  /\ pc \in {"open", "begin"}
  /\ Exit
  /\ Running /\ UNCHANGED storeVars

-----------------------------------------------------------------------------
\* Orders: what record_result writes, to the intent and its decision record at once.

Became(c, a, status) == intents' = [intents EXCEPT ![c][a].status = status]
Tells(c, a, execution, notional) ==
  log' = [log EXCEPT ![c][a].execution = execution, ![c][a].notional = notional]

\* _unknown; the first half of _settle, whose verdict awaits the balances; a verdict.
ReportUnknown(c, a) == Tells(c, a, "UNRESOLVED", FALSE) /\ Became(c, a, "SENT")
ReportBooked(c, a) == Tells(c, a, "VERDICT", FALSE) /\ Became(c, a, "SENT")
ReportVerdict(c, a) == Tells(c, a, "VERDICT", TRUE) /\ Became(c, a, "DONE")

\* recover_orders: an intent that is still PREPARED was never sent and is aborted; so is every
\* paper one.  The others get their verdict, or fills that await the balances.
Recover(c, a) ==
  /\ pc = "recover" /\ <<c, a>> \in proc.todo
  /\ \/ /\ ReportVerdict(c, a)
        /\ proc' = [proc EXCEPT !.todo = @ \ {<<c, a>>}]
     \/ /\ intents[c][a].status = "SENT"
        /\ ReportBooked(c, a)
        /\ UNCHANGED proc
  /\ Running /\ UNCHANGED <<storageVars, bound, cycles, pc, seen>>

\* Coinbase does not answer, or the order stays open; the next intent is recovered all the same.
RecoverFails(c, a) ==
  /\ pc = "recover" /\ <<c, a>> \in proc.todo
  /\ proc' = [proc EXCEPT !.todo = @ \ {<<c, a>>}, !.failed = TRUE]
  /\ \/ intents[c][a].status = "SENT" /\ ReportUnknown(c, a)
     \/ UNCHANGED <<log, intents>>
  /\ Running /\ UNCHANGED <<storageVars, bound, cycles, pc, seen>>

Finish(status) == cycles' = [cycles EXCEPT ![proc.cycle].status = status]

\* UNRESOLVED_PREVIOUS_ORDER, and every other failure: a cycle is put on HOLD.
Fail ==
  /\ pc \notin {"off", "open", "begin"}
  /\ IF proc.cycle = 0 THEN UNCHANGED cycles ELSE Finish("HOLD")
  /\ Exit
  /\ Running /\ UNCHANGED <<bound, log, intents>>

\* That is all for maintain-orders, and for doctor but for checks.  In a cycle the ledgers that
\* are missing are seeded, the account is reconciled, and budget is left.
Recovered ==
  /\ pc = "recover" /\ proc.todo = {} /\ ~proc.failed
  /\ IF proc.cycle = 0 THEN Exit ELSE Goto("decide")
  /\ Running /\ UNCHANGED storeVars

-----------------------------------------------------------------------------
\* The cycle.

\* The portfolios are valued, the preflight passes, and the model decides about every asset.
Decide ==
  /\ pc = "decide"
  /\ seen' = TradesToday
  /\ pc' = "record"
  /\ \E i \in Mine : Follows(0, i) /\ proc' = [proc EXCEPT !.next = i]
  /\ Running /\ UNCHANGED <<storageVars, storeVars>>

\* On to the next asset, or from the last one back to the first and to another place.
Advance(place, then) ==
  IF \E i \in Mine : proc.next < i
  THEN pc' = place /\ \E i \in Mine : Follows(proc.next, i) /\ proc' = [proc EXCEPT !.next = i]
  ELSE pc' = then /\ \E i \in Mine : Follows(0, i) /\ proc' = [proc EXCEPT !.next = i]

\* Mutant: each decision is recorded when its turn comes.
RecordOne ==
  /\ pc = "record"
  /\ Record([NoEntry EXCEPT !.execution = "NOT_ATTEMPTED"])
  /\ pc' = "assess"
  /\ Running /\ UNCHANGED <<storageVars, bound, cycles, intents, proc, seen>>

\* Every decision is recorded before the first order.
RecordDecision ==
  /\ pc = "record"
  /\ Record([NoEntry EXCEPT !.execution = "NOT_ATTEMPTED"])
  /\ Advance("record", "assess")
  /\ Running /\ UNCHANGED <<storageVars, bound, cycles, intents, seen>>

\* assess, for the given count of trades: what else it may reject for is left open.
\* MayTradeOnceMore: mutant, an order more than configured.
MayTradeOnceMore(p) == seen[p] <= MaxTradesPerDay
MayTrade(p) == seen[p] < MaxTradesPerDay

\* HOLD or rejected: nothing will be traded.
Decline ==
  /\ pc = "assess"
  /\ Record([Entry EXCEPT !.notional = TRUE, !.exposure = TRUE])
  /\ Advance("assess", "finish")
  /\ Running /\ UNCHANGED <<storageVars, bound, cycles, intents, seen>>

Approve ==
  /\ pc = "assess"
  /\ MayTrade(Current.portfolio)
  /\ Goto("refresh")
  /\ Running /\ UNCHANGED storeVars

\* prepare refuses while any order is unresolved; the guard values the portfolios again.
Refresh ==
  /\ pc = "refresh"
  /\ Unresolved = {}
  /\ seen' = TradesToday
  /\ pc' = "guard"
  /\ Running /\ UNCHANGED <<storageVars, storeVars, proc>>

\* The guard assesses again, at a later time, which dates the intent, and says PENDING.
Guard ==
  /\ pc = "guard"
  /\ MayTrade(Current.portfolio)
  /\ Record([Entry EXCEPT !.execution = "PENDING"])
  /\ pc' = "save" /\ proc' = [proc EXCEPT !.day = Day(now)]
  /\ Running /\ UNCHANGED <<storageVars, bound, cycles, intents, seen>>

\* What order_intents takes for a duplicate.
Duplicate(c, a) ==
  \E b \in Asset :
    /\ intents[c][b].status # None /\ b.product = a.product
    /\ schema.unique = "portfolio" => b.portfolio = a.portfolio

\* save_intent; DUPLICATE_ORDER_INTENT is a failure.
SaveIntent ==
  /\ pc = "save"
  /\ ~Duplicate(proc.cycle, Current)
  /\ intents' = [intents EXCEPT ![proc.cycle][Current] =
                   [status |-> "PREPARED", mode |-> proc.mode, day |-> proc.day]]
  /\ pc' = "execute" /\ proc' = [proc EXCEPT !.day = 0]
  /\ Running /\ UNCHANGED <<storageVars, bound, cycles, log, seen>>

\* The simulated order, committed with its effects.
ExecutePaper ==
  /\ pc = "execute" /\ proc.mode = "paper"
  /\ ReportVerdict(proc.cycle, Current)
  /\ Goto("rewrite")
  /\ Running /\ UNCHANGED <<bound, cycles>>

\* SUBMITTING, before the request.
Submit ==
  /\ pc = "execute" /\ proc.mode = "live"
  /\ Became(proc.cycle, Current, "SENT")
  /\ Goto("submitted")
  /\ Running /\ UNCHANGED <<bound, cycles, log>>

\* What execute returns, after any number of observations: a verdict or UNRESOLVED.
ExecuteLive ==
  /\ pc = "submitted"
  /\ \/ ReportVerdict(proc.cycle, Current) /\ Goto("rewrite")
     \/ ReportUnknown(proc.cycle, Current) /\ (Goto("rewrite") \/ Goto("submitted"))
     \/ ReportBooked(proc.cycle, Current) /\ Goto("submitted")
  /\ Running /\ UNCHANGED <<bound, cycles>>

\* Mutants: what was executed is recorded for any result; an unresolved result does not stop.
RewriteNotional ==
  /\ pc = "rewrite"
  /\ LET terminal == intents[proc.cycle][Current].status = "DONE"
     IN  /\ Record([Entry EXCEPT !.execution = IF terminal THEN "VERDICT" ELSE "UNRESOLVED",
                                 !.notional = TRUE])
         /\ Goto(IF terminal THEN "after" ELSE "unresolved")
  /\ Running /\ UNCHANGED <<bound, cycles, intents>>
RewriteOn ==
  /\ pc = "rewrite"
  /\ LET terminal == intents[proc.cycle][Current].status = "DONE"
     IN  /\ Record([Entry EXCEPT !.execution = IF terminal THEN "VERDICT" ELSE "UNRESOLVED",
                                 !.notional = terminal])
         /\ Goto("after")
  /\ Running /\ UNCHANGED <<bound, cycles, intents>>

\* The orchestrator writes the result into the record a second time.
Rewrite ==
  /\ pc = "rewrite"
  /\ LET terminal == intents[proc.cycle][Current].status = "DONE"
     IN  /\ Record([Entry EXCEPT !.execution = IF terminal THEN "VERDICT" ELSE "UNRESOLVED",
                                 !.notional = terminal])
         /\ Goto(IF terminal THEN "after" ELSE "unresolved")
  /\ Running /\ UNCHANGED <<bound, cycles, intents>>

\* Shared cash, exposure and counts are read again before the next asset.
AfterExecution ==
  /\ pc = "after"
  /\ seen' = TradesToday
  /\ Record([Entry EXCEPT !.exposure = TRUE])
  /\ Advance("assess", "finish")
  /\ Running /\ UNCHANGED <<storageVars, bound, cycles, intents>>

FinishCycle ==
  /\ pc = "finish"
  /\ Finish("COMPLETED")
  /\ Exit
  /\ Running /\ UNCHANGED <<bound, log, intents>>

-----------------------------------------------------------------------------
\* The environment.

Crash ==
  /\ pc # "off"
  /\ Exit
  /\ Running /\ UNCHANGED storeVars

Tick ==
  /\ now < MaxTime
  /\ now' = now + 1
  /\ UNCHANGED <<schema, opening, configVars, storeVars, pc, proc, seen, moves>>

\* The operator edits portfolios.*.strategy; a process has its own copy of the configuration.
Reassign(p, s) ==
  /\ pc = "off" /\ p \in Configured /\ strategyOf[p] # s
  /\ strategyOf' = [strategyOf EXCEPT ![p] = s]
  /\ moves < MaxMoves /\ moves' = moves + 1
  /\ UNCHANGED <<now, schema, opening, assets, ledgers, storeVars, pc, proc, seen>>

Process ==
  \/ OpenFurther \/ Maintain \/ Refuse \/ BeginCycle
  \/ \E m \in Modes : Doctor(m) \/ \E s \in Strategies : Run(m, s)
  \/ \E c \in CycleIds, a \in Asset : Recover(c, a) \/ RecoverFails(c, a)
  \/ Recovered \/ Fail
  \/ Decide \/ RecordDecision \/ Decline \/ Approve \/ Refresh \/ Guard
  \/ SaveIntent \/ ExecutePaper \/ Submit \/ ExecuteLive \/ Rewrite \/ AfterExecution
  \/ FinishCycle

Next ==
  \/ Start \/ Process \/ Crash \/ Tick
  \/ \E p \in Portfolios, s \in Strategies : Reassign(p, s)

Spec == Init /\ [][Next]_vars

-----------------------------------------------------------------------------
\* Properties.

Intent == [status : {None, "PREPARED", "SENT", "DONE"}, mode : Modes \union {None}, day : Nat]
LogEntry == [execution : {None, "NOT_ATTEMPTED", "PENDING", "UNRESOLVED", "VERDICT"},
             notional : BOOLEAN, exposure : BOOLEAN]
Cycle == [slot : [strategy : Strategies, period : Nat], mode : Modes,
          status : {"RUNNING", "COMPLETED", "HOLD"}]

Places == {"off", "open", "begin", "recover", "decide", "record", "assess", "refresh", "guard",
           "save", "execute", "submitted", "rewrite", "unresolved", "after", "finish"}
Local == [mode : Modes \union {None}, strategy : Strategies \union {None}, cycle : 0..MaxCycles,
          next : Nat, day : Nat, todo : SUBSET (CycleIds \X Asset), failed : BOOLEAN]

\* Every variable has its type.
TypeOK ==
  /\ StorageTypeOK
  /\ now \in Nat /\ moves \in Nat
  /\ strategyOf \in [Portfolios -> Strategies] /\ assets \in Layouts
  /\ bound \in [Modes -> [Portfolios -> Strategies \union {None}]]
  /\ ledgers \subseteq Modes \X Portfolios
  /\ cycles \in Seq(Cycle) /\ Len(cycles) <= MaxCycles
  /\ log \in [CycleIds -> [Asset -> LogEntry]]
  /\ intents \in [CycleIds -> [Asset -> Intent]]
  /\ pc \in Places /\ proc \in Local
  /\ seen \in [Portfolios -> Nat]

\* What a decision record says, and what became of its order, in the words of DecisionLog.
EntryOf(c, a) ==
  LET e == log[c][a]
  IN  CASE e.execution = None -> "none"
        [] e.execution = "NOT_ATTEMPTED" -> IF e.notional THEN "declined" ELSE "decided"
        [] OTHER -> IF e.exposure THEN (IF e.notional THEN "verified" ELSE "unfounded")
                    ELSE (IF e.notional THEN "closed" ELSE "announced")
OrderOf(c, a) ==
  CASE intents[c][a].status = None -> "none"
    [] intents[c][a].status = "DONE" -> "closed"
    [] OTHER -> "open"

Has(c, a) == intents[c][a].status # None

\* However often it is started, switched to the other mode, killed or started over: within one
\* period of its strategy the program opens at most one order for an asset.
OneOrderPerPeriod ==
  \A c, d \in 1..Len(cycles), a \in Asset :
    /\ c # d /\ Has(c, a) /\ Has(d, a)
    /\ cycles[c].slot.strategy = cycles[d].slot.strategy \/ cycles[c].mode = cycles[d].mode
    => cycles[c].slot # cycles[d].slot /\ cycles[c].slot.strategy = cycles[d].slot.strategy

\* In each mode the orders of a portfolio come from one strategy; from the default one if the
\* portfolio traded before strategies had names.
OneStrategy ==
  \A c, d \in 1..Len(cycles), a, b \in Asset :
    Has(c, a) /\ Has(d, b) /\ cycles[c].mode = cycles[d].mode /\ a.portfolio = b.portfolio
    => /\ cycles[c].slot.strategy = cycles[d].slot.strategy
       /\ <<cycles[c].mode, a.portfolio>> \in ledgers => cycles[c].slot.strategy = Default

\* No portfolio opens more orders in a day than its limit, in whichever cycles, and whenever
\* midnight falls between the count and the order.
TradesBounded ==
  \A m \in Modes, p \in Portfolios, day \in 0..Day(now) :
    Cardinality(Intended(m, p, day)) <= MaxTradesPerDay

\* There is never more than one order without a verdict, in both modes and all portfolios.
OneOpenOrder ==
  \A c, d \in CycleIds, a, b \in Asset :
    OrderOf(c, a) = "open" /\ OrderOf(d, b) = "open" => c = d /\ a = b

\* When a cycle opens its first order, all its decisions are on record.
DecisionsFirst ==
  (proc.cycle # 0 /\ \E a \in Asset : Has(proc.cycle, a)) =>
    \A i \in Mine : log[proc.cycle][assets[i]] # NoEntry

\* A process finds the schema it was written for, whatever file it opened and wherever earlier
\* processes died; portfolios that trade one product are never taken for duplicates.
SchemaServes == SchemaComplete /\ (pc = "save" => ~Duplicate(proc.cycle, Current))

Kept == INSTANCE DecisionLog WITH
  Decisions <- CycleIds \X Asset,
  entry <- [d \in CycleIds \X Asset |-> EntryOf(d[1], d[2])],
  order <- [d \in CycleIds \X Asset |-> OrderOf(d[1], d[2])]

\* The decision records keep the promise of module DecisionLog.
LogKept == Kept!LogSpec

\* A cycle marked COMPLETED left nothing open: each of its records says declined or verified.
CompletedSettled ==
  \A c \in 1..Len(cycles), a \in Asset :
    cycles[c].status = "COMPLETED" => EntryOf(c, a) \in {"none", "declined", "verified"}
=============================================================================
