------------------------- MODULE TradingCycleProofs -------------------------
(***************************************************************************)
(* Proofs about TradingCycle, for any portfolios, products, strategies,    *)
(* cadences and bounds.  The invariant comes in layers, each proved with   *)
(* the ones before it: where a process is and what it holds; slots and     *)
(* strategy bindings; decision records, intents and the one open order;    *)
(* the trades of a day.                                                    *)
(***************************************************************************)
EXTENDS TradingCycle, FiniteSetTheorems, TLAPS

\* Replacing one element of a function of two arguments.
LEMMA Update ==
  ASSUME NEW S, NEW T, NEW V, NEW f \in [S -> [T -> V]], NEW s, NEW t, NEW v,
         s \in S /\ t \in T => v \in V
  PROVE  LET g == [f EXCEPT ![s][t] = v]
         IN  /\ g \in [S -> [T -> V]]
             /\ s \in S /\ t \in T => g[s][t] = v
             /\ \A x \in S, y \in T : x # s \/ y # t => g[x][y] = f[x][y]
OBVIOUS

\* Appending a cycle keeps the earlier ones.
LEMMA Appended ==
  ASSUME NEW S, NEW s \in Seq(S), NEW e \in S
  PROVE  /\ Append(s, e) \in Seq(S) /\ Len(Append(s, e)) = Len(s) + 1 /\ Len(s) \in Nat
         /\ Append(s, e)[Len(s) + 1] = e
         /\ \A i \in 1..Len(s) : Append(s, e)[i] = s[i]
OBVIOUS

-----------------------------------------------------------------------------
\* The database file: what is still missing at each statement of Storage.__init__.

Migrated ==
  /\ schema.unique = "none" => schema.version = 0 /\ opening \in {"closed", "create"}
  /\ schema.unique = "product" =>
       schema.version \in {1, 2} /\ opening \in {"closed", "create", "rebuild"}
  /\ opening \in {"stamp", "strategy", "audit", "open"} => schema.funding
  /\ opening \in {"audit", "open"} => schema.strategy
  /\ opening = "open" => schema.audit

\* The fields of a schema, one of them replaced.
LEMMA SchemaFields ==
  ASSUME StorageTypeOK
  PROVE  /\ schema.version \in Supported /\ schema.unique \in {"none", "product", "portfolio"}
         /\ schema.funding \in BOOLEAN /\ schema.strategy \in BOOLEAN /\ schema.audit \in BOOLEAN
BY DEF StorageTypeOK

\* Every statement of Storage.__init__, wherever the last process died, leads to the full schema.
LEMMA StorageStep ==
  ASSUME StorageTypeOK, Migrated, OpenDatabase \/ Migrate \/ CloseDatabase \/ UNCHANGED storageVars
  PROVE  StorageTypeOK' /\ Migrated'
<1> USE DEF StorageTypeOK, Migrated, Supported
<1>1. CASE OpenDatabase
  BY <1>1 DEF OpenDatabase, Complete
<1>2. CASE CreateTables
  BY <1>2 DEF CreateTables, Stored
<1>3. CASE RebuildIntents
  BY <1>3 DEF RebuildIntents, Stored
<1>4. CASE AddFundingTotal
  BY <1>4 DEF AddFundingTotal, Stored
<1>5. CASE StampVersion
  BY <1>5 DEF StampVersion, Stored
<1>6. CASE AddStrategy
  BY <1>6 DEF AddStrategy, Stored
<1>7. CASE CreateAuditTables
  BY <1>7 DEF CreateAuditTables, Stored
<1>8. CASE CloseDatabase
  BY <1>8 DEF CloseDatabase
<1>9. CASE UNCHANGED storageVars
  BY <1>9 DEF storageVars
<1>10. QED
  BY <1>1, <1>2, <1>3, <1>4, <1>5, <1>6, <1>7, <1>8, <1>9 DEF Migrate

\* The initial file, new or old.
LEMMA StorageInitially == StorageInit => StorageTypeOK /\ Migrated
<1> SUFFICES ASSUME StorageInit PROVE StorageTypeOK /\ Migrated
  OBVIOUS
<1>1. CASE schema = NewFile
  BY <1>1 DEF StorageInit, NewFile, StorageTypeOK, Migrated, Supported
<1>2. CASE schema = Legacy(1, "product", FALSE)
  BY <1>2 DEF StorageInit, Legacy, StorageTypeOK, Migrated, Supported
<1>3. CASE schema = Legacy(2, "product", FALSE)
  BY <1>3 DEF StorageInit, Legacy, StorageTypeOK, Migrated, Supported
<1>4. CASE schema = Legacy(3, "portfolio", FALSE)
  BY <1>4 DEF StorageInit, Legacy, StorageTypeOK, Migrated, Supported
<1>5. CASE schema = Legacy(4, "portfolio", TRUE)
  BY <1>5 DEF StorageInit, Legacy, StorageTypeOK, Migrated, Supported
<1>6. QED
  BY <1>1, <1>2, <1>3, <1>4, <1>5 DEF StorageInit, OldFiles

-----------------------------------------------------------------------------
\* Where a process is, and what it holds there.

AtAsset == {"record", "assess", "refresh", "guard", "save", "execute", "submitted", "rewrite",
            "unresolved", "after", "finish"}
InCycle == AtAsset \union {"decide"}

Where ==
  /\ pc = "off" <=> opening = "closed"
  /\ pc \notin {"off", "open"} => opening = "open"
  /\ pc \in {"off", "open"} => proc = Idle
  /\ pc = "begin" => proc.cycle = 0 /\ proc.mode \in Modes /\ proc.strategy \in Strategies
  /\ pc \in InCycle => proc.cycle # 0
  /\ pc \in AtAsset => proc.next \in Mine
  /\ proc.cycle # 0 =>
       /\ proc.cycle = Len(cycles)
       /\ cycles[proc.cycle].slot.strategy = proc.strategy
       /\ cycles[proc.cycle].mode = proc.mode
       /\ cycles[proc.cycle].status = "RUNNING"
       /\ Mine # {}

Layer1 == TypeOK /\ Migrated /\ Where

\* The asset under way and the cycle are proper ones.
LEMMA Here ==
  ASSUME TypeOK, Where, pc \in AtAsset
  PROVE  /\ Current \in Asset /\ Current.portfolio \in Portfolios
         /\ proc.cycle \in CycleIds /\ proc.cycle \in 1..Len(cycles)
         /\ Entry \in LogEntry /\ proc.next \in 1..Len(assets)
<1>1. assets \in Seq(Asset)
  BY CycleAssumption DEF TypeOK
<1>2. proc.next \in 1..Len(assets)
  BY DEF Where, Mine
<1>3. Current \in Asset
  BY <1>1, <1>2 DEF Current
<1>4. proc.cycle # 0 /\ proc.cycle = Len(cycles) /\ Len(cycles) <= MaxCycles /\ proc.cycle \in Nat
  BY DEF Where, TypeOK, InCycle, Local
<1>5. proc.cycle \in CycleIds
  BY <1>4, CycleAssumption DEF CycleIds
<1>6. log[proc.cycle][Current] \in LogEntry
  BY <1>3, <1>5 DEF TypeOK
<1>7. QED
  BY <1>2, <1>3, <1>4, <1>5, <1>6 DEF Entry, Asset

\* The fields of a record of a process's local variables.
LEMMA Locals ==
  ASSUME TypeOK
  PROVE  /\ proc.mode \in Modes \union {None} /\ proc.strategy \in Strategies \union {None}
         /\ proc.cycle \in 0..MaxCycles /\ proc.next \in Nat /\ proc.day \in Nat
         /\ proc.todo \in SUBSET (CycleIds \X Asset) /\ proc.failed \in BOOLEAN
BY DEF TypeOK, Local

\* Advance leads to one of the cycle's assets and changes nothing else of the process.
LEMMA Advanced ==
  ASSUME TypeOK, NEW place, NEW then, Advance(place, then)
  PROVE  /\ pc' \in {place, then} /\ proc' \in Local /\ proc'.next \in Mine
         /\ proc' = [proc EXCEPT !.next = proc'.next]
<1>1. PICK i \in Mine : proc' = [proc EXCEPT !.next = i] /\ pc' \in {place, then}
  BY DEF Advance
<1>2. i \in Nat
  BY CycleAssumption DEF Mine, TypeOK
<1>3. QED
  BY <1>1, <1>2 DEF TypeOK, Local

\* A record, or a part of one, is replaced by another.
LEMMA Recorded ==
  ASSUME TypeOK, pc \in AtAsset, Where, NEW entry \in LogEntry, Record(entry)
  PROVE  log' \in [CycleIds -> [Asset -> LogEntry]]
BY Here DEF TypeOK, Record

\* What record_result writes to a decision record is one.
LEMMA Told ==
  ASSUME TypeOK, NEW c \in CycleIds, NEW a \in Asset,
         NEW execution \in {"VERDICT", "UNRESOLVED"}, NEW notional \in BOOLEAN,
         Tells(c, a, execution, notional)
  PROVE  log' \in [CycleIds -> [Asset -> LogEntry]]
<1>1. log[c][a] \in LogEntry
  BY DEF TypeOK
<1>2. [log[c][a] EXCEPT !.execution = execution, !.notional = notional] \in LogEntry
  BY <1>1 DEF LogEntry
<1>3. log' = [log EXCEPT ![c][a] = [log[c][a] EXCEPT !.execution = execution, !.notional = notional]]
  BY DEF Tells, TypeOK
<1>4. QED
  BY <1>2, <1>3 DEF TypeOK

\* An intent keeps its type when its status changes.
LEMMA BecameIntent ==
  ASSUME TypeOK, NEW c \in CycleIds, NEW a \in Asset, NEW status \in {"PREPARED", "SENT", "DONE"},
         Became(c, a, status)
  PROVE  /\ intents' \in [CycleIds -> [Asset -> Intent]]
         /\ intents' = [intents EXCEPT ![c][a] = [intents[c][a] EXCEPT !.status = status]]
<1>1. intents[c][a] \in Intent
  BY DEF TypeOK
<1>2. [intents[c][a] EXCEPT !.status = status] \in Intent
  BY <1>1 DEF Intent
<1>3. intents' = [intents EXCEPT ![c][a] = [intents[c][a] EXCEPT !.status = status]]
  BY DEF Became, TypeOK
<1>4. QED
  BY <1>2, <1>3 DEF TypeOK

\* The counts of the day's trades are counts: finitely many assets and cycles.
LEMMA FiniteDecisions == IsFiniteSet(CycleIds \X Asset)
<1> DEFINE Pairs == Portfolios \X Products
           f == [q \in Pairs |-> [portfolio |-> q[1], product |-> q[2]]]
<1>1. IsFiniteSet(Pairs)
  BY CycleAssumption, FS_Product
<1>2. f \in [Pairs -> Asset]
  BY DEF Asset
<1>3. ASSUME NEW a \in Asset PROVE \E q \in Pairs : f[q] = a
  <2>1. <<a.portfolio, a.product>> \in Pairs
    BY DEF Asset
  <2>2. f[<<a.portfolio, a.product>>] = a
    BY <2>1 DEF Asset
  <2>3. QED
    BY <2>1, <2>2
<1>4. f \in Surjection(Pairs, Asset)
  <2> HIDE DEF f, Pairs
  <2>1. QED
    BY <1>2, <1>3 DEF Surjection
<1>5. IsFiniteSet(Asset)
  <2> HIDE DEF f, Pairs
  <2>1. QED
    BY <1>1, <1>4, FS_Surjection
<1>6. IsFiniteSet(CycleIds)
  BY CycleAssumption, FS_Interval DEF CycleIds
<1>7. QED
  BY <1>5, <1>6, FS_Product

\* The trades of a day can be counted.
LEMMA Counting ==
  ASSUME NEW mode, NEW p, NEW day
  PROVE  IsFiniteSet(Intended(mode, p, day)) /\ Cardinality(Intended(mode, p, day)) \in Nat
<1>1. Intended(mode, p, day) \subseteq CycleIds \X Asset
  BY DEF Intended
<1>2. QED
  BY <1>1, FiniteDecisions, FS_Subset, FS_CardinalityType

\* So the counts of every portfolio are numbers.
LEMMA Counted == TradesToday \in [Portfolios -> Nat]
BY Counting DEF TradesToday

-----------------------------------------------------------------------------
\* Days are numbers.
LEMMA DayOf == ASSUME NEW t \in Nat PROVE Day(t) \in Nat
<1>1. DayLength \in Nat \ {0}
  BY CycleAssumption
<1>2. QED
  BY <1>1 DEF Day

\* So is the current one.
LEMMA DayType == ASSUME TypeOK PROVE Day(now) \in Nat
BY DayOf DEF TypeOK

\* Time moves the day on or leaves it.
LEMMA DayMoves == ASSUME TypeOK, Tick PROVE Day(now) <= Day(now')
<1>1. now \in Nat /\ DayLength \in Nat \ {0} /\ now' = now + 1
  BY CycleAssumption DEF TypeOK, Tick
<1>2. QED
  BY <1>1 DEF Day

\* At first no process runs, and the file may be half migrated.
LEMMA Layer1Initially == Init => Layer1
<1> SUFFICES ASSUME Init PROVE Layer1
  OBVIOUS
<1>1. StorageTypeOK /\ Migrated
  BY StorageInitially DEF Init
<1>2. now \in Nat /\ moves \in Nat /\ seen \in [Portfolios -> Nat]
  BY DEF Init
<1>3. strategyOf \in [Portfolios -> Strategies] /\ assets \in Layouts
  BY CycleAssumption DEF Init
<1>4. bound \in [Modes -> [Portfolios -> Strategies \union {None}]]
  BY DEF Init
<1>5. ledgers \subseteq Modes \X Portfolios
  BY CycleAssumption DEF Init
<1>6. cycles \in Seq(Cycle) /\ Len(cycles) <= MaxCycles
  BY CycleAssumption DEF Init
<1>7. log \in [CycleIds -> [Asset -> LogEntry]]
  BY DEF Init, NoEntry, LogEntry
<1>8. intents \in [CycleIds -> [Asset -> Intent]]
  BY DEF Init, NoIntent, Intent
<1>9. pc \in Places /\ proc \in Local
  BY CycleAssumption DEF Init, Places, Idle, Local
<1>10. Where
  BY DEF Init, StorageInit, Where, InCycle, AtAsset, Idle
<1>11. QED
  BY <1>1, <1>2, <1>3, <1>4, <1>5, <1>6, <1>7, <1>8, <1>9, <1>10 DEF Layer1, TypeOK

\* The steps of a process, one by one: what each leaves of the first layer.
Frame == UNCHANGED <<now, strategyOf, assets, ledgers, moves>>

\* Opening the file: each statement leads on to the next, the last to the full schema.
LEMMA Opening1 == Layer1 /\ (Start \/ OpenFurther) => Layer1'
<1> SUFFICES ASSUME Layer1, Start \/ OpenFurther PROVE Layer1'
  OBVIOUS
<1>1. StorageTypeOK' /\ Migrated'
  BY StorageStep DEF Layer1, TypeOK, Start, OpenFurther
<1>2. UNCHANGED <<now, strategyOf, assets, ledgers, moves, bound, cycles, log, intents, proc, seen>>
  BY DEF Start, OpenFurther, Running, configVars, storeVars
<1>3. pc' = "open" /\ opening' # "closed" /\ proc = Idle
  BY DEF Start, OpenFurther, OpenDatabase, Migrate, Layer1, Where, CreateTables, RebuildIntents,
         AddFundingTotal, StampVersion, AddStrategy, CreateAuditTables
<1>4. Where'
  BY <1>2, <1>3 DEF Where, Layer1, Idle, InCycle, AtAsset
<1>5. TypeOK'
  BY <1>1, <1>2, <1>3 DEF TypeOK, Layer1, Places
<1>6. QED
  BY <1>1, <1>4, <1>5 DEF Layer1

\* A process that ends.
LEMMA Exit1 ==
  ASSUME Layer1, Exit, Frame, UNCHANGED <<bound, log, intents>>,
         cycles' = cycles \/ (proc.cycle # 0 /\ (Finish("HOLD") \/ Finish("COMPLETED")))
  PROVE  Layer1'
<1>1. StorageTypeOK' /\ Migrated'
  BY StorageStep DEF Layer1, TypeOK, Exit
<1>2. pc' = "off" /\ opening' = "closed" /\ proc' = Idle /\ Idle \in Local
  BY CycleAssumption DEF Exit, CloseDatabase, Idle, Local
<1>3. seen' \in [Portfolios -> Nat]
  BY DEF Exit
<1>4. cycles' \in Seq(Cycle) /\ Len(cycles') <= MaxCycles
  <2>1. CASE cycles' = cycles
    BY <2>1 DEF Layer1, TypeOK
  <2>2. ASSUME NEW status \in {"HOLD", "COMPLETED"}, Finish(status), proc.cycle # 0
        PROVE  cycles' \in Seq(Cycle) /\ Len(cycles') <= MaxCycles
    <3>1. proc.cycle \in 1..Len(cycles) /\ cycles \in Seq(Cycle)
      BY <2>2, Locals DEF Layer1, Where, TypeOK
    <3>2. cycles[proc.cycle] \in Cycle
      BY <3>1
    <3>2a. [cycles[proc.cycle] EXCEPT !.status = status] \in Cycle
      BY <3>2 DEF Cycle
    <3>3. cycles' = [cycles EXCEPT ![proc.cycle] = [cycles[proc.cycle] EXCEPT !.status = status]]
      BY <2>2 DEF Finish
    <3>4. QED
      BY <3>1, <3>2a, <3>3 DEF Layer1, TypeOK
  <2>3. QED
    BY <2>1, <2>2
<1>5. Where'
  BY <1>2 DEF Where, Idle, InCycle, AtAsset
<1>6. TypeOK'
  BY <1>1, <1>2, <1>3, <1>4 DEF TypeOK, Layer1, Places, Frame
<1>7. QED
  BY <1>1, <1>5, <1>6 DEF Layer1

\* A step within the process that leaves the cycle, the mode and the strategy alone.
LEMMA Inside1 ==
  ASSUME Layer1, Frame, UNCHANGED <<storageVars, bound, cycles>>,
         log' \in [CycleIds -> [Asset -> LogEntry]], intents' \in [CycleIds -> [Asset -> Intent]],
         proc' \in Local, seen' \in [Portfolios -> Nat],
         proc'.mode = proc.mode, proc'.strategy = proc.strategy, proc'.cycle = proc.cycle,
         pc \notin {"off", "open", "begin"}, pc' \in InCycle \union {"recover"},
         pc' \in InCycle => proc.cycle # 0, pc' \in AtAsset => proc'.next \in Mine
  PROVE  Layer1'
<1>1. StorageTypeOK' /\ Migrated'
  BY StorageStep DEF Layer1, TypeOK
<1>2. TypeOK'
  BY <1>1 DEF TypeOK, Layer1, Places, Frame, InCycle, AtAsset
<1>3. Mine' = Mine
  BY DEF Mine, Frame
<1>4. Where'
  BY <1>3 DEF Where, Layer1, InCycle, AtAsset, storageVars, Frame
<1>5. QED
  BY <1>1, <1>2, <1>4 DEF Layer1

\* What the environment does.
LEMMA Environment1 ==
  ASSUME Layer1, Tick \/ (\E p \in Portfolios, s \in Strategies : Reassign(p, s))
  PROVE  Layer1'
<1>1. CASE Tick
  <2>1. UNCHANGED <<schema, opening, strategyOf, assets, ledgers, bound, cycles, log, intents,
                    pc, proc, seen, moves>> /\ now' \in Nat
    BY <1>1 DEF Tick, configVars, storeVars, Layer1, TypeOK
  <2>2. TypeOK' /\ Migrated'
    BY <2>1, StorageStep DEF TypeOK, Layer1, storageVars
  <2>3. Mine' = Mine
    BY <2>1 DEF Mine
  <2>4. QED
    BY <2>1, <2>2, <2>3 DEF Layer1, Where
<1>2. ASSUME NEW p \in Portfolios, NEW s \in Strategies, Reassign(p, s) PROVE Layer1'
  <2>1. UNCHANGED <<now, schema, opening, assets, ledgers, bound, cycles, log, intents, pc, proc,
                    seen>>
        /\ strategyOf' = [strategyOf EXCEPT ![p] = s] /\ moves' = moves + 1 /\ pc = "off"
    BY <1>2 DEF Reassign, storeVars
  <2>2. StorageTypeOK' /\ Migrated'
    BY <2>1, StorageStep DEF TypeOK, Layer1, storageVars
  <2>3. TypeOK'
    BY <2>1, <2>2 DEF TypeOK, Layer1
  <2>4. Where'
    BY <2>1 DEF Layer1, Where, InCycle, AtAsset, Idle
  <2>5. QED
    BY <2>2, <2>3, <2>4 DEF Layer1
<1>3. QED
  BY <1>1, <1>2

\* The strategy bindings.
LEMMA Bound ==
  ASSUME Layer1, NEW m \in Modes, Bind(m)
  PROVE  /\ bound' \in [Modes -> [Portfolios -> Strategies \union {None}]]
         /\ \A p \in Portfolios : bound'[m][p] = IF p \in Configured THEN strategyOf[p]
                                                                     ELSE bound[m][p]
         /\ \A k \in Modes \ {m} : bound'[k] = bound[k]
         /\ opening = "open" /\ pc = "open" /\ proc = Idle
<1> DEFINE row == [p \in Portfolios |-> IF p \in Configured THEN strategyOf[p] ELSE bound[m][p]]
<1>1. row \in [Portfolios -> Strategies \union {None}]
  BY DEF Layer1, TypeOK
<1>2. bound' = [bound EXCEPT ![m] = row]
  BY DEF Bind
<1>3. QED
  BY <1>1, <1>2 DEF Layer1, TypeOK, Bind, Where

\* Recovery is handed every unresolved order.
LEMMA HandedOver ==
  ASSUME TypeOK, NEW c \in 0..MaxCycles, Recovering(c)
  PROVE  /\ proc' \in Local /\ proc'.cycle = c /\ proc'.todo = Unresolved
         /\ proc'.mode = proc.mode /\ proc'.strategy = proc.strategy
         /\ proc'.next = proc.next /\ proc'.day = proc.day /\ proc'.failed = proc.failed
         /\ pc' = "recover" /\ UNCHANGED <<schema, opening, seen>>
<1>1. Unresolved \in SUBSET (CycleIds \X Asset)
  BY DEF Unresolved
<1>2. proc \in Local
  BY DEF TypeOK
<1>3. proc' = [proc EXCEPT !.cycle = c, !.todo = Unresolved] /\ pc' = "recover"
      /\ UNCHANGED <<schema, opening, seen>>
  BY DEF Recovering, storageVars
<1> HIDE DEF Unresolved
<1>4. QED
  BY <1>1, <1>2, <1>3 DEF Local

\* doctor binds the configured portfolios and recovers.
LEMMA Doctor1 == ASSUME Layer1, NEW m \in Modes, Doctor(m) PROVE Layer1'
<1>1. /\ UNCHANGED <<now, strategyOf, assets, ledgers, moves, schema, opening, cycles, log, intents,
                     seen>>
      /\ Recovering(0)
  BY DEF Doctor, Recovering, Running, configVars, storageVars
<1>2. StorageTypeOK' /\ Migrated'
  BY <1>1, StorageStep DEF TypeOK, Layer1, storageVars
<1>3. 0 \in 0..MaxCycles
  BY CycleAssumption
<1>4. proc' \in Local /\ proc'.cycle = 0 /\ pc' = "recover"
  BY <1>1, <1>3, HandedOver DEF Layer1
<1>5. bound' \in [Modes -> [Portfolios -> Strategies \union {None}]] /\ opening = "open"
  BY Bound DEF Doctor
<1>6. TypeOK'
  BY <1>1, <1>2, <1>4, <1>5 DEF TypeOK, Layer1, Places
<1>7. Where'
  BY <1>1, <1>4, <1>5 DEF Where, InCycle, AtAsset
<1>8. QED
  BY <1>2, <1>6, <1>7 DEF Layer1

\* maintain-orders recovers and needs no strategy.
LEMMA Maintain1 == ASSUME Layer1, Maintain PROVE Layer1'
<1>1. /\ UNCHANGED <<now, strategyOf, assets, ledgers, moves, schema, opening, bound, cycles, log,
                     intents, seen>>
      /\ Recovering(0)
      /\ opening = "open"
  BY DEF Maintain, Recovering, Running, configVars, storeVars, storageVars
<1>2. StorageTypeOK' /\ Migrated'
  BY <1>1, StorageStep DEF TypeOK, Layer1, storageVars
<1>3. 0 \in 0..MaxCycles
  BY CycleAssumption
<1>4. proc' \in Local /\ proc'.cycle = 0 /\ pc' = "recover"
  BY <1>1, <1>3, HandedOver DEF Layer1
<1>5. TypeOK'
  BY <1>1, <1>2, <1>4 DEF TypeOK, Layer1, Places
<1>6. Where'
  BY <1>1, <1>4 DEF Where, InCycle, AtAsset
<1>7. QED
  BY <1>2, <1>5, <1>6 DEF Layer1

\* run binds its strategy and goes on to its cycle, which recovers first.
LEMMA Run1 == ASSUME Layer1, NEW m \in Modes, NEW s \in Strategies, Run(m, s) PROVE Layer1'
<1>1. /\ UNCHANGED <<now, strategyOf, assets, ledgers, moves, schema, opening, cycles, log, intents,
                     seen>>
      /\ pc' = "begin" /\ proc' = [proc EXCEPT !.mode = m, !.strategy = s]
  BY DEF Run, Running, configVars, storageVars
<1>2. StorageTypeOK' /\ Migrated'
  BY <1>1, StorageStep DEF TypeOK, Layer1, storageVars
<1>3. proc' \in Local /\ proc'.mode = m /\ proc'.strategy = s /\ proc'.cycle = proc.cycle
  BY <1>1 DEF Layer1, TypeOK, Local
<1>4. /\ bound' \in [Modes -> [Portfolios -> Strategies \union {None}]] /\ opening = "open"
      /\ proc = Idle
  BY Bound DEF Run
<1>5. proc.cycle = 0
  BY <1>4 DEF Idle
<1>6. TypeOK'
  BY <1>1, <1>2, <1>3, <1>4 DEF TypeOK, Layer1, Places
<1>7. Where'
  BY <1>1, <1>3, <1>4, <1>5 DEF Where, InCycle, AtAsset
<1>8. QED
  BY <1>2, <1>6, <1>7 DEF Layer1

\* A new cycle takes the last row.
LEMMA Began ==
  ASSUME Layer1, BeginCycle
  PROVE  /\ cycles' \in Seq(Cycle) /\ Len(cycles') = Len(cycles) + 1 /\ Len(cycles) \in Nat
         /\ Len(cycles') <= MaxCycles /\ Len(cycles') \in 0..MaxCycles
         /\ cycles'[Len(cycles')] = [slot |-> Slot, mode |-> proc.mode, status |-> "RUNNING"]
         /\ \A i \in 1..Len(cycles) : cycles'[i] = cycles[i]
         /\ Recovering(Len(cycles')) /\ proc.mode \in Modes /\ proc.strategy \in Strategies
         /\ Mine # {} /\ ~SlotTaken /\ opening = "open" /\ proc.cycle = 0
         /\ UNCHANGED <<now, strategyOf, assets, ledgers, moves, schema, opening, bound, log, intents,
                        seen>>
<1> DEFINE row == [slot |-> Slot, mode |-> proc.mode, status |-> "RUNNING"]
<1>1. proc.mode \in Modes /\ proc.strategy \in Strategies /\ opening = "open" /\ proc.cycle = 0
  BY DEF BeginCycle, Layer1, Where
<1>2. now \div Cadence[proc.strategy] \in Nat
  <2>1. now \in Nat /\ Cadence[proc.strategy] \in Nat \ {0}
    BY <1>1, CycleAssumption DEF Layer1, TypeOK
  <2>2. QED
    BY <2>1
<1>3. row \in Cycle
  BY <1>1, <1>2 DEF Slot, Cycle
<1>4. cycles \in Seq(Cycle) /\ Len(cycles) \in Nat /\ Len(cycles) < MaxCycles /\ MaxCycles \in Nat
  BY CycleAssumption DEF Layer1, TypeOK, BeginCycle
<1>5. cycles' = Append(cycles, row)
  BY DEF BeginCycle
<1> HIDE DEF row
<1>6. /\ cycles' \in Seq(Cycle) /\ Len(cycles') = Len(cycles) + 1
      /\ cycles'[Len(cycles')] = row /\ \A i \in 1..Len(cycles) : cycles'[i] = cycles[i]
  BY <1>3, <1>4, <1>5, Appended
<1>7. /\ Recovering(Len(cycles')) /\ Mine # {} /\ ~SlotTaken
      /\ UNCHANGED <<now, strategyOf, assets, ledgers, moves, schema, opening, bound, log, intents,
                     seen>>
  BY DEF BeginCycle, Recovering, Running, configVars, storageVars
<1>8. QED
  BY <1>1, <1>4, <1>6, <1>7 DEF row

\* begin_cycle adds the row of the cycle under way.
LEMMA BeginCycle1 == ASSUME Layer1, BeginCycle PROVE Layer1'
<1>1. /\ UNCHANGED <<now, strategyOf, assets, ledgers, moves, schema, opening, bound, log, intents,
                     seen>>
      /\ cycles' \in Seq(Cycle) /\ Len(cycles') <= MaxCycles /\ Len(cycles') \in 0..MaxCycles
      /\ Recovering(Len(cycles')) /\ opening = "open" /\ Mine # {}
      /\ cycles'[Len(cycles')] = [slot |-> Slot, mode |-> proc.mode, status |-> "RUNNING"]
  BY Began
<1>2. StorageTypeOK' /\ Migrated'
  BY <1>1, StorageStep DEF TypeOK, Layer1, storageVars
<1>3. /\ proc' \in Local /\ proc'.cycle = Len(cycles') /\ pc' = "recover"
      /\ proc'.mode = proc.mode /\ proc'.strategy = proc.strategy
  BY <1>1, HandedOver DEF Layer1
<1>4. TypeOK'
  BY <1>1, <1>2, <1>3 DEF TypeOK, Layer1, Places
<1>5. Mine' = Mine
  BY <1>1, <1>3 DEF Mine
<1>6. cycles'[proc'.cycle].slot.strategy = proc.strategy /\ cycles'[proc'.cycle].mode = proc.mode
      /\ cycles'[proc'.cycle].status = "RUNNING"
  BY <1>1, <1>3 DEF Slot
<1>7. Where'
  BY <1>1, <1>3, <1>5, <1>6 DEF Where, InCycle, AtAsset
<1>8. QED
  BY <1>2, <1>4, <1>7 DEF Layer1

\* A process that ends holds nothing.
LEMMA Ending1 == ASSUME Layer1, Refuse \/ Fail \/ FinishCycle \/ Crash PROVE Layer1'
<1>1. Exit /\ Frame /\ UNCHANGED <<bound, log, intents>>
  BY DEF Refuse, Fail, FinishCycle, Crash, Running, configVars, storeVars, Frame
<1>2. cycles' = cycles \/ (proc.cycle # 0 /\ (Finish("HOLD") \/ Finish("COMPLETED")))
  BY DEF Refuse, Fail, FinishCycle, Crash, storeVars, Layer1, Where, InCycle, AtAsset
<1>3. QED
  BY <1>1, <1>2, Exit1

\* Recovery leads to the cycle, or the process ends.
LEMMA Recovered1 == ASSUME Layer1, Recovered PROVE Layer1'
<1>1. CASE proc.cycle = 0
  <2>1. Exit /\ Frame /\ UNCHANGED <<bound, cycles, log, intents>>
    BY <1>1 DEF Recovered, Running, configVars, storeVars, Frame
  <2>2. QED
    BY <2>1, Exit1
<1>2. CASE proc.cycle # 0
  <2>1. Goto("decide") /\ Frame /\ UNCHANGED <<bound, cycles, log, intents>> /\ pc = "recover"
    BY <1>2 DEF Recovered, Running, configVars, storeVars, Frame
  <2>2. QED
    BY <1>2, <2>1, Inside1 DEF Goto, Layer1, TypeOK, InCycle, AtAsset
<1>3. QED
  BY <1>1, <1>2

\* What a report writes.
LEMMA Reported ==
  ASSUME TypeOK, NEW c \in CycleIds, NEW a \in Asset,
         ReportUnknown(c, a) \/ ReportBooked(c, a) \/ ReportVerdict(c, a)
  PROVE  log' \in [CycleIds -> [Asset -> LogEntry]] /\ intents' \in [CycleIds -> [Asset -> Intent]]
<1>1. CASE ReportUnknown(c, a)
  BY <1>1, Told, BecameIntent DEF ReportUnknown
<1>2. CASE ReportBooked(c, a)
  BY <1>2, Told, BecameIntent DEF ReportBooked
<1>3. CASE ReportVerdict(c, a)
  BY <1>3, Told, BecameIntent DEF ReportVerdict
<1>4. QED
  BY <1>1, <1>2, <1>3

\* A report on an order in recovery changes its record and its intent.
LEMMA Recover1 ==
  ASSUME Layer1, NEW c \in CycleIds, NEW a \in Asset, Recover(c, a) \/ RecoverFails(c, a)
  PROVE  Layer1'
<1>1. /\ Frame /\ UNCHANGED <<storageVars, bound, cycles>> /\ pc = "recover" /\ pc' = "recover"
      /\ seen' = seen
  BY DEF Recover, RecoverFails, Running, configVars, Frame
<1>2. log' \in [CycleIds -> [Asset -> LogEntry]] /\ intents' \in [CycleIds -> [Asset -> Intent]]
  <2>1. CASE ReportUnknown(c, a) \/ ReportBooked(c, a) \/ ReportVerdict(c, a)
    BY <2>1, Reported DEF Layer1
  <2>2. CASE UNCHANGED <<log, intents>>
    BY <2>2 DEF Layer1, TypeOK
  <2>3. QED
    BY <2>1, <2>2 DEF Recover, RecoverFails
<1>3. /\ proc' \in Local /\ proc'.mode = proc.mode /\ proc'.strategy = proc.strategy
      /\ proc'.cycle = proc.cycle
  <2>1. proc \in Local
    BY DEF Layer1, TypeOK
  <2>2. CASE proc' = [proc EXCEPT !.todo = @ \ {<<c, a>>}]
    BY <2>1, <2>2 DEF Local
  <2>3. CASE proc' = [proc EXCEPT !.todo = @ \ {<<c, a>>}, !.failed = TRUE]
    BY <2>1, <2>3 DEF Local
  <2>4. QED
    BY <2>1, <2>2, <2>3 DEF Recover, RecoverFails
<1>4. seen' \in [Portfolios -> Nat]
  BY <1>1 DEF Layer1, TypeOK
<1>5. QED
  BY <1>1, <1>2, <1>3, <1>4, Inside1 DEF InCycle, AtAsset

CycleStep ==
  \/ Decide \/ RecordDecision \/ Decline \/ Approve \/ Refresh \/ Guard
  \/ SaveIntent \/ ExecutePaper \/ Submit \/ ExecuteLive \/ Rewrite \/ AfterExecution

\* A step that records a part of the current entry and goes on, here or at the next asset.
LEMMA InCycle1 ==
  ASSUME Layer1, CycleStep
  PROVE  /\ Frame /\ UNCHANGED <<storageVars, bound, cycles>>
         /\ log' \in [CycleIds -> [Asset -> LogEntry]] /\ intents' \in [CycleIds -> [Asset -> Intent]]
         /\ proc' \in Local /\ seen' \in [Portfolios -> Nat]
         /\ proc'.mode = proc.mode /\ proc'.strategy = proc.strategy /\ proc'.cycle = proc.cycle
         /\ pc \in InCycle /\ pc' \in AtAsset /\ proc'.next \in Mine
<1> USE DEF Layer1
<1>0. /\ TypeOK /\ Where /\ proc \in Local /\ seen \in [Portfolios -> Nat]
      /\ log \in [CycleIds -> [Asset -> LogEntry]] /\ intents \in [CycleIds -> [Asset -> Intent]]
  BY DEF TypeOK
<1>1. CASE Decide
  <2>1. PICK i \in Mine : proc' = [proc EXCEPT !.next = i]
    BY <1>1 DEF Decide
  <2>2. i \in Nat
    BY CycleAssumption DEF Mine, TypeOK
  <2>3. proc' \in Local /\ proc'.next = i /\ proc'.mode = proc.mode
        /\ proc'.strategy = proc.strategy /\ proc'.cycle = proc.cycle
    BY <1>0, <2>1, <2>2 DEF Local
  <2>4. QED
    BY <1>0, <1>1, <2>3, Counted DEF Decide, Running, Frame, configVars, storeVars, InCycle, AtAsset
<1>2. CASE RecordDecision \/ Decline \/ AfterExecution
  <2>1. pc \in AtAsset /\ \E place, then \in AtAsset : Advance(place, then)
    BY <1>2 DEF RecordDecision, Decline, AfterExecution, AtAsset
  <2>2. /\ pc' \in AtAsset /\ proc' \in Local /\ proc'.next \in Mine
        /\ proc' = [proc EXCEPT !.next = proc'.next]
    BY <1>0, <2>1, Advanced
  <2>3. proc'.mode = proc.mode /\ proc'.strategy = proc.strategy /\ proc'.cycle = proc.cycle
    BY <1>0, <2>2 DEF Local
  <2>4. Entry \in LogEntry
    BY <1>0, <2>1, Here
  <2>5. \E entry \in LogEntry : Record(entry)
    <3>1. [NoEntry EXCEPT !.execution = "NOT_ATTEMPTED"] \in LogEntry
      BY DEF NoEntry, LogEntry
    <3>2. [Entry EXCEPT !.notional = TRUE, !.exposure = TRUE] \in LogEntry
      BY <2>4 DEF LogEntry
    <3>3. [Entry EXCEPT !.exposure = TRUE] \in LogEntry
      BY <2>4 DEF LogEntry
    <3>4. QED
      BY <1>2, <3>1, <3>2, <3>3 DEF RecordDecision, Decline, AfterExecution
  <2>6. log' \in [CycleIds -> [Asset -> LogEntry]]
    BY <1>0, <2>1, <2>5, Recorded
  <2>7. Frame /\ UNCHANGED <<storageVars, bound, cycles, intents>> /\ seen' \in [Portfolios -> Nat]
    BY <1>0, <1>2, Counted DEF RecordDecision, Decline, AfterExecution, Running, Frame, configVars
  <2>8. QED
    BY <1>0, <2>1, <2>2, <2>3, <2>6, <2>7 DEF InCycle
<1>3. CASE Approve \/ Refresh
  <2>1. /\ Frame /\ UNCHANGED <<storageVars, bound, cycles, log, intents, proc>>
        /\ seen' \in [Portfolios -> Nat] /\ pc \in AtAsset /\ pc' \in AtAsset
    BY <1>0, <1>3, Counted
       DEF Approve, Refresh, Goto, Running, Frame, configVars, storeVars, AtAsset
  <2>2. QED
    BY <1>0, <2>1 DEF Where, InCycle
<1>4. CASE Guard
  <2>1. /\ Frame /\ UNCHANGED <<storageVars, bound, cycles, intents, seen>>
        /\ pc \in AtAsset /\ pc' \in AtAsset /\ proc' = [proc EXCEPT !.day = Day(now)]
        /\ Record([Entry EXCEPT !.execution = "PENDING"])
    BY <1>4 DEF Guard, Running, Frame, configVars, AtAsset
  <2>2. Day(now) \in Nat
    BY DayType
  <2>3. [Entry EXCEPT !.execution = "PENDING"] \in LogEntry
    BY <1>0, <2>1, Here DEF LogEntry
  <2>4. log' \in [CycleIds -> [Asset -> LogEntry]]
    BY <1>0, <2>1, <2>3, Recorded
  <2>5. /\ proc' \in Local /\ proc'.mode = proc.mode /\ proc'.strategy = proc.strategy
        /\ proc'.cycle = proc.cycle /\ proc'.next = proc.next
    BY <1>0, <2>1, <2>2 DEF Local
  <2>6. QED
    BY <1>0, <2>1, <2>4, <2>5 DEF Where, InCycle
<1>5. CASE SaveIntent
  <2> DEFINE intent == [status |-> "PREPARED", mode |-> proc.mode, day |-> proc.day]
  <2>1. /\ Frame /\ UNCHANGED <<storageVars, bound, cycles, log, seen>>
        /\ pc \in AtAsset /\ pc' \in AtAsset /\ proc' = [proc EXCEPT !.day = 0]
        /\ intents' = [intents EXCEPT ![proc.cycle][Current] = intent]
    BY <1>5 DEF SaveIntent, Running, Frame, configVars, AtAsset
  <2>2. intent \in Intent
    BY <1>0, Locals DEF Intent
  <2>3. intents' \in [CycleIds -> [Asset -> Intent]]
    <3> HIDE DEF intent
    <3>1. QED
      BY <1>0, <2>1, <2>2, Here
  <2>4. /\ proc' \in Local /\ proc'.mode = proc.mode /\ proc'.strategy = proc.strategy
        /\ proc'.cycle = proc.cycle /\ proc'.next = proc.next
    BY <1>0, <2>1 DEF Local
  <2>5. QED
    BY <1>0, <2>1, <2>3, <2>4 DEF Where, InCycle
<1>6. CASE Submit
  <2>1. /\ Frame /\ UNCHANGED <<storageVars, bound, cycles, log, seen, proc>>
        /\ pc \in AtAsset /\ pc' \in AtAsset /\ Became(proc.cycle, Current, "SENT")
    BY <1>6 DEF Submit, Goto, Running, Frame, configVars, AtAsset
  <2>2. intents' \in [CycleIds -> [Asset -> Intent]]
    BY <1>0, <2>1, Here, BecameIntent
  <2>3. QED
    BY <1>0, <2>1, <2>2 DEF Where, InCycle
<1>7. CASE ExecutePaper \/ ExecuteLive
  <2>1. /\ Frame /\ UNCHANGED <<storageVars, bound, cycles, seen, proc>>
        /\ pc \in AtAsset /\ pc' \in AtAsset
        /\ \/ ReportUnknown(proc.cycle, Current) \/ ReportBooked(proc.cycle, Current)
           \/ ReportVerdict(proc.cycle, Current)
    BY <1>7 DEF ExecutePaper, ExecuteLive, Goto, Running, Frame, configVars, AtAsset
  <2>2. log' \in [CycleIds -> [Asset -> LogEntry]] /\ intents' \in [CycleIds -> [Asset -> Intent]]
    BY <1>0, <2>1, Here, Reported
  <2>3. QED
    BY <1>0, <2>1, <2>2 DEF Where, InCycle
<1>8. CASE Rewrite
  <2> DEFINE terminal == intents[proc.cycle][Current].status = "DONE"
             entry == [Entry EXCEPT !.execution = IF terminal THEN "VERDICT" ELSE "UNRESOLVED",
                                    !.notional = terminal]
  <2>1. /\ Frame /\ UNCHANGED <<storageVars, bound, cycles, intents, seen, proc>>
        /\ pc \in AtAsset /\ pc' \in AtAsset /\ Record(entry)
    BY <1>8 DEF Rewrite, Goto, Running, Frame, configVars, AtAsset
  <2>2. Entry \in LogEntry
    BY <1>0, <2>1, Here
  <2>3. entry \in LogEntry
    BY <2>2 DEF LogEntry
  <2>4. log' \in [CycleIds -> [Asset -> LogEntry]]
    <3> HIDE DEF entry
    <3>1. QED
      BY <1>0, <2>1, <2>3, Recorded
  <2>5. QED
    BY <1>0, <2>1, <2>4 DEF Where, InCycle
<1>9. QED
  BY <1>1, <1>2, <1>3, <1>4, <1>5, <1>6, <1>7, <1>8 DEF CycleStep

\* Every step keeps the first layer.
LEMMA Layer1Step == Layer1 /\ [Next]_vars => Layer1'
<1> SUFFICES ASSUME Layer1, [Next]_vars PROVE Layer1'
  OBVIOUS
<1>1. CASE Start \/ OpenFurther
  BY <1>1, Opening1
<1>2. CASE Maintain \/ \E m \in Modes : Doctor(m) \/ \E s \in Strategies : Run(m, s)
  BY <1>2, Maintain1, Doctor1, Run1
<1>3. CASE BeginCycle
  BY <1>3, BeginCycle1
<1>4. CASE Refuse \/ Fail \/ FinishCycle \/ Crash
  BY <1>4, Ending1
<1>5. CASE Recovered
  BY <1>5, Recovered1
<1>6. CASE \E c \in CycleIds, a \in Asset : Recover(c, a) \/ RecoverFails(c, a)
  BY <1>6, Recover1
<1>7. CASE CycleStep
  <2>1. pc \notin {"off", "open", "begin"} /\ (pc' \in InCycle => proc.cycle # 0)
    BY <1>7, InCycle1 DEF InCycle, AtAsset, Layer1, Where
  <2>2. QED
    BY <1>7, <2>1, InCycle1, Inside1 DEF InCycle
<1>8. CASE Tick \/ \E p \in Portfolios, s \in Strategies : Reassign(p, s)
  BY <1>8, Environment1
<1>9. CASE UNCHANGED vars
  <2>1. UNCHANGED <<now, schema, opening, strategyOf, assets, ledgers, bound, cycles, log, intents,
                    pc, proc, seen, moves>>
    BY <1>9 DEF vars, configVars, storeVars
  <2>2. TypeOK' /\ Migrated'
    BY <2>1, StorageStep DEF TypeOK, Layer1, storageVars
  <2>3. Mine' = Mine
    BY <2>1 DEF Mine
  <2>4. QED
    BY <2>1, <2>2, <2>3 DEF Layer1, Where
<1>10. QED
  BY <1>1, <1>2, <1>3, <1>4, <1>5, <1>6, <1>7, <1>8, <1>9 DEF Next, Process, CycleStep

\* Every variable has its type in every reachable state.
THEOREM TypeCorrect == Spec => []TypeOK
<1>1. Layer1 => TypeOK
  BY DEF Layer1
<1>2. QED
  BY <1>1, Layer1Initially, Layer1Step, PTL DEF Spec

\* Wherever the processes before it died, a process that opened the database finds its schema.
THEOREM SchemaIsComplete == Spec => []SchemaComplete
<1>1. Layer1 => SchemaComplete
  <2>1. SUFFICES ASSUME Layer1, opening = "open" PROVE Complete
    BY DEF SchemaComplete
  <2>2. StorageTypeOK /\ Migrated
    BY <2>1 DEF Layer1, TypeOK
  <2>3. QED
    BY <2>1, <2>2, SchemaFields DEF Migrated, Complete
<1>2. QED
  BY <1>1, Layer1Initially, Layer1Step, PTL DEF Spec

-----------------------------------------------------------------------------
\* The steps that matter to the store, with what they leave alone.

Ending == Refuse \/ Fail \/ FinishCycle \/ Crash \/ (Recovered /\ proc.cycle = 0)

SameRows ==
  /\ Len(cycles') = Len(cycles)
  /\ \A c \in 1..Len(cycles) : cycles'[c].slot = cycles[c].slot /\ cycles'[c].mode = cycles[c].mode

\* A process that ends leaves its cycle as it is, or marks it.
LEMMA Ended ==
  ASSUME Layer1, Ending
  PROVE  /\ Exit /\ Frame /\ UNCHANGED <<bound, log, intents>> /\ SameRows
         /\ \A c \in 1..Len(cycles) :
              \/ cycles'[c].status = cycles[c].status
              \/ cycles'[c].status = "HOLD"
              \/ cycles'[c].status = "COMPLETED" /\ pc = "finish" /\ c = proc.cycle
<1>1. Exit /\ Frame /\ UNCHANGED <<bound, log, intents>>
  BY DEF Ending, Refuse, Fail, FinishCycle, Crash, Recovered, Running, configVars, storeVars, Frame
<1>2. CASE cycles' = cycles
  BY <1>1, <1>2 DEF SameRows
<1>3. ASSUME NEW status \in {"HOLD", "COMPLETED"}, Finish(status), proc.cycle # 0,
             status = "COMPLETED" => pc = "finish"
      PROVE  /\ SameRows
             /\ \A c \in 1..Len(cycles) :
                  \/ cycles'[c].status = cycles[c].status
                  \/ cycles'[c].status = "HOLD"
                  \/ cycles'[c].status = "COMPLETED" /\ pc = "finish" /\ c = proc.cycle
  <2>1. cycles \in Seq(Cycle) /\ proc.cycle \in 1..Len(cycles)
    BY <1>3, Locals DEF Layer1, Where, TypeOK
  <2>2. cycles' = [cycles EXCEPT ![proc.cycle] = [cycles[proc.cycle] EXCEPT !.status = status]]
    BY <1>3 DEF Finish
  <2>3. cycles[proc.cycle] \in Cycle
    BY <2>1
  <2>4. /\ [cycles[proc.cycle] EXCEPT !.status = status].slot = cycles[proc.cycle].slot
        /\ [cycles[proc.cycle] EXCEPT !.status = status].mode = cycles[proc.cycle].mode
        /\ [cycles[proc.cycle] EXCEPT !.status = status].status = status
    BY <2>3 DEF Cycle
  <2> DEFINE row == [cycles[proc.cycle] EXCEPT !.status = status]
  <2> HIDE DEF row
  <2>5. /\ Len(cycles') = Len(cycles) /\ cycles'[proc.cycle] = row
        /\ \A c \in 1..Len(cycles) : c # proc.cycle => cycles'[c] = cycles[c]
    BY <2>1, <2>2 DEF row
  <2>6. QED
    BY <1>3, <2>4, <2>5 DEF SameRows, row
<1>4. QED
  BY <1>1, <1>2, <1>3
     DEF Ending, Refuse, Fail, FinishCycle, Crash, Recovered, storeVars, Layer1, Where, InCycle,
         AtAsset

Reports(c, a) == ReportUnknown(c, a) \/ ReportBooked(c, a) \/ ReportVerdict(c, a)

\* A report about an order rewrites the status of its intent, and two fields of its entry.
LEMMA Report ==
  ASSUME TypeOK, NEW c \in CycleIds, NEW a \in Asset, Reports(c, a)
  PROVE  /\ intents'[c][a].status \in {"SENT", "DONE"} /\ intents'[c][a].mode = intents[c][a].mode
         /\ intents'[c][a].day = intents[c][a].day
         /\ \A d \in CycleIds, b \in Asset :
              d # c \/ b # a => intents'[d][b] = intents[d][b] /\ log'[d][b] = log[d][b]
         /\ log'[c][a].exposure = log[c][a].exposure
         /\ \/ ReportUnknown(c, a) /\ intents'[c][a].status = "SENT"
               /\ log'[c][a].execution = "UNRESOLVED" /\ log'[c][a].notional = FALSE
            \/ ReportBooked(c, a) /\ intents'[c][a].status = "SENT"
               /\ log'[c][a].execution = "VERDICT" /\ log'[c][a].notional = FALSE
            \/ ReportVerdict(c, a) /\ intents'[c][a].status = "DONE"
               /\ log'[c][a].execution = "VERDICT" /\ log'[c][a].notional = TRUE
<1>1. ASSUME NEW execution \in {"VERDICT", "UNRESOLVED"}, NEW notional \in BOOLEAN,
             NEW status \in {"SENT", "DONE"},
             Tells(c, a, execution, notional), Became(c, a, status)
      PROVE  /\ intents'[c][a].status = status /\ intents'[c][a].mode = intents[c][a].mode
             /\ intents'[c][a].day = intents[c][a].day
             /\ \A d \in CycleIds, b \in Asset :
                  d # c \/ b # a => intents'[d][b] = intents[d][b] /\ log'[d][b] = log[d][b]
             /\ log'[c][a].exposure = log[c][a].exposure
             /\ log'[c][a].execution = execution /\ log'[c][a].notional = notional
  <2> DEFINE e == [log[c][a] EXCEPT !.execution = execution, !.notional = notional]
             i == [intents[c][a] EXCEPT !.status = status]
  <2>1. log[c][a] \in LogEntry /\ intents[c][a] \in Intent
    BY DEF TypeOK
  <2>2. e \in LogEntry /\ e.exposure = log[c][a].exposure /\ e.execution = execution
        /\ e.notional = notional
    BY <2>1 DEF LogEntry
  <2>3. i \in Intent /\ i.status = status /\ i.mode = intents[c][a].mode
        /\ i.day = intents[c][a].day
    BY <2>1 DEF Intent
  <2>4. log' = [log EXCEPT ![c][a] = e]
    BY <1>1 DEF Tells, TypeOK
  <2>5. intents' = [intents EXCEPT ![c][a] = i]
    BY <1>1, BecameIntent
  <2> HIDE DEF e, i
  <2>6. /\ log'[c][a] = e
        /\ \A d \in CycleIds, b \in Asset : d # c \/ b # a => log'[d][b] = log[d][b]
    BY <2>2, <2>4 DEF TypeOK
  <2>7. /\ intents'[c][a] = i
        /\ \A d \in CycleIds, b \in Asset : d # c \/ b # a => intents'[d][b] = intents[d][b]
    BY <2>3, <2>5 DEF TypeOK
  <2>8. QED
    BY <2>2, <2>3, <2>6, <2>7
<1>2. CASE ReportUnknown(c, a)
  BY <1>1, <1>2 DEF ReportUnknown
<1>3. CASE ReportBooked(c, a)
  BY <1>1, <1>3 DEF ReportBooked
<1>4. CASE ReportVerdict(c, a)
  BY <1>1, <1>4 DEF ReportVerdict
<1>5. QED
  BY <1>2, <1>3, <1>4 DEF Reports

\* The intent of the current decision is saved.
LEMMA Saved ==
  ASSUME Layer1, SaveIntent
  PROVE  /\ intents'[proc.cycle][Current].status = "PREPARED"
         /\ intents'[proc.cycle][Current].mode = proc.mode
         /\ intents'[proc.cycle][Current].day = proc.day
         /\ \A d \in CycleIds, b \in Asset :
              d # proc.cycle \/ b # Current => intents'[d][b] = intents[d][b]
<1> DEFINE intent == [status |-> "PREPARED", mode |-> proc.mode, day |-> proc.day]
<1>1. intent \in Intent
  BY Locals DEF Layer1, Intent
<1>2. intents' = [intents EXCEPT ![proc.cycle][Current] = intent]
  BY DEF SaveIntent
<1>3. proc.cycle \in CycleIds /\ Current \in Asset
  BY Here DEF Layer1, SaveIntent, AtAsset
<1>4. /\ intents'[proc.cycle][Current] = intent
      /\ \A d \in CycleIds, b \in Asset :
           d # proc.cycle \/ b # Current => intents'[d][b] = intents[d][b]
  <2> HIDE DEF intent
  <2>1. QED
    BY <1>1, <1>2, <1>3 DEF Layer1, TypeOK
<1>5. QED
  BY <1>4

\* The current entry is replaced.
LEMMA Replaced ==
  ASSUME Layer1, pc \in AtAsset, NEW entry \in LogEntry, Record(entry)
  PROVE  /\ log'[proc.cycle][Current] = entry
         /\ \A d \in CycleIds, b \in Asset :
              d # proc.cycle \/ b # Current => log'[d][b] = log[d][b]
<1>1. proc.cycle \in CycleIds /\ Current \in Asset
  BY Here DEF Layer1
<1>2. QED
  BY <1>1 DEF Layer1, TypeOK, Record

-----------------------------------------------------------------------------
\* Slots, strategy bindings, and what is recovered.

SlotsOnce == \A c, d \in 1..Len(cycles) : cycles[c].slot = cycles[d].slot => c = d
LegacyRows == \A m \in Modes, p \in Portfolios : <<m, p>> \in ledgers => bound[m][p] \in {None, Default}
Agreed == proc.mode # None => \A p \in Configured : bound[proc.mode][p] = strategyOf[p]
Traced(c, a) ==
  /\ c \in 1..Len(cycles) /\ intents[c][a].mode = cycles[c].mode
  /\ bound[cycles[c].mode][a.portfolio] = cycles[c].slot.strategy
AllTraced == \A c \in CycleIds, a \in Asset : Has(c, a) => Traced(c, a)
Held ==
  /\ \A c \in CycleIds, a \in Asset : <<c, a>> \in proc.todo => Has(c, a)
  /\ pc \in {"execute", "submitted"} => Has(proc.cycle, Current)

Layer2 == Layer1 /\ SlotsOnce /\ LegacyRows /\ Agreed /\ AllTraced /\ Held

\* The portfolios of the configuration are portfolios.
LEMMA ConfiguredPortfolios == ASSUME TypeOK PROVE Configured \subseteq Portfolios
<1>1. assets \in Seq(Asset)
  BY CycleAssumption DEF TypeOK
<1>2. ASSUME NEW i \in 1..Len(assets) PROVE assets[i].portfolio \in Portfolios
  <2>1. assets[i] \in Asset
    BY <1>1
  <2>2. QED
    BY <2>1 DEF Asset
<1>3. QED
  BY <1>2 DEF Configured

\* The rows of a store that neither binds, begins nor saves.
LEMMA RowsKept ==
  ASSUME Layer2, SameRows, UNCHANGED <<bound, ledgers>>,
         \A c \in CycleIds, a \in Asset : Has(c, a)' => Has(c, a) /\ intents'[c][a].mode = intents[c][a].mode
  PROVE  SlotsOnce' /\ LegacyRows' /\ AllTraced'
<1>1. SlotsOnce'
  BY DEF Layer2, SlotsOnce, SameRows
<1>2. LegacyRows'
  BY DEF Layer2, LegacyRows
<1>3. ASSUME NEW c \in CycleIds, NEW a \in Asset, Has(c, a)' PROVE Traced(c, a)'
  <2>1. Traced(c, a) /\ Has(c, a) /\ intents'[c][a].mode = intents[c][a].mode
    BY <1>3 DEF Layer2, AllTraced
  <2>2. QED
    BY <2>1 DEF Traced, SameRows
<1>4. QED
  BY <1>1, <1>2, <1>3 DEF AllTraced

\* At first there are no cycles; ledgers may be older than strategy names.
LEMMA Layer2Initially == Init => Layer2
<1> SUFFICES ASSUME Init PROVE Layer2
  OBVIOUS
<1>1. Layer1
  BY Layer1Initially
<1>2. SlotsOnce /\ LegacyRows /\ Agreed
  BY DEF Init, SlotsOnce, LegacyRows, Agreed, Idle
<1>3. \A c \in CycleIds, a \in Asset : ~Has(c, a)
  BY DEF Init, Has, NoIntent
<1>4. Held
  BY DEF Init, Idle, Held
<1>5. QED
  BY <1>1, <1>2, <1>3, <1>4 DEF Layer2, AllTraced

\* What is handed to recovery are saved intents.
LEMMA HandedHas ==
  ASSUME proc'.todo = Unresolved, UNCHANGED intents, pc' = "recover"
  PROVE  Held'
BY DEF Held, Unresolved, Has, None

\* Binding refuses what is bound to another strategy.
LEMMA Binding2 ==
  ASSUME Layer2, NEW m \in Modes, Doctor(m) \/ \E s \in Strategies : Run(m, s)
  PROVE  Layer2'
<1>1. Layer1' /\ Layer1
  BY Doctor1, Run1 DEF Layer2
<1>2. Bind(m) /\ UNCHANGED <<strategyOf, assets, ledgers, cycles, intents>>
  BY DEF Doctor, Run, Running, configVars
<1>3. SlotsOnce'
  BY <1>2 DEF Layer2, SlotsOnce
<1>4. /\ \A p \in Portfolios : bound'[m][p] = IF p \in Configured THEN strategyOf[p]
                                                                   ELSE bound[m][p]
      /\ \A k \in Modes \ {m} : bound'[k] = bound[k]
  BY <1>1, <1>2, Bound
<1>5. \A p \in Configured : Previous(m, p) \in {None, strategyOf[p]}
  BY <1>2 DEF Bind
<1>6. LegacyRows'
  <2>1. SUFFICES ASSUME NEW k \in Modes, NEW p \in Portfolios, <<k, p>> \in ledgers
                 PROVE  bound'[k][p] \in {None, Default}
    BY <1>2 DEF LegacyRows
  <2>2. bound[k][p] \in {None, Default}
    BY <2>1 DEF Layer2, LegacyRows
  <2>3. CASE k = m /\ p \in Configured
    <3>1. Previous(m, p) = Default
      BY <2>1, <2>2, <2>3 DEF Previous
    <3>2. Default # None
      BY CycleAssumption
    <3>3. QED
      BY <1>4, <1>5, <2>3, <3>1, <3>2
  <2>4. QED
    BY <1>4, <2>2, <2>3
<1>7. ASSUME NEW c \in CycleIds, NEW a \in Asset, Has(c, a)' PROVE Traced(c, a)'
  <2>1. Traced(c, a)
    BY <1>2, <1>7 DEF Layer2, AllTraced, Has
  <2>2. cycles[c] \in Cycle
    BY <2>1 DEF Traced, Layer2, Layer1, TypeOK
  <2>3. cycles[c].slot.strategy \in Strategies /\ cycles[c].mode \in Modes
    BY <2>2 DEF Cycle
  <2>4. a.portfolio \in Portfolios
    BY DEF Asset
  <2>5. bound'[cycles[c].mode][a.portfolio] = cycles[c].slot.strategy
    <3>1. CASE cycles[c].mode = m /\ a.portfolio \in Configured
      <4>1. Previous(m, a.portfolio) = cycles[c].slot.strategy
        BY <2>1, <2>3, <3>1, CycleAssumption DEF Previous, Traced
      <4>2. strategyOf[a.portfolio] = cycles[c].slot.strategy
        BY <1>5, <2>3, <3>1, <4>1, CycleAssumption
      <4>3. QED
        BY <1>4, <2>4, <3>1, <4>2
    <3>2. CASE ~(cycles[c].mode = m /\ a.portfolio \in Configured)
      BY <1>4, <2>1, <2>3, <2>4, <3>2 DEF Traced
    <3>3. QED
      BY <3>1, <3>2
  <2>6. QED
    BY <1>2, <2>1, <2>5 DEF Traced
<1>8. Agreed'
  <2>1. Configured' = Configured
    BY <1>2 DEF Configured
  <2>2. proc'.mode \in {None, m}
    <3>1. CASE Doctor(m)
      BY <1>1, <1>2, <3>1, HandedOver, Bound, CycleAssumption DEF Doctor, Layer1, Idle
    <3>2. ASSUME NEW s \in Strategies, Run(m, s) PROVE proc'.mode = m
      BY <1>1, <3>2 DEF Run, Layer1, TypeOK, Local
    <3>3. QED
      BY <3>1, <3>2
  <2>3. Configured \subseteq Portfolios
    BY <1>1, ConfiguredPortfolios DEF Layer1
  <2>4. QED
    BY <1>2, <1>4, <2>1, <2>2, <2>3 DEF Agreed
<1>9. Held'
  <2>1. CASE Doctor(m)
    BY <1>1, <1>2, <2>1, HandedOver, HandedHas, CycleAssumption DEF Doctor, Layer1
  <2>2. ASSUME NEW s \in Strategies, Run(m, s) PROVE Held'
    <3>1. pc' = "begin" /\ proc'.todo = proc.todo
      BY <1>1, <2>2 DEF Run, Layer1, TypeOK, Local
    <3>2. QED
      BY <1>2, <3>1 DEF Layer2, Held, Has
  <2>3. QED
    BY <2>1, <2>2
<1>10. QED
  BY <1>1, <1>3, <1>6, <1>7, <1>8, <1>9 DEF Layer2, AllTraced

\* A new cycle takes a slot that no cycle has had.
LEMMA BeginCycle2 == ASSUME Layer2, BeginCycle PROVE Layer2'
<1>1. Layer1' /\ Layer1
  BY BeginCycle1 DEF Layer2
<1>2. /\ UNCHANGED <<strategyOf, assets, ledgers, bound, intents>>
      /\ Len(cycles') = Len(cycles) + 1 /\ Len(cycles) \in Nat /\ Len(cycles') \in 0..MaxCycles
      /\ cycles'[Len(cycles')] = [slot |-> Slot, mode |-> proc.mode, status |-> "RUNNING"]
      /\ \A i \in 1..Len(cycles) : cycles'[i] = cycles[i]
      /\ ~SlotTaken /\ Recovering(Len(cycles'))
  BY <1>1, Began
<1>3. SlotsOnce'
  <2>1. SUFFICES ASSUME NEW c \in 1..Len(cycles'), NEW d \in 1..Len(cycles'),
                        cycles'[c].slot = cycles'[d].slot
                 PROVE  c = d
    BY DEF SlotsOnce
  <2>2. cycles'[Len(cycles')].slot = Slot
    BY <1>2
  <2>3. \A i \in 1..Len(cycles) : cycles[i].slot # Slot
    BY <1>2 DEF SlotTaken
  <2>4. QED
    BY <1>2, <2>1, <2>2, <2>3 DEF Layer2, SlotsOnce
<1>4. LegacyRows'
  BY <1>2 DEF Layer2, LegacyRows
<1>5. ASSUME NEW c \in CycleIds, NEW a \in Asset, Has(c, a)' PROVE Traced(c, a)'
  <2>1. Traced(c, a)
    BY <1>2, <1>5 DEF Layer2, AllTraced, Has
  <2>2. QED
    BY <1>2, <2>1 DEF Traced
<1>6. proc'.mode = proc.mode /\ proc'.todo = Unresolved /\ pc' = "recover"
  BY <1>1, <1>2, HandedOver DEF Layer1
<1>7. Agreed'
  BY <1>2, <1>6 DEF Layer2, Agreed, Configured
<1>8. Held'
  BY <1>2, <1>6, HandedHas
<1>9. QED
  BY <1>1, <1>3, <1>4, <1>5, <1>7, <1>8 DEF Layer2, AllTraced

\* A process that ends changes no slot and no binding.
LEMMA Ending2 == ASSUME Layer2, Ending PROVE Layer2'
<1>1. Layer1' /\ Layer1
  BY Ending1, Recovered1 DEF Layer2, Ending
<1>2. Exit /\ Frame /\ UNCHANGED <<bound, log, intents>> /\ SameRows
  BY <1>1, Ended
<1>3. SlotsOnce' /\ LegacyRows' /\ AllTraced'
  <2>1. \A c \in CycleIds, a \in Asset : Has(c, a)' => Has(c, a) /\ intents'[c][a].mode = intents[c][a].mode
    BY <1>2 DEF Has
  <2>2. QED
    BY <1>2, <2>1, RowsKept DEF Frame
<1>4. Agreed' /\ Held'
  BY <1>2 DEF Exit, Agreed, Held, Idle
<1>5. QED
  BY <1>1, <1>3, <1>4 DEF Layer2

\* Steps of the process that change neither bindings nor cycles.
Elsewhere ==
  \/ Start \/ OpenFurther \/ Maintain \/ (Recovered /\ proc.cycle # 0) \/ Tick
  \/ (\E p \in Portfolios, s \in Strategies : Reassign(p, s)) \/ UNCHANGED vars

\* Steps outside the cycle write no row.
LEMMA ElsewhereSame ==
  ASSUME Elsewhere
  PROVE  UNCHANGED <<assets, ledgers, bound, cycles, log, intents>>
BY DEF Elsewhere, Start, OpenFurther, Maintain, Recovered, Tick, Reassign, Running, configVars,
       storeVars, vars

\* They leave the process where it was, or begin or end a recovery.
LEMMA ElsewhereLocals ==
  ASSUME Layer1, Elsewhere
  PROVE  /\ \/ proc' = proc /\ (pc' = pc \/ pc' \in {"open", "decide"})
            \/ Maintain /\ proc'.todo = Unresolved /\ pc' = "recover" /\ proc'.mode = proc.mode
               /\ proc'.cycle = 0
         /\ strategyOf' = strategyOf \/ proc = Idle
         /\ Recovered => proc.todo = {}
<1>1. CASE Maintain
  <2>1. 0 \in 0..MaxCycles
    BY CycleAssumption
  <2>2. proc'.todo = Unresolved /\ pc' = "recover" /\ proc'.mode = proc.mode /\ proc'.cycle = 0
    BY <1>1, <2>1, HandedOver DEF Maintain, Layer1
  <2>3. QED
    BY <1>1, <2>2 DEF Maintain, Recovered, Running, configVars
<1>2. CASE Start \/ OpenFurther \/ (Recovered /\ proc.cycle # 0) \/ Tick \/ UNCHANGED vars
  BY <1>2 DEF Start, OpenFurther, Recovered, Tick, Goto, Running, configVars, vars
<1>3. CASE \E p \in Portfolios, s \in Strategies : Reassign(p, s)
  BY <1>3 DEF Reassign, Layer1, Where, Recovered
<1>4. QED
  BY <1>1, <1>2, <1>3 DEF Elsewhere

\* Outside the cycle slots and bindings stay.
LEMMA Elsewhere2 == ASSUME Layer2, Elsewhere, Layer1' PROVE Layer2'
<1>1. UNCHANGED <<assets, ledgers, bound, cycles, log, intents>>
  BY ElsewhereSame
<1>2. SlotsOnce' /\ LegacyRows' /\ AllTraced'
  BY <1>1 DEF Layer2, SlotsOnce, LegacyRows, AllTraced, Traced, Has
<1>3. /\ \/ proc' = proc /\ (pc' = pc \/ pc' \in {"open", "decide"})
         \/ Maintain /\ proc'.todo = Unresolved /\ pc' = "recover" /\ proc'.mode = proc.mode
      /\ strategyOf' = strategyOf \/ proc = Idle
  BY ElsewhereLocals DEF Layer2
<1>4. Agreed'
  <2>1. CASE strategyOf' = strategyOf
    BY <1>1, <1>3, <2>1 DEF Layer2, Agreed, Configured
  <2>2. CASE proc = Idle
    BY <1>3, <2>2 DEF Agreed, Idle
  <2>3. QED
    BY <1>3, <2>1, <2>2
<1>5. Held'
  <2>1. CASE proc' = proc
    BY <1>1, <1>3, <2>1 DEF Layer2, Held, Has, Current
  <2>2. CASE Maintain
    BY <1>1, <1>3, <2>2, HandedHas DEF Layer2, Held, Has, Current
  <2>3. QED
    BY <1>3, <2>1, <2>2
<1>6. QED
  BY <1>2, <1>4, <1>5 DEF Layer2

\* An intent stays, but for its status.
SameIntent(d, b) ==
  /\ Has(d, b)' <=> Has(d, b)
  /\ intents'[d][b].mode = intents[d][b].mode /\ intents'[d][b].day = intents[d][b].day

\* A report does not make or unmake an intent.
LEMMA ReportHas ==
  ASSUME TypeOK, NEW c \in CycleIds, NEW a \in Asset, Reports(c, a), Has(c, a)
  PROVE  \A d \in CycleIds, b \in Asset :
           SameIntent(d, b)
<1> SUFFICES ASSUME NEW d \in CycleIds, NEW b \in Asset
             PROVE  SameIntent(d, b)
  OBVIOUS
<1>1. CASE d = c /\ b = a
  <2>1. /\ intents'[c][a].status \in {"SENT", "DONE"}
        /\ intents'[c][a].mode = intents[c][a].mode /\ intents'[c][a].day = intents[c][a].day
    BY Report
  <2>2. Has(d, b)'
    BY <1>1, <2>1 DEF Has, None
  <2>3. QED
    BY <1>1, <2>1, <2>2 DEF SameIntent
<1>2. CASE d # c \/ b # a
  <2>1. intents'[d][b] = intents[d][b]
    BY <1>2, Report
  <2>2. QED
    BY <2>1 DEF Has, SameIntent
<1>3. QED
  BY <1>1, <1>2

\* Recovery touches neither slots nor bindings.
LEMMA Recover2 ==
  ASSUME Layer2, NEW c \in CycleIds, NEW a \in Asset, Recover(c, a) \/ RecoverFails(c, a)
  PROVE  Layer2'
<1>1. Layer1' /\ Layer1
  BY Recover1 DEF Layer2
<1>2. /\ UNCHANGED <<strategyOf, assets, ledgers, bound, cycles>> /\ pc' = "recover"
      /\ Reports(c, a) \/ UNCHANGED <<log, intents>>
      /\ <<c, a>> \in proc.todo
  BY DEF Recover, RecoverFails, Running, configVars, Reports
<1>3. Has(c, a)
  BY <1>2 DEF Layer2, Held
<1>4. \A d \in CycleIds, b \in Asset :
        SameIntent(d, b)
  <2>1. CASE Reports(c, a)
    BY <1>1, <1>3, <2>1, ReportHas DEF Layer1
  <2>2. CASE UNCHANGED <<log, intents>>
    BY <2>2 DEF Has, SameIntent
  <2>3. QED
    BY <1>2, <2>1, <2>2
<1>5. SlotsOnce' /\ LegacyRows' /\ AllTraced'
  BY <1>2, <1>4, RowsKept DEF SameRows, SameIntent
<1>6. proc'.mode = proc.mode /\ proc'.todo \subseteq proc.todo
  BY <1>1 DEF Recover, RecoverFails, Layer1, TypeOK, Local
<1>7. Agreed'
  BY <1>2, <1>6 DEF Layer2, Agreed, Configured
<1>8. Held'
  BY <1>2, <1>4, <1>6 DEF Layer2, Held, SameIntent
<1>9. QED
  BY <1>1, <1>5, <1>7, <1>8 DEF Layer2

\* SUBMITTING rewrites the status of the current intent.
LEMMA Submitted ==
  ASSUME Layer1, Submit
  PROVE  /\ intents'[proc.cycle][Current].status = "SENT"
         /\ intents'[proc.cycle][Current].mode = intents[proc.cycle][Current].mode
         /\ intents'[proc.cycle][Current].day = intents[proc.cycle][Current].day
         /\ \A d \in CycleIds, b \in Asset :
              d # proc.cycle \/ b # Current => intents'[d][b] = intents[d][b]
<1>1. proc.cycle \in CycleIds /\ Current \in Asset
  BY Here DEF Layer1, Submit, AtAsset
<1> DEFINE i == [intents[proc.cycle][Current] EXCEPT !.status = "SENT"]
<1>2. intents[proc.cycle][Current] \in Intent
  BY <1>1 DEF Layer1, TypeOK
<1>3. i \in Intent /\ i.status = "SENT" /\ i.mode = intents[proc.cycle][Current].mode
      /\ i.day = intents[proc.cycle][Current].day
  BY <1>2 DEF Intent
<1>4. intents' = [intents EXCEPT ![proc.cycle][Current] = i]
  BY <1>1, BecameIntent DEF Submit, Layer1
<1>5. /\ intents'[proc.cycle][Current] = i
      /\ \A d \in CycleIds, b \in Asset :
           d # proc.cycle \/ b # Current => intents'[d][b] = intents[d][b]
  <2> HIDE DEF i
  <2>1. QED
    BY <1>1, <1>3, <1>4 DEF Layer1, TypeOK
<1>6. QED
  BY <1>3, <1>5

\* The steps of a cycle that touch no intent, and those that do.
Recording == Decide \/ RecordDecision \/ Decline \/ Approve \/ Refresh \/ Guard \/ Rewrite \/ AfterExecution
Executing == ExecutePaper \/ ExecuteLive

\* The executor reports on the current order.
LEMMA Executed ==
  ASSUME Executing
  PROVE  /\ Reports(proc.cycle, Current) /\ proc' = proc /\ pc \in {"execute", "submitted"}
         /\ pc' \in {"rewrite", "submitted"}
         /\ pc' = "submitted" =>
              ReportUnknown(proc.cycle, Current) \/ ReportBooked(proc.cycle, Current)
BY DEF Executing, ExecutePaper, ExecuteLive, Goto, Reports

\* A step of a cycle leaves the process with what it had to recover.
LEMMA CycleLocals == ASSUME Layer1, CycleStep PROVE proc'.todo = proc.todo
<1>1. proc \in Local
  BY DEF Layer1, TypeOK
<1>2. \/ proc' = proc \/ (\E i \in Mine : proc' = [proc EXCEPT !.next = i])
      \/ proc' = [proc EXCEPT !.day = Day(now)] \/ proc' = [proc EXCEPT !.day = 0]
  BY DEF CycleStep, Decide, RecordDecision, Decline, Approve, Refresh, Guard, SaveIntent,
         ExecutePaper, Submit, ExecuteLive, Rewrite, AfterExecution, Advance, Goto
<1>3. QED
  BY <1>1, <1>2 DEF Local

\* What a step of a cycle makes of an intent.
LEMMA CycleIntents ==
  ASSUME Layer2, CycleStep
  PROVE  \/ SaveIntent /\ intents'[proc.cycle][Current].status # None
            /\ \A d \in CycleIds, b \in Asset :
                 d # proc.cycle \/ b # Current => intents'[d][b] = intents[d][b]
         \/ ~SaveIntent /\ \A d \in CycleIds, b \in Asset :
              SameIntent(d, b)
<1>1. CASE SaveIntent
  <2>1. intents'[proc.cycle][Current].status = "PREPARED"
        /\ \A d \in CycleIds, b \in Asset :
             d # proc.cycle \/ b # Current => intents'[d][b] = intents[d][b]
    BY <1>1, Saved DEF Layer2
  <2>2. QED
    BY <1>1, <2>1 DEF None
<1>2. CASE Submit
  <2>1. /\ proc.cycle \in CycleIds /\ Current \in Asset /\ Has(proc.cycle, Current)
    BY <1>2, Here DEF Submit, AtAsset, Layer2, Layer1, Held
  <2>2. /\ intents'[proc.cycle][Current].status = "SENT"
        /\ intents'[proc.cycle][Current].mode = intents[proc.cycle][Current].mode
        /\ intents'[proc.cycle][Current].day = intents[proc.cycle][Current].day
        /\ \A d \in CycleIds, b \in Asset :
             d # proc.cycle \/ b # Current => intents'[d][b] = intents[d][b]
    BY <1>2, Submitted DEF Layer2
  <2>3. ASSUME NEW d \in CycleIds, NEW b \in Asset
        PROVE  SameIntent(d, b)
    <3>1. CASE d = proc.cycle /\ b = Current
      BY <2>1, <2>2, <3>1 DEF Has, None, SameIntent
    <3>2. CASE ~(d = proc.cycle /\ b = Current)
      BY <2>2, <3>2 DEF Has, SameIntent
    <3>3. QED
      BY <3>1, <3>2
  <2>4. ~SaveIntent
    BY <1>2 DEF SaveIntent, Submit
  <2>5. QED
    BY <2>3, <2>4
<1>3. CASE Executing
  <2>1. Reports(proc.cycle, Current) /\ pc \in {"execute", "submitted"}
    BY <1>3, Executed
  <2>2. /\ proc.cycle \in CycleIds /\ Current \in Asset /\ Has(proc.cycle, Current)
    BY <2>1, Here DEF AtAsset, Layer2, Layer1, Held
  <2>3. \A d \in CycleIds, b \in Asset :
          SameIntent(d, b)
    BY <2>1, <2>2, ReportHas DEF Layer2, Layer1
  <2>4. ~SaveIntent
    BY <2>1 DEF SaveIntent
  <2>5. QED
    BY <2>3, <2>4
<1>4. CASE Recording
  <2>1. intents' = intents /\ ~SaveIntent
    BY <1>4 DEF Recording, Decide, RecordDecision, Decline, Approve, Refresh, Guard, Rewrite,
                AfterExecution, SaveIntent, storeVars
  <2>2. QED
    BY <2>1 DEF Has, SameIntent
<1>5. QED
  BY <1>1, <1>2, <1>3, <1>4 DEF CycleStep, Recording, Executing

\* A cycle saves intents of its own slot and strategy only.
LEMMA CycleStep2 == ASSUME Layer2, CycleStep, Layer1' PROVE Layer2'
<1>1. /\ UNCHANGED <<strategyOf, assets, ledgers, bound, cycles>> /\ SameRows
      /\ proc'.mode = proc.mode /\ proc'.cycle = proc.cycle /\ pc \in InCycle
      /\ proc'.todo = proc.todo
  BY InCycle1, CycleLocals DEF Layer2, Frame, SameRows
<1>2. Agreed'
  BY <1>1 DEF Layer2, Agreed, Configured
<1>3. ASSUME NEW c \in CycleIds, NEW a \in Asset, Has(c, a) PROVE Has(c, a)'
  <2>1. CASE SaveIntent /\ c = proc.cycle /\ a = Current
    BY <2>1, CycleIntents DEF Has, SameIntent
  <2>2. CASE ~(SaveIntent /\ c = proc.cycle /\ a = Current)
    BY <1>3, <2>2, CycleIntents DEF Has, SameIntent
  <2>3. QED
    BY <2>1, <2>2
<1>4. ASSUME NEW c \in CycleIds, NEW a \in Asset, <<c, a>> \in proc'.todo PROVE Has(c, a)'
  BY <1>1, <1>3, <1>4 DEF Layer2, Held
<1>5. ASSUME pc' \in {"execute", "submitted"} PROVE Has(proc.cycle, Current)'
  <2>1. /\ proc.cycle \in CycleIds /\ Current \in Asset /\ Current' = Current
        /\ SaveIntent \/ (pc \in {"execute", "submitted"})
    <3>1. SaveIntent \/ (pc \in {"execute", "submitted"} /\ proc' = proc /\ UNCHANGED assets)
      BY <1>5 DEF CycleStep, Decide, RecordDecision, Decline, Approve, Refresh, Guard,
                  ExecutePaper, Submit, ExecuteLive, Rewrite, AfterExecution, Advance, Goto, Running,
                  configVars
    <3>2. CASE SaveIntent
      <4>1. proc'.next = proc.next /\ assets' = assets /\ pc = "save"
        BY <3>2 DEF SaveIntent, Layer2, Layer1, TypeOK, Local, Running, configVars
      <4>2. QED
        BY <3>2, <4>1, Here DEF Current, AtAsset, Layer2, Layer1
    <3>3. CASE pc \in {"execute", "submitted"}
      BY <3>1, <3>3, Here DEF Current, AtAsset, Layer2, Layer1, SaveIntent
    <3>4. QED
      BY <3>1, <3>2, <3>3
  <2>2. CASE SaveIntent
    BY <1>1, <2>1, <2>2, CycleIntents DEF Has
  <2>3. CASE pc \in {"execute", "submitted"}
    BY <1>1, <1>3, <2>1, <2>3 DEF Has, Layer2, Held
  <2>4. QED
    BY <2>1, <2>2, <2>3
<1>6. SlotsOnce' /\ LegacyRows' /\ AllTraced'
  <2>1. CASE SaveIntent
    <3>1. SlotsOnce' /\ LegacyRows'
      BY <1>1 DEF Layer2, SlotsOnce, LegacyRows
    <3>2. SUFFICES ASSUME NEW c \in CycleIds, NEW a \in Asset, Has(c, a)' PROVE Traced(c, a)'
      BY <3>1 DEF AllTraced
    <3>3. CASE c = proc.cycle /\ a = Current
      <4>1. pc \in AtAsset /\ proc.cycle # 0
        BY <2>1 DEF SaveIntent, AtAsset, InCycle, Layer2, Layer1, Where
      <4>2. /\ proc.cycle \in 1..Len(cycles) /\ cycles[proc.cycle].mode = proc.mode
            /\ cycles[proc.cycle].slot.strategy = proc.strategy /\ proc.next \in Mine
            /\ proc.next \in 1..Len(assets)
        BY <4>1, Here DEF Layer2, Layer1, Where
      <4>3. proc.mode # None
        <5>1. cycles[proc.cycle] \in Cycle
          BY <4>2 DEF Layer2, Layer1, TypeOK
        <5>2. QED
          BY <4>2, <5>1 DEF Cycle, Modes, None
      <4>4. Current.portfolio \in Configured /\ strategyOf[Current.portfolio] = proc.strategy
        BY <4>2 DEF Current, Configured, Mine
      <4>5. bound[proc.mode][Current.portfolio] = proc.strategy
        BY <4>3, <4>4 DEF Layer2, Agreed
      <4>6. intents'[proc.cycle][Current].mode = proc.mode
        BY <2>1, Saved DEF Layer2
      <4>7. QED
        BY <1>1, <3>3, <4>2, <4>5, <4>6 DEF Traced
    <3>4. CASE ~(c = proc.cycle /\ a = Current)
      <4>1. intents'[c][a] = intents[c][a]
        BY <2>1, <3>4, Saved DEF Layer2
      <4>2. Traced(c, a)
        BY <3>2, <4>1 DEF Layer2, AllTraced, Has
      <4>3. QED
        BY <1>1, <4>1, <4>2 DEF Traced
    <3>5. QED
      BY <3>3, <3>4
  <2>2. CASE ~SaveIntent
    BY <1>1, <2>2, CycleIntents, RowsKept DEF SameIntent
  <2>3. QED
    BY <2>1, <2>2
<1>7. QED
  BY <1>1, <1>2, <1>4, <1>5, <1>6 DEF Layer2, Held

\* Every step is of one of these kinds.
LEMMA Kinds ==
  ASSUME [Next]_vars
  PROVE  \/ \E m \in Modes : Doctor(m) \/ \E s \in Strategies : Run(m, s)
         \/ BeginCycle \/ Ending
         \/ \E c \in CycleIds, a \in Asset : Recover(c, a) \/ RecoverFails(c, a)
         \/ CycleStep \/ Elsewhere
BY DEF Next, Process, Ending, CycleStep, Elsewhere

\* The rows of the cycles table are within the bound on cycles.
LEMMA RowsAreCycles == ASSUME TypeOK PROVE 1..Len(cycles) \subseteq CycleIds
<1>1. Len(cycles) \in Nat /\ Len(cycles) <= MaxCycles /\ MaxCycles \in Nat
  BY CycleAssumption DEF TypeOK
<1>2. QED
  BY <1>1 DEF CycleIds

\* Every step keeps the second layer.
LEMMA Layer2Step == Layer2 /\ [Next]_vars => Layer2'
<1> SUFFICES ASSUME Layer2, [Next]_vars PROVE Layer2'
  OBVIOUS
<1>1. Layer1'
  BY Layer1Step DEF Layer2
<1>2. CASE \E m \in Modes : Doctor(m) \/ \E s \in Strategies : Run(m, s)
  BY <1>2, Binding2
<1>3. CASE BeginCycle
  BY <1>3, BeginCycle2
<1>4. CASE Ending
  BY <1>4, Ending2
<1>5. CASE \E c \in CycleIds, a \in Asset : Recover(c, a) \/ RecoverFails(c, a)
  BY <1>5, Recover2
<1>6. CASE CycleStep
  BY <1>1, <1>6, CycleStep2
<1>7. CASE Elsewhere
  BY <1>1, <1>7, Elsewhere2
<1>8. QED
  BY <1>2, <1>3, <1>4, <1>5, <1>6, <1>7, Kinds

\* The second layer is an invariant.
LEMMA Layer2Holds == Spec => []Layer2
BY Layer2Initially, Layer2Step, PTL DEF Spec

\* However often it is started, switched to the other mode, killed or started over: within one
\* period of its strategy the program opens at most one order for an asset.
THEOREM OneOrder == Spec => []OneOrderPerPeriod
<1>1. Layer2 => OneOrderPerPeriod
  <2> SUFFICES ASSUME Layer2, NEW c \in 1..Len(cycles), NEW d \in 1..Len(cycles), NEW a \in Asset,
                      c # d, Has(c, a), Has(d, a),
                      cycles[c].slot.strategy = cycles[d].slot.strategy
                        \/ cycles[c].mode = cycles[d].mode
               PROVE  cycles[c].slot # cycles[d].slot
                      /\ cycles[c].slot.strategy = cycles[d].slot.strategy
    BY DEF OneOrderPerPeriod
  <2>1. cycles[c].slot # cycles[d].slot
    BY DEF Layer2, SlotsOnce
  <2>2. c \in CycleIds /\ d \in CycleIds
    BY RowsAreCycles DEF Layer2, Layer1
  <2>3. Traced(c, a) /\ Traced(d, a)
    BY <2>2 DEF Layer2, AllTraced
  <2>4. QED
    BY <2>1, <2>3 DEF Traced
<1>2. QED
  BY <1>1, Layer2Holds, PTL

\* In each mode the orders of a portfolio come from one strategy; from the default one if the
\* portfolio traded before strategies had names.
THEOREM OneStrategyEach == Spec => []OneStrategy
<1>1. Layer2 => OneStrategy
  <2> SUFFICES ASSUME Layer2, NEW c \in 1..Len(cycles), NEW d \in 1..Len(cycles),
                      NEW a \in Asset, NEW b \in Asset, Has(c, a), Has(d, b),
                      cycles[c].mode = cycles[d].mode, a.portfolio = b.portfolio
               PROVE  /\ cycles[c].slot.strategy = cycles[d].slot.strategy
                      /\ <<cycles[c].mode, a.portfolio>> \in ledgers =>
                           cycles[c].slot.strategy = Default
    BY DEF OneStrategy
  <2>1. c \in CycleIds /\ d \in CycleIds
    BY RowsAreCycles DEF Layer2, Layer1
  <2>2. Traced(c, a) /\ Traced(d, b)
    BY <2>1 DEF Layer2, AllTraced
  <2>3. cycles[c] \in Cycle
    BY DEF Layer2, Layer1, TypeOK
  <2>4. cycles[c].mode \in Modes /\ cycles[c].slot.strategy \in Strategies
        /\ a.portfolio \in Portfolios
    BY <2>3 DEF Cycle, Asset
  <2>5. QED
    BY <2>2, <2>4, CycleAssumption DEF Layer2, LegacyRows, Traced
<1>2. QED
  BY <1>1, Layer2Holds, PTL

-----------------------------------------------------------------------------
\* Decision records and intents: what an entry e and an intent i say together, and how far the
\* cycle under way has come.

IsOpen(i) == i.status \in {"PREPARED", "SENT"}
Blank(e) == ~e.notional /\ ~e.exposure

PairOf(e, i) ==
  /\ e.execution = None => Blank(e)
  /\ e.execution = "NOT_ATTEMPTED" => (e.notional <=> e.exposure)
  /\ e.execution \in {None, "NOT_ATTEMPTED"} => i.status = None
  /\ i.status = None => e.execution \in {None, "NOT_ATTEMPTED"}
                        \/ (e.execution = "PENDING" /\ Blank(e))
  /\ i.status = "PREPARED" => e.execution = "PENDING" /\ Blank(e)
  /\ i.status = "SENT" => e.execution \in {"PENDING", "UNRESOLVED", "VERDICT"} /\ Blank(e)
  /\ i.status = "DONE" => e.execution = "VERDICT" /\ e.notional

Fresh(e, i) == e.execution = None /\ i.status = None
Decided(e, i) == e.execution = "NOT_ATTEMPTED" /\ Blank(e) /\ i.status = None
Settled(e) == e.notional /\ e.exposure

\* The assets before the one under way, that one, and those behind it.
Before(place, e, i) == IF place = "record" THEN Decided(e, i) ELSE Settled(e)
Under(place, e, i) ==
  /\ place = "record" => Fresh(e, i)
  /\ place \in {"assess", "refresh", "guard"} => Decided(e, i)
  /\ place = "save" => e.execution = "PENDING" /\ i.status = None
  /\ place = "execute" => i.status = "PREPARED"
  /\ place = "submitted" => i.status = "SENT"
  /\ place = "rewrite" => i.status \in {"SENT", "DONE"} /\ ~e.exposure
  /\ place = "unresolved" => i.status = "SENT"
  /\ place = "after" => i.status = "DONE" /\ ~e.exposure
  /\ place = "finish" => Settled(e)
Behind(place, e, i) ==
  /\ place = "record" => Fresh(e, i)
  /\ place = "finish" => Settled(e)
  /\ place \notin {"record", "finish"} => Decided(e, i)

Stage(place, next, k, e, i) ==
  /\ k < next => Before(place, e, i)
  /\ k = next => Under(place, e, i)
  /\ k > next => Behind(place, e, i)

Pairs == \A c \in CycleIds, a \in Asset : PairOf(log[c][a], intents[c][a])
OneOpen ==
  /\ \A c, d \in CycleIds, a, b \in Asset :
       IsOpen(intents[c][a]) /\ IsOpen(intents[d][b]) => c = d /\ a = b
  /\ pc \in {"guard", "save"} => \A c \in CycleIds, a \in Asset : ~IsOpen(intents[c][a])
TodoOpen ==
  /\ \A c \in CycleIds, a \in Asset : <<c, a>> \in proc.todo => IsOpen(intents[c][a])
  /\ pc # "recover" => proc.todo = {}
AllFresh(c) == \A a \in Asset : Fresh(log[c][a], intents[c][a])
Ahead == \A c \in CycleIds : c > Len(cycles) => AllFresh(c)
Begun == proc.cycle # 0 /\ pc \in {"recover", "decide"} => AllFresh(proc.cycle)
Staged ==
  \A k \in Mine :
    Stage(pc, proc.next, k, log[proc.cycle][assets[k]], intents[proc.cycle][assets[k]])
Foreign ==
  \A a \in Asset :
    (\A k \in Mine : a # assets[k]) => Fresh(log[proc.cycle][a], intents[proc.cycle][a])
Progress == pc \in AtAsset => Staged /\ Foreign
Completed ==
  \A c \in 1..Len(cycles), a \in Asset :
    cycles[c].status = "COMPLETED" => Settled(log[c][a]) \/ Fresh(log[c][a], intents[c][a])

Layer3 ==
  /\ Layer2
  /\ Pairs /\ OneOpen /\ TodoOpen /\ Ahead /\ Begun /\ Progress /\ Completed

\* Different places in the list are different assets.
LEMMA AssetsDiffer ==
  ASSUME TypeOK, NEW i \in Mine, NEW j \in Mine, assets[i] = assets[j]
  PROVE  i = j /\ i \in Nat /\ assets[i] \in Asset
<1>1. assets \in Seq(Asset) /\ i \in 1..Len(assets) /\ j \in 1..Len(assets)
  BY CycleAssumption DEF TypeOK, Mine
<1>2. QED
  BY <1>1, CycleAssumption DEF TypeOK

\* At first nothing is recorded and nothing is open.
LEMMA Layer3Initially == Init => Layer3
<1> SUFFICES ASSUME Init PROVE Layer3
  OBVIOUS
<1>1. Layer2
  BY Layer2Initially
<1>2. \A c \in CycleIds, a \in Asset : log[c][a] = NoEntry /\ intents[c][a] = NoIntent
  BY DEF Init
<1>3. \A c \in CycleIds, a \in Asset :
        PairOf(log[c][a], intents[c][a]) /\ Fresh(log[c][a], intents[c][a])
        /\ ~IsOpen(intents[c][a])
  BY <1>2 DEF NoEntry, NoIntent, PairOf, Fresh, IsOpen, Blank, None
<1>4. Pairs /\ OneOpen /\ Ahead
  BY <1>3 DEF Pairs, OneOpen, Ahead, AllFresh
<1>5. TodoOpen /\ Begun /\ Progress /\ Completed
  BY DEF Init, Idle, TodoOpen, Begun, Progress, Completed, AtAsset
<1>6. QED
  BY <1>1, <1>4, <1>5 DEF Layer3

\* A step that leaves records, intents and cycles alone leaves what is said of them alone.
LEMMA StoreKept ==
  ASSUME Layer3, UNCHANGED <<log, intents, cycles>>
  PROVE  Pairs' /\ Ahead' /\ Completed'
BY DEF Layer3, Pairs, Ahead, Completed, AllFresh

\* With the same intents there is no second open one.
LEMMA OpenKept ==
  ASSUME Layer3, UNCHANGED intents, pc' \in {"guard", "save"} => pc \in {"guard", "save"}
  PROVE  OneOpen'
BY DEF Layer3, OneOpen

\* A recovery is handed all that is open.
LEMMA HandedOpen ==
  ASSUME proc'.todo = Unresolved, UNCHANGED intents, pc' = "recover"
  PROVE  TodoOpen'
BY DEF TodoOpen, Unresolved, IsOpen

\* Binding touches no order, and doctor is handed the one open order, if there is one.
LEMMA Binding3 ==
  ASSUME Layer3, NEW m \in Modes, Doctor(m) \/ \E s \in Strategies : Run(m, s)
  PROVE  Layer3'
<1>1. Layer2' /\ Layer2 /\ Layer1
  BY Binding2 DEF Layer3, Layer2
<1>2. /\ UNCHANGED <<cycles, log, intents>> /\ pc' \in {"recover", "begin"}
      /\ pc' = "recover" => Doctor(m)
  BY DEF Doctor, Run, Recovering
<1>3. Pairs' /\ Ahead' /\ Completed' /\ OneOpen'
  BY <1>2, StoreKept, OpenKept
<1>4. CASE Doctor(m)
  <2>1. proc'.cycle = 0 /\ proc'.todo = Unresolved /\ pc' = "recover"
    BY <1>1, <1>4, HandedOver, CycleAssumption DEF Doctor, Layer1
  <2>2. QED
    BY <1>1, <1>2, <1>3, <2>1, HandedOpen DEF Layer3, Begun, Progress, AtAsset
<1>5. CASE \E s \in Strategies : Run(m, s)
  <2>1. pc' = "begin" /\ proc'.todo = proc.todo /\ pc = "open"
    BY <1>1, <1>5 DEF Run, Bind, Layer1, TypeOK, Local
  <2>2. QED
    BY <1>1, <1>2, <1>3, <2>1 DEF Layer3, TodoOpen, Begun, Progress, AtAsset
<1>6. QED
  BY <1>4, <1>5

\* A cycle begins with no records, and is handed the one open order, if there is one.
LEMMA BeginCycle3 == ASSUME Layer3, BeginCycle PROVE Layer3'
<1>1. Layer2' /\ Layer2 /\ Layer1
  BY BeginCycle2 DEF Layer3, Layer2
<1>2. /\ UNCHANGED <<log, intents>>
      /\ Len(cycles') = Len(cycles) + 1 /\ Len(cycles) \in Nat /\ Len(cycles') \in 0..MaxCycles
      /\ cycles'[Len(cycles')] = [slot |-> Slot, mode |-> proc.mode, status |-> "RUNNING"]
      /\ \A i \in 1..Len(cycles) : cycles'[i] = cycles[i]
      /\ Recovering(Len(cycles'))
  BY <1>1, Began
<1>3. proc'.cycle = Len(cycles') /\ proc'.todo = Unresolved /\ pc' = "recover"
  BY <1>1, <1>2, HandedOver DEF Layer1
<1>4. Pairs' /\ OneOpen'
  BY <1>2, <1>3, OpenKept DEF Layer3, Pairs
<1>5. Len(cycles') \in CycleIds /\ CycleIds \subseteq Nat /\ Len(cycles') > Len(cycles)
  BY <1>2, CycleAssumption DEF CycleIds
<1>6. Begun'
  BY <1>2, <1>3, <1>5 DEF Layer3, Ahead, Begun, AllFresh
<1>7. Ahead'
  BY <1>2, <1>5 DEF Layer3, Ahead, AllFresh
<1>8. Completed'
  <2>1. cycles'[Len(cycles')].status # "COMPLETED"
    BY <1>2
  <2>2. ASSUME NEW c \in 1..Len(cycles'), c # Len(cycles')
        PROVE  c \in 1..Len(cycles) /\ cycles'[c] = cycles[c]
    BY <1>2, <2>2
  <2>3. QED
    BY <1>2, <2>1, <2>2 DEF Layer3, Completed
<1>9. TodoOpen' /\ Progress'
  BY <1>2, <1>3, HandedOpen DEF Progress, AtAsset
<1>10. QED
  BY <1>1, <1>4, <1>6, <1>7, <1>8, <1>9 DEF Layer3

\* A process may end anywhere; a cycle is COMPLETED only behind its last asset.
LEMMA Ending3 == ASSUME Layer3, Ending PROVE Layer3'
<1>1. Layer2' /\ Layer2 /\ Layer1
  BY Ending2 DEF Layer3, Layer2
<1>2. /\ Exit /\ Frame /\ UNCHANGED <<bound, log, intents>> /\ SameRows
      /\ \A c \in 1..Len(cycles) :
           \/ cycles'[c].status = cycles[c].status
           \/ cycles'[c].status = "HOLD"
           \/ cycles'[c].status = "COMPLETED" /\ pc = "finish" /\ c = proc.cycle
  BY <1>1, Ended
<1>3. pc' = "off" /\ proc' = Idle
  BY <1>2 DEF Exit
<1>4. Pairs' /\ OneOpen' /\ Ahead'
  BY <1>2, <1>3, OpenKept DEF Layer3, Pairs, Ahead, AllFresh, SameRows
<1>5. TodoOpen' /\ Begun' /\ Progress'
  BY <1>3 DEF TodoOpen, Begun, Progress, Idle, AtAsset
<1>6. ASSUME NEW c \in 1..Len(cycles), NEW a \in Asset, cycles'[c].status = "COMPLETED"
      PROVE  Settled(log[c][a]) \/ Fresh(log[c][a], intents[c][a])
  <2>1. CASE cycles[c].status = "COMPLETED"
    BY <2>1 DEF Layer3, Completed
  <2>2. CASE pc = "finish" /\ c = proc.cycle
    <3>1. Staged /\ Foreign
      BY <2>2 DEF Layer3, Progress, AtAsset
    <3>2. CASE \A k \in Mine : a # assets[k]
      BY <2>2, <3>1, <3>2 DEF Foreign
    <3>3. ASSUME NEW k \in Mine, a = assets[k] PROVE Settled(log[c][a])
      <4>1. k \in Nat /\ proc.next \in Nat
        BY <1>1, AssetsDiffer, Locals DEF Layer1
      <4>2. Stage("finish", proc.next, k, log[c][a], intents[c][a])
        BY <2>2, <3>1, <3>3 DEF Staged
      <4>3. QED
        BY <4>1, <4>2 DEF Stage, Before, Under, Behind
    <3>4. QED
      BY <3>2, <3>3
  <2>3. QED
    BY <1>2, <1>6, <2>1, <2>2
<1>7. Completed'
  BY <1>2, <1>6 DEF Completed, SameRows
<1>8. QED
  BY <1>1, <1>4, <1>5, <1>7 DEF Layer3

\* Outside the cycle records and intents stay.
LEMMA Elsewhere3 == ASSUME Layer3, Elsewhere, Layer2' PROVE Layer3'
<1>1. UNCHANGED <<assets, ledgers, bound, cycles, log, intents>>
  BY ElsewhereSame
<1>2. /\ \/ proc' = proc /\ (pc' = pc \/ pc' \in {"open", "decide"})
         \/ Maintain /\ proc'.todo = Unresolved /\ pc' = "recover" /\ proc'.mode = proc.mode
            /\ proc'.cycle = 0
      /\ strategyOf' = strategyOf \/ proc = Idle
      /\ Recovered => proc.todo = {}
  BY ElsewhereLocals DEF Layer3, Layer2
<1>3. Pairs' /\ Ahead' /\ Completed' /\ OneOpen'
  BY <1>1, <1>2, StoreKept, OpenKept
<1>4. CASE Maintain /\ proc'.todo = Unresolved /\ pc' = "recover" /\ proc'.cycle = 0
  BY <1>1, <1>3, <1>4, HandedOpen DEF Layer3, Begun, Progress, AtAsset
<1>5. CASE proc' = proc /\ (pc' = pc \/ pc' \in {"open", "decide"})
  <2>1. pc = "recover" => pc' = "recover" \/ Recovered
    BY <1>5 DEF Elsewhere, Start, OpenFurther, Maintain, Recovering, Tick, Reassign, vars
  <2>2. pc' = "decide" => pc \in {"recover", "decide"}
    BY <1>5 DEF Elsewhere, Start, OpenFurther, Maintain, Recovering, Recovered, Tick, Reassign, vars
  <2>2a. TodoOpen'
    BY <1>1, <1>2, <1>5, <2>1 DEF Layer3, TodoOpen
  <2>3. Begun'
    BY <1>1, <1>5, <2>2 DEF Layer3, Begun, AllFresh
  <2>4. Progress'
    <3>1. CASE pc' \in AtAsset
      <4>1. pc \in AtAsset /\ pc' = pc
        BY <1>5, <3>1 DEF AtAsset
      <4>2. strategyOf' = strategyOf
        BY <4>1 DEF Elsewhere, Start, OpenFurther, Maintain, Recovered, Tick, Reassign, vars,
                    configVars, Running, AtAsset
      <4>3. Mine' = Mine
        BY <1>1, <1>5, <4>2 DEF Mine
      <4>4. QED
        BY <1>1, <1>5, <4>1, <4>3 DEF Layer3, Progress, Staged, Foreign
    <3>2. CASE pc' \notin AtAsset
      BY <3>2 DEF Progress
    <3>3. QED
      BY <3>1, <3>2
  <2>5. QED
    BY <1>3, <2>2a, <2>3, <2>4 DEF Layer3
<1>6. QED
  BY <1>2, <1>4, <1>5

\* What a report on an open order leaves of it.
LEMMA ReportPair ==
  ASSUME Layer3, NEW c \in CycleIds, NEW a \in Asset, Reports(c, a), IsOpen(intents[c][a])
  PROVE  /\ PairOf(log'[c][a], intents'[c][a]) /\ ~log'[c][a].exposure
         /\ \A d \in CycleIds, b \in Asset :
              IsOpen(intents'[d][b]) => IsOpen(intents[d][b])
         /\ Pairs'
<1>1. /\ intents'[c][a].status \in {"SENT", "DONE"}
      /\ \A d \in CycleIds, b \in Asset :
           d # c \/ b # a => intents'[d][b] = intents[d][b] /\ log'[d][b] = log[d][b]
      /\ log'[c][a].exposure = log[c][a].exposure
      /\ \/ intents'[c][a].status = "SENT" /\ log'[c][a].notional = FALSE
            /\ log'[c][a].execution \in {"UNRESOLVED", "VERDICT"}
         \/ intents'[c][a].status = "DONE" /\ log'[c][a].notional = TRUE
            /\ log'[c][a].execution = "VERDICT"
  BY Report DEF Layer3, Layer2, Layer1
<1>2. ~log[c][a].exposure
  BY DEF Layer3, Pairs, PairOf, IsOpen, Blank
<1>3. PairOf(log'[c][a], intents'[c][a])
  BY <1>1, <1>2 DEF PairOf, Blank, None
<1>4. Pairs'
  BY <1>1, <1>3 DEF Layer3, Pairs
<1>5. QED
  BY <1>1, <1>2, <1>3, <1>4

\* Recovery reports on the open order, in its record and its intent.
LEMMA Recover3 ==
  ASSUME Layer3, NEW c \in CycleIds, NEW a \in Asset, Recover(c, a) \/ RecoverFails(c, a)
  PROVE  /\ Layer3'
         /\ UNCHANGED <<log, intents>> \/ (Reports(c, a) /\ IsOpen(intents[c][a]))
<1>1. Layer2' /\ Layer2 /\ Layer1
  BY Recover2 DEF Layer3, Layer2
<1>2. /\ UNCHANGED <<strategyOf, assets, cycles>> /\ pc = "recover" /\ pc' = "recover"
      /\ Reports(c, a) \/ UNCHANGED <<log, intents>>
      /\ <<c, a>> \in proc.todo
  BY DEF Recover, RecoverFails, Running, configVars, Reports
<1>3. IsOpen(intents[c][a])
  BY <1>2 DEF Layer3, TodoOpen
<1>4. /\ proc'.todo \subseteq proc.todo /\ proc'.cycle = proc.cycle
      /\ proc'.todo = proc.todo => intents'[c][a].status = "SENT"
  <2>1. proc \in Local
    BY <1>1 DEF Layer1, TypeOK
  <2>2. CASE proc' = [proc EXCEPT !.todo = @ \ {<<c, a>>}]
             \/ proc' = [proc EXCEPT !.todo = @ \ {<<c, a>>}, !.failed = TRUE]
    <3>1. proc'.todo = proc.todo \ {<<c, a>>} /\ proc'.cycle = proc.cycle
      BY <2>1, <2>2 DEF Local
    <3>2. QED
      BY <1>2, <3>1
  <2>3. CASE proc' = proc /\ ReportBooked(c, a)
    <3>1. intents'[c][a].status = "SENT"
      BY <1>1, <2>3, BecameIntent DEF ReportBooked, Layer1, TypeOK, Intent
    <3>2. QED
      BY <2>3, <3>1
  <2>4. QED
    BY <2>2, <2>3 DEF Recover, RecoverFails
<1>5. /\ Pairs'
      /\ \A d \in CycleIds, b \in Asset : IsOpen(intents'[d][b]) => IsOpen(intents[d][b])
      /\ \A d \in CycleIds, b \in Asset :
           d # c \/ b # a => intents'[d][b] = intents[d][b] /\ log'[d][b] = log[d][b]
  <2>1. CASE Reports(c, a)
    BY <1>1, <1>3, <2>1, Report, ReportPair DEF Layer1
  <2>2. CASE UNCHANGED <<log, intents>>
    BY <2>2 DEF Layer3, Pairs
  <2>3. QED
    BY <1>2, <2>1, <2>2
<1>6. OneOpen'
  BY <1>2, <1>5 DEF Layer3, OneOpen
<1>7. TodoOpen'
  <2>1. SUFFICES ASSUME NEW d \in CycleIds, NEW b \in Asset, <<d, b>> \in proc'.todo
                 PROVE  IsOpen(intents'[d][b])
    BY <1>2 DEF TodoOpen
  <2>2. CASE d # c \/ b # a
    BY <1>4, <1>5, <2>1, <2>2 DEF Layer3, TodoOpen
  <2>3. CASE d = c /\ b = a
    <3>1. proc'.todo = proc.todo \/ proc'.todo = proc.todo \ {<<c, a>>}
      BY <1>1 DEF Recover, RecoverFails, Layer1, TypeOK, Local
    <3>2. QED
      BY <1>4, <2>1, <2>3, <3>1 DEF IsOpen
  <2>4. QED
    BY <2>2, <2>3
<1>8. ~Fresh(log[c][a], intents[c][a]) /\ ~Settled(log[c][a])
  BY <1>3 DEF Fresh, Settled, IsOpen, None, Layer3, Pairs, PairOf, Blank
<1>9. ASSUME NEW d \in CycleIds, AllFresh(d) PROVE AllFresh(d)'
  <2>1. d # c
    BY <1>8, <1>9 DEF AllFresh
  <2>2. QED
    BY <1>5, <1>9, <2>1 DEF AllFresh
<1>9a. Ahead'
  BY <1>2, <1>9 DEF Layer3, Ahead
<1>9b. Begun'
  <2>1. proc.cycle # 0 => proc.cycle \in CycleIds
    BY <1>1, Locals, CycleAssumption DEF Layer1, CycleIds
  <2>2. proc.cycle # 0 => AllFresh(proc.cycle)
    BY <1>2 DEF Layer3, Begun
  <2>3. QED
    BY <1>4, <1>5, <1>8, <2>1, <2>2 DEF Begun, AllFresh
<1>10. Completed'
  <2>1. 1..Len(cycles) \subseteq CycleIds
    BY <1>1, RowsAreCycles DEF Layer1
  <2>2. QED
    BY <1>2, <1>5, <1>8, <2>1 DEF Layer3, Completed
<1>11. Progress'
  BY <1>2 DEF Progress, AtAsset
<1>12. QED
  BY <1>1, <1>2, <1>3, <1>5, <1>6, <1>7, <1>9a, <1>9b, <1>10, <1>11 DEF Layer3

\* What a step at the asset under way leaves of everything else.
Elsewhere3Same ==
  \A d \in CycleIds, b \in Asset :
    d # proc.cycle \/ b # Current => log'[d][b] = log[d][b] /\ intents'[d][b] = intents[d][b]

\* A step that writes only the row at hand keeps what Layer3 says of rows.
LEMMA AtCurrent ==
  ASSUME Layer3, CycleStep, pc \in AtAsset, Elsewhere3Same,
         PairOf(log'[proc.cycle][Current], intents'[proc.cycle][Current]),
         IsOpen(intents'[proc.cycle][Current]) =>
           IsOpen(intents[proc.cycle][Current]) \/ pc = "save",
         pc' \in {"guard", "save"} =>
           intents' = intents /\ \A c \in CycleIds, a \in Asset : ~IsOpen(intents[c][a])
  PROVE  Pairs' /\ OneOpen' /\ TodoOpen' /\ Ahead' /\ Begun' /\ Completed' /\ Foreign'
<1>1. /\ Frame /\ cycles' = cycles /\ proc'.strategy = proc.strategy /\ proc'.cycle = proc.cycle
      /\ pc' \in AtAsset /\ proc'.todo = proc.todo
  BY InCycle1, CycleLocals DEF Layer3, Layer2
<1>2. /\ Current \in Asset /\ proc.cycle \in CycleIds /\ proc.cycle \in 1..Len(cycles)
      /\ proc.next \in Mine
  BY Here DEF Layer3, Layer2, Layer1, Where
<1>3. Pairs'
  BY DEF Layer3, Pairs, Elsewhere3Same
<1>4. OneOpen'
  <2>1. CASE pc = "save"
    BY <2>1 DEF Layer3, OneOpen, Elsewhere3Same
  <2>2. CASE pc # "save"
    BY <2>2 DEF Layer3, OneOpen, Elsewhere3Same
  <2>3. QED
    BY <2>1, <2>2
<1>5. TodoOpen'
  BY <1>1 DEF Layer3, TodoOpen, AtAsset
<1>6. Ahead'
  <2>1. \A c \in CycleIds : c > Len(cycles) => c # proc.cycle
    BY <1>2 DEF Layer3, Layer2, Layer1, TypeOK
  <2>2. QED
    BY <1>1, <2>1 DEF Layer3, Ahead, AllFresh, Elsewhere3Same
<1>7. Begun'
  BY <1>1 DEF Begun, AtAsset
<1>8. Completed'
  <2>1. cycles[proc.cycle].status # "COMPLETED"
    BY <1>2 DEF Layer3, Layer2, Layer1, Where, CycleIds
  <2>2. 1..Len(cycles) \subseteq CycleIds
    BY RowsAreCycles DEF Layer3, Layer2, Layer1
  <2>3. QED
    BY <1>1, <2>1, <2>2 DEF Layer3, Completed, Elsewhere3Same
<1>9. Foreign'
  <2>1. Mine' = Mine /\ assets' = assets
    BY <1>1 DEF Mine, Frame
  <2>2. ASSUME NEW a \in Asset, \A k \in Mine : a # assets[k]
        PROVE  Fresh(log'[proc.cycle][a], intents'[proc.cycle][a])
    <3>1. a # Current
      BY <1>2, <2>2 DEF Current
    <3>2. Fresh(log[proc.cycle][a], intents[proc.cycle][a])
      BY <2>2 DEF Layer3, Progress, Foreign
    <3>3. QED
      BY <1>2, <3>1, <3>2 DEF Elsewhere3Same
  <2>3. QED
    BY <1>1, <2>1, <2>2 DEF Foreign
<1>10. QED
  BY <1>3, <1>4, <1>5, <1>6, <1>7, <1>8, <1>9

Middle == AtAsset \ {"record", "finish"}

\* The other assets of the cycle stay as they are.
LEMMA OtherStages ==
  ASSUME Layer3, CycleStep, pc \in AtAsset, Elsewhere3Same, NEW k \in Mine, k # proc.next
  PROVE  /\ k \in Nat /\ proc.next \in Nat
         /\ LET e == log'[proc.cycle][assets[k]]
                i == intents'[proc.cycle][assets[k]]
            IN  (k < proc.next => Before(pc, e, i)) /\ (k > proc.next => Behind(pc, e, i))
<1>1. /\ proc.cycle \in CycleIds /\ proc.next \in Mine /\ TypeOK
  BY Here DEF Layer3, Layer2, Layer1, Where
<1>2. k \in Nat /\ proc.next \in Nat /\ assets[k] \in Asset /\ assets[k] # Current
  BY <1>1, AssetsDiffer DEF Current
<1>3. Stage(pc, proc.next, k, log[proc.cycle][assets[k]], intents[proc.cycle][assets[k]])
  BY DEF Layer3, Progress, Staged
<1>4. /\ log'[proc.cycle][assets[k]] = log[proc.cycle][assets[k]]
      /\ intents'[proc.cycle][assets[k]] = intents[proc.cycle][assets[k]]
  BY <1>1, <1>2 DEF Elsewhere3Same
<1>5. QED
  BY <1>2, <1>3, <1>4 DEF Stage

\* A step that remains at its asset keeps what Layer3 says of the assets before and after it.
LEMMA Stays ==
  ASSUME Layer3, CycleStep, pc \in Middle, pc' \in Middle, Elsewhere3Same, proc'.next = proc.next,
         Under(pc', log'[proc.cycle][Current], intents'[proc.cycle][Current])
  PROVE  Staged'
<1>1. Frame /\ proc'.strategy = proc.strategy /\ proc'.cycle = proc.cycle
  BY InCycle1 DEF Layer3, Layer2
<1>2. Mine' = Mine /\ assets' = assets
  BY <1>1 DEF Mine, Frame
<1>3. ASSUME NEW k \in Mine
      PROVE  Stage(pc', proc.next, k, log'[proc.cycle][assets[k]], intents'[proc.cycle][assets[k]])
  <2>1. CASE k = proc.next
    <3>1. k \in Nat
      BY AssetsDiffer DEF Layer3, Layer2, Layer1
    <3>2. QED
      BY <2>1, <3>1 DEF Stage, Current
  <2>2. CASE k # proc.next
    BY <2>2, OtherStages DEF Stage, Before, Behind, Middle
  <2>3. QED
    BY <2>1, <2>2
<1>4. QED
  BY <1>1, <1>2, <1>3 DEF Staged

\* So does a step that goes on to the next asset.
LEMMA Advances ==
  ASSUME Layer3, CycleStep, pc \in AtAsset, Elsewhere3Same, NEW place, NEW then, Advance(place, then),
         \/ pc = "record" /\ place = "record" /\ then = "assess"
         \/ pc \in {"assess", "after"} /\ place = "assess" /\ then = "finish",
         Before(pc, log'[proc.cycle][Current], intents'[proc.cycle][Current])
  PROVE  Staged'
<1>1. Frame /\ proc'.strategy = proc.strategy /\ proc'.cycle = proc.cycle
  BY InCycle1 DEF Layer3, Layer2
<1>2. Mine' = Mine /\ assets' = assets
  BY <1>1 DEF Mine, Frame
<1>3. /\ proc.next \in Mine /\ Mine \subseteq Nat /\ Mine \subseteq 1..Len(assets)
      /\ proc \in Local
  BY AssetsDiffer DEF Layer3, Layer2, Layer1, Where, TypeOK, Mine
<1>4. ASSUME NEW i, proc' = [proc EXCEPT !.next = i] PROVE proc'.next = i
  BY <1>3, <1>4 DEF Local
<1>5. ASSUME NEW k \in Mine
      PROVE  Stage(pc', proc'.next, k, log'[proc.cycle][assets[k]], intents'[proc.cycle][assets[k]])
  <2> DEFINE e == log'[proc.cycle][assets[k]]
             i == intents'[proc.cycle][assets[k]]
  <2>1. /\ k <= proc.next => Before(pc, e, i)
        /\ k > proc.next => Behind(pc, e, i)
    <3>1. CASE k = proc.next
      BY <1>3, <3>1 DEF Current
    <3>2. CASE k # proc.next
      BY <3>2, <1>3, OtherStages
    <3>3. QED
      BY <3>1, <3>2
  <2> HIDE DEF e, i
  <2>2. CASE \E j \in Mine : proc.next < j
    <3>1. PICK j \in Mine : Follows(proc.next, j) /\ proc' = [proc EXCEPT !.next = j] /\ pc' = place
      BY <2>2 DEF Advance
    <3>2. proc'.next = j /\ proc.next < j /\ (proc.next < k => j <= k)
      BY <1>4, <3>1 DEF Follows
    <3>3. QED
      BY <1>3, <2>1, <3>1, <3>2 DEF Stage, Before, Behind, Under, e, i
  <2>3. CASE ~\E j \in Mine : proc.next < j
    <3>1. PICK j \in Mine : Follows(0, j) /\ proc' = [proc EXCEPT !.next = j] /\ pc' = then
      BY <2>3 DEF Advance
    <3>2. proc'.next = j /\ j <= k /\ k <= proc.next
      BY <1>3, <1>4, <2>3, <3>1 DEF Follows
    <3>3. QED
      BY <1>3, <2>1, <3>1, <3>2 DEF Stage, Before, Behind, Under, e, i
  <2>4. QED
    BY <2>2, <2>3
<1>6. QED
  BY <1>1, <1>2, <1>5 DEF Staged

\* How an entry e and its intent i may turn into f and j.
Turns(e, i, f, j) ==
  \/ f = e /\ j = i
  \/ Fresh(e, i) /\ Decided(f, j)
  \/ Decided(e, i) /\ j.status = None /\ f.execution = "NOT_ATTEMPTED" /\ f.notional
  \/ Decided(e, i) /\ j.status = None /\ f.execution = "PENDING" /\ Blank(f)
  \/ f = e /\ e.execution = "PENDING" /\ Blank(e) /\ i.status = None /\ j.status = "PREPARED"
  \/ IsOpen(i) /\ IsOpen(j)
  \/ IsOpen(i) /\ j.status = "DONE" /\ ~f.exposure
  \/ i.status = "DONE" /\ j.status = "DONE" /\ ~e.exposure

Turn ==
  /\ Elsewhere3Same
  /\ Turns(log[proc.cycle][Current], intents[proc.cycle][Current],
           log'[proc.cycle][Current], intents'[proc.cycle][Current])

\* The step of a cycle, action by action.
LEMMA Decide3 == ASSUME Layer3, Decide, Layer2' PROVE Layer3' /\ UNCHANGED <<log, intents>>
<1>1. /\ Frame /\ UNCHANGED <<cycles, log, intents>> /\ proc'.cycle = proc.cycle
      /\ proc'.strategy = proc.strategy /\ proc'.todo = proc.todo /\ pc = "decide" /\ pc' = "record"
  BY InCycle1, CycleLocals DEF Decide, storeVars, Layer3, Layer2, CycleStep
<1>2. Pairs' /\ Ahead' /\ Completed' /\ OneOpen' /\ TodoOpen' /\ Begun'
  BY <1>1, StoreKept, OpenKept DEF Layer3, TodoOpen, Begun
<1>3. Mine' = Mine /\ assets' = assets
  BY <1>1 DEF Mine, Frame
<1>4. PICK f \in Mine : Follows(0, f) /\ proc' = [proc EXCEPT !.next = f]
  BY DEF Decide
<1>5. proc'.next = f
  BY <1>4 DEF Layer3, Layer2, Layer1, TypeOK, Local
<1>6. AllFresh(proc.cycle)
  BY <1>1 DEF Layer3, Begun, Layer2, Layer1, Where, InCycle
<1>7. ASSUME NEW k \in Mine
      PROVE  Stage("record", f, k, log[proc.cycle][assets[k]], intents[proc.cycle][assets[k]])
  <2>1. k \in Nat /\ assets[k] \in Asset /\ f \in Nat
    BY AssetsDiffer DEF Layer3, Layer2, Layer1
  <2>2. 0 < k
    BY <2>1 DEF Mine
  <2>3. f <= k
    BY <1>4, <2>2 DEF Follows
  <2>4. Fresh(log[proc.cycle][assets[k]], intents[proc.cycle][assets[k]])
    BY <1>6, <2>1 DEF AllFresh
  <2>5. QED
    BY <2>1, <2>3, <2>4 DEF Stage, Under, Behind
<1>8. Staged' /\ Foreign'
  BY <1>1, <1>3, <1>5, <1>6, <1>7 DEF Staged, Foreign, AllFresh
<1>9. QED
  BY <1>1, <1>2, <1>8 DEF Layer3, Progress

\* The current entry, its intent, and what is known of them at each place.
LEMMA Now ==
  ASSUME Layer3, pc \in AtAsset
  PROVE  /\ Under(pc, log[proc.cycle][Current], intents[proc.cycle][Current])
         /\ PairOf(log[proc.cycle][Current], intents[proc.cycle][Current])
         /\ proc.cycle \in CycleIds /\ Current \in Asset
         /\ log[proc.cycle][Current] \in LogEntry /\ Entry = log[proc.cycle][Current]
<1>1. /\ proc.cycle \in CycleIds /\ proc.next \in Mine /\ Current \in Asset /\ Entry \in LogEntry
  BY Here DEF Layer3, Layer2, Layer1, Where
<1>2. proc.next \in Nat
  BY Locals DEF Layer3, Layer2, Layer1
<1>3. Stage(pc, proc.next, proc.next, log[proc.cycle][Current], intents[proc.cycle][Current])
  BY <1>1 DEF Layer3, Progress, Staged, Current
<1>4. QED
  BY <1>1, <1>2, <1>3 DEF Stage, Layer3, Pairs, Entry

\* Steps that go on to the next asset.
LEMMA Advancing3 ==
  ASSUME Layer3, RecordDecision \/ Decline \/ AfterExecution, Layer2'
  PROVE  Layer3' /\ Turn
<1> DEFINE e == log[proc.cycle][Current]
           i == intents[proc.cycle][Current]
           f == log'[proc.cycle][Current]
<1>1. /\ pc \in {"record", "assess", "after"} /\ pc \in AtAsset /\ UNCHANGED intents /\ CycleStep
      /\ \/ Advance("record", "assess") /\ pc = "record"
         \/ Advance("assess", "finish") /\ pc \in {"assess", "after"}
  BY DEF RecordDecision, Decline, AfterExecution, AtAsset, CycleStep
<1>2. /\ Under(pc, e, i) /\ PairOf(e, i) /\ e \in LogEntry /\ Entry = e
      /\ proc.cycle \in CycleIds /\ Current \in Asset
  BY <1>1, Now
<1>3. PairOf(f, i) /\ Before(pc, f, i) /\ Elsewhere3Same /\ Turns(e, i, f, i)
  <2>1. ASSUME NEW new \in LogEntry, Record(new), PairOf(new, i), Before(pc, new, i),
               Turns(e, i, new, i)
        PROVE  PairOf(f, i) /\ Before(pc, f, i) /\ Elsewhere3Same /\ Turns(e, i, f, i)
    <3>1. f = new /\ \A d \in CycleIds, b \in Asset :
                       d # proc.cycle \/ b # Current => log'[d][b] = log[d][b]
      BY <1>1, <2>1, Replaced DEF Layer3, Layer2
    <3>2. QED
      BY <1>1, <2>1, <3>1 DEF Elsewhere3Same
  <2> HIDE DEF e, i, f
  <2>2. CASE RecordDecision
    <3> DEFINE new == [NoEntry EXCEPT !.execution = "NOT_ATTEMPTED"]
    <3>1. /\ new \in LogEntry /\ new.execution = "NOT_ATTEMPTED" /\ ~new.notional /\ ~new.exposure
      BY DEF NoEntry, LogEntry
    <3>2. Record(new) /\ pc = "record"
      BY <2>2 DEF RecordDecision
    <3> HIDE DEF new
    <3>3. PairOf(new, i) /\ Before(pc, new, i) /\ Turns(e, i, new, i)
      BY <1>2, <3>1, <3>2 DEF Under, Fresh, PairOf, Before, Decided, Blank, None, Turns
    <3>4. QED
      BY <2>1, <3>1, <3>2, <3>3
  <2>3. CASE Decline
    <3> DEFINE new == [e EXCEPT !.notional = TRUE, !.exposure = TRUE]
    <3>1. /\ new \in LogEntry /\ new.execution = e.execution /\ new.notional = TRUE
          /\ new.exposure = TRUE
      BY <1>2 DEF LogEntry
    <3>2. Record(new) /\ pc = "assess"
      BY <1>2, <2>3 DEF Decline
    <3> HIDE DEF new
    <3>3. PairOf(new, i) /\ Before(pc, new, i) /\ Turns(e, i, new, i)
      BY <1>2, <3>1, <3>2 DEF Under, PairOf, Before, Decided, Settled, Blank, None, Turns
    <3>4. QED
      BY <2>1, <3>1, <3>2, <3>3
  <2>4. CASE AfterExecution
    <3> DEFINE new == [e EXCEPT !.exposure = TRUE]
    <3>1. /\ new \in LogEntry /\ new.execution = e.execution /\ new.notional = e.notional
          /\ new.exposure = TRUE
      BY <1>2 DEF LogEntry
    <3>2. Record(new) /\ pc = "after"
      BY <1>2, <2>4 DEF AfterExecution
    <3> HIDE DEF new
    <3>3. PairOf(new, i) /\ Before(pc, new, i) /\ Turns(e, i, new, i)
      BY <1>2, <3>1, <3>2 DEF Under, PairOf, Before, Settled, Blank, None, Turns
    <3>4. QED
      BY <2>1, <3>1, <3>2, <3>3
  <2>5. QED
    BY <2>2, <2>3, <2>4
<1>4. Staged'
  BY <1>1, <1>3, Advances
<1>5. pc' \notin {"guard", "save"}
  BY <1>1 DEF Advance
<1>6. Pairs' /\ OneOpen' /\ TodoOpen' /\ Ahead' /\ Begun' /\ Completed' /\ Foreign'
  BY <1>1, <1>3, <1>5, AtCurrent
<1>7. QED
  BY <1>1, <1>3, <1>4, <1>6 DEF Layer3, Progress, Turn

\* A step of the middle of an asset needs only its own record and intent to be right.
LEMMA Staying3 ==
  ASSUME Layer3, CycleStep, Layer2', pc \in Middle, pc' \in Middle, Elsewhere3Same,
         proc'.next = proc.next,
         Under(pc', log'[proc.cycle][Current], intents'[proc.cycle][Current]),
         PairOf(log'[proc.cycle][Current], intents'[proc.cycle][Current]),
         IsOpen(intents'[proc.cycle][Current]) =>
           IsOpen(intents[proc.cycle][Current]) \/ pc = "save",
         pc' \in {"guard", "save"} =>
           intents' = intents /\ \A c \in CycleIds, a \in Asset : ~IsOpen(intents[c][a])
  PROVE  Layer3'
<1>1. Staged'
  BY Stays
<1>2. pc \in AtAsset
  BY DEF Middle
<1>3. Pairs' /\ OneOpen' /\ TodoOpen' /\ Ahead' /\ Begun' /\ Completed' /\ Foreign'
  BY <1>2, AtCurrent
<1>4. QED
  BY <1>1, <1>3 DEF Layer3, Progress

\* assess and the refresh before prepare write neither record nor intent.
LEMMA Checks3 == ASSUME Layer3, Approve \/ Refresh, Layer2' PROVE Layer3' /\ Turn
<1>1. /\ UNCHANGED <<log, intents, proc>> /\ CycleStep /\ pc \in Middle /\ pc' \in Middle
      /\ pc \in {"assess", "refresh"} /\ pc' \in {"refresh", "guard"}
      /\ pc' = "guard" => Unresolved = {}
  BY DEF Approve, Refresh, Goto, CycleStep, Middle, AtAsset, storeVars
<1>2. pc' = "guard" => \A c \in CycleIds, a \in Asset : ~IsOpen(intents[c][a])
  <2>1. SUFFICES ASSUME Unresolved = {}, NEW c \in CycleIds, NEW a \in Asset, IsOpen(intents[c][a])
                 PROVE  FALSE
    BY <1>1
  <2>2. <<c, a>> \in Unresolved
    BY <2>1 DEF Unresolved, IsOpen
  <2>3. QED
    BY <2>1, <2>2
<1>3. /\ Under(pc, log[proc.cycle][Current], intents[proc.cycle][Current])
      /\ PairOf(log[proc.cycle][Current], intents[proc.cycle][Current])
  BY <1>1, Now DEF Middle
<1>4. Under(pc', log'[proc.cycle][Current], intents'[proc.cycle][Current])
  BY <1>1, <1>3 DEF Under
<1>5. Elsewhere3Same
  BY <1>1 DEF Elsewhere3Same
<1>6. QED
  BY <1>1, <1>2, <1>3, <1>4, <1>5, Staying3 DEF Turn, Turns

\* The guard writes PENDING to the record and saves no intent.
LEMMA Guard3 == ASSUME Layer3, Guard, Layer2' PROVE Layer3' /\ Turn
<1> DEFINE e == log[proc.cycle][Current]
           i == intents[proc.cycle][Current]
           new == [e EXCEPT !.execution = "PENDING"]
<1>1. /\ intents' = intents /\ CycleStep /\ pc = "guard" /\ pc' = "save"
      /\ proc' = [proc EXCEPT !.day = Day(now)] /\ Record([Entry EXCEPT !.execution = "PENDING"])
  BY DEF Guard, CycleStep
<1>2. pc \in AtAsset /\ pc \in Middle /\ pc' \in Middle
  BY <1>1 DEF Middle, AtAsset
<1>3. Under(pc, e, i) /\ PairOf(e, i) /\ e \in LogEntry /\ Entry = e
  BY <1>2, Now
<1> HIDE DEF e, i
<1>4. /\ new \in LogEntry /\ new.execution = "PENDING" /\ new.notional = e.notional
      /\ new.exposure = e.exposure
  BY <1>3 DEF LogEntry
<1>5. Record(new)
  BY <1>1, <1>3
<1> HIDE DEF new
<1>6. log'[proc.cycle][Current] = new /\ Elsewhere3Same
  BY <1>1, <1>2, <1>4, <1>5, Replaced DEF Layer3, Layer2, Elsewhere3Same
<1>7. PairOf(new, i) /\ Under("save", new, i) /\ Turns(e, i, new, i)
  BY <1>1, <1>3, <1>4 DEF Under, PairOf, Decided, Blank, None, Turns
<1>8. proc'.next = proc.next
  BY <1>1 DEF Layer3, Layer2, Layer1, TypeOK, Local
<1>9. \A c \in CycleIds, a \in Asset : ~IsOpen(intents[c][a])
  BY <1>1 DEF Layer3, OneOpen
<1>10. QED
  BY <1>1, <1>2, <1>6, <1>7, <1>8, <1>9, Staying3 DEF i, e, Turn

\* The intent becomes the one open order, with its record PENDING.
LEMMA SaveIntent3 == ASSUME Layer3, SaveIntent, Layer2' PROVE Layer3' /\ Turn
<1> DEFINE e == log[proc.cycle][Current]
           i == intents[proc.cycle][Current]
           j == intents'[proc.cycle][Current]
<1>1. /\ log' = log /\ CycleStep /\ pc = "save" /\ pc' = "execute"
      /\ proc' = [proc EXCEPT !.day = 0]
  BY DEF SaveIntent, CycleStep
<1>2. pc \in AtAsset /\ pc \in Middle /\ pc' \in Middle
  BY <1>1 DEF Middle, AtAsset
<1>3. Under(pc, e, i) /\ PairOf(e, i)
  BY <1>2, Now
<1>4. j.status = "PREPARED" /\ Elsewhere3Same
  BY <1>1, Saved DEF Layer3, Layer2, Elsewhere3Same
<1> HIDE DEF e, i, j
<1>5. PairOf(e, j) /\ Under("execute", e, j) /\ Turns(e, i, e, j)
  BY <1>1, <1>3, <1>4 DEF Under, PairOf, None, Turns
<1>6. proc'.next = proc.next
  BY <1>1 DEF Layer3, Layer2, Layer1, TypeOK, Local
<1>7. QED
  BY <1>1, <1>2, <1>4, <1>5, <1>6, Staying3 DEF e, i, j, Turn

\* SUBMITTING rewrites the status of the open order.
LEMMA Submit3 == ASSUME Layer3, Submit, Layer2' PROVE Layer3' /\ Turn
<1> DEFINE e == log[proc.cycle][Current]
           i == intents[proc.cycle][Current]
           j == intents'[proc.cycle][Current]
<1>1. UNCHANGED <<log, proc>> /\ CycleStep /\ pc = "execute" /\ pc' = "submitted"
  BY DEF Submit, Goto, CycleStep
<1>2. pc \in AtAsset /\ pc \in Middle /\ pc' \in Middle
  BY <1>1 DEF Middle, AtAsset
<1>3. Under(pc, e, i) /\ PairOf(e, i)
  BY <1>2, Now
<1>4. j.status = "SENT" /\ Elsewhere3Same
  BY <1>1, Submitted DEF Layer3, Layer2, Elsewhere3Same
<1> HIDE DEF e, i, j
<1>5. PairOf(e, j) /\ Under("submitted", e, j) /\ IsOpen(i) /\ Turns(e, i, e, j)
  BY <1>1, <1>3, <1>4 DEF Under, PairOf, None, IsOpen, Turns
<1>6. QED
  BY <1>1, <1>2, <1>4, <1>5, Staying3 DEF e, i, j, Turn

\* The executor reports a verdict, or leaves the order open.
LEMMA Execute3 == ASSUME Layer3, Executing, Layer2' PROVE Layer3' /\ Turn
<1> DEFINE f == log'[proc.cycle][Current]
           i == intents[proc.cycle][Current]
           j == intents'[proc.cycle][Current]
<1>1. /\ Reports(proc.cycle, Current) /\ proc' = proc /\ pc \in {"execute", "submitted"}
      /\ pc' \in {"rewrite", "submitted"} /\ CycleStep
      /\ pc' = "submitted" =>
           ReportUnknown(proc.cycle, Current) \/ ReportBooked(proc.cycle, Current)
  BY Executed DEF Executing, CycleStep
<1>2. pc \in AtAsset /\ pc \in Middle /\ pc' \in Middle
  BY <1>1 DEF Middle, AtAsset
<1>3. Under(pc, log[proc.cycle][Current], i) /\ proc.cycle \in CycleIds /\ Current \in Asset
  BY <1>2, Now
<1>4. IsOpen(i)
  BY <1>1, <1>3 DEF Under, IsOpen
<1>5. PairOf(f, j) /\ ~f.exposure /\ (IsOpen(j) => IsOpen(i))
  BY <1>1, <1>3, <1>4, ReportPair
<1>6. Elsewhere3Same /\ j.status \in {"SENT", "DONE"}
  <2>1. /\ j.status \in {"SENT", "DONE"}
        /\ \A d \in CycleIds, b \in Asset :
             d # proc.cycle \/ b # Current =>
               intents'[d][b] = intents[d][b] /\ log'[d][b] = log[d][b]
    BY <1>1, <1>3, Report DEF Layer3, Layer2, Layer1
  <2>2. QED
    BY <2>1 DEF Elsewhere3Same
<1>6a. pc' = "submitted" => j.status = "SENT"
  <2>1. SUFFICES ASSUME pc' = "submitted" PROVE j.status = "SENT"
    OBVIOUS
  <2>2. Became(proc.cycle, Current, "SENT")
    BY <1>1, <2>1 DEF ReportUnknown, ReportBooked
  <2>3. i \in Intent
    BY <1>3 DEF Layer3, Layer2, Layer1, TypeOK
  <2>4. [i EXCEPT !.status = "SENT"] \in Intent /\ [i EXCEPT !.status = "SENT"].status = "SENT"
    BY <2>3 DEF Intent
  <2>5. intents' = [intents EXCEPT ![proc.cycle][Current] = [i EXCEPT !.status = "SENT"]]
    BY <1>3, <2>2, BecameIntent DEF Layer3, Layer2, Layer1
  <2>6. j = [i EXCEPT !.status = "SENT"]
    BY <1>3, <2>4, <2>5 DEF Layer3, Layer2, Layer1, TypeOK
  <2>7. QED
    BY <2>4, <2>6
<1> HIDE DEF f, i, j
<1>7. Under(pc', f, j)
  BY <1>1, <1>5, <1>6, <1>6a DEF Under
<1>8. Turns(log[proc.cycle][Current], i, f, j)
  BY <1>4, <1>5, <1>6 DEF Turns, IsOpen
<1>9. QED
  BY <1>1, <1>2, <1>4, <1>5, <1>6, <1>7, <1>8, Staying3 DEF f, i, j, Turn

\* The orchestrator writes the result to the record once more.
LEMMA Rewrite3 == ASSUME Layer3, Rewrite, Layer2' PROVE Layer3' /\ Turn
<1> DEFINE e == log[proc.cycle][Current]
           i == intents[proc.cycle][Current]
           terminal == i.status = "DONE"
           new == [e EXCEPT !.execution = IF terminal THEN "VERDICT" ELSE "UNRESOLVED",
                            !.notional = terminal]
<1>1. pc = "rewrite" /\ UNCHANGED <<intents, proc>> /\ CycleStep
  BY DEF Rewrite, Goto, CycleStep
<1>2. pc \in AtAsset /\ pc \in Middle
  BY <1>1 DEF Middle, AtAsset
<1>3. Under(pc, e, i) /\ PairOf(e, i) /\ e \in LogEntry /\ Entry = e
  BY <1>2, Now
<1>4. Record(new) /\ pc' = (IF terminal THEN "after" ELSE "unresolved")
  BY <1>3 DEF Rewrite, Goto
<1> HIDE DEF e, i
<1>5. /\ new \in LogEntry /\ new.execution = (IF terminal THEN "VERDICT" ELSE "UNRESOLVED")
      /\ (new.notional <=> terminal) /\ new.exposure = e.exposure
  BY <1>3 DEF LogEntry
<1> HIDE DEF new
<1>6. log'[proc.cycle][Current] = new /\ Elsewhere3Same
  BY <1>1, <1>2, <1>4, <1>5, Replaced DEF Layer3, Layer2, Elsewhere3Same
<1>7. PairOf(new, i) /\ Under(pc', new, i) /\ pc' \in Middle /\ pc' \notin {"guard", "save"}
  BY <1>1, <1>3, <1>4, <1>5 DEF Under, PairOf, Blank, None, Middle, AtAsset
<1>8. Turns(e, i, new, i)
  BY <1>1, <1>3 DEF Under, Turns, IsOpen
<1>9. QED
  BY <1>1, <1>2, <1>6, <1>7, <1>8, Staying3 DEF e, i, Turn

\* Together: every step of a cycle keeps the third layer, and turns at most the row at hand.
LEMMA CycleStep3 ==
  ASSUME Layer3, CycleStep, Layer2'
  PROVE  Layer3' /\ (UNCHANGED <<log, intents>> \/ (Turn /\ pc \in AtAsset))
<1>1. pc \in AtAsset \/ Decide
  BY DEF CycleStep, AtAsset, RecordDecision, Decline, Approve, Refresh, Guard, SaveIntent,
         ExecutePaper, Submit, ExecuteLive, Rewrite, AfterExecution
<1>2. QED
  BY <1>1, Decide3, Advancing3, Checks3, Guard3, SaveIntent3, Submit3, Execute3, Rewrite3
     DEF CycleStep, Executing

\* Every step keeps the third layer.
LEMMA Layer3Step == Layer3 /\ [Next]_vars => Layer3'
<1> SUFFICES ASSUME Layer3, [Next]_vars PROVE Layer3'
  OBVIOUS
<1>1. Layer2'
  BY Layer2Step DEF Layer3
<1>2. CASE \E m \in Modes : Doctor(m) \/ \E s \in Strategies : Run(m, s)
  BY <1>2, Binding3
<1>3. CASE BeginCycle
  BY <1>3, BeginCycle3
<1>4. CASE Ending
  BY <1>4, Ending3
<1>5. CASE \E c \in CycleIds, a \in Asset : Recover(c, a) \/ RecoverFails(c, a)
  BY <1>5, Recover3
<1>6. CASE CycleStep
  BY <1>1, <1>6, CycleStep3
<1>7. CASE Elsewhere
  BY <1>1, <1>7, Elsewhere3
<1>8. QED
  BY <1>2, <1>3, <1>4, <1>5, <1>6, <1>7, Kinds

\* The third layer is an invariant.
LEMMA Layer3Holds == Spec => []Layer3
BY Layer3Initially, Layer3Step, PTL DEF Spec

\* What the records say, in the words of DecisionLog, now and after a step.
Words(e, word) ==
  /\ e.execution = None => word = "none"
  /\ e.execution = "NOT_ATTEMPTED" /\ ~e.notional => word = "decided"
  /\ e.execution = "NOT_ATTEMPTED" /\ e.notional => word = "declined"
  /\ e.execution \in {"PENDING", "UNRESOLVED", "VERDICT"} =>
       /\ e.exposure /\ e.notional => word = "verified"
       /\ ~e.exposure /\ e.notional => word = "closed"
       /\ ~e.exposure /\ ~e.notional => word = "announced"

\* The words for a decision record say what its fields say.
LEMMA Said ==
  ASSUME NEW c, NEW a
  PROVE  Words(log[c][a], EntryOf(c, a)) /\ Words(log'[c][a], EntryOf(c, a)')
BY DEF Words, EntryOf, None

\* There is never more than one order without a verdict, in both modes and all portfolios.
THEOREM OneOrderOpen == Spec => []OneOpenOrder
<1>1. Layer3 => OneOpenOrder
  <2> SUFFICES ASSUME Layer3, NEW c \in CycleIds, NEW d \in CycleIds, NEW a \in Asset, NEW b \in Asset,
                      OrderOf(c, a) = "open", OrderOf(d, b) = "open"
               PROVE  c = d /\ a = b
    BY DEF OneOpenOrder
  <2>1. intents[c][a] \in Intent /\ intents[d][b] \in Intent
    BY DEF Layer3, Layer2, Layer1, TypeOK
  <2>2. IsOpen(intents[c][a]) /\ IsOpen(intents[d][b])
    BY <2>1 DEF OrderOf, Intent, IsOpen
  <2>3. QED
    BY <2>2 DEF Layer3, OneOpen
<1>2. QED
  BY <1>1, Layer3Holds, PTL

\* When a cycle opens its first order, all its decisions are on record.
THEOREM DecisionsComeFirst == Spec => []DecisionsFirst
<1>1. Layer3 => DecisionsFirst
  <2> SUFFICES ASSUME Layer3, proc.cycle # 0, NEW a \in Asset, Has(proc.cycle, a), NEW i \in Mine,
                      log[proc.cycle][assets[i]] = NoEntry
               PROVE  FALSE
    BY DEF DecisionsFirst
  <2>1. pc \in AtAsset
    <3>1. pc \notin {"off", "open", "begin"}
      BY DEF Layer3, Layer2, Layer1, Where, Idle
    <3>2. pc \notin {"recover", "decide"}
      BY DEF Layer3, Begun, AllFresh, Fresh, Has
    <3>3. QED
      BY <3>1, <3>2 DEF Layer3, Layer2, Layer1, TypeOK, Places, AtAsset
  <2>2. proc.cycle \in CycleIds /\ proc.next \in Mine
    BY <2>1, Here DEF Layer3, Layer2, Layer1, Where
  <2>3. assets[i] \in Asset /\ i \in Nat /\ proc.next \in Nat
    BY <2>2, AssetsDiffer DEF Layer3, Layer2, Layer1
  <2> DEFINE e == log[proc.cycle][assets[i]]
             j == intents[proc.cycle][assets[i]]
  <2>4. Stage(pc, proc.next, i, e, j) /\ PairOf(e, j) /\ e = NoEntry
    BY <2>1, <2>2, <2>3 DEF Layer3, Progress, Staged, Pairs
  <2> HIDE DEF e, j
  <2>5. e.execution = None /\ ~e.notional /\ ~e.exposure
    BY <2>4 DEF NoEntry
  <2>6. j.status \in {None, "PREPARED", "SENT", "DONE"}
    BY <2>2, <2>3 DEF j, Layer3, Layer2, Layer1, TypeOK, Intent
  <2>7. j.status = None
    BY <2>4, <2>5 DEF PairOf
  <2>8. pc \in {"record", "unresolved"}
    BY <2>1, <2>3, <2>4, <2>5, <2>7
       DEF Stage, Before, Under, Behind, Settled, Decided, AtAsset, None
  <2>9. CASE pc = "record"
    <3>1. CASE \A k \in Mine : a # assets[k]
      BY <2>1, <3>1 DEF Layer3, Progress, Foreign, Fresh, Has
    <3>2. ASSUME NEW k \in Mine, a = assets[k] PROVE FALSE
      <4>1. k \in Nat
        BY AssetsDiffer DEF Layer3, Layer2, Layer1
      <4>2. Stage("record", proc.next, k, log[proc.cycle][a], intents[proc.cycle][a])
        BY <2>1, <2>9, <3>2 DEF Layer3, Progress, Staged
      <4>3. QED
        BY <2>3, <4>1, <4>2 DEF Stage, Before, Under, Behind, Fresh, Decided, Has
    <3>3. QED
      BY <3>1, <3>2
  <2>10. CASE pc = "unresolved"
    BY <2>3, <2>4, <2>5, <2>7, <2>10
       DEF Stage, Before, Under, Behind, Settled, Decided, None
  <2>11. QED
    BY <2>8, <2>9, <2>10
<1>2. QED
  BY <1>1, Layer3Holds, PTL

\* A process finds the schema it was written for, whatever file it opened and wherever earlier
\* processes died; portfolios that trade one product are never taken for duplicates.
THEOREM SchemaAlwaysServes == Spec => []SchemaServes
<1>1. Layer3 => (pc = "save" => ~Duplicate(proc.cycle, Current))
  <2> SUFFICES ASSUME Layer3, pc = "save", Duplicate(proc.cycle, Current) PROVE FALSE
    OBVIOUS
  <2>1. pc \in AtAsset /\ opening = "open"
    BY DEF AtAsset, Layer3, Layer2, Layer1, Where
  <2>2. Under("save", log[proc.cycle][Current], intents[proc.cycle][Current])
        /\ proc.cycle \in CycleIds /\ Current \in Asset
    BY <2>1, Now
  <2>3. schema.unique = "portfolio"
    <3>1. StorageTypeOK /\ Migrated
      BY DEF Layer3, Layer2, Layer1, TypeOK
    <3>2. QED
      BY <2>1, <3>1, SchemaFields DEF Migrated
  <2>4. PICK b \in Asset : Has(proc.cycle, b) /\ b.product = Current.product
                           /\ b.portfolio = Current.portfolio
    BY <2>3 DEF Duplicate, Has
  <2>5. b = Current
    BY <2>2, <2>4 DEF Asset
  <2>6. QED
    BY <2>2, <2>4, <2>5 DEF Under, Has
<1>2. QED
  BY <1>1, Layer3Holds, SchemaIsComplete, PTL DEF SchemaServes

\* A cycle marked COMPLETED left nothing open: each of its records says declined or verified.
THEOREM CompletedIsSettled == Spec => []CompletedSettled
<1>1. Layer3 => CompletedSettled
  <2> SUFFICES ASSUME Layer3, NEW c \in 1..Len(cycles), NEW a \in Asset,
                      cycles[c].status = "COMPLETED"
               PROVE  EntryOf(c, a) \in {"none", "declined", "verified"}
    BY DEF CompletedSettled
  <2>1. Settled(log[c][a]) \/ Fresh(log[c][a], intents[c][a])
    BY DEF Layer3, Completed
  <2>2. c \in CycleIds
    BY RowsAreCycles DEF Layer3, Layer2, Layer1
  <2>3. log[c][a] \in LogEntry /\ PairOf(log[c][a], intents[c][a])
    BY <2>2 DEF Layer3, Layer2, Layer1, TypeOK, Pairs
  <2>4. QED
    BY <2>1, <2>3, Said DEF Words, LogEntry, Settled, Fresh, PairOf, Blank
<1>2. QED
  BY <1>1, Layer3Holds, PTL

-----------------------------------------------------------------------------
\* The decision log: every step moves each decision one step on, or not at all.

Stands(i, state) ==
  /\ i.status = None => state = "none"
  /\ i.status = "DONE" => state = "closed"
  /\ IsOpen(i) => state = "open"

\* The words for an order say what its intent says.
LEMMA Stood ==
  ASSUME NEW c, NEW a
  PROVE  Stands(intents[c][a], OrderOf(c, a)) /\ Stands(intents'[c][a], OrderOf(c, a)')
BY DEF Stands, OrderOf, IsOpen, None

\* The steps of DecisionLog, for one decision.
Moves(entry, order, after, then) ==
  \/ after = entry /\ then = order
  \/ entry = "none" /\ after = "decided" /\ order = "none" /\ then = "none"
  \/ entry = "decided" /\ after = "declined" /\ order = "none" /\ then = "none"
  \/ entry = "decided" /\ after = "announced" /\ order = "none" /\ then = "none"
  \/ entry = "announced" /\ after = "announced" /\ order = "none" /\ then = "open"
  \/ entry = "announced" /\ after = "closed" /\ order = "open" /\ then = "closed"
  \/ entry = "closed" /\ after = "verified" /\ order = "closed" /\ then = "closed"

\* What the program does to one row is a step of DecisionLog, or none.
LEMMA TurnsMove ==
  ASSUME NEW e \in LogEntry, NEW f \in LogEntry, NEW i \in Intent, NEW j \in Intent,
         PairOf(e, i), PairOf(f, j), Turns(e, i, f, j),
         NEW entry, NEW order, NEW after, NEW then,
         Words(e, entry), Words(f, after), Stands(i, order), Stands(j, then),
         f = e => after = entry, j = i => then = order
  PROVE  Moves(entry, order, after, then)
<1>1. CASE f = e /\ j = i
  BY <1>1 DEF Moves
<1>2. CASE Fresh(e, i) /\ Decided(f, j)
  BY <1>2 DEF Moves, Fresh, Decided, Words, Stands, Blank
<1>3. CASE Decided(e, i) /\ j.status = None /\ f.execution = "NOT_ATTEMPTED" /\ f.notional
  BY <1>3 DEF Moves, Decided, Words, Stands, Blank
<1>4. CASE Decided(e, i) /\ j.status = None /\ f.execution = "PENDING" /\ Blank(f)
  BY <1>4 DEF Moves, Decided, Words, Stands, Blank
<1>5. CASE f = e /\ e.execution = "PENDING" /\ Blank(e) /\ i.status = None /\ j.status = "PREPARED"
  BY <1>5 DEF Moves, Words, Stands, Blank, IsOpen
<1>6. CASE IsOpen(i) /\ IsOpen(j)
  BY <1>6 DEF Moves, Words, Stands, Blank, IsOpen, PairOf
<1>7. CASE IsOpen(i) /\ j.status = "DONE" /\ ~f.exposure
  BY <1>7 DEF Moves, Words, Stands, Blank, IsOpen, PairOf
<1>8. CASE i.status = "DONE" /\ j.status = "DONE" /\ ~e.exposure
  <2>1. entry = "closed" /\ order = "closed" /\ then = "closed"
    BY <1>8 DEF Words, Stands, PairOf
  <2>2. after \in {"closed", "verified"}
    BY <1>8 DEF Words, PairOf, LogEntry
  <2>3. QED
    BY <2>1, <2>2 DEF Moves
<1>9. QED
  BY <1>1, <1>2, <1>3, <1>4, <1>5, <1>6, <1>7, <1>8 DEF Turns

\* Every step of the cycle is, of each decision, a step of DecisionLog or none.
LEMMA LogMoves ==
  ASSUME Layer3, [Next]_vars, NEW c \in CycleIds, NEW a \in Asset
  PROVE  Moves(EntryOf(c, a), OrderOf(c, a), EntryOf(c, a)', OrderOf(c, a)')
<1>1. Layer3'
  BY Layer3Step
<1>2. log[c][a] = log'[c][a] => EntryOf(c, a)' = EntryOf(c, a)
  BY DEF EntryOf
<1>3. intents[c][a] = intents'[c][a] => OrderOf(c, a)' = OrderOf(c, a)
  BY DEF OrderOf
<1>4. Turns(log[c][a], intents[c][a], log'[c][a], intents'[c][a])
  <2>1. CASE UNCHANGED <<log, intents>>
    BY <2>1 DEF Turns
  <2>2. CASE Turn /\ pc \in AtAsset
    BY <2>2 DEF Turn, Turns, Elsewhere3Same
  <2>3. ASSUME NEW d \in CycleIds, NEW b \in Asset, Reports(d, b), IsOpen(intents[d][b])
        PROVE  Turns(log[c][a], intents[c][a], log'[c][a], intents'[c][a])
    <3>1. /\ intents'[d][b].status \in {"SENT", "DONE"}
          /\ c # d \/ a # b => intents'[c][a] = intents[c][a] /\ log'[c][a] = log[c][a]
      BY <2>3, Report DEF Layer3, Layer2, Layer1
    <3>2. ~log'[d][b].exposure
      BY <2>3, ReportPair
    <3>3. QED
      BY <2>3, <3>1, <3>2 DEF Turns, IsOpen
  <2>4. CASE \E m \in Modes : Doctor(m) \/ \E s \in Strategies : Run(m, s)
    BY <2>1, <2>4 DEF Doctor, Run
  <2>5. CASE BeginCycle
    BY <2>1, <2>5 DEF BeginCycle
  <2>6. CASE Ending
    BY <2>1, <2>6, Ended DEF Layer3, Layer2
  <2>7. CASE \E d \in CycleIds, b \in Asset : Recover(d, b) \/ RecoverFails(d, b)
    BY <2>1, <2>3, <2>7, Recover3
  <2>8. CASE CycleStep
    BY <1>1, <2>1, <2>2, <2>8, CycleStep3 DEF Layer3
  <2>9. CASE Elsewhere
    BY <2>1, <2>9, ElsewhereSame
  <2>10. QED
    BY <2>4, <2>5, <2>6, <2>7, <2>8, <2>9, Kinds
<1>5. /\ log[c][a] \in LogEntry /\ log'[c][a] \in LogEntry
      /\ intents[c][a] \in Intent /\ intents'[c][a] \in Intent
      /\ PairOf(log[c][a], intents[c][a]) /\ PairOf(log'[c][a], intents'[c][a])
  BY <1>1 DEF Layer3, Layer2, Layer1, TypeOK, Pairs
<1>6. QED
  BY <1>2, <1>3, <1>4, <1>5, Said, Stood, TurnsMove

\* The decision records keep the promise of module DecisionLog.
THEOREM LogIsKept == Spec => LogKept
<1> DEFINE entries == [d \in CycleIds \X Asset |-> EntryOf(d[1], d[2])]
           orders == [d \in CycleIds \X Asset |-> OrderOf(d[1], d[2])]
<1>1. Init => \A d \in CycleIds \X Asset : Kept!LogInit(d)
  <2> SUFFICES ASSUME Init, NEW c \in CycleIds, NEW a \in Asset PROVE Kept!LogInit(<<c, a>>)
    OBVIOUS
  <2>1. log[c][a] = NoEntry /\ intents[c][a] = NoIntent
    BY DEF Init
  <2>2. EntryOf(c, a) = "none" /\ OrderOf(c, a) = "none"
    BY <2>1, Said, Stood DEF Words, Stands, NoEntry, NoIntent
  <2>3. entries[<<c, a>>] = "none" /\ orders[<<c, a>>] = "none"
    BY <2>2
  <2>4. QED
    BY <2>3 DEF Kept!LogInit
<1>2. ASSUME Layer3, [Next]_vars, NEW c \in CycleIds, NEW a \in Asset
      PROVE  UNCHANGED <<entries[<<c, a>>], orders[<<c, a>>]>> \/ Kept!LogStep(<<c, a>>)
  <2>1. Moves(EntryOf(c, a), OrderOf(c, a), EntryOf(c, a)', OrderOf(c, a)')
    BY <1>2, LogMoves
  <2>2. /\ entries[<<c, a>>] = EntryOf(c, a) /\ entries'[<<c, a>>] = EntryOf(c, a)'
        /\ orders[<<c, a>>] = OrderOf(c, a) /\ orders'[<<c, a>>] = OrderOf(c, a)'
    OBVIOUS
  <2>3. ASSUME NEW from, NEW to, EntryOf(c, a) = from, EntryOf(c, a)' = to
        PROVE  Kept!Entry(<<c, a>>, from, to)
    BY <2>3 DEF Kept!Entry
  <2>4. ASSUME NEW from, NEW to, OrderOf(c, a) = from, OrderOf(c, a)' = to
        PROVE  Kept!Order(<<c, a>>, from, to)
    BY <2>4 DEF Kept!Order
  <2>5. CASE EntryOf(c, a)' = EntryOf(c, a) /\ OrderOf(c, a)' = OrderOf(c, a)
    BY <2>2, <2>5
  <2>6. CASE ~(EntryOf(c, a)' = EntryOf(c, a) /\ OrderOf(c, a)' = OrderOf(c, a))
    <3> HIDE DEF entries, orders
    <3>1. QED
      BY <2>1, <2>3, <2>4, <2>6
         DEF Moves, Kept!LogStep, Kept!Decide, Kept!Decline, Kept!Announce, Kept!Open, Kept!Close,
             Kept!Verify
  <2>7. QED
    BY <2>5, <2>6
<1> DEFINE OneStep(d) == UNCHANGED <<entries[d], orders[d]>> \/ Kept!LogStep(d)
<1>3. Layer3 /\ [Next]_vars => \A d \in CycleIds \X Asset : OneStep(d)
  <2> SUFFICES ASSUME Layer3, [Next]_vars, NEW d \in CycleIds \X Asset PROVE OneStep(d)
    <3> HIDE DEF OneStep
    <3>1. QED
      OBVIOUS
  <2>1. PICK c \in CycleIds, a \in Asset : d = <<c, a>>
    OBVIOUS
  <2>2. OneStep(<<c, a>>)
    BY <1>2
  <2> HIDE DEF OneStep
  <2>3. QED
    BY <2>1, <2>2
<1>4. QED
  BY <1>1, <1>3, Layer3Holds, PTL DEF Spec, LogKept, Kept!LogSpec

-----------------------------------------------------------------------------
\* The trades of a day.

Trades(m, p, day) == Cardinality(Intended(m, p, day))

Dated == \A c \in CycleIds, a \in Asset : Has(c, a) => intents[c][a].day <= Day(now)
Fits == \A m \in Modes, p \in Portfolios, day \in Nat : Trades(m, p, day) <= MaxTradesPerDay
Counts == pc = "guard" => \A p \in Portfolios : Trades(proc.mode, p, Day(now)) <= seen[p]
Room ==
  pc = "save" =>
    /\ proc.day <= Day(now)
    /\ Trades(proc.mode, Current.portfolio, proc.day) < MaxTradesPerDay

Layer4 == Layer3 /\ Dated /\ Fits /\ Counts /\ Room

\* At first nobody has traded.
LEMMA Layer4Initially == Init => Layer4
<1> SUFFICES ASSUME Init PROVE Layer4
  OBVIOUS
<1>1. Layer3 /\ pc = "off"
  BY Layer3Initially DEF Init
<1>2. \A c \in CycleIds, a \in Asset : ~Has(c, a)
  BY DEF Init, Has, NoIntent
<1>3. ASSUME NEW m, NEW p, NEW day PROVE Trades(m, p, day) = 0
  <2>1. Intended(m, p, day) = {}
    BY <1>2 DEF Intended, Has
  <2>2. QED
    BY <2>1, FS_EmptySet DEF Trades
<1>4. QED
  BY <1>1, <1>2, <1>3, CycleAssumption DEF Layer4, Dated, Fits, Counts, Room

\* Nobody traded on a day yet to come.
LEMMA NoneAhead ==
  ASSUME Layer4, NEW m, NEW p, NEW day \in Nat, day > Day(now)
  PROVE  Trades(m, p, day) = 0
<1>1. ASSUME NEW d \in Intended(m, p, day) PROVE FALSE
  <2>1. PICK c \in CycleIds, a \in Asset : d = <<c, a>>
    BY <1>1 DEF Intended
  <2>2. Has(c, a) /\ intents[c][a].day = day
    BY <1>1, <2>1 DEF Intended, Has
  <2>3. intents[c][a].day <= Day(now) /\ Day(now) \in Nat
    BY <2>2, DayType DEF Layer4, Dated, Layer3, Layer2, Layer1
  <2>4. QED
    BY <2>2, <2>3
<1>2. Intended(m, p, day) = {}
  BY <1>1
<1>3. QED
  BY <1>2, FS_EmptySet DEF Trades

\* A step that saves no intent leaves every count.
LEMMA TradesKept ==
  ASSUME \A c \in CycleIds, a \in Asset : SameIntent(c, a), NEW m, NEW p, NEW day
  PROVE  Trades(m, p, day)' = Trades(m, p, day)
<1>1. ASSUME NEW d \in CycleIds \X Asset PROVE d \in Intended(m, p, day)' <=> d \in Intended(m, p, day)
  <2>1. PICK c \in CycleIds, a \in Asset : d = <<c, a>>
    OBVIOUS
  <2>2. SameIntent(c, a)
    OBVIOUS
  <2>3. QED
    BY <2>1, <2>2 DEF SameIntent, Has, Intended
<1>2. Intended(m, p, day)' = Intended(m, p, day)
  BY <1>1 DEF Intended
<1>3. QED
  BY <1>2 DEF Trades

\* The guard counted before the order is saved: one more fits.
LEMMA TradesSaved ==
  ASSUME Layer4, SaveIntent, NEW m \in Modes, NEW p \in Portfolios, NEW day \in Nat
  PROVE  Trades(m, p, day)' <= MaxTradesPerDay
<1> DEFINE new == <<proc.cycle, Current>>
<1>1. /\ proc.cycle \in CycleIds /\ Current \in Asset /\ pc = "save"
      /\ Under("save", log[proc.cycle][Current], intents[proc.cycle][Current])
  BY Now DEF SaveIntent, AtAsset, Layer4
<1>2. /\ intents'[proc.cycle][Current].status = "PREPARED"
      /\ intents'[proc.cycle][Current].mode = proc.mode
      /\ intents'[proc.cycle][Current].day = proc.day
      /\ \A d \in CycleIds, b \in Asset :
           d # proc.cycle \/ b # Current => intents'[d][b] = intents[d][b]
  BY Saved DEF Layer4, Layer3, Layer2
<1>3. Intended(m, p, day)' \subseteq Intended(m, p, day) \union {new}
  <2>1. SUFFICES ASSUME NEW c \in CycleIds, NEW a \in Asset, <<c, a>> \in Intended(m, p, day)',
                        c # proc.cycle \/ a # Current
                 PROVE  <<c, a>> \in Intended(m, p, day)
    BY DEF Intended
  <2>2. QED
    BY <1>2, <2>1 DEF Intended
<1>4. /\ IsFiniteSet(Intended(m, p, day)) /\ Cardinality(Intended(m, p, day)) \in Nat
      /\ MaxTradesPerDay \in Nat
  BY Counting, CycleAssumption
<1>5. CASE m = proc.mode /\ p = Current.portfolio /\ day = proc.day
  <2>1. Trades(m, p, day) < MaxTradesPerDay
    BY <1>1, <1>5 DEF Layer4, Room
  <2>2. /\ IsFiniteSet(Intended(m, p, day) \union {new})
        /\ Cardinality(Intended(m, p, day) \union {new}) <= Cardinality(Intended(m, p, day)) + 1
        /\ Cardinality(Intended(m, p, day) \union {new}) \in Nat
    <3> DEFINE old == Intended(m, p, day)
    <3> HIDE DEF old, new
    <3>1. IsFiniteSet(old) /\ Cardinality(old) \in Nat
      BY <1>4 DEF old
    <3>2. /\ IsFiniteSet(old \union {new})
          /\ Cardinality(old \union {new}) \in {Cardinality(old), Cardinality(old) + 1}
      BY <3>1, FS_AddElement
    <3>3. QED
      BY <3>1, <3>2 DEF old
  <2>3. Cardinality(Intended(m, p, day)') <= Cardinality(Intended(m, p, day) \union {new})
    BY <1>3, <2>2, FS_Subset
  <2>4. Cardinality(Intended(m, p, day)') \in Nat
    BY <1>3, <2>2, FS_Subset, FS_CardinalityType
  <2>5. QED
    BY <1>4, <2>1, <2>2, <2>3, <2>4 DEF Trades
<1>6. CASE ~(m = proc.mode /\ p = Current.portfolio /\ day = proc.day)
  <2>1. new \notin Intended(m, p, day)'
    BY <1>2, <1>6 DEF Intended
  <2>2. Intended(m, p, day)' \subseteq Intended(m, p, day)
    BY <1>3, <2>1
  <2>3. Cardinality(Intended(m, p, day)') <= Cardinality(Intended(m, p, day))
        /\ Cardinality(Intended(m, p, day)') \in Nat
    BY <1>4, <2>2, FS_Subset, FS_CardinalityType
  <2>4. Trades(m, p, day) <= MaxTradesPerDay
    BY DEF Layer4, Fits
  <2>5. QED
    BY <1>4, <2>3, <2>4 DEF Trades
<1>7. QED
  BY <1>5, <1>6

\* Steps at which no intent is saved, in another place than guard and save.
LEMMA Quiet4 ==
  ASSUME Layer4, Layer3', now' = now, pc' \notin {"guard", "save"},
         \A c \in CycleIds, a \in Asset : SameIntent(c, a)
  PROVE  Layer4'
<1>1. Dated'
  BY DEF Layer4, Dated, SameIntent
<1>2. Fits'
  <2>1. ASSUME NEW m \in Modes, NEW p \in Portfolios, NEW day \in Nat
        PROVE  Trades(m, p, day)' <= MaxTradesPerDay
    BY TradesKept DEF Layer4, Fits
  <2>2. QED
    BY <2>1 DEF Fits
<1>3. QED
  BY <1>1, <1>2 DEF Layer4, Counts, Room

\* Outside the cycle no order is added; midnight begins a day without trades.
LEMMA Elsewhere4 == ASSUME Layer4, Elsewhere, Layer3' PROVE Layer4'
<1>1. UNCHANGED <<assets, intents>> /\ \A c \in CycleIds, a \in Asset : SameIntent(c, a)
  BY ElsewhereSame DEF SameIntent, Has
<1>2. CASE pc' \notin {"guard", "save"} /\ now' = now
  BY <1>1, <1>2, Quiet4
<1>3. CASE pc' \in {"guard", "save"} \/ now' # now
  <2>1. UNCHANGED <<pc, proc, seen>> /\ (Tick \/ now' = now)
    BY <1>3 DEF Elsewhere, Start, OpenFurther, Maintain, Recovering, Recovered, Goto, Tick, Reassign,
                Running, vars, Layer4, Layer3, Layer2, Layer1, Where
  <2>2. Day(now) \in Nat /\ Day(now') \in Nat /\ Day(now) <= Day(now')
    <3>1. TypeOK /\ now \in Nat /\ now' \in Nat /\ DayLength \in Nat \ {0}
      BY CycleAssumption DEF Layer4, Layer3, Layer2, Layer1, TypeOK
    <3>2. Day(now) \in Nat
      BY <3>1, DayType
    <3>3. Day(now') \in Nat
      BY <3>1, DayOf
    <3>4. QED
      BY <2>1, <3>1, <3>2, <3>3, DayMoves
  <2>3. Dated'
    <3>1. SUFFICES ASSUME NEW c \in CycleIds, NEW a \in Asset, Has(c, a)
                   PROVE  intents[c][a].day <= Day(now')
      BY <1>1 DEF Dated, Has
    <3>2. intents[c][a].day <= Day(now) /\ intents[c][a].day \in Nat
      BY <3>1 DEF Layer4, Dated, Layer3, Layer2, Layer1, TypeOK, Intent
    <3>3. QED
      BY <2>2, <3>2
  <2>4. ASSUME NEW m, NEW p, NEW day PROVE Trades(m, p, day)' = Trades(m, p, day)
    BY <1>1, TradesKept
  <2>5. Fits'
    BY <2>4 DEF Layer4, Fits
  <2>6. Counts'
    <3>1. SUFFICES ASSUME pc = "guard", NEW p \in Portfolios
                   PROVE  Trades(proc.mode, p, Day(now))' <= seen[p]
      BY <2>1 DEF Counts
    <3>2. PICK m \in {proc.mode}, day \in Nat : day = Day(now')
      BY <2>2
    <3>3. Trades(proc.mode, p, Day(now))' = Trades(m, p, day)
      <4>1. Trades(proc.mode, p, Day(now))' = Trades(m, p, day)'
        BY <2>1, <3>2 DEF Trades, Intended, Day
      <4>2. QED
        BY <2>4, <4>1
    <3>4. seen[p] \in Nat /\ Trades(m, p, Day(now)) <= seen[p]
      BY <3>1, <3>2 DEF Layer4, Counts, Layer3, Layer2, Layer1, TypeOK
    <3>5. CASE day = Day(now)
      BY <3>3, <3>4, <3>5
    <3>6. CASE day > Day(now)
      BY <3>3, <3>4, <3>6, NoneAhead
    <3>7. QED
      BY <2>2, <3>2, <3>5, <3>6
  <2>7. Room'
    <3>1. SUFFICES ASSUME pc = "save"
                   PROVE  /\ proc.day <= Day(now')
                          /\ Trades(proc.mode, Current.portfolio, proc.day)' < MaxTradesPerDay
      BY <2>1 DEF Room
    <3>2. proc.day <= Day(now) /\ Trades(proc.mode, Current.portfolio, proc.day) < MaxTradesPerDay
      BY <3>1 DEF Layer4, Room
    <3>3. Trades(proc.mode, Current.portfolio, proc.day)'
          = Trades(proc.mode, Current.portfolio, proc.day)
      BY <1>1, <2>1 DEF Trades, Intended, Current
    <3>4. QED
      BY <2>2, <3>2, <3>3, Locals DEF Layer4, Layer3, Layer2, Layer1
  <2>8. QED
    BY <2>3, <2>5, <2>6, <2>7 DEF Layer4
<1>4. QED
  BY <1>2, <1>3

\* A cycle adds an order only where the guard has counted room for it.
LEMMA CycleStep4 == ASSUME Layer4, CycleStep, Layer3' PROVE Layer4'
<1>1. /\ now' = now /\ assets' = assets /\ proc'.mode = proc.mode
  BY InCycle1 DEF Frame, Layer4, Layer3, Layer2
<1>2. CASE Refresh
  <2>1. /\ pc' = "guard" /\ seen' = TradesToday /\ UNCHANGED <<proc, intents>>
        /\ \A c \in CycleIds, a \in Asset : SameIntent(c, a)
    BY <1>2 DEF Refresh, storeVars, SameIntent, Has
  <2>2. Counts'
    <3>1. SUFFICES ASSUME NEW p \in Portfolios
                   PROVE  Trades(proc.mode, p, Day(now))' <= seen'[p]
      BY <2>1 DEF Counts
    <3>2. seen'[p] = Trades(proc.mode, p, Day(now)) /\ seen'[p] \in Nat
      BY <2>1, Counting DEF TradesToday, Trades
    <3>3. Trades(proc.mode, p, Day(now))' = Trades(proc.mode, p, Day(now))
      BY <1>1, <2>1 DEF Trades, Intended, Day
    <3>4. QED
      BY <3>2, <3>3
  <2>3. Dated' /\ Fits'
    <3>1. ASSUME NEW m \in Modes, NEW p \in Portfolios, NEW day \in Nat
          PROVE  Trades(m, p, day)' <= MaxTradesPerDay
      BY <2>1, TradesKept DEF Layer4, Fits
    <3>2. QED
      BY <1>1, <2>1, <3>1 DEF Layer4, Fits, Dated, Has
  <2>4. QED
    BY <2>1, <2>2, <2>3 DEF Layer4, Room
<1>3. CASE Guard
  <2>1. /\ pc = "guard" /\ pc' = "save" /\ UNCHANGED <<intents, seen>> /\ MayTrade(Current.portfolio)
        /\ proc' = [proc EXCEPT !.day = Day(now)]
        /\ \A c \in CycleIds, a \in Asset : SameIntent(c, a)
    BY <1>3 DEF Guard, SameIntent, Has
  <2>2. proc'.day = Day(now) /\ proc'.next = proc.next
    BY <2>1 DEF Layer4, Layer3, Layer2, Layer1, TypeOK, Local
  <2>3. Current.portfolio \in Portfolios /\ Current' = Current
    BY <1>1, <2>1, <2>2, Here DEF AtAsset, Layer4, Layer3, Layer2, Layer1, Current
  <2>4. Trades(proc.mode, Current.portfolio, Day(now)) < MaxTradesPerDay
    <3>1. Trades(proc.mode, Current.portfolio, Day(now)) <= seen[Current.portfolio]
      BY <2>1, <2>3 DEF Layer4, Counts
    <3>2. seen[Current.portfolio] < MaxTradesPerDay /\ seen[Current.portfolio] \in Nat
      BY <2>1, <2>3 DEF MayTrade, Layer4, Layer3, Layer2, Layer1, TypeOK
    <3>3. Trades(proc.mode, Current.portfolio, Day(now)) \in Nat /\ MaxTradesPerDay \in Nat
      BY Counting, CycleAssumption DEF Trades
    <3>4. QED
      BY <3>1, <3>2, <3>3
  <2>5. Trades(proc.mode, Current.portfolio, proc.day)'
        = Trades(proc.mode, Current.portfolio, Day(now))
    BY <1>1, <2>1, <2>2, <2>3 DEF Trades, Intended
  <2>6. Day(now') = Day(now) /\ Day(now) \in Nat
    BY <1>1, DayType DEF Layer4, Layer3, Layer2, Layer1
  <2>7. Room'
    BY <2>2, <2>4, <2>5, <2>6 DEF Room
  <2>8. Dated' /\ Fits'
    <3>1. ASSUME NEW m \in Modes, NEW p \in Portfolios, NEW day \in Nat
          PROVE  Trades(m, p, day)' <= MaxTradesPerDay
      BY <2>1, TradesKept DEF Layer4, Fits
    <3>2. QED
      BY <1>1, <2>1, <3>1 DEF Layer4, Fits, Dated, Has
  <2>9. QED
    BY <2>1, <2>7, <2>8 DEF Layer4, Counts
<1>4. CASE SaveIntent
  <2>1. pc' = "execute"
    BY <1>4 DEF SaveIntent
  <2>2. Fits'
    <3>1. ASSUME NEW m \in Modes, NEW p \in Portfolios, NEW day \in Nat
          PROVE  Trades(m, p, day)' <= MaxTradesPerDay
      BY <1>4, TradesSaved
    <3>2. QED
      BY <3>1 DEF Fits
  <2>3. Dated'
    <3>1. SUFFICES ASSUME NEW c \in CycleIds, NEW a \in Asset, intents'[c][a].status # None
                   PROVE  intents'[c][a].day <= Day(now)
      BY <1>1 DEF Dated, Has
    <3>2. CASE c = proc.cycle /\ a = Current
      <4>1. proc.day <= Day(now)
        BY <1>4 DEF SaveIntent, Layer4, Room
      <4>2. intents'[c][a].day = proc.day
        BY <1>4, <3>2, Saved DEF Layer4, Layer3, Layer2
      <4>3. QED
        BY <4>1, <4>2
    <3>3. CASE c # proc.cycle \/ a # Current
      <4>1. intents'[c][a] = intents[c][a]
        BY <1>4, <3>3, Saved DEF Layer4, Layer3, Layer2
      <4>2. QED
        BY <3>1, <4>1 DEF Layer4, Dated, Has
    <3>4. QED
      BY <3>2, <3>3
  <2>4. QED
    BY <2>1, <2>2, <2>3 DEF Layer4, Counts, Room
<1>5. CASE ~(Refresh \/ Guard \/ SaveIntent)
  <2>1. \A c \in CycleIds, a \in Asset : SameIntent(c, a)
    BY <1>5, CycleIntents DEF Layer4, Layer3
  <2>2. pc' \notin {"guard", "save"}
    BY <1>5 DEF CycleStep, Decide, RecordDecision, Decline, Approve, ExecutePaper, Submit, ExecuteLive,
                Rewrite, AfterExecution, Advance, Goto
  <2>3. QED
    BY <1>1, <2>1, <2>2, Quiet4
<1>6. QED
  BY <1>2, <1>3, <1>4, <1>5

\* Every step keeps the fourth layer.
LEMMA Layer4Step == Layer4 /\ [Next]_vars => Layer4'
<1> SUFFICES ASSUME Layer4, [Next]_vars PROVE Layer4'
  OBVIOUS
<1>1. Layer3' /\ Layer2
  BY Layer3Step DEF Layer4, Layer3
<1>2. ASSUME UNCHANGED <<now, intents>>, pc' \notin {"guard", "save"} PROVE Layer4'
  BY <1>1, <1>2, Quiet4 DEF SameIntent, Has
<1>3. CASE \E m \in Modes : Doctor(m) \/ \E s \in Strategies : Run(m, s)
  BY <1>2, <1>3 DEF Doctor, Run, Recovering, Running
<1>4. CASE BeginCycle
  BY <1>2, <1>4 DEF BeginCycle, Recovering, Running
<1>5. CASE Ending
  BY <1>1, <1>2, <1>5, Ended DEF Layer2, Frame, Exit
<1>6. ASSUME NEW c \in CycleIds, NEW a \in Asset, Recover(c, a) \/ RecoverFails(c, a) PROVE Layer4'
  <2>1. now' = now /\ pc' = "recover" /\ <<c, a>> \in proc.todo
    BY <1>6 DEF Recover, RecoverFails, Running
  <2>2. Has(c, a)
    BY <1>1, <2>1 DEF Layer2, Held
  <2>3. CASE Reports(c, a)
    BY <1>1, <2>1, <2>2, <2>3, ReportHas, Quiet4 DEF Layer2, Layer1
  <2>4. CASE UNCHANGED <<log, intents>>
    BY <1>2, <2>1, <2>4
  <2>5. QED
    BY <1>6, <2>3, <2>4 DEF Recover, RecoverFails, Reports
<1>7. CASE CycleStep
  BY <1>1, <1>7, CycleStep4
<1>8. CASE Elsewhere
  BY <1>1, <1>8, Elsewhere4
<1>9. QED
  BY <1>3, <1>4, <1>5, <1>6, <1>7, <1>8, Kinds

\* No portfolio opens more orders in a day than its limit, in whichever cycles, and whenever
\* midnight falls between the count and the order.
THEOREM TradesAreBounded == Spec => []TradesBounded
<1>1. Layer4 => TradesBounded
  <2> SUFFICES ASSUME Layer4, NEW m \in Modes, NEW p \in Portfolios, NEW day \in 0..Day(now)
               PROVE  Cardinality(Intended(m, p, day)) <= MaxTradesPerDay
    BY DEF TradesBounded
  <2>1. day \in Nat
    BY DayType DEF Layer4, Layer3, Layer2, Layer1
  <2>2. QED
    BY <2>1 DEF Layer4, Fits, Trades
<1>2. QED
  BY <1>1, Layer4Initially, Layer4Step, PTL DEF Spec
=============================================================================
