------------------------- MODULE LiveExecutorProofs -------------------------
(***************************************************************************)
(* IInv is an inductive invariant of LiveExecutor for every set of intents *)
(* and every value of the limits, and it implies the safety properties.    *)
(*                                                                         *)
(* There is one lemma per action.  An action that changes neither the      *)
(* database nor the exchange cannot disturb DataInv (DataUnchanged); for   *)
(* the others each conjunct of IInv has a step of its own.                 *)
(***************************************************************************)
EXTENDS LiveExecutor, FiniteSetTheorems, TLAPS

USE DEF exVars, tables, clocks, process, sent, Intents

-----------------------------------------------------------------------------
\* The building blocks of the steps, and their types.

\* The cleared locals have their types.
LEMMA Initials == NoView \in Views /\ NoJob \in Jobs
  BY MaxFillsAssumption DEF NoView, Views, NoJob, Jobs, Modes

\* What recover_orders does to its lists keeps their types.
LEMMA JobType ==
  ASSUME job \in Jobs, NEW i
  PROVE  /\ [job EXCEPT !.todo = @ \ {i}] \in Jobs
         /\ [job EXCEPT !.todo = @ \ {i}, !.stuck = TRUE] \in Jobs
         /\ [job EXCEPT !.recovering = FALSE] \in Jobs
  BY DEF Jobs

\* record_result keeps the types of the tables.
LEMMA RecordType ==
  ASSUME TypeOK, NEW i \in Intents, NEW s \in TerminalStatuses \union PendingStatuses,
         NEW r \in {"absent", "null", "known"}, Record(i, s, r)
  PROVE  TablesTypeOK'
  BY DEF Record, TypeOK, TablesTypeOK

\* Both ways out of an intent keep the types of the locals.
LEMMA LeaveType == ASSUME TypeOK, LeaveResolved \/ LeaveUnresolved PROVE ProcessTypeOK'
<1>1. job' \in Jobs /\ view' \in Views
  BY JobType, Initials DEF LeaveResolved, LeaveUnresolved, TypeOK, ProcessTypeOK
<1> QED
  BY <1>1, LimitsAssumption DEF LeaveResolved, LeaveUnresolved, ProcessTypeOK

\* A step within execute or _verify keeps them too.
LEMMA GotoType ==
  ASSUME TypeOK, cur \in Intents, NEW p \in LivePcs, Goto(p) PROVE ProcessTypeOK'
  BY NoneAssumption DEF Goto, TypeOK, ProcessTypeOK, LivePcs, VerifyPcs

\* So does the start of _verify,
LEMMA StartVerifyType ==
  ASSUME TypeOK, cur' \in Intents, StartVerify PROVE ProcessTypeOK'
  BY LimitsAssumption, NoneAssumption, Initials DEF StartVerify, TypeOK, ProcessTypeOK

\* and the end of one of its rounds.
LEMMA NextAttemptType ==
  ASSUME TypeOK, cur \in Intents, NextAttempt PROVE TablesTypeOK' /\ ProcessTypeOK'
<1>1. CASE tries + 1 < VerificationAttempts
  <2>1. tries' \in 0..(VerificationAttempts - 1)
    BY <1>1, LimitsAssumption DEF NextAttempt, TypeOK, ProcessTypeOK
  <2>2. ProcessTypeOK'
    BY <1>1, <2>1, NoneAssumption, Initials DEF NextAttempt, TypeOK, ProcessTypeOK
  <2>3. TablesTypeOK'
    BY <1>1 DEF NextAttempt, TypeOK, TablesTypeOK
  <2> QED BY <2>2, <2>3
<1>2. CASE ~(tries + 1 < VerificationAttempts)
  BY <1>2, LeaveType, RecordType DEF NextAttempt, Unknown, PendingStatuses
<1> QED BY <1>1, <1>2

\* A process that holds an intent in a verification step holds an unresolved live one.
LEMMA VerifyFacts ==
  ASSUME IInv, pc \in VerifyPcs
  PROVE  /\ cur \in LiveIntents /\ cur \in Unresolved
         /\ istatus[cur] = "UNRESOLVED" /\ orderRow[cur] = "known"
         /\ exStatus[cur] # "none" /\ cur \notin wire
  BY DEF IInv, DataInv, ProcessInv, PostInv, LivePcs, Unresolved, PendingStatuses

-----------------------------------------------------------------------------
\* Steps that leave the database and the exchange alone.

\* DataInv speaks of the order tables, the fills and the exchange, not of the process.
LEMMA DataUnchanged ==
  ASSUME DataInv, UNCHANGED <<exVars, istatus, orderRow, booked, ledger, expected, posts>>
  PROVE  DataInv'
<1> USE DEF DataInv
<1>1. OneUnresolved' /\ PostedOnce' /\ PostInv'
  BY DEF OneUnresolved, Unresolved, PostedOnce, PostInv
<1>2. BookedOnce' /\ BooksInv'
  BY DEF BookedOnce, BooksInv, BookedOf, ExecutedFills
<1>3. ResolvedMeansBooked'
  BY DEF ResolvedMeansBooked, BookedOf, FillsOf
<1> QED BY <1>1, <1>2, <1>3

\* Tables that are not written keep their types.
LEMMA TablesUnchangedType ==
  ASSUME TypeOK, UNCHANGED tables PROVE TablesTypeOK'
  BY DEF TypeOK, TablesTypeOK

\* A command lists unresolved intents only.
LEMMA StartCommandStep ==
  ASSUME IInv, NEW cmd \in Commands, StartCommand(cmd)
  PROVE  IInv'
<1>1. TypeOK'
  <2>1. ProcessTypeOK'
    BY DEF StartCommand, IInv, TypeOK, ProcessTypeOK, Jobs, Unresolved
  <2> QED BY <2>1, TablesUnchangedType DEF StartCommand, IInv, TypeOK, ExchangeTypeOK
<1>2. ProcessInv'
  BY DEF StartCommand, IInv, ProcessInv, LivePcs, VerifyPcs, Unresolved
<1>3. ViewInv'
  BY DEF StartCommand, IInv, ViewInv, VerifyPcs
<1>4. CancelInv' /\ CancelsAccounted'
  BY DEF StartCommand, IInv, CancelInv, CancelsAccounted
<1>5. DataInv'
  BY DataUnchanged DEF IInv, StartCommand
<1> QED BY <1>1, <1>2, <1>3, <1>4, <1>5 DEF IInv

\* Verification starts from an UNRESOLVED intent with an id, discovery from one without.
LEMMA RecoverSentStep ==
  ASSUME IInv, NEW i \in Intents, RecoverSent(i)
  PROVE  IInv'
<1>1. TypeOK'
  <2>1. ProcessTypeOK'
    <3>1. CASE orderRow[i] = "known"
      BY <3>1, StartVerifyType DEF RecoverSent, IInv
    <3>2. CASE orderRow[i] # "known"
      BY <3>2, NoneAssumption DEF RecoverSent, IInv, TypeOK, ProcessTypeOK
    <3> QED BY <3>1, <3>2
  <2> QED BY <2>1, TablesUnchangedType DEF RecoverSent, IInv, TypeOK, ExchangeTypeOK
<1>2. ProcessInv'
  BY DEF RecoverSent, IInv, ProcessInv, VerifyPcs, StartVerify, Unresolved, PendingStatuses,
         DataInv, PostInv
<1>3. ViewInv'
  BY DEF RecoverSent, IInv, ViewInv, VerifyPcs, StartVerify, NoView, FinalStatuses
<1>4. CancelInv' /\ CancelsAccounted'
  BY DEF RecoverSent, IInv, CancelInv, CancelsAccounted, StartVerify
<1>5. DataInv'
  BY DataUnchanged DEF IInv, RecoverSent
<1> QED BY <1>1, <1>2, <1>3, <1>4, <1>5 DEF IInv

\* A failed recovery only forgets its intent.
LEMMA RecoverFailsStep ==
  ASSUME IInv, NEW i \in Intents, RecoverFails(i)
  PROVE  IInv'
<1>1. TypeOK'
  <2>1. ProcessTypeOK'
    BY JobType DEF RecoverFails, IInv, TypeOK, ProcessTypeOK
  <2> QED BY <2>1, TablesUnchangedType DEF RecoverFails, IInv, TypeOK, ExchangeTypeOK
<1>2. ProcessInv'
  BY DEF RecoverFails, IInv, ProcessInv, Unresolved
<1>3. ViewInv'
  BY DEF RecoverFails, IInv, ViewInv
<1>4. CancelInv' /\ CancelsAccounted'
  BY DEF RecoverFails, IInv, CancelInv, CancelsAccounted
<1>5. DataInv'
  BY DataUnchanged DEF IInv, RecoverFails
<1> QED BY <1>1, <1>2, <1>3, <1>4, <1>5 DEF IInv

\* A reconciliation that passes moves the clock of the history gap only.
LEMMA SeenType ==
  ASSUME IInv, ExchangeSeen
  PROVE  /\ gap' \in 0..(MaxGap + 1)
         /\ UNCHANGED <<age, since>>
  BY LimitsAssumption DEF ExchangeSeen, IInv, TypeOK

\* A command that ends holds nothing, and neither does a startup that passes.
LEMMA RecoverDoneStep ==
  ASSUME IInv, RecoverDone \/ StartupPasses
  PROVE  IInv'
<1>1. TypeOK'
  <2>1. ProcessTypeOK'
    BY JobType, Initials DEF RecoverDone, StartupPasses, IInv, TypeOK, ProcessTypeOK
  <2>2. gap' \in 0..(MaxGap + 1) /\ UNCHANGED <<age, since>>
    BY SeenType, LimitsAssumption DEF RecoverDone, StartupPasses, IInv, TypeOK
  <2> QED BY <2>1, <2>2, TablesUnchangedType DEF RecoverDone, StartupPasses, IInv, TypeOK, ExchangeTypeOK
<1>2. ProcessInv'
  BY DEF RecoverDone, StartupPasses, IInv, ProcessInv, LivePcs, VerifyPcs, TypeOK, ProcessTypeOK, Jobs,
         NoJob
<1>3. ViewInv'
  BY DEF RecoverDone, StartupPasses, IInv, ViewInv, VerifyPcs
<1>4. CancelInv' /\ CancelsAccounted'
  BY DEF RecoverDone, StartupPasses, IInv, CancelInv, CancelsAccounted
<1>5. DataInv'
  BY DataUnchanged DEF IInv, RecoverDone, StartupPasses
<1> QED BY <1>1, <1>2, <1>3, <1>4, <1>5 DEF IInv

\* A cycle that ends holds nothing.
LEMMA EndCycleStep ==
  ASSUME IInv, EndCycle
  PROVE  IInv'
<1>1. TypeOK'
  <2>1. ProcessTypeOK'
    BY Initials DEF EndCycle, IInv, TypeOK, ProcessTypeOK
  <2>2. gap' \in 0..(MaxGap + 1) /\ UNCHANGED <<age, since>>
    BY SeenType DEF EndCycle, IInv, TypeOK
  <2> QED BY <2>1, <2>2, TablesUnchangedType DEF EndCycle, IInv, TypeOK, ExchangeTypeOK
<1>2. ProcessInv'
  BY DEF EndCycle, IInv, ProcessInv, LivePcs, VerifyPcs, NoJob
<1>3. ViewInv'
  BY DEF EndCycle, IInv, ViewInv, VerifyPcs
<1>4. CancelInv' /\ CancelsAccounted'
  BY DEF EndCycle, IInv, CancelInv, CancelsAccounted
<1>5. DataInv'
  BY DataUnchanged DEF IInv, EndCycle
<1> QED BY <1>1, <1>2, <1>3, <1>4, <1>5 DEF IInv

\* .env was edited: the intent stays SUBMITTING without a POST.
LEMMA SubmitRefusedStep ==
  ASSUME IInv, SubmitRefused
  PROVE  IInv'
<1>1. TypeOK'
  <2>1. ProcessTypeOK'
    BY LeaveType DEF SubmitRefused, IInv
  <2> QED BY <2>1, TablesUnchangedType DEF SubmitRefused, IInv, TypeOK, ExchangeTypeOK
<1>2. ProcessInv'
  BY DEF SubmitRefused, IInv, ProcessInv, LivePcs, VerifyPcs, LeaveUnresolved, NoJob,
         Unresolved
<1>3. ViewInv'
  BY DEF SubmitRefused, IInv, ViewInv, LeaveUnresolved, NoView, FinalStatuses
<1>4. CancelInv' /\ CancelsAccounted'
  BY DEF SubmitRefused, IInv, CancelInv, CancelsAccounted, LeaveUnresolved
<1>5. DataInv'
  BY DataUnchanged DEF IInv, SubmitRefused
<1> QED BY <1>1, <1>2, <1>3, <1>4, <1>5 DEF IInv

\* Without an answer the intent is discovered, still SUBMITTING and without an id.
LEMMA NoAnswerStep ==
  ASSUME IInv, NoAnswer
  PROVE  IInv'
<1>1. TypeOK'
  <2>1. ProcessTypeOK'
    BY GotoType DEF NoAnswer, IInv, TypeOK, ProcessTypeOK, LivePcs
  <2> QED BY <2>1, TablesUnchangedType DEF NoAnswer, IInv, TypeOK, ExchangeTypeOK
<1>2. ProcessInv'
  BY DEF NoAnswer, IInv, ProcessInv, LivePcs, VerifyPcs, Goto, Unresolved, DataInv, PostInv
<1>3. ViewInv'
  BY DEF NoAnswer, IInv, ViewInv, VerifyPcs, Goto
<1>4. CancelInv' /\ CancelsAccounted'
  BY DEF NoAnswer, IInv, CancelInv, CancelsAccounted, Goto
<1>5. DataInv'
  BY DataUnchanged DEF IInv, NoAnswer
<1> QED BY <1>1, <1>2, <1>3, <1>4, <1>5 DEF IInv

\* Without a cancellation the fills of the same order are read.
LEMMA CancelSkippedStep ==
  ASSUME IInv, CancelSkipped
  PROVE  IInv'
<1>1. TypeOK'
  <2>1. ProcessTypeOK'
    BY GotoType DEF CancelSkipped, IInv, TypeOK, ProcessTypeOK, LivePcs, VerifyPcs
  <2> QED BY <2>1, TablesUnchangedType DEF CancelSkipped, IInv, TypeOK, ExchangeTypeOK
<1>2. ProcessInv'
  BY DEF CancelSkipped, IInv, ProcessInv, LivePcs, VerifyPcs, Goto, Unresolved
<1>3. ViewInv'
  BY DEF CancelSkipped, IInv, ViewInv, VerifyPcs, Goto
<1>4. CancelInv' /\ CancelsAccounted'
  BY DEF CancelSkipped, IInv, CancelInv, CancelsAccounted, Goto
<1>5. DataInv'
  BY DataUnchanged DEF IInv, CancelSkipped
<1> QED BY <1>1, <1>2, <1>3, <1>4, <1>5 DEF IInv

\* A crash forgets the locals; what the tables say does not depend on them.
LEMMA CrashStep ==
  ASSUME IInv, Crash
  PROVE  IInv'
<1>1. TypeOK'
  <2>1. ProcessTypeOK'
    BY Initials, LimitsAssumption DEF Crash, IInv, ProcessTypeOK
  <2> QED BY <2>1, TablesUnchangedType DEF Crash, IInv, TypeOK, ExchangeTypeOK
<1>2. ProcessInv'
  BY DEF Crash, IInv, ProcessInv, LivePcs, VerifyPcs, NoJob
<1>3. ViewInv'
  BY DEF Crash, IInv, ViewInv, VerifyPcs
<1>4. CancelInv' /\ CancelsAccounted'
  BY DEF Crash, IInv, CancelInv, CancelsAccounted
<1>5. DataInv'
  BY DataUnchanged DEF IInv, Crash
<1> QED BY <1>1, <1>2, <1>3, <1>4, <1>5 DEF IInv

\* No invariant relies on .env.
LEMMA EditEnvStep ==
  ASSUME IInv, EditEnv
  PROVE  IInv'
<1>1. TypeOK'
  <2>1. ProcessTypeOK'
    BY DEF EditEnv, IInv, TypeOK, ProcessTypeOK
  <2> QED BY <2>1, TablesUnchangedType DEF EditEnv, IInv, TypeOK, ExchangeTypeOK
<1>2. ProcessInv'
  BY DEF EditEnv, IInv, ProcessInv, Unresolved
<1>3. ViewInv'
  BY DEF EditEnv, IInv, ViewInv, BookedOf, FillsOf
<1>4. CancelInv' /\ CancelsAccounted'
  BY DEF EditEnv, IInv, CancelInv, CancelsAccounted
<1>5. DataInv'
  BY DataUnchanged DEF IInv, EditEnv
<1> QED BY <1>1, <1>2, <1>3, <1>4, <1>5 DEF IInv

\* What GET says of a final order is true, and a settled one has its full count.
LEMMA GetOrderStep ==
  ASSUME IInv, GetOrder
  PROVE  IInv'
<1>1. TypeOK'
  <2>1. ProcessTypeOK'
    <3>1. cur \in LiveIntents
      BY VerifyFacts DEF GetOrder, IInv, VerifyPcs
    <3>2. PICK n \in ReportedCounts(cur) :
            view' = [status |-> exStatus[cur], count |-> n, settled |-> settled[cur], got |-> {}]
      BY DEF GetOrder
    <3>3. n \in 0..MaxFills /\ exStatus[cur] \in ActiveStatuses \union FinalStatuses \union {"none"}
      BY <3>1, MaxFillsAssumption DEF IInv, TypeOK, ExchangeTypeOK, ReportedCounts
    <3>4. view' \in Views
      BY <3>1, <3>2, <3>3 DEF IInv, TypeOK, ExchangeTypeOK, Views
    <3> QED BY <3>1, <3>4, NoneAssumption DEF GetOrder, IInv, TypeOK, ProcessTypeOK
  <2> QED BY <2>1, TablesUnchangedType DEF GetOrder, IInv, TypeOK, ExchangeTypeOK
<1>2. ProcessInv'
  BY DEF GetOrder, IInv, ProcessInv, LivePcs, VerifyPcs, Unresolved
<1>3. ViewInv'
  BY DEF GetOrder, IInv, ViewInv, ReportedCounts, TypeOK, ExchangeTypeOK, ProcessInv,
         LivePcs, VerifyPcs
<1>4. CancelInv' /\ CancelsAccounted'
  BY DEF GetOrder, IInv, CancelInv, CancelsAccounted
<1>5. DataInv'
  BY DataUnchanged DEF IInv, GetOrder
<1> QED BY <1>1, <1>2, <1>3, <1>4, <1>5 DEF IInv

\* The clocks stay within their limits.
LEMMA TickStep == ASSUME IInv, Tick PROVE IInv'
<1>1. TypeOK'
  BY LimitsAssumption DEF Tick, HistoryGap, IInv, TypeOK, ExchangeTypeOK, TablesTypeOK, ProcessTypeOK
<1>2. ProcessInv' /\ ViewInv'
  BY DEF Tick, IInv, ProcessInv, Unresolved, ViewInv, BookedOf, FillsOf
<1>3. CancelInv' /\ CancelsAccounted'
  BY DEF Tick, IInv, CancelInv, CancelsAccounted
<1>4. DataInv'
  BY DataUnchanged DEF Tick, IInv
<1> QED BY <1>1, <1>2, <1>3, <1>4 DEF IInv

-----------------------------------------------------------------------------
\* Steps of the exchange.

\* An exchange step leaves the parts about tables and process alone.
LEMMA ExchangeFrame ==
  ASSUME IInv, UNCHANGED <<tables, clocks, envMode, process, sent>>, ExchangeTypeOK'
  PROVE  /\ TypeOK' /\ ProcessInv' /\ CancelInv' /\ CancelsAccounted'
         /\ OneUnresolved' /\ PostedOnce'
<1>1. TypeOK'
  BY DEF IInv, TypeOK, TablesTypeOK, ProcessTypeOK
<1>2. ProcessInv' /\ CancelInv' /\ CancelsAccounted'
  BY DEF IInv, ProcessInv, Unresolved, CancelInv, CancelsAccounted
<1>3. OneUnresolved' /\ PostedOnce'
  BY DEF IInv, DataInv, OneUnresolved, Unresolved, PostedOnce
<1> QED BY <1>1, <1>2, <1>3

\* A delivered POST was sent, and its intent is unresolved.
LEMMA DeliverStep ==
  ASSUME IInv, NEW o \in LiveIntents, Deliver(o),
         UNCHANGED <<tables, clocks, envMode, process, sent>>
  PROVE  IInv'
<1>1. ExchangeTypeOK'
  BY MaxFillsAssumption DEF Deliver, IInv, TypeOK, ExchangeTypeOK, ActiveStatuses
<1>2. PostInv'
  BY DEF Deliver, IInv, DataInv, PostInv, FinalStatuses
<1>3. ViewInv'
  BY DEF Deliver, IInv, ViewInv, BookedOf, FillsOf, FinalStatuses
<1>4. BookedOnce'
  BY DEF Deliver, IInv, DataInv, BookedOnce, ExecutedFills
<1>5. BooksInv'
  BY DEF Deliver, IInv, DataInv, BooksInv, BookedOf, ExecutedFills
<1>6. ResolvedMeansBooked'
  BY DEF Deliver, IInv, DataInv, ResolvedMeansBooked, BookedOf, FillsOf
<1> QED BY <1>1, <1>2, <1>3, <1>4, <1>5, <1>6, ExchangeFrame DEF IInv, DataInv

\* A dropped POST leaves no order.
LEMMA DropStep ==
  ASSUME IInv, NEW o \in LiveIntents, Drop(o),
         UNCHANGED <<tables, clocks, envMode, process, sent>>
  PROVE  IInv'
<1>1. ExchangeTypeOK'
  BY MaxFillsAssumption DEF Drop, IInv, TypeOK, ExchangeTypeOK
<1>2. PostInv'
  BY DEF Drop, IInv, DataInv, PostInv
<1>3. ViewInv'
  BY DEF Drop, IInv, ViewInv, BookedOf, FillsOf
<1>4. BookedOnce'
  BY DEF Drop, IInv, DataInv, BookedOnce, ExecutedFills
<1>5. BooksInv'
  BY DEF Drop, IInv, DataInv, BooksInv, BookedOf, ExecutedFills
<1>6. ResolvedMeansBooked'
  BY DEF Drop, IInv, DataInv, ResolvedMeansBooked, BookedOf, FillsOf
<1> QED BY <1>1, <1>2, <1>3, <1>4, <1>5, <1>6, ExchangeFrame DEF IInv, DataInv

\* Only an active order trades, so what was read of a final one stays true.
LEMMA TradeStep ==
  ASSUME IInv, NEW o \in LiveIntents, Trade(o),
         UNCHANGED <<tables, clocks, envMode, process, sent>>
  PROVE  IInv'
<1>1. ExchangeTypeOK'
  BY MaxFillsAssumption DEF Trade, IInv, TypeOK, ExchangeTypeOK
<1>2. PostInv'
  BY DEF Trade, IInv, DataInv, PostInv, ActiveStatuses
<1>3. ViewInv'
  BY DEF Trade, IInv, ViewInv, VerifyPcs, BookedOf, FillsOf, ActiveStatuses, FinalStatuses
<1>4. BookedOnce'
  BY DEF Trade, IInv, TypeOK, ExchangeTypeOK, DataInv, BookedOnce, ExecutedFills, LiveFills
<1>5. BooksInv'
  BY DEF Trade, IInv, TypeOK, ExchangeTypeOK, DataInv, BooksInv, BookedOf, ExecutedFills,
         LiveFills
<1>6. ResolvedMeansBooked'
  BY DEF Trade, IInv, DataInv, ResolvedMeansBooked, BookedOf, FillsOf, ActiveStatuses,
         FinalStatuses
<1> QED BY <1>1, <1>2, <1>3, <1>4, <1>5, <1>6, ExchangeFrame DEF IInv, DataInv

\* An order that ends has booked nothing yet.
LEMMA FinishStep ==
  ASSUME IInv, NEW o \in LiveIntents, NEW s \in FinalStatuses, Finish(o, s),
         UNCHANGED <<tables, clocks, envMode, process, sent>>
  PROVE  IInv'
<1>1. ExchangeTypeOK'
  BY MaxFillsAssumption DEF Finish, IInv, TypeOK, ExchangeTypeOK
<1>2. PostInv'
  BY DEF Finish, IInv, DataInv, PostInv, ActiveStatuses, FinalStatuses
<1>3. ViewInv'
  BY DEF Finish, IInv, ViewInv, BookedOf, FillsOf, ActiveStatuses, FinalStatuses
<1>4. BookedOnce'
  BY DEF Finish, IInv, DataInv, BookedOnce, ExecutedFills
<1>5. BooksInv'
  BY DEF Finish, IInv, DataInv, BooksInv, BookedOf, ExecutedFills
<1>6. ResolvedMeansBooked'
  BY DEF Finish, IInv, DataInv, ResolvedMeansBooked, BookedOf, FillsOf
<1> QED BY <1>1, <1>2, <1>3, <1>4, <1>5, <1>6, ExchangeFrame DEF IInv, DataInv

\* Settling does not change the executions.
LEMMA SettleStep ==
  ASSUME IInv, NEW o \in LiveIntents, Settle(o),
         UNCHANGED <<tables, clocks, envMode, process, sent>>
  PROVE  IInv'
<1>1. ExchangeTypeOK'
  BY MaxFillsAssumption DEF Settle, IInv, TypeOK, ExchangeTypeOK
<1>2. PostInv'
  BY DEF Settle, IInv, DataInv, PostInv
<1>3. ViewInv'
  BY DEF Settle, IInv, ViewInv, BookedOf, FillsOf
<1>4. BookedOnce'
  BY DEF Settle, IInv, DataInv, BookedOnce, ExecutedFills
<1>5. BooksInv'
  BY DEF Settle, IInv, DataInv, BooksInv, BookedOf, ExecutedFills
<1>6. ResolvedMeansBooked'
  BY DEF Settle, IInv, DataInv, ResolvedMeansBooked, BookedOf, FillsOf
<1> QED BY <1>1, <1>2, <1>3, <1>4, <1>5, <1>6, ExchangeFrame DEF IInv, DataInv

\* Balances show only executions.
LEMMA CreditStep ==
  ASSUME IInv, NEW f \in LiveFills, Credit(f),
         UNCHANGED <<tables, clocks, envMode, process, sent>>
  PROVE  IInv'
<1>1. ExchangeTypeOK'
  BY MaxFillsAssumption DEF Credit, IInv, TypeOK, ExchangeTypeOK
<1>2. PostInv'
  BY DEF Credit, IInv, DataInv, PostInv
<1>3. ViewInv'
  BY DEF Credit, IInv, ViewInv, BookedOf, FillsOf
<1>4. BookedOnce'
  BY DEF Credit, IInv, DataInv, BookedOnce, ExecutedFills
<1>5. BooksInv'
  BY DEF Credit, IInv, DataInv, BooksInv, BookedOf, ExecutedFills
<1>6. ResolvedMeansBooked'
  BY DEF Credit, IInv, DataInv, ResolvedMeansBooked, BookedOf, FillsOf
<1> QED BY <1>1, <1>2, <1>3, <1>4, <1>5, <1>6, ExchangeFrame DEF IInv, DataInv

-----------------------------------------------------------------------------
\* Steps that write the database.

\* A new intent is the only unresolved one.
LEMMA PrepareStep == ASSUME IInv, NEW i \in Intents, Prepare(i) PROVE IInv'
<1>1. TypeOK'
  <2>1. TablesTypeOK'
    BY DEF Prepare, IInv, TypeOK, TablesTypeOK, PendingStatuses
  <2>2. ProcessTypeOK'
    BY NoneAssumption DEF Prepare, IInv, TypeOK, ProcessTypeOK
  <2>3. gap' \in 0..(MaxGap + 1) /\ UNCHANGED <<age, since>>
    BY SeenType DEF Prepare
  <2> QED BY <2>1, <2>2, <2>3 DEF Prepare, IInv, TypeOK, ExchangeTypeOK
<1>2. ProcessInv'
  BY NoneAssumption, PaperIntentsAssumption
  DEF Prepare, IInv, TypeOK, TablesTypeOK, ProcessInv, LivePcs, VerifyPcs
<1>3. ViewInv'
  BY DEF Prepare, IInv, ViewInv, VerifyPcs
<1>4. CancelInv' /\ CancelsAccounted'
  BY DEF Prepare, IInv, CancelInv, CancelsAccounted
<1>5. OneUnresolved'
  BY DEF Prepare, IInv, OneUnresolved, Unresolved
<1>6. PostedOnce' /\ PostInv'
  BY PaperIntentsAssumption DEF Prepare, IInv, DataInv, PostedOnce, PostInv
<1>7. BookedOnce'
  BY DEF Prepare, IInv, DataInv, BookedOnce, ExecutedFills
<1>8. BooksInv'
  BY PaperIntentsAssumption DEF Prepare, IInv, DataInv, BooksInv, BookedOf, ExecutedFills
<1>9. ResolvedMeansBooked'
  BY PaperIntentsAssumption
  DEF Prepare, IInv, DataInv, ResolvedMeansBooked, BookedOf, FillsOf, TerminalStatuses
<1> QED BY <1>1, <1>2, <1>3, <1>4, <1>5, <1>6, <1>7, <1>8, <1>9 DEF IInv, DataInv

\* Marking comes before the POST.
LEMMA MarkSubmittingStep == ASSUME IInv, MarkSubmitting PROVE IInv'
<1>1. TypeOK'
  <2>1. TablesTypeOK'
    BY DEF MarkSubmitting, IInv, TypeOK, TablesTypeOK, PendingStatuses
  <2>2. ProcessTypeOK'
    BY GotoType DEF MarkSubmitting, IInv, TypeOK, ProcessTypeOK, LivePcs
  <2> QED BY <2>1, <2>2 DEF MarkSubmitting, IInv, TypeOK, ExchangeTypeOK
<1>2. ProcessInv'
  BY NoneAssumption, PaperIntentsAssumption
  DEF MarkSubmitting, IInv, TypeOK, TablesTypeOK, ProcessInv, LivePcs, VerifyPcs,
      Unresolved, DataInv, PendingStatuses, Goto, PostedOnce
<1>3. ViewInv'
  BY DEF MarkSubmitting, IInv, ViewInv, VerifyPcs, Goto
<1>4. CancelInv' /\ CancelsAccounted'
  BY DEF MarkSubmitting, IInv, CancelInv, CancelsAccounted, Goto
<1>5. OneUnresolved'
  BY DEF MarkSubmitting, IInv, DataInv, OneUnresolved, ProcessInv, Unresolved,
         PendingStatuses
<1>6. PostedOnce' /\ PostInv'
  BY PaperIntentsAssumption
  DEF MarkSubmitting, IInv, DataInv, PostedOnce, PostInv, ProcessInv
<1>7. BookedOnce'
  BY DEF MarkSubmitting, IInv, DataInv, BookedOnce, ExecutedFills
<1>8. BooksInv'
  BY PaperIntentsAssumption
  DEF MarkSubmitting, IInv, DataInv, BooksInv, BookedOf, ExecutedFills
<1>9. ResolvedMeansBooked'
  BY PaperIntentsAssumption
  DEF MarkSubmitting, IInv, DataInv, ResolvedMeansBooked, BookedOf, FillsOf,
      TerminalStatuses
<1> QED BY <1>1, <1>2, <1>3, <1>4, <1>5, <1>6, <1>7, <1>8, <1>9 DEF IInv, DataInv

\* The one POST of an intent leaves from SUBMITTING.
LEMMA SubmitStep == ASSUME IInv, Submit PROVE IInv'
<1>1. TypeOK'
  <2>1. TablesTypeOK'
    BY TablesUnchangedType DEF Submit, IInv
  <2>2. ProcessTypeOK'
    BY GotoType DEF Submit, IInv, TypeOK, ProcessTypeOK, LivePcs
  <2> QED BY <2>1, <2>2 DEF Submit, IInv, TypeOK, ExchangeTypeOK, ProcessInv, LivePcs
<1>2. ProcessInv'
  BY NoneAssumption, PaperIntentsAssumption
  DEF Submit, IInv, TypeOK, ProcessInv, LivePcs, VerifyPcs, Unresolved, Goto
<1>3. ViewInv'
  BY DEF Submit, IInv, ViewInv, VerifyPcs, Goto
<1>4. CancelInv' /\ CancelsAccounted'
  BY DEF Submit, IInv, CancelInv, CancelsAccounted, Goto
<1>5. OneUnresolved'
  BY DEF Submit, IInv, DataInv, OneUnresolved, Unresolved
<1>6. PostedOnce' /\ PostInv'
  BY PaperIntentsAssumption
  DEF Submit, IInv, TypeOK, DataInv, PostedOnce, PostInv, ProcessInv
<1>7. BookedOnce'
  BY DEF Submit, IInv, DataInv, BookedOnce, ExecutedFills
<1>8. BooksInv'
  BY PaperIntentsAssumption DEF Submit, IInv, DataInv, BooksInv, BookedOf, ExecutedFills
<1>9. ResolvedMeansBooked'
  BY PaperIntentsAssumption
  DEF Submit, IInv, DataInv, ResolvedMeansBooked, BookedOf, FillsOf, ProcessInv,
      TerminalStatuses
<1> QED BY <1>1, <1>2, <1>3, <1>4, <1>5, <1>6, <1>7, <1>8, <1>9 DEF IInv, DataInv

\* An acknowledged order exists, so its id may be stored.
LEMMA AcknowledgedStep == ASSUME IInv, Acknowledged PROVE IInv'
<1>1. TypeOK'
  <2>1. TablesTypeOK'
    BY RecordType DEF Acknowledged, IInv, ProcessInv, LivePcs, PendingStatuses
  <2>2. ProcessTypeOK'
    BY StartVerifyType DEF Acknowledged, IInv, ProcessInv, LivePcs
  <2> QED BY <2>1, <2>2 DEF Acknowledged, IInv, TypeOK, ExchangeTypeOK
<1>2. ProcessInv'
  BY NoneAssumption, PaperIntentsAssumption
  DEF Acknowledged, IInv, TypeOK, TablesTypeOK, ProcessInv, LivePcs, Unresolved,
      PendingStatuses, Record, StartVerify
<1>3. ViewInv'
  BY DEF Acknowledged, IInv, ViewInv, StartVerify, NoView, FinalStatuses
<1>4. CancelInv' /\ CancelsAccounted'
  BY DEF Acknowledged, IInv, CancelInv, CancelsAccounted, Record, StartVerify
<1>5. OneUnresolved'
  BY DEF Acknowledged, IInv, DataInv, OneUnresolved, ProcessInv, Unresolved,
         PendingStatuses, Record
<1>6. PostedOnce' /\ PostInv'
  BY PaperIntentsAssumption
  DEF Acknowledged, IInv, TypeOK, TablesTypeOK, DataInv, PostedOnce, PostInv, Record
<1>7. BookedOnce'
  BY DEF Acknowledged, IInv, DataInv, BookedOnce, ExecutedFills, Record
<1>8. BooksInv'
  BY PaperIntentsAssumption
  DEF Acknowledged, IInv, DataInv, BooksInv, BookedOf, ExecutedFills, Record
<1>9. ResolvedMeansBooked'
  BY PaperIntentsAssumption
  DEF Acknowledged, IInv, DataInv, ResolvedMeansBooked, BookedOf, FillsOf, TerminalStatuses,
      Record
<1> QED BY <1>1, <1>2, <1>3, <1>4, <1>5, <1>6, <1>7, <1>8, <1>9 DEF IInv, DataInv

\* So may the id of one that was found.
LEMMA DiscoveredStep == ASSUME IInv, Discovered PROVE IInv'
<1>1. TypeOK'
  <2>1. TablesTypeOK'
    BY RecordType DEF Discovered, IInv, ProcessInv, LivePcs, PendingStatuses
  <2>2. ProcessTypeOK'
    BY StartVerifyType DEF Discovered, IInv, ProcessInv, LivePcs
  <2> QED BY <2>1, <2>2 DEF Discovered, IInv, TypeOK, ExchangeTypeOK
<1>2. ProcessInv'
  BY NoneAssumption, PaperIntentsAssumption
  DEF Discovered, IInv, TypeOK, TablesTypeOK, ProcessInv, LivePcs, Unresolved,
      PendingStatuses, Record, StartVerify
<1>3. ViewInv'
  BY DEF Discovered, IInv, ViewInv, StartVerify, NoView, FinalStatuses
<1>4. CancelInv' /\ CancelsAccounted'
  BY DEF Discovered, IInv, CancelInv, CancelsAccounted, Record, StartVerify
<1>5. OneUnresolved'
  BY DEF Discovered, IInv, DataInv, OneUnresolved, ProcessInv, Unresolved, PendingStatuses,
         Record
<1>6. PostedOnce' /\ PostInv'
  BY PaperIntentsAssumption
  DEF Discovered, IInv, TypeOK, TablesTypeOK, DataInv, PostedOnce, PostInv, Record
<1>7. BookedOnce'
  BY DEF Discovered, IInv, DataInv, BookedOnce, ExecutedFills, Record
<1>8. BooksInv'
  BY PaperIntentsAssumption
  DEF Discovered, IInv, DataInv, BooksInv, BookedOf, ExecutedFills, Record
<1>9. ResolvedMeansBooked'
  BY PaperIntentsAssumption
  DEF Discovered, IInv, DataInv, ResolvedMeansBooked, BookedOf, FillsOf, TerminalStatuses,
      Record
<1> QED BY <1>1, <1>2, <1>3, <1>4, <1>5, <1>6, <1>7, <1>8, <1>9 DEF IInv, DataInv

\* Nothing found leaves the intent UNRESOLVED.
LEMMA NotDiscoveredStep == ASSUME IInv, NotDiscovered PROVE IInv'
<1>1. TypeOK'
  <2>1. TablesTypeOK'
    BY RecordType DEF NotDiscovered, Unknown, IInv, ProcessInv, LivePcs, PendingStatuses
  <2>2. ProcessTypeOK'
    BY LeaveType DEF NotDiscovered, Unknown, IInv
  <2> QED BY <2>1, <2>2 DEF NotDiscovered, IInv, TypeOK, ExchangeTypeOK
<1>2. ProcessInv'
  BY NoneAssumption, PaperIntentsAssumption
  DEF NotDiscovered, IInv, ProcessInv, LivePcs, VerifyPcs, Unresolved, Unknown, Record,
      LeaveUnresolved, NoJob
<1>3. ViewInv'
  BY DEF NotDiscovered, IInv, ViewInv, Unknown, LeaveUnresolved, NoView, FinalStatuses
<1>4. CancelInv' /\ CancelsAccounted'
  BY DEF NotDiscovered, IInv, CancelInv, CancelsAccounted, Unknown, Record, LeaveUnresolved
<1>5. OneUnresolved'
  BY DEF NotDiscovered, IInv, DataInv, OneUnresolved, ProcessInv, Unresolved,
         PendingStatuses, Unknown, Record
<1>6. PostedOnce' /\ PostInv'
  BY PaperIntentsAssumption
  DEF NotDiscovered, IInv, TypeOK, TablesTypeOK, DataInv, PostedOnce, PostInv, Unknown,
      Record
<1>7. BookedOnce'
  BY DEF NotDiscovered, IInv, DataInv, BookedOnce, ExecutedFills, Unknown, Record
<1>8. BooksInv'
  BY PaperIntentsAssumption
  DEF NotDiscovered, IInv, DataInv, BooksInv, BookedOf, ExecutedFills, Unknown, Record
<1>9. ResolvedMeansBooked'
  BY PaperIntentsAssumption
  DEF NotDiscovered, IInv, DataInv, ResolvedMeansBooked, BookedOf, FillsOf,
      TerminalStatuses, Unknown, Record
<1> QED BY <1>1, <1>2, <1>3, <1>4, <1>5, <1>6, <1>7, <1>8, <1>9 DEF IInv, DataInv

\* An intent whose order does not exist has executed and booked nothing.
LEMMA NothingExecuted ==
  ASSUME IInv, NEW i \in LiveIntents, executed[i] = 0
  PROVE  BookedOf(i) = {} /\ FillsOf(i) = {}
<1>1. FillsOf(i) = {}
  BY DEF FillsOf
<1>2. \A f \in booked : f[1] = i => f \in ExecutedFills
  BY DEF IInv, DataInv, BookedOnce
<1>3. \A f \in ExecutedFills : f[2] \in 1..MaxFills /\ f[2] <= executed[f[1]]
  BY DEF ExecutedFills, LiveFills
<1>4. BookedOf(i) = {}
  BY <1>2, <1>3, MaxFillsAssumption DEF BookedOf
<1> QED BY <1>1, <1>4

\* A rejected POST is off the wire and has left no order.
LEMMA RejectedStep == ASSUME IInv, Rejected PROVE IInv'
<1>1. TypeOK'
  <2>1. TablesTypeOK'
    BY RecordType DEF Rejected, IInv, ProcessInv, LivePcs, TerminalStatuses
  <2>2. ProcessTypeOK'
    BY LeaveType DEF Rejected, IInv
  <2> QED BY <2>1, <2>2 DEF Rejected, IInv, TypeOK, ExchangeTypeOK
<1>2. ProcessInv'
  BY NoneAssumption, PaperIntentsAssumption
  DEF Rejected, IInv, ProcessInv, LivePcs, VerifyPcs, Unresolved, Record, LeaveResolved
<1>3. ViewInv'
  BY DEF Rejected, IInv, ViewInv, LeaveResolved, NoView, FinalStatuses
<1>4. CancelInv' /\ CancelsAccounted'
  BY DEF Rejected, IInv, CancelInv, CancelsAccounted, Record, LeaveResolved
<1>5. OneUnresolved'
  BY DEF Rejected, IInv, DataInv, OneUnresolved, Unresolved, PendingStatuses, Record
<1>6. PostedOnce' /\ PostInv'
  BY PaperIntentsAssumption
  DEF Rejected, IInv, TypeOK, TablesTypeOK, DataInv, PostedOnce, PostInv, Record
<1>7. BookedOnce'
  BY DEF Rejected, IInv, DataInv, BookedOnce, ExecutedFills, Record
<1>8. BooksInv'
  BY PaperIntentsAssumption
  DEF Rejected, IInv, DataInv, BooksInv, BookedOf, ExecutedFills, Record
<1>9. ResolvedMeansBooked'
  <2>1. executed[cur] = 0 /\ exStatus[cur] = "none" /\ cur \in LiveIntents
    BY DEF Rejected, IInv, DataInv, PostInv, ProcessInv, LivePcs
  <2>2. BookedOf(cur) = {} /\ FillsOf(cur) = {}
    BY <2>1, NothingExecuted
  <2> QED
    BY <2>1, <2>2
    DEF Rejected, IInv, DataInv, ResolvedMeansBooked, BookedOf, FillsOf, Record
<1> QED BY <1>1, <1>2, <1>3, <1>4, <1>5, <1>6, <1>7, <1>8, <1>9 DEF IInv, DataInv

\* A PREPARED intent was never sent and may be aborted.
LEMMA RecoverUnsentStep == ASSUME IInv, NEW i \in Intents, RecoverUnsent(i) PROVE IInv'
<1>1. TypeOK'
  <2>1. TablesTypeOK'
    BY RecordType DEF RecoverUnsent, IInv, TerminalStatuses, PendingStatuses
  <2>2. ProcessTypeOK'
    BY JobType DEF RecoverUnsent, IInv, TypeOK, ProcessTypeOK
  <2> QED BY <2>1, <2>2 DEF RecoverUnsent, IInv, TypeOK, ExchangeTypeOK
<1>2. ProcessInv'
  <2>1. pc' = "recover" /\ job'.todo = job.todo \ {i}
    BY DEF RecoverUnsent, IInv, TypeOK, ProcessTypeOK, Jobs
  <2>2. job.todo \ {i} \subseteq Unresolved'
    BY DEF RecoverUnsent, Record, IInv, ProcessInv, TypeOK, TablesTypeOK, Unresolved
  <2> QED BY <2>1, <2>2 DEF ProcessInv, LivePcs, VerifyPcs
<1>3. ViewInv'
  BY DEF RecoverUnsent, IInv, ViewInv
<1>4. CancelInv' /\ CancelsAccounted'
  BY DEF RecoverUnsent, IInv, CancelInv, CancelsAccounted, Record
<1>5. OneUnresolved'
  BY DEF RecoverUnsent, IInv, TypeOK, TablesTypeOK, DataInv, OneUnresolved, Unresolved,
         PendingStatuses, Record
<1>6. PostedOnce' /\ PostInv'
  BY PaperIntentsAssumption
  DEF RecoverUnsent, IInv, TypeOK, TablesTypeOK, DataInv, PostedOnce, PostInv, Record
<1>7. BookedOnce'
  BY DEF RecoverUnsent, IInv, DataInv, BookedOnce, ExecutedFills, Record
<1>8. BooksInv'
  BY PaperIntentsAssumption
  DEF RecoverUnsent, IInv, TypeOK, TablesTypeOK, DataInv, BooksInv, BookedOf, ExecutedFills,
      Record
<1>9. ResolvedMeansBooked'
  <2>1. CASE i \in PaperIntents
    BY <2>1, PaperIntentsAssumption
    DEF RecoverUnsent, IInv, TypeOK, TablesTypeOK, DataInv, ResolvedMeansBooked, BookedOf,
        FillsOf, Record
  <2>2. CASE i \in LiveIntents
    <3>1. executed[i] = 0 /\ exStatus[i] = "none" /\ i \notin wire
      BY <2>2, PaperIntentsAssumption DEF RecoverUnsent, IInv, DataInv, PostInv, PostedOnce
    <3>2. BookedOf(i) = {} /\ FillsOf(i) = {}
      BY <2>2, <3>1, NothingExecuted
    <3> QED
      BY <2>2, <3>1, <3>2, PaperIntentsAssumption
      DEF RecoverUnsent, IInv, TypeOK, TablesTypeOK, DataInv, ResolvedMeansBooked, BookedOf,
          FillsOf, Record
  <2> QED BY <2>1, <2>2
<1> QED BY <1>1, <1>2, <1>3, <1>4, <1>5, <1>6, <1>7, <1>8, <1>9 DEF IInv, DataInv

\* _unknown with an id leaves the intent as it was.
LEMMA UnknownStep ==
  ASSUME IInv, pc \in VerifyPcs, Unknown("known"), UNCHANGED <<exVars, clocks, envMode, sent>>
  PROVE  IInv'
<1> USE VerifyFacts DEF Unknown, Record
<1>1. TypeOK'
  BY RecordType, LeaveType DEF IInv, TypeOK, ExchangeTypeOK, PendingStatuses
<1>2. istatus' = istatus /\ orderRow' = orderRow
  BY DEF IInv, TypeOK, TablesTypeOK
<1>3. ProcessInv'
  BY <1>2, NoneAssumption
  DEF IInv, ProcessInv, LeaveUnresolved, NoJob, Unresolved, LivePcs, VerifyPcs
<1>4. ViewInv' /\ CancelInv' /\ CancelsAccounted'
  BY DEF IInv, ViewInv, CancelInv, CancelsAccounted, LeaveUnresolved, NoView, FinalStatuses
<1>5. DataInv'
  BY <1>2, DataUnchanged DEF IInv
<1> QED BY <1>1, <1>3, <1>4, <1>5 DEF IInv

\* Another round forgets what the last one read.
LEMMA RetryStep ==
  ASSUME IInv, pc \in VerifyPcs, NextAttempt, UNCHANGED <<exVars, clocks, envMode, sent>>
  PROVE  IInv'
<1>1. CASE tries + 1 < VerificationAttempts
  <2>1. TypeOK'
    BY NextAttemptType, VerifyFacts DEF IInv, TypeOK, ExchangeTypeOK
  <2>2. ProcessInv'
    BY <1>1, VerifyFacts DEF NextAttempt, IInv, ProcessInv, Unresolved
  <2>3. ViewInv' /\ CancelInv' /\ CancelsAccounted'
    BY <1>1
    DEF NextAttempt, IInv, ViewInv, CancelInv, CancelsAccounted, NoView, FinalStatuses
  <2>4. DataInv'
    BY <1>1, DataUnchanged DEF NextAttempt, IInv
  <2> QED BY <2>1, <2>2, <2>3, <2>4 DEF IInv
<1>2. CASE ~(tries + 1 < VerificationAttempts)
  BY <1>2, UnknownStep DEF NextAttempt
<1> QED BY <1>1, <1>2

\* So a round that does not return is one or the other.
LEMMA RoundEndsStep ==
  ASSUME IInv, ReadFails \/ GiveUp \/ CancelRefused \/ NotSettled
  PROVE  IInv'
  BY UnknownStep, RetryStep DEF ReadFails, GiveUp, CancelRefused, NotSettled, VerifyPcs

\* A listing that the order's totals confirm is the whole of a final order's fills.
LEMMA CompleteIsAll ==
  ASSUME IInv, pc = "fills", NEW got \in FillListings(cur), Complete(got)
  PROVE  got = 1..executed[cur]
<1>1. cur \in LiveIntents /\ executed[cur] \in 0..MaxFills /\ got \subseteq 1..executed[cur]
  BY VerifyFacts DEF IInv, TypeOK, ExchangeTypeOK, VerifyPcs, FillListings
<1>2. IsFiniteSet(1..executed[cur]) /\ Cardinality(1..executed[cur]) = executed[cur]
  <2>1. executed[cur] \in Nat
    BY <1>1
  <2>2. IsFiniteSet(1..executed[cur])
        /\ Cardinality(1..executed[cur]) = IF 1 > executed[cur] THEN 0 ELSE executed[cur] - 1 + 1
    BY <2>1, FS_Interval
  <2> QED BY <2>1, <2>2
<1>3. view.settled => view.count = executed[cur]
  BY DEF Complete, IInv, ViewInv, VerifyPcs
<1>4. view.count = 0 => executed[cur] = 0
  BY DEF Complete, IInv, ViewInv, VerifyPcs
<1>5. view.count = Cardinality(got) /\ (view.settled \/ view.count = 0)
  BY DEF Complete
<1>6. CASE view.count = 0
  <2>1. 1..executed[cur] = {}
    BY <1>4, <1>6
  <2> QED BY <1>1, <2>1
<1>7. CASE view.settled
  <2>1. Cardinality(got) = Cardinality(1..executed[cur])
    BY <1>2, <1>3, <1>5, <1>7
  <2> QED BY <1>1, <1>2, <2>1, FS_Subset
<1> QED BY <1>5, <1>6, <1>7

\* Only a complete listing reaches _settle.
LEMMA ListFillsStep == ASSUME IInv, ListFills PROVE IInv'
<1>1. PICK got \in FillListings(cur) :
        LET listed == {<<cur, k>> : k \in got} IN
        IF ~(BookedOf(cur) \subseteq listed) THEN Unknown("known")
        ELSE IF ~Complete(got) THEN NextAttempt
        ELSE /\ pc' = "book" /\ view' = [view EXCEPT !.got = listed]
             /\ UNCHANGED <<tables, cur, tries, job>>
  BY DEF ListFills
<1>2. pc = "fills" /\ UNCHANGED <<exVars, clocks, envMode, sent>>
  BY DEF ListFills
<1>3. CASE Unknown("known") \/ NextAttempt
  BY <1>2, <1>3, UnknownStep, RetryStep DEF VerifyPcs
<1>4. CASE /\ Complete(got)
           /\ pc' = "book" /\ view' = [view EXCEPT !.got = {<<cur, k>> : k \in got}]
           /\ UNCHANGED <<tables, cur, tries, job>>
  <2>1. cur \in LiveIntents /\ executed[cur] \in 0..MaxFills
    BY <1>2, VerifyFacts DEF IInv, TypeOK, ExchangeTypeOK, VerifyPcs
  <2>2. {<<cur, k>> : k \in got} = FillsOf(cur)
    BY <1>2, <1>4, CompleteIsAll DEF FillsOf
  <2>3. FillsOf(cur) \subseteq LiveFills
    BY <2>1, MaxFillsAssumption DEF FillsOf, LiveFills
  <2>4. view' \in Views /\ view' = [view EXCEPT !.got = FillsOf(cur)]
    BY <1>4, <2>2, <2>3 DEF IInv, TypeOK, ProcessTypeOK, Views
  <2>5. TypeOK'
    BY <1>2, <1>4, <2>4 DEF IInv, TypeOK, ExchangeTypeOK, TablesTypeOK, ProcessTypeOK
  <2>6. ProcessInv'
    BY <1>2, <1>4 DEF IInv, ProcessInv, Unresolved, LivePcs, VerifyPcs
  <2>7. ViewInv'
    BY <1>2, <1>4, <2>4 DEF IInv, Views, ViewInv, VerifyPcs, Complete, FillsOf
  <2>8. CancelInv' /\ CancelsAccounted'
    BY <1>2, <1>4 DEF IInv, CancelInv, CancelsAccounted
  <2>9. DataInv'
    BY <1>2, <1>4, DataUnchanged DEF IInv
  <2> QED BY <2>5, <2>6, <2>7, <2>8, <2>9 DEF IInv
<1> QED BY <1>1, <1>2, <1>3, <1>4

\* The attempt is counted before the request, below the cap.
LEMMA BeginCancelStep == ASSUME IInv, BeginCancel PROVE IInv'
<1> USE DEF BeginCancel, IInv
<1>1. cur \in LiveIntents /\ attempts[cur] \in Nat
  BY VerifyFacts DEF VerifyPcs, TypeOK, TablesTypeOK
<1>2. TypeOK'
  BY <1>1, GotoType, LimitsAssumption
  DEF TypeOK, ExchangeTypeOK, TablesTypeOK, LivePcs, VerifyPcs
<1>3. ProcessInv' /\ ViewInv'
  BY DEF Goto, ProcessInv, Unresolved, LivePcs, VerifyPcs, ViewInv
<1>4. CancelInv' /\ CancelsAccounted'
  BY <1>1, LimitsAssumption DEF Goto, TypeOK, TablesTypeOK, CancelInv, CancelsAccounted
<1>5. DataInv'
  BY DataUnchanged
<1> QED BY <1>2, <1>3, <1>4, <1>5

\* A cancellation request uses its attempt and changes no execution.
LEMMA CancelPostStep == ASSUME IInv, CancelPost PROVE IInv'
<1> USE DEF CancelPost
<1>1. cur \in LiveIntents /\ cur \in Unresolved
  BY VerifyFacts DEF VerifyPcs
<1>2. \A i \in LiveIntents :
        \/ exStatus'[i] = exStatus[i]
        \/ i = cur /\ exStatus[i] = "OPEN" /\ exStatus'[i] = "CANCEL_QUEUED"
  BY <1>1 DEF IInv, TypeOK, ExchangeTypeOK
<1>3. TypeOK'
  <2>1. ExchangeTypeOK'
    BY DEF IInv, TypeOK, ExchangeTypeOK, ActiveStatuses
  <2>2. ProcessTypeOK'
    BY <1>1, GotoType DEF IInv, LivePcs, VerifyPcs
  <2>3. cancelPosts' \in [LiveIntents -> Nat]
    BY <1>1 DEF IInv, TypeOK
  <2> QED BY <2>1, <2>2, <2>3, TablesUnchangedType DEF IInv, TypeOK
<1>4. ProcessInv'
  BY DEF IInv, Goto, ProcessInv, Unresolved, LivePcs, VerifyPcs
<1>5. ViewInv'
  BY <1>1, <1>2 DEF IInv, Goto, ViewInv, VerifyPcs, FinalStatuses
<1>6. CancelInv' /\ CancelsAccounted'
  BY <1>1 DEF IInv, TypeOK, TablesTypeOK, Goto, CancelInv, CancelsAccounted
<1>7. OneUnresolved' /\ PostedOnce' /\ BookedOnce' /\ BooksInv'
  BY DEF IInv, DataInv, OneUnresolved, Unresolved, PostedOnce, BookedOnce, BooksInv,
         BookedOf, ExecutedFills
<1>8. PostInv'
  BY <1>1, <1>2 DEF IInv, DataInv, PostInv, FinalStatuses
<1>9. ResolvedMeansBooked'
  BY <1>1, <1>2
  DEF IInv, DataInv, ResolvedMeansBooked, BookedOf, FillsOf, Unresolved, PendingStatuses,
      TerminalStatuses
<1> QED BY <1>3, <1>4, <1>5, <1>6, <1>7, <1>8, <1>9 DEF IInv, DataInv

-----------------------------------------------------------------------------
\* Steps that book fills.

\* Sets of fills are finite.
LEMMA FillsFinite ==
  /\ IsFiniteSet(LiveFills) /\ \A S \in SUBSET LiveFills : IsFiniteSet(S)
  /\ IsFiniteSet(Fills) /\ \A S \in SUBSET Fills : IsFiniteSet(S)
<1>1. IsFiniteSet(1..MaxFills)
  BY FS_Interval, MaxFillsAssumption
<1>2. IsFiniteSet(Intents)
  BY FS_Union, LiveIntentsAssumption, PaperIntentsAssumption
<1>3. IsFiniteSet(LiveFills) /\ IsFiniteSet(Fills)
  BY <1>1, <1>2, FS_Product, LiveIntentsAssumption DEF LiveFills, Fills
<1> QED BY <1>3, FS_Subset

\* New fills add to the count of booked ones.
LEMMA DisjointCount ==
  ASSUME NEW A, NEW B, IsFiniteSet(A), IsFiniteSet(B), A \intersect B = {}
  PROVE  Cardinality(A \union B) = Cardinality(A) + Cardinality(B)
<1>1. Cardinality(A) \in Nat /\ Cardinality(B) \in Nat
  BY FS_CardinalityType
<1>2. Cardinality(A \union B) = Cardinality(A) + Cardinality(B) - Cardinality(A \intersect B)
  BY FS_Union
<1>3. Cardinality(A \intersect B) = 0
  BY FS_EmptySet
<1> QED BY <1>1, <1>2, <1>3

\* _settle books what is missing, in fills table, ledger and expected balance alike.
LEMMA BookStep == ASSUME IInv, Book PROVE IInv'
<1> DEFINE new == view.got \ booked
           Live(S) == {f \in S : ModeOf(f[1]) = "live"}
           Paper(S) == {f \in S : ModeOf(f[1]) = "paper"}
<1>1. /\ pc = "book" /\ pc' = "reconcile" /\ UNCHANGED <<cur, tries, view, job>>
      /\ UNCHANGED <<exVars, attempts, clocks, envMode, sent>>
      /\ booked' = booked \union new
      /\ ledger' = [ledger EXCEPT !["live"] = @ + Cardinality(new)]
      /\ expected' = expected + Cardinality(new)
      /\ istatus' = [istatus EXCEPT ![cur] = "UNRESOLVED"]
      /\ orderRow' = [orderRow EXCEPT ![cur] = "known"]
  BY DEF Book, Goto
<1>2. cur \in LiveIntents /\ istatus' = istatus /\ orderRow' = orderRow
  BY <1>1, VerifyFacts DEF IInv, TypeOK, TablesTypeOK, VerifyPcs
<1>3. view.status \in FinalStatuses /\ view.got = FillsOf(cur)
  BY <1>1 DEF IInv, ViewInv
<1>4. FillsOf(cur) \subseteq ExecutedFills /\ FillsOf(cur) \subseteq LiveFills
  BY <1>2, MaxFillsAssumption
  DEF IInv, TypeOK, ExchangeTypeOK, FillsOf, ExecutedFills, LiveFills
<1>5. new \subseteq LiveFills /\ new \subseteq Fills
  BY <1>3, <1>4 DEF LiveFills, Fills
<1>6. IsFiniteSet(new) /\ IsFiniteSet(Live(booked)) /\ Cardinality(new) \in Nat
  BY <1>5, FillsFinite, FS_CardinalityType DEF IInv, TypeOK, TablesTypeOK
<1>7. TypeOK'
  <2>1. TablesTypeOK'
    BY <1>1, <1>2, <1>5, <1>6 DEF IInv, TypeOK, TablesTypeOK, Modes
  <2>2. ProcessTypeOK'
    BY <1>1 DEF IInv, TypeOK, ProcessTypeOK
  <2> QED BY <1>1, <2>1, <2>2 DEF IInv, TypeOK, ExchangeTypeOK
<1>8. ProcessInv' /\ CancelInv' /\ CancelsAccounted'
  BY <1>1, <1>2 DEF IInv, ProcessInv, Unresolved, VerifyPcs, CancelInv, CancelsAccounted
<1>9. BookedOf(cur)' = FillsOf(cur) /\ \A i \in Intents \ {cur} : BookedOf(i)' = BookedOf(i)
  <2>1. BookedOf(cur) \subseteq FillsOf(cur)
    BY <1>2, MaxFillsAssumption
    DEF IInv, DataInv, BookedOnce, BookedOf, ExecutedFills, LiveFills, FillsOf
  <2> QED BY <1>1, <1>3, <2>1 DEF BookedOf, FillsOf
<1>10. ViewInv'
  BY <1>1, <1>3, <1>9 DEF IInv, ViewInv, VerifyPcs, FillsOf
<1>11. OneUnresolved' /\ PostedOnce' /\ PostInv'
  BY <1>1, <1>2 DEF IInv, DataInv, OneUnresolved, Unresolved, PostedOnce, PostInv
<1>12. BookedOnce'
  <2>1. Live(booked') = Live(booked) \union new /\ Live(booked) \intersect new = {}
    BY <1>1, <1>5 DEF ModeOf, LiveFills
  <2>2. Paper(booked') = Paper(booked)
    BY <1>1, <1>5 DEF ModeOf, LiveFills
  <2>3. Cardinality(Live(booked')) = Cardinality(Live(booked)) + Cardinality(new)
    <3>1. Cardinality(Live(booked) \union new) = Cardinality(Live(booked)) + Cardinality(new)
      BY <1>6, <2>1, DisjointCount
    <3> QED BY <2>1, <3>1
  <2>4. ledger["live"] = Cardinality(Live(booked)) /\ ledger["paper"] = Cardinality(Paper(booked))
    BY DEF IInv, DataInv, BookedOnce, Modes
  <2>5. \A m \in Modes : ledger'[m] = Cardinality({f \in booked' : ModeOf(f[1]) = m})
    BY <1>1, <2>2, <2>3, <2>4 DEF IInv, TypeOK, TablesTypeOK, Modes
  <2>6. expected' = ledger'["live"]
    BY <1>1 DEF IInv, TypeOK, TablesTypeOK, DataInv, BookedOnce, Modes
  <2>7. {f \in booked' : f[1] \in LiveIntents} \subseteq ExecutedFills'
    BY <1>1, <1>3, <1>4 DEF IInv, DataInv, BookedOnce, ExecutedFills
  <2> QED BY <2>5, <2>6, <2>7, <1>1 DEF BookedOnce, ModeOf
<1>13. BooksInv'
  BY <1>1, <1>2, <1>9, PaperIntentsAssumption DEF IInv, DataInv, BooksInv, ExecutedFills
<1>14. ResolvedMeansBooked'
  BY <1>1, <1>2, <1>9, VerifyFacts DEF IInv, DataInv, ResolvedMeansBooked, FillsOf
<1> QED
  BY <1>7, <1>8, <1>10, <1>11, <1>12, <1>13, <1>14 DEF IInv, DataInv

\* While _settle looks at the account, every execution is booked and no order is open.
LEMMA BooksShowAll ==
  ASSUME IInv, pc = "reconcile"
  PROVE  /\ Cardinality(ExecutedFills) = expected
         /\ OpenOrders = {}
<1> DEFINE LiveBooked == {f \in booked : ModeOf(f[1]) = "live"}
<1>1. /\ cur \in LiveIntents /\ cur \in Unresolved /\ BookedOf(cur) = FillsOf(cur)
      /\ exStatus[cur] \in FinalStatuses
  BY VerifyFacts DEF IInv, ViewInv, VerifyPcs
<1>2. \A i \in LiveIntents : BookedOf(i) = FillsOf(i) /\ exStatus[i] \notin ActiveStatuses
  <2>1. SUFFICES ASSUME NEW i \in LiveIntents, i # cur
                 PROVE  BookedOf(i) = FillsOf(i) /\ exStatus[i] \notin ActiveStatuses
    BY <1>1 DEF ActiveStatuses, FinalStatuses
  <2>2. i \notin Unresolved
    BY <1>1, <2>1 DEF IInv, DataInv, OneUnresolved
  <2>3. CASE istatus[i] \in TerminalStatuses
    BY <2>3 DEF IInv, DataInv, ResolvedMeansBooked, ActiveStatuses, FinalStatuses
  <2>4. CASE istatus[i] = "none"
    <3>1. executed[i] = 0 /\ exStatus[i] = "none"
      BY <2>4 DEF IInv, DataInv, PostedOnce, PostInv
    <3> QED BY <3>1, NothingExecuted DEF ActiveStatuses
  <2> QED BY <2>2, <2>3, <2>4 DEF IInv, TypeOK, TablesTypeOK, Unresolved
<1>3. ExecutedFills \subseteq LiveBooked
  <2>1. \A f \in ExecutedFills : f[1] \in LiveIntents /\ f \in FillsOf(f[1])
    BY MaxFillsAssumption DEF ExecutedFills, LiveFills, FillsOf, IInv
  <2> QED BY <1>2, <2>1 DEF BookedOf, ModeOf
<1>4. LiveBooked \subseteq ExecutedFills /\ Cardinality(LiveBooked) = expected
  BY DEF IInv, DataInv, BookedOnce, ModeOf, Modes
<1>5. LiveBooked = ExecutedFills
  BY <1>3, <1>4
<1> QED BY <1>2, <1>4, <1>5 DEF OpenOrders

\* When the account agrees with the expected balance, it shows every execution.
LEMMA ReconciledShowsAll ==
  ASSUME IInv, pc = "reconcile", Reconciled("live")
  PROVE  credited = ExecutedFills
<1>1. Cardinality(credited) = Cardinality(ExecutedFills)
  BY BooksShowAll DEF Reconciled, Balance
<1>2. IsFiniteSet(ExecutedFills)
  BY FillsFinite DEF ExecutedFills
<1> QED BY <1>1, <1>2, FS_Subset DEF IInv, DataInv, BooksInv

\* The account agreed, so the verdict may be recorded.
LEMMA SettledStep == ASSUME IInv, Settled PROVE IInv'
<1>1. PICK s \in Verdicts : Record(cur, s, "known")
  BY DEF Settled
<1>2. /\ pc = "reconcile" /\ LeaveResolved /\ Reconciled("live")
      /\ gap' \in 0..(MaxGap + 1) /\ UNCHANGED <<age, since>>
      /\ UNCHANGED <<exVars, envMode, sent>>
  BY SeenType DEF Settled
<1>3. /\ cur \in LiveIntents /\ orderRow[cur] = "known" /\ cur \notin wire
      /\ istatus[cur] = "UNRESOLVED" /\ exStatus[cur] # "none"
  BY <1>2, VerifyFacts DEF VerifyPcs
<1>4. s \in TerminalStatuses \ {"ABORTED"}
  BY DEF Verdicts, TerminalStatuses
<1>5. exStatus[cur] \in FinalStatuses /\ BookedOf(cur) = FillsOf(cur)
  BY <1>2 DEF IInv, ViewInv, VerifyPcs
<1>6. FillsOf(cur) \subseteq credited
  BY <1>2, <1>3, ReconciledShowsAll, MaxFillsAssumption
  DEF FillsOf, ExecutedFills, LiveFills, IInv, TypeOK, ExchangeTypeOK
<1>7. TypeOK'
  BY <1>1, <1>2, <1>3, <1>4, RecordType, LeaveType DEF IInv, TypeOK, ExchangeTypeOK
<1>8. ProcessInv'
  BY <1>1, <1>2, <1>3, NoneAssumption
  DEF LeaveResolved, Record, IInv, ProcessInv, Unresolved, LivePcs, VerifyPcs
<1>9. ViewInv' /\ CancelInv' /\ CancelsAccounted'
  BY <1>1, <1>2
  DEF LeaveResolved, Record, IInv, ViewInv, NoView, FinalStatuses, CancelInv,
      CancelsAccounted
<1>10. OneUnresolved' /\ PostedOnce' /\ PostInv'
  BY <1>1, <1>2, <1>3, <1>4
  DEF Record, IInv, DataInv, OneUnresolved, Unresolved, PostedOnce, PostInv,
      TerminalStatuses, PendingStatuses
<1>11. BookedOnce' /\ BooksInv'
  BY <1>1, <1>2, <1>3, PaperIntentsAssumption
  DEF Record, IInv, DataInv, BookedOnce, BooksInv, BookedOf, ExecutedFills
<1>12. ResolvedMeansBooked'
  BY <1>1, <1>2, <1>3, <1>5, <1>6
  DEF Record, IInv, DataInv, ResolvedMeansBooked, BookedOf, FillsOf
<1> QED BY <1>7, <1>8, <1>9, <1>10, <1>11, <1>12 DEF IInv, DataInv

\* Simulated fills are new, and as many as their numbers say.
LEMMA SimulatedFills ==
  ASSUME NEW i \in Intents, NEW n \in 0..MaxFills
  PROVE  /\ {<<i, k>> : k \in 1..n} \subseteq Fills
         /\ IsFiniteSet({<<i, k>> : k \in 1..n})
         /\ Cardinality({<<i, k>> : k \in 1..n}) = n
<1> DEFINE S == {<<i, k>> : k \in 1..n}
           f == [k \in 1..n |-> <<i, k>>]
<1>1. n \in Nat
  OBVIOUS
<1>2. IsFiniteSet(1..n) /\ Cardinality(1..n) = n
  <2>1. /\ IsFiniteSet(1..n)
        /\ Cardinality(1..n) = IF 1 > n THEN 0 ELSE n - 1 + 1
    BY <1>1, FS_Interval
  <2> QED BY <1>1, <2>1
<1>3. f \in Bijection(1..n, S)
  <2>1. f \in [1..n -> S]
    OBVIOUS
  <2>2. \A a, b \in 1..n : f[a] = f[b] => a = b
    OBVIOUS
  <2>3. \A t \in S : \E a \in 1..n : f[a] = t
    OBVIOUS
  <2> QED BY <2>1, <2>2, <2>3 DEF Bijection, Injection, IsInjective, Surjection
<1>4. IsFiniteSet(S) /\ Cardinality(S) = Cardinality(1..n)
  BY <1>2, <1>3, FS_Bijection DEF ExistsBijection
<1>5. S \subseteq Fills
  BY <1>1, MaxFillsAssumption DEF Fills
<1> QED BY <1>2, <1>4, <1>5

\* Paper fills touch the paper ledger only.
LEMMA PaperExecuteStep == ASSUME IInv, NEW n \in 0..MaxFills, PaperExecute(n) PROVE IInv'
<1> DEFINE new == {<<cur, k>> : k \in 1..n}
           Live(S) == {f \in S : ModeOf(f[1]) = "live"}
           Paper(S) == {f \in S : ModeOf(f[1]) = "paper"}
<1>1. PICK s \in TerminalStatuses :
        /\ istatus' = [istatus EXCEPT ![cur] = s]
        /\ orderRow' = [orderRow EXCEPT ![cur] = IF s = "ABORTED" THEN "null" ELSE "known"]
  BY DEF PaperExecute, TerminalStatuses
<1>2. /\ pc = "paper" /\ LeaveResolved
      /\ booked' = booked \union new
      /\ ledger' = [ledger EXCEPT !["paper"] = @ + n]
      /\ UNCHANGED <<exVars, expected, attempts, clocks, envMode, sent>>
  BY DEF PaperExecute
<1>3. cur \in PaperIntents /\ cur \notin LiveIntents /\ BookedOf(cur) = {}
  BY <1>2, PaperIntentsAssumption DEF IInv, ProcessInv, DataInv, BooksInv
<1>4. new \subseteq Fills /\ IsFiniteSet(new) /\ Cardinality(new) = n /\ n \in Nat
  <2>1. cur \in Intents /\ n \in Nat
    BY <1>3
  <2> QED BY <2>1, SimulatedFills, Zenon
<1>5. TypeOK'
  <2>1. TablesTypeOK'
    BY <1>1, <1>2, <1>3, <1>4 DEF IInv, TypeOK, TablesTypeOK, Modes
  <2> QED BY <1>2, <2>1, LeaveType DEF IInv, TypeOK, ExchangeTypeOK
<1>6. ProcessInv'
  BY <1>1, <1>2, <1>3, NoneAssumption
  DEF LeaveResolved, IInv, ProcessInv, Unresolved, LivePcs, VerifyPcs
<1>7. ViewInv' /\ CancelInv' /\ CancelsAccounted'
  BY <1>2
  DEF LeaveResolved, IInv, ViewInv, NoView, FinalStatuses, CancelInv, CancelsAccounted
<1>8. OneUnresolved' /\ PostedOnce' /\ PostInv'
  BY <1>1, <1>2, <1>3
  DEF IInv, DataInv, OneUnresolved, Unresolved, PostedOnce, PostInv, TerminalStatuses,
      PendingStatuses
<1>9. \A i \in Intents \ {cur} : BookedOf(i)' = BookedOf(i)
  BY <1>2 DEF BookedOf
<1>10. BookedOnce'
  <2>1. Paper(booked') = Paper(booked) \union new /\ Paper(booked) \intersect new = {}
    BY <1>2, <1>3 DEF ModeOf, BookedOf
  <2>2. Live(booked') = Live(booked)
    BY <1>2, <1>3 DEF ModeOf
  <2>3. IsFiniteSet(Paper(booked)) /\ Cardinality(Paper(booked)) \in Nat
    BY FillsFinite, FS_CardinalityType DEF IInv, TypeOK, TablesTypeOK
  <2>4. Cardinality(Paper(booked')) = Cardinality(Paper(booked)) + n
    <3>1. Cardinality(Paper(booked) \union new) = Cardinality(Paper(booked)) + Cardinality(new)
      BY <1>4, <2>1, <2>3, DisjointCount
    <3> QED BY <1>4, <2>1, <3>1
  <2>5. ledger["live"] = Cardinality(Live(booked)) /\ ledger["paper"] = Cardinality(Paper(booked))
    BY DEF IInv, DataInv, BookedOnce, Modes
  <2>6. \A m \in Modes : ledger'[m] = Cardinality({f \in booked' : ModeOf(f[1]) = m})
    BY <1>2, <2>2, <2>4, <2>5 DEF IInv, TypeOK, TablesTypeOK, Modes
  <2>7. expected' = ledger'["live"]
    BY <1>2 DEF IInv, DataInv, BookedOnce
  <2>8. {f \in booked' : f[1] \in LiveIntents} \subseteq ExecutedFills'
    BY <1>2, <1>3 DEF IInv, DataInv, BookedOnce, ExecutedFills
  <2> QED BY <2>6, <2>7, <2>8, <1>2 DEF BookedOnce, ModeOf
<1>11. BooksInv'
  BY <1>1, <1>2, <1>3, <1>9
  DEF IInv, TypeOK, TablesTypeOK, DataInv, BooksInv, ExecutedFills, TerminalStatuses
<1>12. ResolvedMeansBooked'
  BY <1>1, <1>2, <1>3, <1>9 DEF IInv, DataInv, ResolvedMeansBooked, FillsOf
<1> QED BY <1>5, <1>6, <1>7, <1>8, <1>10, <1>11, <1>12 DEF IInv, DataInv

-----------------------------------------------------------------------------
\* The invariant.

\* Nothing is stored or sent at first.
LEMMA InitHolds == Init => IInv
<1> SUFFICES ASSUME Init PROVE IInv
  OBVIOUS
<1> USE DEF Init, ExchangeInit
<1>1. TypeOK
  BY LimitsAssumption, MaxFillsAssumption, NoneAssumption, Initials
  DEF TypeOK, ExchangeTypeOK, TablesTypeOK, ProcessTypeOK
<1>2. ProcessInv /\ ViewInv /\ CancelInv
  BY DEF ProcessInv, LivePcs, VerifyPcs, NoJob, ViewInv, CancelInv
<1>3. CancelsAccounted
  BY LimitsAssumption DEF CancelsAccounted
<1>4. OneUnresolved /\ PostedOnce /\ PostInv
  BY DEF OneUnresolved, Unresolved, PendingStatuses, PostedOnce, PostInv
<1>5. BookedOnce
  BY FS_EmptySet DEF BookedOnce, Modes
<1>6. BooksInv
  BY DEF BooksInv, BookedOf
<1>7. ResolvedMeansBooked
  BY DEF ResolvedMeansBooked, TerminalStatuses
<1> QED BY <1>1, <1>2, <1>3, <1>4, <1>5, <1>6, <1>7 DEF IInv, DataInv

\* Nothing changes in a stutter.
LEMMA StutterStep == ASSUME IInv, UNCHANGED vars PROVE IInv'
<1> USE DEF vars, IInv
<1>1. TypeOK'
  BY DEF TypeOK, ExchangeTypeOK, TablesTypeOK, ProcessTypeOK
<1>2. ProcessInv' /\ ViewInv' /\ CancelInv' /\ CancelsAccounted'
  BY DEF ProcessInv, Unresolved, ViewInv, BookedOf, FillsOf, CancelInv, CancelsAccounted
<1>3. DataInv'
  BY DataUnchanged
<1> QED BY <1>1, <1>2, <1>3

\* One lemma for each action.
LEMMA NextHolds == IInv /\ [Next]_vars => IInv'
<1> SUFFICES ASSUME IInv, [Next]_vars PROVE IInv'
  OBVIOUS
<1>1. CASE ExchangeStep
  BY <1>1, DeliverStep, DropStep, TradeStep, FinishStep, SettleStep, CreditStep
  DEF ExchangeStep, ExchangeNext
<1>2. CASE RecoveryStep
  BY <1>2, StartCommandStep, RecoverUnsentStep, RecoverSentStep, RecoverFailsStep,
     RecoverDoneStep
  DEF RecoveryStep
<1>3. CASE ExecuteStep
  BY <1>3, EndCycleStep, PrepareStep, PaperExecuteStep, MarkSubmittingStep, SubmitStep,
     SubmitRefusedStep, AcknowledgedStep, RejectedStep, NoAnswerStep, DiscoveredStep,
     NotDiscoveredStep
  DEF ExecuteStep
<1>4. CASE VerifyStep
  BY <1>4, GetOrderStep, RoundEndsStep, CancelSkippedStep, BeginCancelStep, CancelPostStep,
     ListFillsStep, BookStep, SettledStep
  DEF VerifyStep
<1>5. CASE Crash \/ EditEnv \/ Tick
  BY <1>5, CrashStep, EditEnvStep, TickStep
<1>6. CASE UNCHANGED vars
  BY <1>6, StutterStep
<1> QED BY <1>1, <1>2, <1>3, <1>4, <1>5, <1>6 DEF Next

\* The inductive invariant, for any intents, fills, rounds, attempts and clocks.
THEOREM Invariance == Spec => []IInv
  BY InitHolds, NextHolds, PTL DEF Spec

-----------------------------------------------------------------------------
\* What it implies.

\* Every variable keeps its type (storage.py's tables, execution.py's locals).
THEOREM TypeCorrect == Spec => []TypeOK
<1>1. IInv => TypeOK
  BY DEF IInv
<1> QED BY <1>1, Invariance, PTL

\* README: "any unresolved order blocks new orders in every portfolio and both modes".
\* Whatever is late, lost or restarted, two orders are never at risk together.
THEOREM OneOrderAtRiskHolds == Spec => []OneOrderAtRisk
<1>1. ASSUME IInv PROVE OneOrderAtRisk
  <2>1. ASSUME NEW i \in Intents, AtRisk(i) PROVE i \in Unresolved
    <3>1. CASE i \in Unresolved
      BY <3>1
    <3>2. CASE i \in wire \/ i \in OpenOrders
      <4>1. i \in LiveIntents /\ posts[i] # 0
        BY <1>1, <3>2
        DEF OpenOrders, ActiveStatuses, IInv, DataInv, PostInv, TypeOK, ExchangeTypeOK
      <4>2. istatus[i] \notin TerminalStatuses
        BY <1>1, <3>2, <4>1
        DEF OpenOrders, ActiveStatuses, FinalStatuses, IInv, DataInv, ResolvedMeansBooked
      <4>3. istatus[i] # "none"
        BY <1>1, <4>1 DEF IInv, DataInv, PostedOnce
      <4> QED BY <1>1, <2>1, <4>2, <4>3 DEF IInv, TypeOK, TablesTypeOK, Unresolved
    <3> QED BY <2>1, <3>1, <3>2 DEF AtRisk
  <2> QED BY <1>1, <2>1 DEF OneOrderAtRisk, IInv, DataInv, OneUnresolved
<1> QED BY <1>1, Invariance, PTL

\* The POST of an intent is sent at most once, and an ABORTED intent was never sent
\* (execution.py: "PREPARED alone proves no request was sent").
THEOREM PostedOnceHolds == Spec => []PostedOnce
<1>1. IInv => PostedOnce
  BY DEF IInv, DataInv
<1> QED BY <1>1, Invariance, PTL

\* Ledgers, expected balance and fills table agree (storage.py: "safe to replay after a crash").
THEOREM BookedOnceHolds == Spec => []BookedOnce
<1>1. IInv => BookedOnce
  BY DEF IInv, DataInv
<1> QED BY <1>1, Invariance, PTL

\* A terminal status is the truth about the exchange and the account.
THEOREM ResolvedMeansBookedHolds == Spec => []ResolvedMeansBooked
<1>1. IInv => ResolvedMeansBooked
  BY DEF IInv, DataInv
<1> QED BY <1>1, Invariance, PTL

\* Cancellation requests never exceed their durable attempts, nor those the cap.
THEOREM CancelsAccountedHolds == Spec => []CancelsAccounted
<1>1. IInv => CancelsAccounted
  BY DEF IInv
<1> QED BY <1>1, Invariance, PTL

-----------------------------------------------------------------------------
\* What no step may do.

\* Once terminal, always that status and those fills: recovery takes unresolved intents only.
THEOREM VerdictIsFinalHolds == Spec => VerdictIsFinal
<1> DEFINE Final(i) == istatus[i] \in TerminalStatuses =>
                         istatus'[i] = istatus[i] /\ BookedOf(i)' = BookedOf(i)
<1>1. ASSUME IInv, [Next]_vars, NEW i \in Intents PROVE Final(i)
  <2> SUFFICES ASSUME istatus[i] \in TerminalStatuses
               PROVE  istatus'[i] = istatus[i] /\ BookedOf(i)' = BookedOf(i)
    OBVIOUS
  <2>1. i \notin Unresolved /\ istatus[i] # "none"
    BY DEF Unresolved, TerminalStatuses, PendingStatuses
  <2>2. pc \in LivePcs \union {"paper"} => cur \in Unresolved /\ cur # i
    BY <1>1, <2>1 DEF IInv, ProcessInv, LivePcs, Unresolved, PendingStatuses
  <2>3. CASE UNCHANGED tables
    BY <2>3 DEF BookedOf
  <2>4. ASSUME NEW j \in Intents, NEW s, NEW r, Record(j, s, r), j # i
        PROVE  istatus'[i] = istatus[i] /\ BookedOf(i)' = BookedOf(i)
    BY <1>1, <2>4 DEF Record, IInv, BookedOf
  <2>5. CASE RecoveryStep
    <3>1. ASSUME NEW j \in Intents, RecoverUnsent(j)
          PROVE  istatus'[i] = istatus[i] /\ BookedOf(i)' = BookedOf(i)
      BY <1>1, <2>1, <2>4, <3>1 DEF RecoverUnsent, IInv, ProcessInv
    <3> QED
      BY <2>3, <2>5, <3>1
      DEF RecoveryStep, StartCommand, RecoverSent, RecoverFails, RecoverDone, StartupPasses
  <2>6. CASE ExecuteStep
    <3>1. ASSUME NEW j \in Intents, Prepare(j)
          PROVE  istatus'[i] = istatus[i] /\ BookedOf(i)' = BookedOf(i)
      BY <1>1, <2>1, <3>1 DEF Prepare, IInv, BookedOf
    <3>2. ASSUME NEW n \in 0..MaxFills, PaperExecute(n)
          PROVE  istatus'[i] = istatus[i] /\ BookedOf(i)' = BookedOf(i)
      BY <1>1, <2>2, <3>2 DEF PaperExecute, IInv, BookedOf
    <3>3. CASE MarkSubmitting
      BY <1>1, <2>2, <3>3 DEF MarkSubmitting, IInv, BookedOf, LivePcs
    <3>4. CASE Acknowledged \/ Rejected \/ Discovered \/ NotDiscovered
      <4>1. cur \in Intents /\ cur # i
        BY <1>1, <2>2, <3>4
        DEF Acknowledged, Rejected, Discovered, NotDiscovered, LivePcs, IInv, Unresolved
      <4> QED
        BY <2>4, <3>4, <4>1 DEF Acknowledged, Rejected, Discovered, NotDiscovered, Unknown
    <3> QED
      BY <2>3, <2>6, <3>1, <3>2, <3>3, <3>4
      DEF ExecuteStep, EndCycle, Submit, SubmitRefused, NoAnswer
  <2>7. CASE VerifyStep
    <3>1. cur \in Intents /\ cur # i
      BY <1>1, <2>2, <2>7
      DEF VerifyStep, GetOrder, ReadFails, GiveUp, CancelSkipped, BeginCancel,
          CancelRefused, CancelPost, ListFills, Book, Settled, NotSettled, LivePcs,
          VerifyPcs, Unresolved
    <3>2. CASE Book
      <4>1. view.got = FillsOf(cur)
        BY <1>1, <3>2 DEF Book, IInv, ViewInv
      <4> QED
        BY <1>1, <3>1, <3>2, <4>1 DEF Book, IInv, BookedOf, FillsOf
    <3>3. CASE NextAttempt \/ Unknown("known")
      BY <2>3, <2>4, <3>1, <3>3 DEF NextAttempt, Unknown
    <3>4. CASE ListFills
      BY <2>3, <3>3, <3>4 DEF ListFills
    <3>5. CASE Settled
      BY <2>4, <3>1, <3>5 DEF Settled
    <3>6. CASE BeginCancel
      BY <3>6 DEF BeginCancel, BookedOf
    <3> QED
      BY <2>3, <2>7, <3>2, <3>3, <3>4, <3>5, <3>6
      DEF VerifyStep, GetOrder, ReadFails, GiveUp, CancelSkipped, CancelRefused, CancelPost,
          NotSettled
  <2>8. CASE ExchangeStep \/ Crash \/ EditEnv \/ Tick \/ UNCHANGED vars
    BY <2>3, <2>8 DEF ExchangeStep, Crash, EditEnv, Tick, vars
  <2> QED BY <1>1, <2>5, <2>6, <2>7, <2>8 DEF Next
<1>2. ASSUME IInv, [Next]_vars PROVE [\A i \in Intents : Final(i)]_vars
  BY <1>1, <1>2
<1> QED BY <1>2, Invariance, PTL DEF Spec, VerdictIsFinal

\* No step forgets an order id.
LEMMA IdentityStep ==
  ASSUME IInv, [Next]_vars, NEW i \in LiveIntents
  PROVE  orderRow[i] = "known" => orderRow'[i] = "known"
<1> SUFFICES ASSUME orderRow[i] = "known" PROVE orderRow'[i] = "known"
  OBVIOUS
<1>1. istatus[i] \notin {"none", "PREPARED", "SUBMITTING"}
  BY DEF IInv, DataInv, PostInv
<1>2. ASSUME NEW j, NEW s, NEW r, Record(j, s, r), j # i \/ r = "known"
      PROVE  orderRow'[i] = "known"
  BY <1>2 DEF Record, IInv
<1>3. CASE RecoveryStep
  BY <1>1, <1>2, <1>3, PaperIntentsAssumption
  DEF RecoveryStep, StartCommand, RecoverUnsent, RecoverSent, RecoverFails, RecoverDone, StartupPasses
<1>4. CASE ExecuteStep
  <2>1. CASE Rejected \/ NotDiscovered
    <3>1. cur # i
      BY <1>1, <2>1 DEF Rejected, NotDiscovered, IInv, ProcessInv
    <3> QED BY <1>2, <2>1, <3>1 DEF Rejected, NotDiscovered, Unknown
  <2>2. CASE Acknowledged \/ Discovered
    BY <1>2, <2>2 DEF Acknowledged, Discovered
  <2>3. ASSUME NEW n \in 0..MaxFills, PaperExecute(n) PROVE orderRow'[i] = "known"
    BY <2>3, PaperIntentsAssumption DEF PaperExecute, IInv, ProcessInv
  <2> QED
    BY <1>4, <2>1, <2>2, <2>3
    DEF ExecuteStep, EndCycle, Prepare, MarkSubmitting, Submit, SubmitRefused, NoAnswer
<1>5. CASE VerifyStep
  <2>1. CASE NextAttempt \/ Unknown("known")
    BY <1>2, <2>1 DEF NextAttempt, Unknown
  <2>2. CASE ListFills
    BY <2>1, <2>2 DEF ListFills
  <2>3. CASE Settled
    BY <1>2, <2>3 DEF Settled
  <2>4. CASE Book
    BY <2>4 DEF Book, IInv
  <2> QED
    BY <1>5, <2>1, <2>2, <2>3, <2>4
    DEF VerifyStep, GetOrder, ReadFails, GiveUp, CancelSkipped, BeginCancel,
        CancelRefused, CancelPost, NotSettled
<1>6. CASE ExchangeStep \/ Crash \/ EditEnv \/ Tick \/ UNCHANGED vars
  BY <1>6 DEF ExchangeStep, Crash, EditEnv, Tick, vars
<1> QED BY <1>3, <1>4, <1>5, <1>6 DEF Next

\* An order id is never forgotten: _unknown(..., None, ...) is reached without one only.
THEOREM IdentityKeptHolds == Spec => IdentityKept
<1> DEFINE Kept(i) == orderRow[i] = "known" => orderRow'[i] = "known"
<1>1. ASSUME IInv, [Next]_vars PROVE [\A i \in LiveIntents : Kept(i)]_vars
  BY <1>1, IdentityStep
<1> QED BY <1>1, Invariance, PTL DEF Spec, IdentityKept

-----------------------------------------------------------------------------
(***************************************************************************)
(* LiveExecutor implements OrderPromise, and it cancels only what it may   *)
(* cancel.  Both rest on IInv.  The promise needs one more invariant: what *)
(* is booked of an order is all of it, and the order is final              *)
(* (BookedWhole).  Cancellations need another: what the command and the    *)
(* age of the order are while the process works on it (CancelContext).     *)
(***************************************************************************)
-----------------------------------------------------------------------------
\* Cancellations.

\* A process that does not recover is a run, and sends orders of its own mode; one that is about
\* to cancel has found the order overdue and may cancel.
CancelContext ==
  /\ pc = "recover" => job.recovering
  /\ pc \in {"trade", "paper", "prepared", "marked", "await"} => ~job.recovering
  /\ pc \notin {"idle", "recover"} /\ ~job.recovering => job.cmd = "run"
  /\ pc \in LivePcs /\ ~job.recovering => job.mode = "live"
  /\ pc \in {"cancel", "cancelPost"} => age[cur] >= MaxOrderAge /\ AllowCancel

\* Commands and recovery keep it.
LEMMA RecoveryContext == ASSUME IInv, CancelContext, RecoveryStep PROVE CancelContext'
<1>0. job \in Jobs
  BY DEF IInv, TypeOK, ProcessTypeOK
<1>1. ASSUME NEW cmd \in Commands, StartCommand(cmd) PROVE CancelContext'
  BY <1>1 DEF StartCommand, CancelContext, LivePcs, VerifyPcs
<1>2. ASSUME NEW i \in Intents, RecoverUnsent(i) PROVE CancelContext'
  BY <1>0, <1>2 DEF RecoverUnsent, Jobs, CancelContext, LivePcs, VerifyPcs
<1>3. ASSUME NEW i \in Intents, RecoverSent(i) PROVE CancelContext'
  BY <1>3 DEF RecoverSent, StartVerify, CancelContext, LivePcs, VerifyPcs
<1>4. ASSUME NEW i \in Intents, RecoverFails(i) PROVE CancelContext'
  BY <1>0, <1>4 DEF RecoverFails, Jobs, CancelContext, LivePcs, VerifyPcs
<1>5. CASE RecoverDone \/ StartupPasses
  BY <1>0, <1>5 DEF RecoverDone, StartupPasses, NoJob, Jobs, CancelContext, LivePcs, VerifyPcs
<1> QED
  BY <1>1, <1>2, <1>3, <1>4, <1>5 DEF RecoveryStep

\* The two ends of an order keep it,
LEMMA LeaveContext ==
  ASSUME TypeOK, CancelContext, pc \notin {"idle", "recover"}, LeaveResolved \/ LeaveUnresolved
  PROVE  CancelContext'
<1>1. job \in Jobs
  BY DEF TypeOK, ProcessTypeOK
<1> QED
  BY <1>1 DEF LeaveResolved, LeaveUnresolved, NoJob, Jobs, CancelContext, LivePcs, VerifyPcs

\* and so do steps within it that do not go on to a cancellation.
LEMMA GoonContext ==
  ASSUME CancelContext, pc \in LivePcs, UNCHANGED job,
         pc' \in ({"discover"} \union VerifyPcs) \ {"cancel", "cancelPost"}
  PROVE  CancelContext'
BY DEF CancelContext, LivePcs, VerifyPcs

\* The next round of _verify keeps it, and so does its end.
LEMMA NextAttemptContext ==
  ASSUME TypeOK, CancelContext, pc \in VerifyPcs, NextAttempt \/ Unknown("known")
  PROVE  CancelContext'
<1>1. CASE Unknown("known")
  BY <1>1, LeaveContext DEF Unknown, VerifyPcs
<1>2. CASE pc' = "get" /\ UNCHANGED job
  BY <1>2, GoonContext DEF LivePcs, VerifyPcs
<1> QED
  BY <1>1, <1>2 DEF NextAttempt

\* Executing keeps it.
LEMMA ExecuteContext == ASSUME IInv, CancelContext, ExecuteStep PROVE CancelContext'
<1> USE DEF IInv
<1>1. CASE EndCycle
  BY <1>1 DEF EndCycle, NoJob, CancelContext, LivePcs, VerifyPcs
<1>2. ASSUME NEW i \in Intents, Prepare(i) PROVE CancelContext'
  BY <1>2, PaperIntentsAssumption DEF Prepare, ModeOf, CancelContext, LivePcs, VerifyPcs
<1>3. ASSUME NEW n \in 0..MaxFills, PaperExecute(n) PROVE CancelContext'
  BY <1>3, LeaveContext DEF PaperExecute
<1>4. CASE MarkSubmitting \/ Submit
  BY <1>4 DEF MarkSubmitting, Submit, Goto, CancelContext, LivePcs, VerifyPcs
<1>5. CASE SubmitRefused \/ Rejected \/ NotDiscovered
  BY <1>5, LeaveContext DEF SubmitRefused, Rejected, NotDiscovered, Unknown
<1>6. CASE Acknowledged \/ NoAnswer \/ Discovered
  BY <1>6, GoonContext
  DEF Acknowledged, NoAnswer, Discovered, StartVerify, Goto, LivePcs, VerifyPcs
<1> QED
  BY <1>1, <1>2, <1>3, <1>4, <1>5, <1>6 DEF ExecuteStep

\* Verifying keeps it.
LEMMA VerifyContext == ASSUME IInv, CancelContext, VerifyStep PROVE CancelContext'
<1> USE DEF IInv
<1>1. CASE GetOrder
  BY <1>1 DEF GetOrder, AllowCancel, CancelContext, LivePcs, VerifyPcs
<1>2. CASE ReadFails \/ GiveUp \/ CancelRefused \/ NotSettled
  BY <1>2, NextAttemptContext DEF ReadFails, GiveUp, CancelRefused, NotSettled, VerifyPcs
<1>3. CASE CancelSkipped \/ CancelPost \/ Book
  BY <1>3, GoonContext DEF CancelSkipped, CancelPost, Book, Goto, LivePcs, VerifyPcs
<1>4. CASE BeginCancel
  BY <1>4 DEF BeginCancel, Goto, AllowCancel, CancelContext, LivePcs, VerifyPcs
<1>5. CASE ListFills
  BY <1>5, GoonContext, NextAttemptContext DEF ListFills, LivePcs, VerifyPcs
<1>6. CASE Settled
  BY <1>6, LeaveContext DEF Settled
<1> QED
  BY <1>1, <1>2, <1>3, <1>4, <1>5, <1>6 DEF VerifyStep

\* So does the environment: orders do not get younger.
LEMMA EnvironmentContext ==
  ASSUME IInv, CancelContext, ExchangeStep \/ Crash \/ EditEnv \/ Tick \/ UNCHANGED vars
  PROVE  CancelContext'
<1>1. CASE Crash
  BY <1>1 DEF Crash, CancelContext, LivePcs, VerifyPcs
<1>2. CASE Tick
  <2>1. \A i \in LiveIntents : age[i] >= MaxOrderAge => age'[i] >= MaxOrderAge
    BY <1>2, LimitsAssumption DEF Tick, IInv, TypeOK
  <2>2. pc \in {"cancel", "cancelPost"} => cur \in LiveIntents
    BY DEF IInv, ProcessInv, LivePcs, VerifyPcs
  <2> QED
    BY <1>2, <2>1, <2>2 DEF Tick, CancelContext, AllowCancel
<1>3. CASE ExchangeStep \/ EditEnv \/ UNCHANGED vars
  BY <1>3 DEF ExchangeStep, EditEnv, vars, CancelContext, AllowCancel
<1> QED BY <1>1, <1>2, <1>3

\* The process and its orders are always in such a context.
LEMMA ContextHolds == Spec => []CancelContext
<1>1. Init => CancelContext
  BY DEF Init, CancelContext, LivePcs, VerifyPcs
<1>2. IInv /\ CancelContext /\ [Next]_vars => CancelContext'
  BY RecoveryContext, ExecuteContext, VerifyContext, EnvironmentContext DEF Next
<1> QED
  BY <1>1, <1>2, Invariance, PTL DEF Spec

\* A cancellation is requested only for the unresolved order of known id, overdue, under a live
\* .env, and by a live run or live maintenance (execution.py: _cancel_overdue, recover_orders).
THEOREM CancelJustifiedHolds == Spec => CancelJustified
<1> DEFINE Justified(i) ==
      cancelPosts'[i] # cancelPosts[i] =>
        /\ i \in Unresolved /\ orderRow[i] = "known"
        /\ age[i] >= MaxOrderAge
        /\ envMode = "live" /\ job.mode = "live" /\ job.cmd # "inspect"
<1>2. ASSUME [Next]_vars PROVE UNCHANGED cancelPosts \/ CancelPost
  BY <1>2
  DEF Next, vars, ExchangeStep, Crash, EditEnv, Tick, RecoveryStep, StartCommand, RecoverUnsent,
      RecoverSent, RecoverFails, RecoverDone, StartupPasses, ExecuteStep, EndCycle, Prepare, PaperExecute,
      MarkSubmitting, Submit, SubmitRefused, Acknowledged, Rejected, NoAnswer, Discovered,
      NotDiscovered, VerifyStep, GetOrder, ReadFails, GiveUp, CancelSkipped, BeginCancel,
      CancelRefused, ListFills, Book, Settled, NotSettled
<1>3. ASSUME IInv, CancelContext, CancelPost, NEW i \in LiveIntents PROVE Justified(i)
  <2>1. CASE i = cur
    <3>1. cur \in Unresolved /\ orderRow[cur] = "known" /\ cur \in LiveIntents
      BY <1>3, VerifyFacts DEF CancelPost, VerifyPcs
    <3>2. age[cur] >= MaxOrderAge /\ AllowCancel
      BY <1>3 DEF CancelPost, CancelContext
    <3>3. job.mode = "live" /\ job.cmd # "inspect"
      BY <1>3, <3>2 DEF CancelPost, CancelContext, AllowCancel, LivePcs, VerifyPcs
    <3> QED BY <1>3, <2>1, <3>1, <3>2, <3>3 DEF CancelPost, ModeVerified, ModeOf
  <2>2. CASE i # cur
    BY <1>3, <2>2 DEF CancelPost, IInv, TypeOK
  <2> QED BY <2>1, <2>2
<1>4. ASSUME IInv, CancelContext, [Next]_vars
      PROVE  [\A i \in LiveIntents : Justified(i)]_vars
  BY <1>2, <1>3, <1>4
<1> QED BY <1>4, Invariance, ContextHolds, PTL DEF Spec, CancelJustified

-----------------------------------------------------------------------------
\* The promise.

Phase(i) == IF istatus[i] = "none" THEN "idle"
            ELSE IF i \in Unresolved THEN "pending" ELSE "closed"

\* What is booked of an order is all of it: fills are booked when it can trade no more.
BookedWhole == \A i \in LiveIntents :
  BookedOf(i) # {} => exStatus[i] \in FinalStatuses /\ BookedOf(i) = FillsOf(i)

\* A step that the promise does not see of an order; and of any.
Unseen(i) ==
  Phase(i)' = Phase(i) /\ executed'[i] = executed[i] /\ BookedOf(i)' = BookedOf(i)
Hidden == expected' = expected /\ \A i \in LiveIntents : Unseen(i)
OnlySeen(i) == \A j \in LiveIntents \ {i} : Unseen(j)

\* An order has as many fills as executions.
LEMMA FillsCounted ==
  ASSUME TypeOK, NEW i \in LiveIntents PROVE Cardinality(FillsOf(i)) = executed[i]
<1>1. executed[i] \in 0..MaxFills
  BY DEF TypeOK, ExchangeTypeOK
<1> QED
  BY <1>1, SimulatedFills DEF FillsOf

\* Hidden steps stutter.
LEMMA HiddenStutters ==
  ASSUME TypeOK, TypeOK', Hidden PROVE UNCHANGED Promise!promiseVars
<1>1. executed' = executed
  BY DEF Hidden, Unseen, TypeOK, ExchangeTypeOK
<1> QED
  BY <1>1 DEF Promise!promiseVars, Hidden, Unseen, Phase

\* A record of one intent is seen of no other, and of none if it stays unresolved or is a paper one.
LEMMA RecordSeen ==
  ASSUME IInv, NEW j \in Intents, NEW s, NEW r, Record(j, s, r), UNCHANGED executed
  PROVE  /\ OnlySeen(j) /\ expected' = expected
         /\ j \in PaperIntents \/ (j \in Unresolved /\ s \in PendingStatuses) => Hidden
<1>1. \A i \in Intents : i # j => istatus'[i] = istatus[i]
  BY DEF Record
<1>2. istatus'[j] = s
  BY DEF Record, IInv, TypeOK, TablesTypeOK
<1>3. \A i \in LiveIntents : executed'[i] = executed[i] /\ BookedOf(i)' = BookedOf(i)
  BY DEF Record, BookedOf
<1>4. OnlySeen(j)
  BY <1>1, <1>3 DEF OnlySeen, Unseen, Phase, Unresolved
<1>5. j \in Unresolved /\ s \in PendingStatuses => Unseen(j) \/ j \in PaperIntents
  BY <1>2, <1>3 DEF Unseen, Phase, Unresolved, PendingStatuses
<1> QED
  BY <1>4, <1>5, PaperIntentsAssumption DEF Hidden, OnlySeen, Record

\* A step that writes neither statuses nor fills is seen only if orders trade.
LEMMA QuietSeen ==
  ASSUME UNCHANGED <<istatus, booked, expected, executed>> PROVE Hidden
BY DEF Hidden, Unseen, Phase, Unresolved, BookedOf

\* A verdict closes an order whose executions are all booked.
LEMMA VerdictCloses ==
  ASSUME IInv, IInv', NEW j \in LiveIntents, NEW s \in TerminalStatuses, NEW r, Record(j, s, r),
         UNCHANGED executed, j \in Unresolved, BookedOf(j) = FillsOf(j)
  PROVE  Promise!Close(j)
<1>1. OnlySeen(j) /\ expected' = expected
  BY RecordSeen
<1>2. Phase(j) = "pending" /\ Phase(j)' = "closed"
  <2>1. istatus'[j] = s
    BY DEF Record, IInv, TypeOK, TablesTypeOK
  <2> QED
    BY <2>1 DEF Phase, Unresolved, PendingStatuses, TerminalStatuses
<1>3. Cardinality(BookedOf(j)) = executed[j]
  BY FillsCounted DEF IInv
<1>4. executed' = executed /\ \A i \in LiveIntents : BookedOf(i)' = BookedOf(i)
  BY DEF Record, BookedOf
<1> QED
  BY <1>1, <1>2, <1>3, <1>4 DEF Promise!Close, OnlySeen, Unseen, Phase

\* Recovery closes an intent that was never sent; the rest of it is hidden.
LEMMA RecoveryKeeps ==
  ASSUME IInv, IInv', RecoveryStep PROVE Hidden \/ \E i \in LiveIntents : Promise!Close(i)
<1>1. ASSUME NEW i \in Intents, RecoverUnsent(i)
      PROVE  Hidden \/ \E j \in LiveIntents : Promise!Close(j)
  <2>1. i \in Unresolved
    BY <1>1 DEF RecoverUnsent, IInv, ProcessInv
  <2>2. CASE i \in PaperIntents
    BY <1>1, <2>2, RecordSeen DEF RecoverUnsent
  <2>3. CASE i \in LiveIntents /\ Record(i, "ABORTED", "null")
    <3>1. istatus[i] = "PREPARED" /\ (BookedOf(i) = {} \/ i \in PaperIntents)
      BY <1>1, <2>3, PaperIntentsAssumption DEF RecoverUnsent, Record, IInv, TypeOK, TablesTypeOK
    <3>2. executed[i] = 0
      BY <2>3, <3>1 DEF IInv, DataInv, PostedOnce, PostInv
    <3>3. BookedOf(i) = FillsOf(i)
      BY <2>3, <3>2, NothingExecuted
    <3> QED
      BY <1>1, <2>1, <2>3, <3>3, VerdictCloses DEF RecoverUnsent, TerminalStatuses
  <2>4. CASE \E r : Record(i, "UNRESOLVED", r)
    BY <1>1, <2>1, <2>4, RecordSeen DEF RecoverUnsent, PendingStatuses
  <2> QED
    BY <1>1, <2>2, <2>3, <2>4 DEF RecoverUnsent
<1> QED
  BY <1>1, QuietSeen
  DEF RecoveryStep, StartCommand, RecoverSent, RecoverFails, RecoverDone, StartupPasses

\* Executing begins an order, or closes a rejected one; the rest of it is hidden.
LEMMA ExecuteKeeps ==
  ASSUME IInv, IInv', ExecuteStep
  PROVE  Hidden \/ \E i \in LiveIntents : Promise!Begin(i) \/ Promise!Close(i)
<1>1. ASSUME NEW i \in Intents, Prepare(i)
      PROVE  Hidden \/ \E j \in LiveIntents : Promise!Begin(j)
  <2>1. istatus[i] = "none" /\ Unresolved = {} /\ istatus' = [istatus EXCEPT ![i] = "PREPARED"]
    BY <1>1 DEF Prepare
  <2>2. UNCHANGED <<executed, booked, expected>>
    BY <1>1 DEF Prepare
  <2>3. istatus'[i] = "PREPARED" /\ \A j \in Intents \ {i} : istatus'[j] = istatus[j]
    BY <2>1 DEF IInv, TypeOK, TablesTypeOK
  <2>4. OnlySeen(i)
    BY <2>2, <2>3 DEF OnlySeen, Unseen, Phase, Unresolved, BookedOf
  <2>5. CASE i \in PaperIntents
    BY <2>2, <2>4, <2>5, PaperIntentsAssumption DEF Hidden, OnlySeen
  <2>6. CASE i \in LiveIntents
    <3>1. Phase(i) = "idle" /\ Phase(i)' = "pending"
      BY <2>1, <2>3 DEF Phase, Unresolved, PendingStatuses
    <3>2. \A j \in LiveIntents : Phase(j) # "pending" /\ BookedOf(j)' = BookedOf(j)
      BY <2>1, <2>2 DEF Phase, BookedOf
    <3> QED
      BY <2>2, <2>4, <2>6, <3>1, <3>2 DEF Promise!Begin, OnlySeen, Unseen, Phase
  <2> QED BY <2>5, <2>6
<1>2. ASSUME NEW n \in 0..MaxFills, PaperExecute(n) PROVE Hidden
  <2>1. cur \in PaperIntents
    BY <1>2 DEF PaperExecute, IInv, ProcessInv
  <2>2. \A i \in LiveIntents : istatus'[i] = istatus[i] /\ BookedOf(i)' = BookedOf(i)
    BY <1>2, <2>1, PaperIntentsAssumption DEF PaperExecute, BookedOf
  <2> QED
    BY <1>2, <2>2 DEF PaperExecute, Hidden, Unseen, Phase, Unresolved
<1>3. CASE MarkSubmitting
  <2>1. cur \in Unresolved /\ cur \in Intents
    BY <1>3 DEF MarkSubmitting, IInv, ProcessInv, LivePcs, Unresolved, PendingStatuses
  <2>2. \A i \in Intents :
          istatus'[i] = istatus[i] \/ (i \in Unresolved /\ istatus'[i] = "SUBMITTING")
    BY <1>3, <2>1 DEF MarkSubmitting, IInv, TypeOK, TablesTypeOK
  <2> QED
    BY <1>3, <2>2 DEF MarkSubmitting, Hidden, Unseen, Phase, Unresolved, PendingStatuses, BookedOf
<1>4. CASE Acknowledged \/ Discovered \/ NotDiscovered
  <2>1. cur \in Unresolved /\ cur \in Intents
    BY <1>4
    DEF Acknowledged, Discovered, NotDiscovered, IInv, ProcessInv, LivePcs, Unresolved,
        PendingStatuses
  <2> QED
    BY <1>4, <2>1, RecordSeen
    DEF Acknowledged, Discovered, NotDiscovered, Unknown, PendingStatuses
<1>5. CASE Rejected
  <2>1. cur \in Unresolved /\ cur \in LiveIntents
    BY <1>5 DEF Rejected, IInv, ProcessInv, LivePcs, Unresolved, PendingStatuses
  <2>2. executed[cur] = 0
    BY <1>5, <2>1 DEF Rejected, IInv, DataInv, PostInv
  <2>3. BookedOf(cur) = {}
    BY <2>1, <2>2, NothingExecuted
  <2> QED
    BY <1>5, <2>1, <2>2, <2>3, NothingExecuted, VerdictCloses DEF Rejected, TerminalStatuses
<1>6. CASE EndCycle \/ Submit \/ SubmitRefused \/ NoAnswer
  BY <1>6, QuietSeen DEF EndCycle, Submit, SubmitRefused, NoAnswer
<1> QED
  BY <1>1, <1>2, <1>3, <1>4, <1>5, <1>6 DEF ExecuteStep

\* Verifying books what was traded, once, and then closes the order.
LEMMA VerifyKeeps ==
  ASSUME IInv, IInv', BookedWhole, VerifyStep
  PROVE  Hidden \/ \E i \in LiveIntents : Promise!BookTrades(i) \/ Promise!Close(i)
<1>1. /\ pc \in VerifyPcs
      /\ cur \in LiveIntents /\ cur \in Unresolved /\ istatus[cur] = "UNRESOLVED"
  <2>1. pc \in VerifyPcs
    BY DEF VerifyStep, GetOrder, ReadFails, GiveUp, CancelSkipped, BeginCancel, CancelRefused,
           CancelPost, ListFills, Book, Settled, NotSettled, VerifyPcs
  <2> QED BY <2>1, VerifyFacts
<1>2. CASE Book
  <2>1. view.got = FillsOf(cur)
    BY <1>2 DEF Book, IInv, ViewInv
  <2>2. /\ booked' = booked \union (FillsOf(cur) \ booked)
        /\ expected' = expected + Cardinality(FillsOf(cur) \ booked)
        /\ UNCHANGED <<istatus, executed>>
    BY <1>1, <1>2, <2>1 DEF Book, IInv, TypeOK, TablesTypeOK
  <2>3. \A i \in LiveIntents \ {cur} : BookedOf(i)' = BookedOf(i)
    BY <2>2 DEF BookedOf, FillsOf
  <2>4. CASE BookedOf(cur) = FillsOf(cur)
    <3>1. FillsOf(cur) \ booked = {}
      BY <2>4 DEF BookedOf
    <3>2. expected \in Nat
      BY DEF IInv, TypeOK, TablesTypeOK
    <3>3. UNCHANGED <<booked, expected>>
      BY <2>2, <3>1, <3>2, FS_EmptySet
    <3> QED BY <2>2, <3>3, QuietSeen
  <2>5. CASE BookedOf(cur) = {} /\ FillsOf(cur) # {}
    <3>1. FillsOf(cur) \ booked = FillsOf(cur)
      BY <2>5 DEF BookedOf, FillsOf
    <3>2. Cardinality(FillsOf(cur)) = executed[cur] /\ executed[cur] \in Nat
      BY <1>1, FillsCounted DEF IInv, TypeOK, ExchangeTypeOK
    <3>3. executed[cur] > 0
      BY <2>5, <3>2 DEF FillsOf
    <3>4. \A i \in LiveIntents : BookedOf(i)' = IF i = cur THEN FillsOf(cur) ELSE BookedOf(i)
      <4>1. \A f \in FillsOf(cur) : f[1] = cur
        BY DEF FillsOf
      <4>2. booked' = booked \union FillsOf(cur)
        BY <2>2, <3>1
      <4> QED BY <2>3, <2>5, <4>1, <4>2 DEF BookedOf
    <3>5. Cardinality(BookedOf(cur)) = 0
      BY <2>5, FS_EmptySet
    <3>6. expected' = expected + executed[cur]
      BY <2>2, <3>1, <3>2
    <3>7. istatus[cur] # "none" /\ Unresolved' = Unresolved
      BY <1>1, <2>2 DEF Unresolved
    <3>8. [i \in LiveIntents |-> Cardinality(BookedOf(i))]' =
            [[i \in LiveIntents |-> Cardinality(BookedOf(i))] EXCEPT ![cur] = executed[cur]]
      BY <3>2, <3>4
    <3> QED
      BY <1>1, <2>2, <3>3, <3>5, <3>6, <3>7, <3>8 DEF Promise!BookTrades
  <2> QED
    BY <1>1, <2>4, <2>5 DEF BookedWhole
<1>3. CASE Settled
  <2>1. BookedOf(cur) = FillsOf(cur)
    BY <1>3 DEF Settled, IInv, ViewInv
  <2>2. Verdicts \subseteq TerminalStatuses
    BY DEF Verdicts, TerminalStatuses
  <2> QED
    BY <1>1, <1>3, <2>1, <2>2, VerdictCloses DEF Settled
<1>4. ASSUME NextAttempt \/ Unknown("known"), UNCHANGED exVars PROVE Hidden
  BY <1>1, <1>4, RecordSeen, QuietSeen DEF NextAttempt, Unknown, PendingStatuses
<1>5. CASE ReadFails \/ GiveUp \/ CancelRefused \/ NotSettled
  BY <1>4, <1>5 DEF ReadFails, GiveUp, CancelRefused, NotSettled
<1>6. CASE ListFills
  <2>1. CASE pc' = "book" /\ UNCHANGED tables
    BY <1>6, <2>1, QuietSeen DEF ListFills
  <2> QED
    BY <1>4, <1>6, <2>1 DEF ListFills
<1>7. CASE GetOrder \/ CancelSkipped \/ BeginCancel \/ CancelPost
  BY <1>7, QuietSeen DEF GetOrder, CancelSkipped, BeginCancel, CancelPost
<1> QED
  BY <1>2, <1>3, <1>5, <1>6, <1>7 DEF VerifyStep

\* An order that trades is pending, and nothing of it is booked yet.
LEMMA ExchangeKeeps ==
  ASSUME IInv, BookedWhole, ExchangeStep
  PROVE  Hidden \/ \E i \in LiveIntents : Promise!Execute(i)
<1>1. ASSUME NEW i \in LiveIntents, Trade(i) PROVE Promise!Execute(i)
  <2>1. exStatus[i] \in ActiveStatuses /\ executed[i] < MaxFills
    BY <1>1 DEF Trade
  <2>2. BookedOf(i) = {}
    BY <2>1 DEF BookedWhole, ActiveStatuses, FinalStatuses
  <2>3. istatus[i] # "none" /\ i \in Unresolved
    <3>1. posts[i] # 0
      BY <2>1 DEF IInv, DataInv, PostInv, ActiveStatuses
    <3>2. istatus[i] \notin TerminalStatuses
      BY <2>1 DEF IInv, DataInv, ResolvedMeansBooked, ActiveStatuses, FinalStatuses
    <3>3. istatus[i] # "none"
      BY <3>1 DEF IInv, DataInv, PostedOnce
    <3> QED BY <3>2, <3>3 DEF IInv, TypeOK, TablesTypeOK, Unresolved
  <2>4. Cardinality(BookedOf(i)) = 0
    BY <2>2, FS_EmptySet
  <2>5. UNCHANGED <<istatus, booked, expected>> /\ executed' = [executed EXCEPT ![i] = @ + 1]
    BY <1>1 DEF ExchangeStep, Trade
  <2>6. Unresolved' = Unresolved /\ \A j \in LiveIntents : BookedOf(j)' = BookedOf(j)
    BY <2>5 DEF Unresolved, BookedOf
  <2> QED
    BY <2>1, <2>3, <2>4, <2>5, <2>6 DEF Promise!Execute
<1>2. CASE UNCHANGED executed
  BY <1>2, QuietSeen DEF ExchangeStep
<1> QED
  BY <1>1, <1>2 DEF ExchangeStep, ExchangeNext, Deliver, Drop, Finish, Settle, Credit

\* Every step is a step of the promise, or hidden.
LEMMA NextKeeps ==
  ASSUME IInv, BookedWhole, [Next]_vars, IInv'
  PROVE  Hidden \/ Promise!PromiseNext
<1>1. CASE Crash \/ EditEnv \/ Tick \/ UNCHANGED vars
  BY <1>1, QuietSeen DEF Crash, EditEnv, Tick, vars
<1> QED
  BY <1>1, ExchangeKeeps, RecoveryKeeps, ExecuteKeeps, VerifyKeeps DEF Next, Promise!PromiseNext

\* Only Book adds to the fills of a live order.
LEMMA BookedBy ==
  ASSUME IInv, [Next]_vars, NEW i \in LiveIntents
  PROVE  BookedOf(i)' = BookedOf(i) \/ (Book /\ i = cur)
<1>1. CASE UNCHANGED booked
  BY <1>1 DEF BookedOf
<1>2. CASE Book
  <2>1. view.got = FillsOf(cur)
    BY <1>2 DEF Book, IInv, ViewInv
  <2>2. i # cur => BookedOf(i)' = BookedOf(i)
    BY <1>2, <2>1 DEF Book, BookedOf, FillsOf
  <2> QED BY <1>2, <2>2
<1>3. ASSUME NEW n \in 0..MaxFills, PaperExecute(n) PROVE BookedOf(i)' = BookedOf(i)
  BY <1>3, PaperIntentsAssumption DEF PaperExecute, IInv, ProcessInv, BookedOf
<1>4. CASE ExchangeStep \/ Crash \/ EditEnv \/ Tick \/ UNCHANGED vars
  BY <1>1, <1>4 DEF ExchangeStep, Crash, EditEnv, Tick, vars
<1>5. CASE RecoveryStep
  BY <1>1, <1>5
  DEF RecoveryStep, StartCommand, RecoverUnsent, RecoverSent, RecoverFails, RecoverDone, StartupPasses, Record
<1>6. CASE ExecuteStep
  BY <1>1, <1>3, <1>6
  DEF ExecuteStep, EndCycle, Prepare, MarkSubmitting, Submit, SubmitRefused, Acknowledged, Rejected,
      NoAnswer, Discovered, NotDiscovered, Unknown, Record
<1>7. CASE VerifyStep
  <2>1. ASSUME NextAttempt \/ Unknown("known") PROVE UNCHANGED booked
    BY <2>1 DEF NextAttempt, Unknown, Record
  <2> QED
    BY <1>1, <1>2, <1>7, <2>1
    DEF VerifyStep, GetOrder, ReadFails, GiveUp, CancelSkipped, BeginCancel, CancelRefused,
        CancelPost, ListFills, Settled, NotSettled, Record
<1> QED BY <1>4, <1>5, <1>6, <1>7 DEF Next

\* A final order trades no more and stays final.
LEMMA FinalStays ==
  ASSUME IInv, [Next]_vars, NEW i \in LiveIntents, exStatus[i] \in FinalStatuses
  PROVE  exStatus'[i] = exStatus[i] /\ executed'[i] = executed[i]
<1>1. CASE UNCHANGED <<exStatus, executed>>
  BY <1>1
<1>2. exStatus[i] \notin ActiveStatuses /\ exStatus[i] # "none"
  BY DEF ActiveStatuses, FinalStatuses
<1>3. CASE ExchangeStep
  BY <1>1, <1>2, <1>3
  DEF ExchangeStep, ExchangeNext, Deliver, Drop, Trade, Finish, Settle, Credit, IInv, TypeOK,
      ExchangeTypeOK
<1>4. CASE CancelPost
  BY <1>2, <1>4 DEF CancelPost, ActiveStatuses, IInv, TypeOK, ExchangeTypeOK
<1>5. CASE RecoveryStep \/ ExecuteStep
  BY <1>1, <1>5
  DEF RecoveryStep, StartCommand, RecoverUnsent, RecoverSent, RecoverFails, RecoverDone, StartupPasses,
      ExecuteStep, EndCycle, Prepare, PaperExecute, MarkSubmitting, Submit, SubmitRefused,
      Acknowledged, Rejected, NoAnswer, Discovered, NotDiscovered
<1>6. CASE VerifyStep
  BY <1>1, <1>4, <1>6
  DEF VerifyStep, GetOrder, ReadFails, GiveUp, CancelSkipped, BeginCancel, CancelRefused, ListFills,
      Book, Settled, NotSettled
<1>7. CASE Crash \/ EditEnv \/ Tick \/ UNCHANGED vars
  BY <1>1, <1>7 DEF Crash, EditEnv, Tick, vars
<1> QED BY <1>3, <1>5, <1>6, <1>7 DEF Next

\* BookedWhole is inductive with IInv.
LEMMA BookedWholeStep ==
  ASSUME IInv, BookedWhole, [Next]_vars, IInv' PROVE BookedWhole'
<1> SUFFICES ASSUME NEW i \in LiveIntents, BookedOf(i)' # {}
             PROVE  exStatus'[i] \in FinalStatuses /\ BookedOf(i)' = FillsOf(i)'
  BY DEF BookedWhole
<1>1. CASE BookedOf(i)' = BookedOf(i)
  <2>1. exStatus[i] \in FinalStatuses /\ BookedOf(i) = FillsOf(i)
    BY <1>1 DEF BookedWhole
  <2> QED
    BY <1>1, <2>1, FinalStays DEF FillsOf
<1>2. CASE Book /\ i = cur
  <2>1. pc' = "reconcile" /\ cur' = i
    BY <1>2 DEF Book, Goto
  <2> QED
    BY <2>1 DEF IInv, ViewInv, VerifyPcs
<1> QED BY <1>1, <1>2, BookedBy

\* BookedWhole is an invariant.
LEMMA BookedWholeHolds == Spec => []BookedWhole
<1>1. Init => BookedWhole
  BY DEF Init, BookedWhole, BookedOf
<1>2. IInv /\ BookedWhole /\ [Next]_vars => BookedWhole'
  BY BookedWholeStep, NextHolds
<1> QED
  BY <1>1, <1>2, Invariance, PTL DEF Spec

\* Timeouts, restarts, discovery, cancellation and repeated reads change nothing that the rest of
\* the program sees: orders are pending one at a time, what they trade is booked whole and once,
\* and then they are closed.
THEOREM KeepsPromiseHolds == Spec => KeepsPromise
<1>1. Init => Promise!PromiseInit
  <2> SUFFICES ASSUME Init PROVE Promise!PromiseInit
    OBVIOUS
  <2>1. \A i \in LiveIntents : BookedOf(i) = {} /\ istatus[i] = "none"
    BY DEF Init, BookedOf
  <2>2. \A i \in LiveIntents : Cardinality(BookedOf(i)) = 0
    BY <2>1, FS_EmptySet
  <2> QED
    BY <2>1, <2>2 DEF Init, ExchangeInit, Promise!PromiseInit
<1>2. ASSUME IInv, BookedWhole, [Next]_vars PROVE [Promise!PromiseNext]_(Promise!promiseVars)
  <2>1. IInv'
    BY <1>2, NextHolds
  <2>2. TypeOK /\ TypeOK'
    BY <1>2, <2>1 DEF IInv
  <2> QED
    BY <1>2, <2>1, <2>2, NextKeeps, HiddenStutters
<1> QED
  BY <1>1, <1>2, Invariance, BookedWholeHolds, PTL DEF Spec, KeepsPromise, Promise!PromiseSpec

-----------------------------------------------------------------------------
\* Termination: no step of a process leaves it with as much to do as before.

\* What is left to do at each place in the code.
PlacesCounted ==
  /\ pc = "idle" => WorkHere = 0
  /\ pc = "trade" => WorkHere = 1
  /\ pc = "recover" => WorkHere = 2
  /\ pc = "paper" => WorkHere = 3
  /\ pc = "discover" => WorkHere = Rounds + 3
  /\ pc = "await" => WorkHere = Rounds + 4
  /\ pc = "marked" => WorkHere = Rounds + 5
  /\ pc = "prepared" => WorkHere = Rounds + 6
  /\ pc = "get" => WorkHere = 6 * (VerificationAttempts - 1 - tries) + 8
  /\ pc = "cancel" => WorkHere = 6 * (VerificationAttempts - 1 - tries) + 7
  /\ pc = "cancelPost" => WorkHere = 6 * (VerificationAttempts - 1 - tries) + 6
  /\ pc = "fills" => WorkHere = 6 * (VerificationAttempts - 1 - tries) + 5
  /\ pc = "book" => WorkHere = 6 * (VerificationAttempts - 1 - tries) + 4
  /\ pc = "reconcile" => WorkHere = 6 * (VerificationAttempts - 1 - tries) + 3

\* A step within an intent counts by its place,
LEMMA Places == TypeOK => PlacesCounted
<1> SUFFICES ASSUME TypeOK PROVE PlacesCounted
  OBVIOUS
<1>1. tries \in Int /\ VerificationAttempts \in Int
  BY LimitsAssumption DEF TypeOK, ProcessTypeOK
<1>2. pc \notin VerifyPcs => WorkHere = BeforeVerify[pc]
  BY DEF WorkHere
<1>3. pc \in VerifyPcs => WorkHere = 2 + 6 * (VerificationAttempts - 1 - tries) + RoundLeft[pc]
  BY DEF WorkHere
<1>4. \A p \in {"idle", "trade", "recover", "paper", "discover", "await", "marked", "prepared"} :
        p \notin VerifyPcs
  BY DEF VerifyPcs
<1>5. /\ pc = "idle" => WorkHere = 0
      /\ pc = "trade" => WorkHere = 1
      /\ pc = "recover" => WorkHere = 2
      /\ pc = "paper" => WorkHere = 3
      /\ pc = "discover" => WorkHere = Rounds + 3
      /\ pc = "await" => WorkHere = Rounds + 4
      /\ pc = "marked" => WorkHere = Rounds + 5
      /\ pc = "prepared" => WorkHere = Rounds + 6
  BY <1>2, <1>4 DEF BeforeVerify
<1>6. /\ pc = "get" => RoundLeft[pc] = 6
      /\ pc = "cancel" => RoundLeft[pc] = 5
      /\ pc = "cancelPost" => RoundLeft[pc] = 4
      /\ pc = "fills" => RoundLeft[pc] = 3
      /\ pc = "book" => RoundLeft[pc] = 2
      /\ pc = "reconcile" => RoundLeft[pc] = 1
  BY DEF RoundLeft
<1> DEFINE attemptsLeft == 6 * (VerificationAttempts - 1 - tries)
<1>7. attemptsLeft \in Int
  BY <1>1
<1> HIDE DEF attemptsLeft
<1>8. pc \in VerifyPcs => WorkHere = 2 + attemptsLeft + RoundLeft[pc]
  BY <1>3 DEF attemptsLeft
<1>9. /\ pc = "get" => WorkHere = attemptsLeft + 8
      /\ pc = "cancel" => WorkHere = attemptsLeft + 7
      /\ pc = "cancelPost" => WorkHere = attemptsLeft + 6
      /\ pc = "fills" => WorkHere = attemptsLeft + 5
      /\ pc = "book" => WorkHere = attemptsLeft + 4
      /\ pc = "reconcile" => WorkHere = attemptsLeft + 3
  BY <1>6, <1>7, <1>8 DEF VerifyPcs
<1> QED BY <1>5, <1>9 DEF PlacesCounted, attemptsLeft

\* before a step and after it.
LEMMA PlacesThen == TypeOK' => PlacesCounted'
  BY Places, PTL

WorkBounded ==
  /\ WorkHere \in 0..(Rounds + 6) /\ WorkAhead \in Nat /\ Work \in Nat /\ Rounds \in Nat
  /\ IsFiniteSet(job.todo \ {cur}) /\ IsFiniteSet(Untried)

\* All of it is a number, and an intent is more than any place within one.
LEMMA WorkBounds == TypeOK => WorkBounded
<1> SUFFICES ASSUME TypeOK PROVE WorkBounded
  OBVIOUS
<1>1. /\ pc \in {"idle", "recover", "trade", "paper", "prepared", "marked", "await", "discover",
                 "get", "cancel", "cancelPost", "fills", "book", "reconcile"}
      /\ tries \in 0..(VerificationAttempts - 1) /\ VerificationAttempts \in Nat \ {0}
      /\ job.todo \subseteq Intents
  BY LimitsAssumption DEF TypeOK, ProcessTypeOK, Jobs
<1>2. WorkHere \in 0..(Rounds + 6) /\ Rounds \in Nat
  BY <1>1, Places DEF PlacesCounted, Rounds
<1>3. IsFiniteSet(Intents)
  BY LiveIntentsAssumption, PaperIntentsAssumption, FS_Union
<1>4. job.todo \ {cur} \subseteq Intents /\ Untried \subseteq Intents
  BY <1>1 DEF Untried
<1>5. IsFiniteSet(job.todo \ {cur}) /\ IsFiniteSet(Untried)
  BY <1>3, <1>4, FS_Subset
<1>6. WorkAhead \in Nat
  BY <1>5, FS_CardinalityType DEF WorkAhead
<1>7. (Rounds + 7) * WorkAhead \in Nat
  BY <1>2, <1>6
<1> QED BY <1>2, <1>5, <1>6, <1>7 DEF Work, WorkBounded

\* The same after a step.
LEMMA WorkBoundsThen == TypeOK' => WorkBounded'
<1>1. TypeOK => WorkBounded
  BY WorkBounds
<1> QED BY <1>1, PTL

\* Nothing is ahead that was not.
Ahead == <<job.todo \ {cur}, Untried>>
LessAhead ==
  /\ (job.todo \ {cur})' \subseteq job.todo \ {cur} /\ Untried' \subseteq Untried

\* Then no more is ahead, and less if an intent is gone.
LEMMA AheadFalls ==
  ASSUME TypeOK, TypeOK', LessAhead
  PROVE  WorkAhead' <= WorkAhead /\ (Ahead' # Ahead => WorkAhead' < WorkAhead)
<1> DEFINE T == job.todo \ {cur}
           U == (job.todo \ {cur})'
           V == Untried
           W == Untried'
<1>1. /\ IsFiniteSet(T) /\ IsFiniteSet(U) /\ IsFiniteSet(V) /\ IsFiniteSet(W)
      /\ U \subseteq T /\ W \subseteq V
  BY WorkBounds, WorkBoundsThen DEF LessAhead, WorkBounded
<1>2. WorkAhead = Cardinality(T) + Cardinality(V) /\ WorkAhead' = Cardinality(U) + Cardinality(W)
  BY DEF WorkAhead
<1>3. Ahead = <<T, V>> /\ Ahead' = <<U, W>>
  BY DEF Ahead
<1> HIDE DEF T, U, V, W
<1>4. /\ Cardinality(T) \in Nat /\ Cardinality(U) \in Nat
      /\ Cardinality(V) \in Nat /\ Cardinality(W) \in Nat
  BY <1>1, FS_CardinalityType
<1>5. Cardinality(U) <= Cardinality(T) /\ (U # T => Cardinality(U) < Cardinality(T))
  BY <1>1, <1>4, FS_Subset
<1>6. Cardinality(W) <= Cardinality(V) /\ (W # V => Cardinality(W) < Cardinality(V))
  BY <1>1, <1>4, FS_Subset
<1> QED BY <1>2, <1>3, <1>4, <1>5, <1>6

\* Less here and no more ahead, or less ahead.
LEMMA WorkFalls ==
  ASSUME TypeOK, TypeOK', LessAhead
  PROVE  /\ WorkHere' < WorkHere \/ Ahead' # Ahead => Work' < Work
         /\ WorkHere' <= WorkHere => Work' <= Work
<1> DEFINE here == WorkHere
           hereThen == WorkHere'
           ahead == WorkAhead
           aheadThen == WorkAhead'
           each == Rounds + 7
<1>1. /\ here \in 0..(Rounds + 6) /\ hereThen \in 0..(Rounds + 6)
      /\ ahead \in Nat /\ aheadThen \in Nat /\ each \in Nat /\ Rounds \in Nat
      /\ aheadThen <= ahead /\ (Ahead' # Ahead => aheadThen < ahead)
  BY WorkBounds, WorkBoundsThen, AheadFalls DEF WorkBounded, Rounds
<1>2. here < each /\ hereThen < each /\ here >= 0 /\ hereThen >= 0 /\ here \in Int /\ hereThen \in Int
  BY <1>1
<1>3. Work = here + each * ahead /\ Work' = hereThen + each * aheadThen
  BY DEF Work, Rounds
<1> HIDE DEF here, hereThen, ahead, aheadThen, each
<1>4. each * aheadThen <= each * ahead /\ each * aheadThen \in Nat /\ each * ahead \in Nat
  BY <1>1
<1>5. aheadThen < ahead => each * aheadThen + each <= each * ahead
  BY <1>1
<1>6. hereThen < here \/ Ahead' # Ahead => Work' < Work
  BY <1>1, <1>2, <1>3, <1>4, <1>5
<1>7. hereThen <= here => Work' <= Work
  BY <1>2, <1>3, <1>4
<1> QED BY <1>6, <1>7 DEF here, hereThen

\* No step of a process takes back that an intent was tried.
LEMMA TriedStays ==
  ASSUME NEW i, NEW s, s # "none", istatus' = [istatus EXCEPT ![i] = s]
  PROVE  Untried' \subseteq Untried
  BY DEF Untried

\* A step within an intent.
LEMMA PlaceFalls ==
  ASSUME TypeOK, TypeOK', WorkHere' < WorkHere, UNCHANGED <<cur, job>>, Untried' \subseteq Untried
  PROVE  Work' < Work
<1>1. LessAhead
  BY DEF LessAhead
<1> QED BY <1>1, WorkFalls

\* The end of an intent.
LEMMA LeaveFalls ==
  ASSUME TypeOK, TypeOK', pc \notin {"idle", "trade", "recover"}, LeaveResolved \/ LeaveUnresolved,
         Untried' \subseteq Untried
  PROVE  Work' < Work
<1>1. tries \in 0..(VerificationAttempts - 1) /\ VerificationAttempts \in Nat \ {0} /\ job \in Jobs
  BY LimitsAssumption DEF TypeOK, ProcessTypeOK
<1>2. WorkHere >= 3
  BY <1>1, Places DEF PlacesCounted, TypeOK, ProcessTypeOK, Rounds
<1>3. pc' \in {"idle", "trade", "recover"} /\ cur' = None /\ job'.todo \subseteq job.todo \ {cur}
  <2>1. /\ [job EXCEPT !.todo = @ \ {cur}].todo = job.todo \ {cur}
        /\ [job EXCEPT !.todo = @ \ {cur}, !.stuck = TRUE].todo = job.todo \ {cur}
        /\ NoJob.todo = {}
    BY <1>1 DEF Jobs, NoJob
  <2>2. CASE LeaveResolved
    BY <2>1, <2>2 DEF LeaveResolved
  <2>3. CASE LeaveUnresolved
    <3>1. \/ job' = [job EXCEPT !.todo = @ \ {cur}, !.stuck = TRUE]
          \/ job' = NoJob
      BY <2>3 DEF LeaveUnresolved
    <3>2. pc' \in {"idle", "recover"} /\ cur' = None
      BY <2>3 DEF LeaveUnresolved
    <3> QED BY <2>1, <3>1, <3>2
  <2> QED BY <2>2, <2>3
<1>4. WorkHere' \in 0..2
  BY <1>3, PlacesThen DEF PlacesCounted
<1>5. LessAhead
  BY <1>3 DEF LessAhead
<1>6. WorkHere \in Int /\ WorkHere' \in Int
  BY WorkBounds, WorkBoundsThen DEF WorkBounded
<1>7. WorkHere' < WorkHere
  BY <1>2, <1>4, <1>6
<1> QED BY <1>5, <1>7, WorkFalls

\* The end of a round of _verify.
LEMMA RoundFalls ==
  ASSUME TypeOK, TypeOK', pc \in VerifyPcs, NextAttempt \/ Unknown("known")
  PROVE  Work' < Work
<1>1. CASE Unknown("known")
  <2>1. Untried' \subseteq Untried
    BY <1>1, TriedStays DEF Unknown, Record
  <2> QED BY <1>1, <2>1, LeaveFalls DEF Unknown, VerifyPcs
<1>2. CASE NextAttempt /\ tries + 1 < VerificationAttempts
  <2>1. pc' = "get" /\ tries' = tries + 1 /\ UNCHANGED <<cur, job, istatus>>
    BY <1>2 DEF NextAttempt
  <2>2. tries \in 0..(VerificationAttempts - 1) /\ VerificationAttempts \in Nat \ {0}
    BY LimitsAssumption DEF TypeOK, ProcessTypeOK
  <2>3. WorkHere' = 6 * (VerificationAttempts - 1 - tries') + 8
    BY <2>1, PlacesThen DEF PlacesCounted
  <2>4. WorkHere >= 6 * (VerificationAttempts - 1 - tries) + 3
    BY <2>2, Places DEF PlacesCounted, VerifyPcs
  <2>5. WorkHere \in Int /\ WorkHere' \in Int
    BY WorkBounds, WorkBoundsThen DEF WorkBounded
  <2>6. WorkHere' < WorkHere
    BY <2>1, <2>2, <2>3, <2>4, <2>5
  <2> QED BY <2>1, <2>6, PlaceFalls DEF Untried
<1> QED BY <1>1, <1>2 DEF NextAttempt

\* recover_orders takes an intent off its list, or begins to verify it.
LEMMA RecoveryFalls ==
  ASSUME IInv, IInv', NEW i \in Intents, RecoverUnsent(i) \/ RecoverSent(i) \/ RecoverFails(i)
  PROVE  Work' < Work
<1>1. TypeOK /\ TypeOK' /\ job \in Jobs /\ cur = None /\ i \in job.todo /\ None \notin Intents
  BY NoneAssumption DEF IInv, TypeOK, ProcessTypeOK, RecoverUnsent, RecoverSent, RecoverFails
<1>2. Untried' \subseteq Untried
  BY TriedStays DEF RecoverUnsent, RecoverSent, RecoverFails, Record, Untried
<1>3. (job.todo \ {cur})' = job.todo \ {i}
  <2>1. CASE RecoverSent(i)
    BY <1>1, <2>1 DEF RecoverSent, StartVerify
  <2>2. CASE RecoverUnsent(i) \/ RecoverFails(i)
    <3>1. job'.todo = job.todo \ {i} /\ cur' = None
      BY <1>1, <2>2 DEF RecoverUnsent, RecoverFails, Jobs
    <3> QED BY <1>1, <3>1 DEF Jobs
  <2> QED BY <2>1, <2>2
<1>4. job.todo \ {cur} = job.todo
  BY <1>1 DEF Jobs
<1>5. LessAhead /\ Ahead' # Ahead
  BY <1>1, <1>2, <1>3, <1>4 DEF LessAhead, Ahead
<1> QED BY <1>1, <1>5, WorkFalls

\* Its end is the end of the command or the beginning of the cycle.
LEMMA RecoverDoneFalls ==
  ASSUME IInv, IInv', RecoverDone \/ StartupPasses
  PROVE  Work' < Work
<1>1. TypeOK /\ TypeOK' /\ job \in Jobs /\ pc = "recover" /\ pc' \in {"trade", "idle"}
  BY DEF IInv, TypeOK, ProcessTypeOK, RecoverDone, StartupPasses
<1>2. WorkHere = 2 /\ WorkHere' \in 0..1
  BY <1>1, Places, PlacesThen DEF PlacesCounted
<1>3. job'.todo = {} /\ istatus' = istatus
  BY <1>1 DEF RecoverDone, StartupPasses, NoJob, Jobs
<1>4. LessAhead
  BY <1>3 DEF LessAhead, Untried
<1> QED BY <1>1, <1>2, <1>4, WorkFalls

\* A cycle goes from an intent to its request, to its verification, to the next.
LEMMA ExecuteFalls == ASSUME IInv, IInv', ExecuteStep PROVE Work' < Work
<1>1. /\ TypeOK /\ TypeOK' /\ job \in Jobs /\ istatus \in [Intents -> TerminalStatuses \union PendingStatuses \union {"none"}]
      /\ VerificationAttempts \in Nat \ {0}
  BY LimitsAssumption DEF IInv, TypeOK, ProcessTypeOK, TablesTypeOK
<1>2. PlacesCounted /\ PlacesCounted'
  BY <1>1, Places, PlacesThen
<1>3. CASE EndCycle
  <2>1. WorkHere' = 0 /\ WorkHere \in {1, 3}
    BY <1>2, <1>3 DEF EndCycle, PlacesCounted
  <2>2. job'.todo = {} /\ istatus' = istatus
    BY <1>3 DEF EndCycle, NoJob
  <2>3. LessAhead
    BY <2>2 DEF LessAhead, Untried
  <2> QED BY <1>1, <2>1, <2>3, WorkFalls
<1>4. ASSUME NEW i \in Intents, Prepare(i) PROVE Work' < Work
  <2>1. i \in Untried /\ Untried' = Untried \ {i}
    BY <1>1, <1>4 DEF Prepare, Untried
  <2>2. (job.todo \ {cur})' \subseteq job.todo \ {cur}
    BY <1>1, <1>4, NoneAssumption DEF Prepare, TypeOK, ProcessTypeOK, Jobs
  <2>3. LessAhead /\ Ahead' # Ahead
    BY <2>1, <2>2 DEF LessAhead, Ahead
  <2> QED BY <1>1, <2>3, WorkFalls
<1>5. ASSUME NEW n \in 0..MaxFills, PaperExecute(n) PROVE Work' < Work
  <2>1. Untried' \subseteq Untried
    <3>1. PICK s \in {"ABORTED", "CANCELLED", "PARTIAL", "FILLED"} : istatus' = [istatus EXCEPT ![cur] = s]
      BY <1>5 DEF PaperExecute
    <3> QED BY <3>1, TriedStays
  <2> QED BY <1>1, <1>5, <2>1, LeaveFalls DEF PaperExecute
<1>6. CASE MarkSubmitting
  <2>1. Untried' \subseteq Untried
    BY <1>6, TriedStays DEF MarkSubmitting
  <2>2. WorkHere' < WorkHere
    BY <1>1, <1>2, <1>6 DEF MarkSubmitting, Goto, PlacesCounted, Rounds
  <2> QED BY <1>1, <1>6, <2>1, <2>2, PlaceFalls DEF MarkSubmitting, Goto
<1>7. CASE Submit \/ NoAnswer
  <2>1. WorkHere' < WorkHere
    BY <1>1, <1>2, <1>7 DEF Submit, NoAnswer, Goto, PlacesCounted, Rounds
  <2> QED BY <1>1, <1>7, <2>1, PlaceFalls DEF Submit, NoAnswer, Goto, Untried
<1>8. CASE SubmitRefused
  BY <1>1, <1>8, LeaveFalls DEF SubmitRefused, Untried
<1>9. CASE Rejected \/ NotDiscovered
  <2>1. Untried' \subseteq Untried
    BY <1>9, TriedStays DEF Rejected, NotDiscovered, Unknown, Record
  <2> QED BY <1>1, <1>9, <2>1, LeaveFalls DEF Rejected, NotDiscovered, Unknown
<1>10. CASE Acknowledged \/ Discovered
  <2>1. Untried' \subseteq Untried
    BY <1>10, TriedStays DEF Acknowledged, Discovered, Record
  <2>2. pc \in {"await", "discover"} /\ pc' = "get" /\ tries' = 0 /\ UNCHANGED <<cur, job>>
    BY <1>10 DEF Acknowledged, Discovered, StartVerify
  <2>3. WorkHere' < WorkHere
    BY <1>1, <1>2, <2>2 DEF PlacesCounted, Rounds
  <2> QED BY <1>1, <2>1, <2>2, <2>3, PlaceFalls
<1> QED BY <1>3, <1>4, <1>5, <1>6, <1>7, <1>8, <1>9, <1>10 DEF ExecuteStep

\* _verify goes from read to read, from round to round, and returns.
LEMMA VerifyFalls == ASSUME IInv, IInv', VerifyStep PROVE Work' < Work
<1>1. /\ TypeOK /\ TypeOK' /\ VerificationAttempts \in Nat /\ tries \in Nat
  BY LimitsAssumption DEF IInv, TypeOK, ProcessTypeOK
<1>2. PlacesCounted /\ PlacesCounted'
  BY <1>1, Places, PlacesThen
<1>3. CASE GetOrder \/ CancelSkipped \/ BeginCancel \/ CancelPost
  <2>1. UNCHANGED <<cur, job, tries, istatus>>
    BY <1>3 DEF GetOrder, CancelSkipped, BeginCancel, CancelPost, Goto
  <2>2. \/ pc = "get" /\ pc' \in {"cancel", "fills"}
        \/ pc = "cancel" /\ pc' \in {"cancelPost", "fills"}
        \/ pc = "cancelPost" /\ pc' = "fills"
    BY <1>3 DEF GetOrder, CancelSkipped, BeginCancel, CancelPost, Goto
  <2>3. WorkHere' < WorkHere
    BY <1>1, <1>2, <2>1, <2>2 DEF PlacesCounted
  <2> QED BY <1>1, <2>1, <2>3, PlaceFalls DEF Untried
<1>4. CASE ReadFails \/ GiveUp \/ CancelRefused \/ NotSettled
  BY <1>1, <1>4, RoundFalls DEF ReadFails, GiveUp, CancelRefused, NotSettled, VerifyPcs
<1>5. CASE ListFills
  <2>1. CASE NextAttempt \/ Unknown("known")
    BY <1>1, <1>5, <2>1, RoundFalls DEF ListFills, VerifyPcs
  <2>2. CASE pc' = "book" /\ UNCHANGED <<tables, cur, tries, job>>
    <3>1. WorkHere' < WorkHere
      BY <1>1, <1>2, <1>5, <2>2 DEF ListFills, PlacesCounted
    <3> QED BY <1>1, <2>2, <3>1, PlaceFalls DEF Untried
  <2> QED BY <1>5, <2>1, <2>2 DEF ListFills
<1>6. CASE Book
  <2>1. Untried' \subseteq Untried
    BY <1>6, TriedStays DEF Book
  <2>2. pc = "book" /\ pc' = "reconcile" /\ UNCHANGED <<cur, job, tries>>
    BY <1>6 DEF Book, Goto
  <2>3. WorkHere' < WorkHere
    BY <1>1, <1>2, <2>2 DEF PlacesCounted
  <2> QED BY <1>1, <2>1, <2>2, <2>3, PlaceFalls
<1>7. CASE Settled
  <2>1. PICK s \in Verdicts : Record(cur, s, "known")
    BY <1>7 DEF Settled
  <2>2. s # "none"
    BY <2>1 DEF Verdicts
  <2>3. Untried' \subseteq Untried
    BY <2>1, <2>2, TriedStays DEF Record
  <2> QED BY <1>1, <1>7, <2>3, LeaveFalls DEF Settled
<1> QED BY <1>3, <1>4, <1>5, <1>6, <1>7 DEF VerifyStep

\* The exchange, the clocks and .env give a process nothing to do, and its death ends it.
LEMMA OthersKeep ==
  ASSUME IInv, IInv', pc # "idle", ExchangeStep \/ Crash \/ EditEnv \/ Tick \/ UNCHANGED vars
  PROVE  Work' <= Work
<1>1. TypeOK /\ TypeOK' /\ WorkHere \in Nat
  BY WorkBounds DEF IInv, WorkBounded
<1>2. CASE Crash
  <2>1. WorkHere' = 0
    BY <1>1, <1>2, PlacesThen DEF Crash, PlacesCounted
  <2>2. LessAhead
    BY <1>2 DEF Crash, NoJob, LessAhead, Untried
  <2> QED BY <1>1, <2>1, <2>2, WorkFalls
<1>3. CASE ExchangeStep \/ EditEnv \/ Tick \/ UNCHANGED vars
  <2>1. UNCHANGED <<pc, cur, tries, job, istatus>>
    BY <1>3 DEF ExchangeStep, EditEnv, Tick, vars
  <2>2. WorkHere' = WorkHere
    BY <2>1 DEF WorkHere, RoundLeft, BeforeVerify, Rounds
  <2>3. LessAhead
    BY <2>1 DEF LessAhead, Untried
  <2> QED BY <1>1, <2>2, <2>3, WorkFalls
<1> QED BY <1>2, <1>3

\* Commands do not loop: whatever is lost, refused or answered late, each step of a process is one
\* less to go, and nothing but its own steps and its death shortens or lengthens the way.
THEOREM ProcessesEndHolds == Spec => ProcessesEnd
<1>1. ASSUME IInv, [Next]_vars, pc # "idle"
      PROVE  Work' <= Work /\ (ProcessStep => Work' < Work)
  <2>1. IInv'
    BY <1>1, NextHolds
  <2>2. Work \in Nat /\ Work' \in Nat
    BY <1>1, <2>1, WorkBounds, WorkBoundsThen DEF IInv, WorkBounded
  <2>3. ProcessStep => Work' < Work
    BY <1>1, <2>1, RecoveryFalls, RecoverDoneFalls, ExecuteFalls, VerifyFalls DEF ProcessStep
  <2>4. CASE ProcessStep
    BY <2>2, <2>3, <2>4
  <2>5. CASE ~ProcessStep
    <3>1. ExchangeStep \/ Crash \/ EditEnv \/ Tick \/ UNCHANGED vars
      BY <1>1, <2>5 DEF Next, ProcessStep, RecoveryStep, StartCommand
    <3> QED BY <1>1, <2>1, <2>5, <3>1, OthersKeep
  <2> QED BY <2>3, <2>4, <2>5
<1>2. IInv /\ [Next]_vars => [pc # "idle" => Work' <= Work /\ (ProcessStep => Work' < Work)]_vars
  BY <1>1
<1> QED BY <1>2, Invariance, PTL DEF Spec, ProcessesEnd
-----------------------------------------------------------------------------
(***************************************************************************)
(* What the refusals of the executor may not refuse.  TraceInv is what the *)
(* theorem needs besides IInv: an attempt to cancel is of an order of      *)
(* known id, and the exchange fills no order without executions.           *)
(***************************************************************************)

\* A step records an attempt of an order whose id is known.
LEMMA AttemptStep ==
  ASSUME IInv, [Next]_vars, NEW i \in LiveIntents, attempts'[i] # attempts[i]
  PROVE  orderRow[i] = "known"
<1>1. CASE BeginCancel
  <2>1. orderRow[cur] = "known"
    BY <1>1, VerifyFacts DEF BeginCancel, VerifyPcs
  <2>2. i = cur
    BY <1>1 DEF BeginCancel, IInv, TypeOK, TablesTypeOK
  <2> QED BY <2>1, <2>2
<1>2. CASE RecoveryStep
  BY <1>2 DEF RecoveryStep, StartCommand, RecoverUnsent, RecoverSent, RecoverFails, RecoverDone, StartupPasses, Record
<1>3. CASE ExecuteStep
  BY <1>3
  DEF ExecuteStep, EndCycle, Prepare, PaperExecute, MarkSubmitting, Submit, SubmitRefused,
      Acknowledged, Rejected, NoAnswer, Discovered, NotDiscovered, Unknown, Record
<1>4. CASE VerifyStep /\ ~BeginCancel
  <2>1. CASE NextAttempt \/ Unknown("known")
    BY <2>1 DEF NextAttempt, Unknown, Record
  <2>2. CASE ListFills
    BY <2>1, <2>2 DEF ListFills
  <2> QED
    BY <1>4, <2>1, <2>2
    DEF VerifyStep, GetOrder, ReadFails, GiveUp, CancelSkipped, CancelRefused, CancelPost,
        Book, Settled, NotSettled, Record
<1>5. CASE ExchangeStep \/ Crash \/ EditEnv \/ Tick \/ UNCHANGED vars
  BY <1>5 DEF ExchangeStep, Crash, EditEnv, Tick, vars
<1> QED BY <1>1, <1>2, <1>3, <1>4, <1>5 DEF Next

\* A step fills an order that has executions, and no step takes an execution back.
LEMMA FilledStep ==
  ASSUME IInv, [Next]_vars, NEW i \in LiveIntents
  PROVE  /\ executed'[i] >= executed[i]
         /\ exStatus'[i] = "FILLED" => exStatus[i] = "FILLED" \/ executed[i] > 0
<1>1. executed[i] \in 0..MaxFills /\ executed \in [LiveIntents -> 0..MaxFills]
      /\ exStatus \in [LiveIntents -> ActiveStatuses \union FinalStatuses \union {"none"}]
  BY DEF IInv, TypeOK, ExchangeTypeOK
<1>2. CASE ExchangeStep
  <2>1. CASE \E j \in LiveIntents : Deliver(j) \/ Drop(j) \/ Trade(j) \/ Settle(j)
    BY <1>1, <2>1, MaxFillsAssumption DEF Deliver, Drop, Trade, Settle
  <2>2. CASE \E j \in LiveIntents, s \in FinalStatuses : Finish(j, s)
    BY <1>1, <2>2, MaxFillsAssumption DEF Finish
  <2>3. CASE \E f \in LiveFills : Credit(f)
    BY <1>1, <2>3, MaxFillsAssumption DEF Credit
  <2> QED BY <1>2, <2>1, <2>2, <2>3 DEF ExchangeStep, ExchangeNext
<1>3. CASE CancelPost
  <2>1. executed' = executed /\ exStatus' \in {exStatus, [exStatus EXCEPT ![cur] = "CANCEL_QUEUED"]}
    BY <1>3 DEF CancelPost
  <2> QED BY <1>1, <2>1, MaxFillsAssumption
<1>4. CASE UNCHANGED <<exStatus, executed>>
  BY <1>1, <1>4, MaxFillsAssumption
<1>5. RecoveryStep \/ ExecuteStep \/ (VerifyStep /\ ~CancelPost) => UNCHANGED <<exStatus, executed>>
  BY DEF RecoveryStep, StartCommand, RecoverUnsent, RecoverSent, RecoverFails, RecoverDone, StartupPasses,
         ExecuteStep, EndCycle, Prepare, PaperExecute, MarkSubmitting, Submit, SubmitRefused,
         Acknowledged, Rejected, NoAnswer, Discovered, NotDiscovered,
         VerifyStep, GetOrder, ReadFails, GiveUp, CancelSkipped, BeginCancel, CancelRefused,
         ListFills, Book, Settled, NotSettled
<1>6. Crash \/ EditEnv \/ Tick \/ UNCHANGED vars => UNCHANGED <<exStatus, executed>>
  BY DEF Crash, EditEnv, Tick, vars
<1> QED BY <1>2, <1>3, <1>4, <1>5, <1>6 DEF Next

\* TraceInv is an invariant.
LEMMA TraceHolds == Spec => []TraceInv
<1>1. Init => TraceInv
  BY DEF Init, ExchangeInit, TraceInv
<1>2. ASSUME IInv, IInv', TraceInv, [Next]_vars PROVE TraceInv'
  <2>1. SUFFICES ASSUME NEW i \in LiveIntents
                 PROVE  /\ attempts'[i] > 0 => orderRow'[i] = "known"
                        /\ exStatus'[i] = "FILLED" => executed'[i] > 0
    BY DEF TraceInv
  <2>2. attempts'[i] > 0 => orderRow[i] = "known"
    BY <1>2, AttemptStep DEF TraceInv
  <2>3. attempts'[i] > 0 => orderRow'[i] = "known"
    BY <1>2, <2>2, IdentityStep
  <2>4. executed[i] \in Nat /\ executed'[i] \in Nat
    BY <1>2, MaxFillsAssumption DEF IInv, TypeOK, ExchangeTypeOK
  <2>5. exStatus'[i] = "FILLED" => executed'[i] > 0
    BY <1>2, <2>4, FilledStep DEF TraceInv
  <2> QED BY <2>3, <2>5
<1> QED BY <1>1, <1>2, Invariance, PTL DEF Spec

\* The refusals that keep an order for a person or for a later round (ORDER_STATE_CONFLICT,
\* FILL_HISTORY_MISSING, incomplete totals, an account that differs) never meet the truth; of
\* the refusals of _settle only the history gap is left (RECONCILIATION_HISTORY_GAP).
THEOREM TruthAcceptedHolds == Spec => []TruthAccepted
<1>1. ASSUME IInv, NEW i \in LiveIntents, istatus[i] = "PREPARED", TraceInv
      PROVE  orderRow[i] = "absent" /\ BookedOf(i) = {} /\ attempts[i] = 0
  <2>1. orderRow[i] = "absent" /\ executed[i] = 0
    BY <1>1 DEF IInv, DataInv, PostedOnce, PostInv
  <2>2. attempts[i] \in Nat /\ ~(attempts[i] > 0)
    BY <1>1, <2>1 DEF IInv, TypeOK, TablesTypeOK, TraceInv
  <2> QED BY <1>1, <2>1, <2>2, NothingExecuted
<1>2. ASSUME IInv, TraceInv, pc = "fills", view.status \in FinalStatuses, view.settled
      PROVE  BookedOf(cur) \subseteq FillsOf(cur) /\ Complete(1..executed[cur])
  <2>1. cur \in LiveIntents /\ executed[cur] \in Nat
    BY <1>2, VerifyFacts, MaxFillsAssumption DEF IInv, TypeOK, ExchangeTypeOK, VerifyPcs
  <2>2. BookedOf(cur) \subseteq FillsOf(cur)
    BY <1>2, <2>1, MaxFillsAssumption
    DEF IInv, DataInv, BookedOnce, BookedOf, ExecutedFills, LiveFills, FillsOf
  <2>3. view.count = executed[cur] /\ exStatus[cur] = view.status
    BY <1>2 DEF IInv, ViewInv, VerifyPcs
  <2>4. Cardinality(1..executed[cur]) = executed[cur]
    <3>1. Cardinality(1..executed[cur]) = IF 1 > executed[cur] THEN 0 ELSE executed[cur] - 1 + 1
      BY <2>1, FS_Interval
    <3> QED BY <2>1, <3>1
  <2>5. view.status = "FILLED" => 1..executed[cur] # {}
    <3>1. view.status = "FILLED" => 1 \in 1..executed[cur]
      BY <1>2, <2>1, <2>3 DEF TraceInv
    <3> QED BY <3>1
  <2> QED BY <1>2, <2>2, <2>3, <2>4, <2>5 DEF Complete
<1>3. ASSUME IInv, pc = "reconcile", credited = ExecutedFills, ~HistoryGap
      PROVE  Reconciled("live")
  BY <1>3, BooksShowAll DEF Reconciled, Balance
<1>4. IInv /\ TraceInv => TruthAccepted
  BY <1>1, <1>2, <1>3 DEF TruthAccepted
<1> QED BY <1>4, Invariance, TraceHolds, PTL

-----------------------------------------------------------------------------
\* The stop that RECONCILIATION_HISTORY_GAP is (portfolio.py): once six days have passed since the
\* last reconciliation, no sequence of commands in either mode, recovery or restart lifts it, no
\* live intent is created, and no verdict that rests on the account is reached.
THEOREM HistoryGapStops ==
  Spec => [][HistoryGap => /\ HistoryGap' /\ ~Settled
                           /\ \A i \in LiveIntents : istatus[i] = "none" => istatus'[i] = "none"]_vars
<1> DEFINE Stopped == /\ HistoryGap' /\ ~Settled
                      /\ \A i \in LiveIntents : istatus[i] = "none" => istatus'[i] = "none"
<1>1. ASSUME IInv, [Next]_vars, HistoryGap PROVE Stopped
  <2>1. ~Settled
    BY <1>1 DEF Settled, Reconciled
  <2>2. HistoryGap'
    <3>1. CASE gap' = gap
      BY <1>1, <3>1 DEF HistoryGap
    <3>2. ExchangeSeen => gap' = gap
      BY <1>1 DEF ExchangeSeen
    <3>3. CASE RecoveryStep
      BY <3>1, <3>2, <3>3
      DEF RecoveryStep, StartCommand, RecoverUnsent, RecoverSent, RecoverFails, RecoverDone,
          StartupPasses
    <3>4. CASE ExecuteStep
      BY <3>1, <3>2, <3>4
      DEF ExecuteStep, EndCycle, Prepare, PaperExecute, MarkSubmitting, Submit, SubmitRefused,
          Acknowledged, Rejected, NoAnswer, Discovered, NotDiscovered
    <3>5. CASE VerifyStep
      BY <2>1, <3>1, <3>5
      DEF VerifyStep, GetOrder, ReadFails, GiveUp, CancelSkipped, BeginCancel, CancelRefused,
          CancelPost, ListFills, Book, NotSettled
    <3>6. CASE ExchangeStep \/ Crash \/ EditEnv \/ Tick \/ UNCHANGED vars
      BY <1>1, <3>1, <3>6 DEF ExchangeStep, Crash, EditEnv, Tick, vars
    <3> QED BY <1>1, <3>3, <3>4, <3>5, <3>6 DEF Next
  <2>3. ASSUME NEW i \in LiveIntents, istatus[i] = "none" PROVE istatus'[i] = "none"
    <3>1. CASE UNCHANGED istatus
      BY <2>3, <3>1
    <3>2. pc \in LivePcs \union {"paper"} => cur # i
      BY <1>1, <2>3, PaperIntentsAssumption DEF IInv, ProcessInv, LivePcs, VerifyPcs
    <3>3. i \notin Unresolved
      BY <2>3 DEF Unresolved, PendingStatuses
    <3>4. ASSUME NEW j \in Intents, NEW st, NEW row, Record(j, st, row), j # i
          PROVE  istatus'[i] = "none"
      BY <1>1, <2>3, <3>4 DEF Record
    <3>5. ASSUME NEW j \in Intents, Prepare(j) PROVE istatus'[i] = "none"
      <4>1. j # i
        BY <1>1, <3>5 DEF Prepare, Reconciled, ModeOf
      <4> QED BY <2>3, <3>5, <4>1 DEF Prepare
    <3>6. CASE RecoveryStep
      <4>1. ASSUME NEW j \in Intents, RecoverUnsent(j) PROVE istatus'[i] = "none"
        BY <1>1, <3>3, <3>4, <4>1 DEF RecoverUnsent, IInv, ProcessInv
      <4> QED
        BY <3>1, <3>6, <4>1
        DEF RecoveryStep, StartCommand, RecoverSent, RecoverFails, RecoverDone, StartupPasses
    <3>7. CASE ExecuteStep
      <4>1. ASSUME NEW n \in 0..MaxFills, PaperExecute(n) PROVE istatus'[i] = "none"
        BY <2>3, <3>2, <4>1 DEF PaperExecute
      <4>2. CASE MarkSubmitting
        BY <2>3, <3>2, <4>2 DEF MarkSubmitting, LivePcs
      <4>3. CASE Acknowledged \/ Rejected \/ Discovered \/ NotDiscovered
        <5>1. pc \in LivePcs /\ cur \in Intents
          BY <1>1, <4>3
          DEF Acknowledged, Rejected, Discovered, NotDiscovered, LivePcs, IInv, ProcessInv
        <5>2. cur # i
          BY <3>2, <5>1
        <5> QED
          BY <3>4, <4>3, <5>1, <5>2 DEF Acknowledged, Rejected, Discovered, NotDiscovered, Unknown
      <4> QED
        BY <3>1, <3>5, <3>7, <4>1, <4>2, <4>3
        DEF ExecuteStep, EndCycle, Submit, SubmitRefused, NoAnswer
    <3>8. CASE VerifyStep
      <4>1. pc \in VerifyPcs
        BY <3>8
        DEF VerifyStep, GetOrder, ReadFails, GiveUp, CancelSkipped, BeginCancel, CancelRefused,
            CancelPost, ListFills, Book, Settled, NotSettled, VerifyPcs
      <4>2. cur \in Intents /\ cur # i
        BY <1>1, <3>2, <4>1 DEF LivePcs, IInv, ProcessInv
      <4>3. CASE NextAttempt \/ Unknown("known")
        BY <3>1, <3>4, <4>2, <4>3 DEF NextAttempt, Unknown
      <4>4. CASE Book
        BY <2>3, <4>2, <4>4 DEF Book
      <4> QED
        BY <2>1, <3>1, <3>8, <4>3, <4>4
        DEF VerifyStep, GetOrder, ReadFails, GiveUp, CancelSkipped, BeginCancel, CancelRefused,
            CancelPost, ListFills, NotSettled
    <3>9. CASE ExchangeStep \/ Crash \/ EditEnv \/ Tick \/ UNCHANGED vars
      BY <3>1, <3>9 DEF ExchangeStep, Crash, EditEnv, Tick, vars
    <3> QED BY <1>1, <3>6, <3>7, <3>8, <3>9 DEF Next
  <2> QED BY <2>1, <2>2, <2>3
<1>2. IInv /\ [Next]_vars => [HistoryGap => Stopped]_vars
  BY <1>1
<1> QED BY <1>2, Invariance, PTL DEF Spec
=============================================================================
