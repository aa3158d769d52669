---------------------------- MODULE LiveExecutor ----------------------------
(***************************************************************************)
(* execution.py over the order tables of storage.py: how an intent becomes *)
(* at most one order, and how that order's outcome is found out and booked *)
(* when answers are lost, reads lag, the process dies, or .env is edited   *)
(* between two steps.  The process lock of storage.py admits one process   *)
(* at a time, so there is one program counter; each SQLite transaction and *)
(* each request to the exchange is one step.                               *)
(*                                                                         *)
(* Amounts are counted in fills: the strategy ledger and the expected      *)
(* exchange balance are the number of fills applied to them.               *)
(***************************************************************************)
EXTENDS Exchange

CONSTANTS PaperIntents,          \* client order ids of the paper strategy
          None,                  \* no intent
          VerificationAttempts,  \* execution.verification_attempts
          MaxCancelAttempts,     \* execution.max_cancel_attempts
          MaxOrderAge,           \* execution.max_order_age_seconds, in ticks
          CancelRetry,           \* execution.cancel_retry_seconds, in ticks
          MaxGap                 \* the six days of reconciliation_reasons, in ticks

ASSUME PaperIntentsAssumption ==
  IsFiniteSet(PaperIntents) /\ PaperIntents \intersect LiveIntents = {}
ASSUME NoneAssumption == None \notin LiveIntents \union PaperIntents
ASSUME LimitsAssumption ==
  /\ VerificationAttempts \in Nat \ {0}
  /\ MaxCancelAttempts \in Nat \ {0}
  /\ MaxOrderAge \in Nat
  /\ CancelRetry \in Nat
  /\ MaxGap \in Nat

VARIABLES istatus,      \* order_intents.status, or "none" before the row exists
          orderRow,     \* orders: no row, a row without, or with the order id
          booked,       \* the fills table
          ledger,       \* strategy_state: fills applied to each mode's ledger
          expected,     \* exchange_state: fills the checkpoint accounts for
          attempts,     \* cancellation_attempts rows of each order
          age,          \* ticks since the intent was created, up to MaxOrderAge
          since,        \* ticks since the last attempt row, up to CancelRetry
          gap,          \* ticks since exchange_state.last_reconciled_at, to MaxGap + 1
          envMode,      \* TRADING_MODE in .env, which may be edited at any time
          pc, cur,      \* where the process is, and the intent it works on
          tries, view,  \* _verify: attempt index, and what its reads returned
          job,          \* the command, its mode, and the state of recover_orders
          posts,        \* history: order POSTs sent for each intent
          cancelPosts   \* history: cancellation POSTs sent for each intent

tables == <<istatus, orderRow, booked, ledger, expected, attempts>>
clocks == <<age, since, gap>>
process == <<pc, cur, tries, view, job>>
sent == <<posts, cancelPosts>>
vars == <<exVars, tables, clocks, envMode, process, sent>>

Modes == {"live", "paper"}
Intents == LiveIntents \union PaperIntents
Fills == Intents \X (1..MaxFills)
ModeOf(i) == IF i \in LiveIntents THEN "live" ELSE "paper"
BookedOf(i) == {f \in booked : f[1] = i}

TerminalStatuses == {"FILLED", "PARTIAL", "CANCELLED", "REJECTED", "ABORTED"}
PendingStatuses == {"PREPARED", "SUBMITTING", "UNRESOLVED"}

\* Mutant: UNRESOLVED is taken for the end of an order.
UnresolvedUnfinished == {i \in Intents : istatus[i] \in {"PREPARED", "SUBMITTING"}}

\* Storage.unresolved: every intent whose status is not terminal, of both modes.
Unresolved == {i \in Intents : istatus[i] \in PendingStatuses}

NoView == [status |-> "none", count |-> 0, settled |-> FALSE, got |-> {}]
NoJob == [cmd |-> "none", mode |-> "paper", recovering |-> FALSE,
          todo |-> {}, stuck |-> FALSE]

Init ==
  /\ ExchangeInit
  /\ istatus = [i \in Intents |-> "none"]
  /\ orderRow = [i \in Intents |-> "absent"]
  /\ booked = {}
  /\ ledger = [m \in Modes |-> 0]
  /\ expected = 0
  /\ attempts = [i \in LiveIntents |-> 0]
  /\ age = [i \in LiveIntents |-> 0]
  /\ since = [i \in LiveIntents |-> 0]
  /\ gap = 0
  /\ envMode \in Modes
  /\ pc = "idle" /\ cur = None /\ tries = 0 /\ view = NoView /\ job = NoJob
  /\ posts = [i \in LiveIntents |-> 0]
  /\ cancelPosts = [i \in LiveIntents |-> 0]

-----------------------------------------------------------------------------
\* Building blocks of the steps.

\* BaseExecutor.verify_mode reads .env again each time.
ModeVerified(i) == envMode = ModeOf(i)

\* Storage.record_result without fills: the result row and the intent's status.
Record(i, status, row) ==
  /\ istatus' = [istatus EXCEPT ![i] = status]
  /\ orderRow' = [orderRow EXCEPT ![i] = row]
  /\ UNCHANGED <<booked, ledger, expected, attempts>>

Goto(p) == pc' = p /\ UNCHANGED <<cur, tries, view, job>>

\* The intent is terminal: recovery takes the next one, a cycle trades on.
LeaveResolved ==
  /\ pc' = IF job.recovering THEN "recover" ELSE "trade"
  /\ job' = [job EXCEPT !.todo = @ \ {cur}]
  /\ cur' = None /\ tries' = 0 /\ view' = NoView

\* It is not: recovery remembers that and goes on, a cycle ends with an error.
LeaveUnresolved ==
  /\ pc' = IF job.recovering THEN "recover" ELSE "idle"
  /\ job' = IF job.recovering THEN [job EXCEPT !.todo = @ \ {cur}, !.stuck = TRUE]
                              ELSE NoJob
  /\ cur' = None /\ tries' = 0 /\ view' = NoView

\* _unknown, then the caller's return.
Unknown(row) == Record(cur, "UNRESOLVED", row) /\ LeaveUnresolved

\* The first read of _verify.
StartVerify == pc' = "get" /\ tries' = 0 /\ view' = NoView /\ UNCHANGED job

\* The end of one round of _verify that did not return.
NextAttempt ==
  IF tries + 1 < VerificationAttempts
  THEN /\ pc' = "get" /\ tries' = tries + 1 /\ view' = NoView
       /\ UNCHANGED <<cur, job, tables>>
  ELSE Unknown("known")

\* Mutant: any recovery may cancel.
AllowCancelAlways == TRUE

\* Recovery may cancel only in a live run or live maintenance; execute always.
AllowCancel == ~job.recovering \/ (job.cmd \in {"run", "maintain"} /\ job.mode = "live")

\* RECONCILIATION_HISTORY_GAP: the window of recent fills no longer reaches back to the
\* last reconciliation.
HistoryGap == gap > MaxGap

\* reconcile_actual passes: in both modes no order of the account may be open; in live mode
\* the balances must also be the expected ones, and be known to have been so recently.
Reconciled(m) == OpenOrders = {} /\ (m = "live" => Balance = expected /\ ~HistoryGap)

\* Storage.exchange_seen, then: what paper mode only observed does not move the checkpoint.
ExchangeSeen ==
  /\ gap' = IF Balance = expected /\ ~HistoryGap THEN 0 ELSE gap
  /\ UNCHANGED <<age, since>>

-----------------------------------------------------------------------------
\* Commands and recovery.

\* Mutant: every intent is recovered, not only the unresolved ones.
StartCommandAll(cmd) ==
  /\ pc = "idle"
  /\ cmd = "maintain" => Unresolved # {}
  /\ pc' = "recover"
  /\ job' = [cmd |-> cmd, mode |-> envMode, recovering |-> TRUE,
             todo |-> {i \in Intents : istatus[i] # "none"}, stuck |-> FALSE]
  /\ UNCHANGED <<exVars, tables, clocks, envMode, cur, tries, view, sent>>

\* A command reads TRADING_MODE, takes the lock and lists the unresolved intents.
\* "inspect" stands for doctor and startup-checks.  Maintenance of nothing is a no-op.
StartCommand(cmd) ==
  /\ pc = "idle"
  /\ cmd = "maintain" => Unresolved # {}
  /\ pc' = "recover"
  /\ job' = [cmd |-> cmd, mode |-> envMode, recovering |-> TRUE,
             todo |-> Unresolved, stuck |-> FALSE]
  /\ UNCHANGED <<exVars, tables, clocks, envMode, cur, tries, view, sent>>

\* Mutant: a process recovers the intents of its own mode only.
RecoverUnsentOwnMode(i) ==
  /\ pc = "recover" /\ i \in job.todo /\ job.mode = ModeOf(i)
  /\ i \in PaperIntents \/ istatus[i] = "PREPARED"
  /\ Record(i, "ABORTED", "null") /\ job' = [job EXCEPT !.todo = @ \ {i}]
  /\ UNCHANGED <<exVars, clocks, envMode, pc, cur, tries, view, sent>>

\* PaperExecutor.recover, and the PREPARED branch of the live one: SUBMITTING is
\* durable before the POST, so PREPARED without a trace of a request proves that
\* none was sent.  With a trace the order is left for a person (ORDER_STATE_CONFLICT).
RecoverUnsent(i) ==
  /\ pc = "recover" /\ i \in job.todo
  /\ i \in PaperIntents \/ istatus[i] = "PREPARED"
  /\ IF i \in PaperIntents \/ (orderRow[i] = "absent" /\ BookedOf(i) = {} /\ attempts[i] = 0)
     THEN Record(i, "ABORTED", "null") /\ job' = [job EXCEPT !.todo = @ \ {i}]
     ELSE /\ Record(i, "UNRESOLVED", IF orderRow[i] = "known" THEN "known" ELSE "null")
          /\ job' = [job EXCEPT !.todo = @ \ {i}, !.stuck = TRUE]
  /\ UNCHANGED <<exVars, clocks, envMode, pc, cur, tries, view, sent>>

\* Mutant: live orders are verified by a live process only.
RecoverSentOwnMode(i) ==
  /\ pc = "recover" /\ i \in job.todo /\ i \in LiveIntents /\ job.mode = "live"
  /\ istatus[i] # "PREPARED"
  /\ cur' = i
  /\ IF orderRow[i] = "known" THEN StartVerify
     ELSE pc' = "discover" /\ UNCHANGED <<tries, view, job>>
  /\ UNCHANGED <<exVars, tables, clocks, envMode, sent>>

\* The other branches of the live recover: verify the known order, or look for it.
RecoverSent(i) ==
  /\ pc = "recover" /\ i \in job.todo /\ i \in LiveIntents
  /\ istatus[i] # "PREPARED"
  /\ cur' = i
  /\ IF orderRow[i] = "known" THEN StartVerify
     ELSE pc' = "discover" /\ UNCHANGED <<tries, view, job>>
  /\ UNCHANGED <<exVars, tables, clocks, envMode, sent>>

\* Permissions, credentials or a read fail: this intent stays, the next is tried.
RecoverFails(i) ==
  /\ pc = "recover" /\ i \in job.todo
  /\ job' = [job EXCEPT !.todo = @ \ {i}, !.stuck = TRUE]
  /\ UNCHANGED <<exVars, tables, clocks, envMode, pc, cur, tries, view, sent>>

\* recover_orders raises when anything is left, maintenance is over, or a startup check fails.
RecoverDone ==
  /\ pc = "recover" /\ job.todo = {}
  /\ pc' = "idle" /\ job' = NoJob
  /\ UNCHANGED <<exVars, tables, clocks, envMode, cur, tries, view, sent>>

\* Orchestrator.startup once nothing is unresolved: the account reconciles, and a run trades.
StartupPasses ==
  /\ pc = "recover" /\ job.todo = {} /\ ~job.stuck /\ job.cmd # "maintain"
  /\ Reconciled(job.mode) /\ ExchangeSeen
  /\ IF job.cmd = "run"
     THEN pc' = "trade" /\ job' = [job EXCEPT !.recovering = FALSE]
     ELSE pc' = "idle" /\ job' = NoJob
  /\ UNCHANGED <<exVars, tables, envMode, cur, tries, view, sent>>

\* The cycle completes, holds, or fails one of its checks, the reconciliation of its own
\* account snapshot before or after.
EndCycle ==
  /\ pc \in {"trade", "paper"}
  /\ pc' = "idle" /\ job' = NoJob /\ cur' = None
  /\ \/ UNCHANGED clocks
     \/ pc = "trade" /\ Reconciled(job.mode) /\ ExchangeSeen
  /\ UNCHANGED <<exVars, tables, envMode, tries, view, sent>>

-----------------------------------------------------------------------------
\* BaseExecutor.prepare and the two execute methods.

Prepare(i) ==
  /\ pc = "trade" /\ i \in Intents /\ istatus[i] = "none"
  /\ job.mode = ModeOf(i) /\ ModeVerified(i)
  /\ Unresolved = {}
  /\ Reconciled(job.mode) /\ ExchangeSeen
  /\ istatus' = [istatus EXCEPT ![i] = "PREPARED"]
  /\ pc' = IF i \in LiveIntents THEN "prepared" ELSE "paper"
  /\ cur' = i
  /\ UNCHANGED <<exVars, orderRow, booked, ledger, expected, attempts,
                 envMode, tries, view, job, sent>>

\* PaperExecutor.execute: the simulated fills, the ledger and the result commit
\* together; no fill at all when the quote has moved or the price does not cross.
PaperExecute(n) ==
  /\ pc = "paper"
  /\ \E s \in IF n = 0 THEN {"ABORTED", "CANCELLED"} ELSE {"PARTIAL", "FILLED"} :
       /\ istatus' = [istatus EXCEPT ![cur] = s]
       /\ orderRow' = [orderRow EXCEPT ![cur] = IF s = "ABORTED" THEN "null" ELSE "known"]
  /\ booked' = booked \union {<<cur, k>> : k \in 1..n}
  /\ ledger' = [ledger EXCEPT !["paper"] = @ + n]
  /\ LeaveResolved
  /\ UNCHANGED <<exVars, expected, attempts, clocks, envMode, sent>>

\* Mutant: the POST is sent while the intent is still PREPARED.
SubmitUnmarked ==
  /\ pc = "prepared" /\ ModeVerified(cur)
  /\ wire' = wire \union {cur}
  /\ posts' = [posts EXCEPT ![cur] = @ + 1]
  /\ Goto("await")
  /\ UNCHANGED <<exStatus, executed, settled, credited, tables, clocks, envMode, cancelPosts>>

\* The uncertainty is durable before the request.
MarkSubmitting ==
  /\ pc = "prepared"
  /\ istatus' = [istatus EXCEPT ![cur] = "SUBMITTING"]
  /\ Goto("marked")
  /\ UNCHANGED <<exVars, orderRow, booked, ledger, expected, attempts, clocks, envMode, sent>>

\* adapter.submit, once, after .env is read again.
Submit ==
  /\ pc = "marked" /\ ModeVerified(cur)
  /\ wire' = wire \union {cur}
  /\ posts' = [posts EXCEPT ![cur] = @ + 1]
  /\ Goto("await")
  /\ UNCHANGED <<exStatus, executed, settled, credited, tables, clocks, envMode, cancelPosts>>

\* .env was edited after SUBMITTING was committed: the cycle ends, the intent stays.
SubmitRefused ==
  /\ pc = "marked" /\ ~ModeVerified(cur)
  /\ LeaveUnresolved
  /\ UNCHANGED <<exVars, tables, clocks, envMode, sent>>

\* A well-formed acknowledgement of this client id.
Acknowledged ==
  /\ pc = "await" /\ exStatus[cur] # "none"
  /\ Record(cur, "UNRESOLVED", "known")
  /\ StartVerify /\ UNCHANGED cur
  /\ UNCHANGED <<exVars, clocks, envMode, sent>>

\* A well-formed business rejection proves that no order exists.
Rejected ==
  /\ pc = "await" /\ cur \in wire
  /\ wire' = wire \ {cur}
  /\ Record(cur, "REJECTED", "null")
  /\ LeaveResolved
  /\ UNCHANGED <<exStatus, executed, settled, credited, clocks, envMode, sent>>

\* Mutant: no answer is taken for a rejection.
NoAnswerRejects ==
  /\ pc = "await"
  /\ Record(cur, "REJECTED", "null")
  /\ LeaveResolved
  /\ UNCHANGED <<exVars, clocks, envMode, sent>>

\* A timeout, an error or any other answer; the POST may still be on its way.
NoAnswer ==
  /\ pc = "await"
  /\ Goto("discover")
  /\ UNCHANGED <<exVars, tables, clocks, envMode, sent>>

\* find_order lists the order of this client id.
Discovered ==
  /\ pc = "discover" /\ exStatus[cur] # "none"
  /\ Record(cur, "UNRESOLVED", "known")
  /\ StartVerify /\ UNCHANGED cur
  /\ UNCHANGED <<exVars, clocks, envMode, sent>>

\* It does not, which proves nothing, or the read fails.
NotDiscovered ==
  /\ pc = "discover"
  /\ Unknown("null")
  /\ UNCHANGED <<exVars, clocks, envMode, sent>>

-----------------------------------------------------------------------------
\* _verify: bounded rounds of GET order, perhaps a cancellation, list fills, decide.

\* GET order answers.  An overdue active order may be cancelled before its fills are read.
GetOrder ==
  /\ pc = "get"
  /\ \E n \in ReportedCounts(cur) :
       view' = [status |-> exStatus[cur], count |-> n, settled |-> settled[cur], got |-> {}]
  /\ pc' = IF exStatus[cur] \in ActiveStatuses /\ age[cur] >= MaxOrderAge /\ AllowCancel
           THEN "cancel" ELSE "fills"
  /\ UNCHANGED <<exVars, tables, clocks, envMode, cur, tries, job, sent>>

\* A read fails or an answer is malformed: the next round, if there is one.
ReadFails ==
  /\ pc \in {"get", "fills"}
  /\ NextAttempt
  /\ UNCHANGED <<exVars, clocks, envMode, sent>>

\* Mutant: the order id is forgotten.
GiveUpForgetting ==
  /\ pc \in {"get", "fills"}
  /\ Unknown("null")
  /\ UNCHANGED <<exVars, clocks, envMode, sent>>

\* ORDER_IDENTITY_MISMATCH, ORDER_STATUS_UNKNOWN, ORDER_TOTALS_INVALID, OVERFILL and
\* LIMIT_PRICE_VIOLATION return at once.
GiveUp ==
  /\ pc \in {"get", "fills"}
  /\ Unknown("known")
  /\ UNCHANGED <<exVars, clocks, envMode, sent>>

\* _cancel_overdue: the order's pending_cancel flag is set or missing, the attempts are
\* used up, or the last one is too recent.  The order is read on in any case.
CancelSkipped ==
  /\ pc = "cancel"
  /\ Goto("fills")
  /\ UNCHANGED <<exVars, tables, clocks, envMode, sent>>

\* Mutant: the attempt is recorded by finish_cancellation only, so a process that dies
\* during the request leaves no trace of it.
BeginCancelUnrecorded ==
  /\ pc = "cancel" /\ view.status # "CANCEL_QUEUED"
  /\ attempts[cur] < MaxCancelAttempts
  /\ attempts[cur] > 0 => since[cur] >= CancelRetry
  /\ ModeVerified(cur)
  /\ Goto("cancelPost")
  /\ UNCHANGED <<exVars, tables, clocks, envMode, sent>>

\* begin_cancellation: the attempt is durable before the request.
BeginCancel ==
  /\ pc = "cancel" /\ view.status # "CANCEL_QUEUED"
  /\ attempts[cur] < MaxCancelAttempts
  /\ attempts[cur] > 0 => since[cur] >= CancelRetry
  /\ ModeVerified(cur)
  /\ attempts' = [attempts EXCEPT ![cur] = @ + 1]
  /\ since' = [since EXCEPT ![cur] = 0]
  /\ Goto("cancelPost")
  /\ UNCHANGED <<exVars, istatus, orderRow, booked, ledger, expected, age, gap, envMode, sent>>

\* .env was edited before or after the attempt was recorded: the round ends, and an
\* attempt that was recorded stays used up.
CancelRefused ==
  /\ pc \in {"cancel", "cancelPost"} /\ ~ModeVerified(cur)
  /\ NextAttempt
  /\ UNCHANGED <<exVars, clocks, envMode, sent>>

\* adapter.cancel, once; whatever it answers, only a later GET tells its effect.
CancelPost ==
  /\ pc = "cancelPost" /\ ModeVerified(cur)
  /\ exStatus' \in {exStatus, IF exStatus[cur] = "OPEN"
                              THEN [exStatus EXCEPT ![cur] = "CANCEL_QUEUED"] ELSE exStatus}
  /\ cancelPosts' = [cancelPosts EXCEPT ![cur] = @ + 1]
  /\ Goto("fills")
  /\ UNCHANGED <<wire, executed, settled, credited, tables, clocks, envMode, posts>>

\* Mutant: the totals of an unsettled order are trusted.
CompleteUnsettled(got) ==
  /\ view.status \in FinalStatuses
  /\ view.count = Cardinality(got)
  /\ view.status = "FILLED" => got # {}

\* Mutant: an order without fills is not complete.
CompleteTraded(got) ==
  /\ view.status \in FinalStatuses
  /\ view.count = Cardinality(got)
  /\ view.settled /\ got # {}

\* The order is final and what the two reads returned is the whole of it.
Complete(got) ==
  /\ view.status \in FinalStatuses
  /\ view.count = Cardinality(got)
  /\ view.settled \/ view.count = 0
  /\ view.status = "FILLED" => got # {}

\* The list of fills.  One that omits a booked fill is FILL_HISTORY_MISSING.
ListFills ==
  /\ pc = "fills"
  /\ \E got \in FillListings(cur) :
       LET listed == {<<cur, k>> : k \in got} IN
       IF ~(BookedOf(cur) \subseteq listed) THEN Unknown("known")
       ELSE IF ~Complete(got) THEN NextAttempt
       ELSE /\ pc' = "book" /\ view' = [view EXCEPT !.got = listed]
            /\ UNCHANGED <<tables, cur, tries, job>>
  /\ UNCHANGED <<exVars, clocks, envMode, sent>>

\* Mutant: every listed fill is applied, also one that an earlier process booked.
BookAll ==
  /\ pc = "book"
  /\ istatus' = [istatus EXCEPT ![cur] = "UNRESOLVED"]
  /\ booked' = booked \union view.got
  /\ ledger' = [ledger EXCEPT !["live"] = @ + Cardinality(view.got)]
  /\ expected' = expected + Cardinality(view.got)
  /\ Goto("reconcile")
  /\ UNCHANGED <<exVars, orderRow, attempts, clocks, envMode, sent>>

\* _settle, first transaction: the new fills, the ledger and the expected balance,
\* before the balances have converged.
Book ==
  /\ pc = "book"
  /\ LET new == view.got \ booked IN
       /\ booked' = booked \union new
       /\ ledger' = [ledger EXCEPT !["live"] = @ + Cardinality(new)]
       /\ expected' = expected + Cardinality(new)
  /\ istatus' = [istatus EXCEPT ![cur] = "UNRESOLVED"]
  /\ orderRow' = [orderRow EXCEPT ![cur] = "known"]
  /\ Goto("reconcile")
  /\ UNCHANGED <<exVars, attempts, clocks, envMode, sent>>

\* The status the fills give the intent.
Verdicts == IF view.got = {} THEN {IF view.status = "FAILED" THEN "REJECTED" ELSE "CANCELLED"}
            ELSE IF view.status = "FILLED" THEN {"FILLED", "PARTIAL"} ELSE {"PARTIAL"}

\* _settle, second transaction: the account agrees, the intent is terminal.
Settled ==
  /\ pc = "reconcile" /\ Reconciled("live") /\ ExchangeSeen
  /\ \E s \in Verdicts : Record(cur, s, "known")
  /\ LeaveResolved
  /\ UNCHANGED <<exVars, envMode, sent>>

\* Mutant: _verify starts over until the balances have converged.
NotSettledAfresh ==
  /\ pc = "reconcile"
  /\ StartVerify
  /\ UNCHANGED <<exVars, tables, clocks, envMode, cur, sent>>

\* It does not agree yet, cannot be read, or the history gap is too long: what was booked
\* stays booked.
NotSettled ==
  /\ pc = "reconcile"
  /\ NextAttempt
  /\ UNCHANGED <<exVars, clocks, envMode, sent>>

-----------------------------------------------------------------------------
\* The environment.

\* The process dies; only the tables survive.
Crash ==
  /\ pc # "idle"
  /\ pc' = "idle" /\ cur' = None /\ tries' = 0 /\ view' = NoView /\ job' = NoJob
  /\ UNCHANGED <<exVars, tables, clocks, envMode, sent>>

EditEnv ==
  /\ envMode' \in Modes \ {envMode}
  /\ UNCHANGED <<exVars, tables, clocks, process, sent>>

\* Time passes for the orders that are not terminal, and since the last reconciliation.
Tick ==
  /\ age' = [i \in LiveIntents |->
               IF i \in Unresolved /\ age[i] < MaxOrderAge THEN age[i] + 1 ELSE age[i]]
  /\ since' = [i \in LiveIntents |->
                 IF i \in Unresolved /\ attempts[i] > 0 /\ since[i] < CancelRetry
                 THEN since[i] + 1 ELSE since[i]]
  /\ gap' = IF HistoryGap THEN gap ELSE gap + 1
  /\ clocks' # clocks
  /\ UNCHANGED <<exVars, tables, envMode, process, sent>>

ExchangeStep == ExchangeNext /\ UNCHANGED <<tables, clocks, envMode, process, sent>>

Commands == {"run", "maintain", "inspect"}

RecoveryStep ==
  \/ \E cmd \in Commands : StartCommand(cmd)
  \/ \E i \in Intents : RecoverUnsent(i) \/ RecoverSent(i) \/ RecoverFails(i)
  \/ RecoverDone \/ StartupPasses

ExecuteStep ==
  \/ EndCycle
  \/ \E i \in Intents : Prepare(i)
  \/ \E n \in 0..MaxFills : PaperExecute(n)
  \/ MarkSubmitting \/ Submit \/ SubmitRefused
  \/ Acknowledged \/ Rejected \/ NoAnswer
  \/ Discovered \/ NotDiscovered

VerifyStep ==
  \/ GetOrder \/ ReadFails \/ GiveUp
  \/ CancelSkipped \/ BeginCancel \/ CancelRefused \/ CancelPost
  \/ ListFills \/ Book \/ Settled \/ NotSettled

Next ==
  \/ ExchangeStep
  \/ RecoveryStep
  \/ ExecuteStep
  \/ VerifyStep
  \/ Crash \/ EditEnv \/ Tick

Spec == Init /\ [][Next]_vars

(***************************************************************************)
(* Fairness.  The maintenance timer starts a process whenever none runs    *)
(* and something is unresolved; a process does not hang, because every     *)
(* request has a timeout.  The exchange ends, settles and credits every    *)
(* order.  Reads may fail and processes may die again and again, but a     *)
(* step that is possible infinitely often succeeds in the end.             *)
(***************************************************************************)
ProcessStep ==
  \/ \E i \in Intents : RecoverUnsent(i) \/ RecoverSent(i) \/ RecoverFails(i)
  \/ RecoverDone \/ StartupPasses \/ ExecuteStep \/ VerifyStep

Fairness ==
  /\ WF_vars(StartCommand("maintain"))
  /\ WF_vars(ProcessStep)
  /\ \A i \in Intents : SF_vars(RecoverUnsent(i))
  /\ \A i \in LiveIntents : SF_vars(RecoverSent(i))
  /\ SF_vars(Discovered)
  /\ SF_vars(GetOrder)
  /\ SF_vars(ListFills /\ pc' = "book")
  /\ SF_vars(Book)
  /\ SF_vars(Settled)
  /\ \A i \in LiveIntents :
       WF_vars((\E s \in FinalStatuses : Finish(i, s)) /\ UNCHANGED <<tables, clocks, envMode, process, sent>>)
       /\ WF_vars(Settle(i) /\ UNCHANGED <<tables, clocks, envMode, process, sent>>)
  /\ \A f \in LiveFills :
       WF_vars(Credit(f) /\ UNCHANGED <<tables, clocks, envMode, process, sent>>)

FairSpec == Spec /\ Fairness

-----------------------------------------------------------------------------
\* Properties.

TablesTypeOK ==
  /\ istatus \in [Intents -> TerminalStatuses \union PendingStatuses \union {"none"}]
  /\ orderRow \in [Intents -> {"absent", "null", "known"}]
  /\ booked \subseteq Fills
  /\ ledger \in [Modes -> Nat]
  /\ expected \in Nat
  /\ attempts \in [LiveIntents -> Nat]

Views == [status : ActiveStatuses \union FinalStatuses \union {"none"},
          count : 0..MaxFills, settled : BOOLEAN, got : SUBSET LiveFills]
Jobs == [cmd : Commands \union {"none"}, mode : Modes, recovering : BOOLEAN,
         todo : SUBSET Intents, stuck : BOOLEAN]

ProcessTypeOK ==
  /\ pc \in {"idle", "recover", "trade", "paper", "prepared", "marked", "await", "discover",
            "get", "cancel", "cancelPost", "fills", "book", "reconcile"}
  /\ cur \in Intents \union {None}
  /\ cur = None <=> pc \in {"idle", "recover", "trade"}
  /\ tries \in 0..(VerificationAttempts - 1)
  /\ view \in Views
  /\ job \in Jobs

\* Every variable has its type; the process holds an intent exactly where it needs one.
TypeOK ==
  /\ ExchangeTypeOK /\ TablesTypeOK /\ ProcessTypeOK
  /\ age \in [LiveIntents -> 0..MaxOrderAge]
  /\ since \in [LiveIntents -> 0..CancelRetry]
  /\ gap \in 0..(MaxGap + 1)
  /\ envMode \in Modes
  /\ posts \in [LiveIntents -> Nat]
  /\ cancelPosts \in [LiveIntents -> Nat]

\* An intent whose outcome is open in the database, on the network or at the exchange.
AtRisk(i) == \/ i \in Unresolved
             \/ i \in wire
             \/ i \in OpenOrders

\* Never two orders at risk at once, over both modes, restarts and late deliveries: the
\* README's "any unresolved order blocks new orders in every portfolio and both modes".
OneOrderAtRisk == \A i, j \in Intents : AtRisk(i) /\ AtRisk(j) => i = j

\* The POST of an intent is sent at most once, and never for one reported as not sent.
PostedOnce == \A i \in LiveIntents :
  /\ posts[i] <= 1
  /\ istatus[i] \in {"none", "PREPARED", "ABORTED"} => posts[i] = 0

\* The strategy ledgers and the expected balance hold every booked fill exactly once, and
\* no live fill is booked that did not happen (replays after a crash included).
BookedOnce ==
  /\ \A m \in Modes : ledger[m] = Cardinality({f \in booked : ModeOf(f[1]) = m})
  /\ expected = ledger["live"]
  /\ {f \in booked : f[1] \in LiveIntents} \subseteq ExecutedFills

\* A terminal status is the truth about the exchange: nothing is on its way or active,
\* every execution is booked, and the balances show it.
ResolvedMeansBooked == \A i \in LiveIntents :
  istatus[i] \in TerminalStatuses =>
    /\ i \notin wire
    /\ exStatus[i] \in FinalStatuses \union {"none"}
    /\ BookedOf(i) = FillsOf(i)
    /\ FillsOf(i) \subseteq credited

\* Each cancellation request has its durable attempt, so the cap holds across crashes.
CancelsAccounted == \A i \in LiveIntents :
  cancelPosts[i] <= attempts[i] /\ attempts[i] <= MaxCancelAttempts

\* Once terminal, always that status and those fills, whatever recovery runs later.
VerdictIsFinal ==
  [][\A i \in Intents : istatus[i] \in TerminalStatuses =>
       istatus'[i] = istatus[i] /\ BookedOf(i)' = BookedOf(i)]_vars

\* An order id, once recorded, is never forgotten: recovery verifies by id from then on.
IdentityKept ==
  [][\A i \in LiveIntents : orderRow[i] = "known" => orderRow'[i] = "known"]_vars

\* A cancellation is requested only for the unresolved order of known id, overdue, under a
\* live .env, and never by doctor, startup-checks or any command started in paper mode.
CancelJustified ==
  [][\A i \in LiveIntents : cancelPosts'[i] # cancelPosts[i] =>
       /\ i \in Unresolved /\ orderRow[i] = "known"
       /\ age[i] >= MaxOrderAge
       /\ envMode = "live" /\ job.mode = "live" /\ job.cmd # "inspect"]_vars

\* The refusals of recovery, _verify and _settle do not refuse the truth: an intent that was not
\* sent shows no trace of a request (no ORDER_STATE_CONFLICT), the whole list of a settled order
\* closes it, and once all is credited the account agrees.  The one refusal that time alone
\* brings about is the history gap, six days after the last reconciliation.
TruthAccepted ==
  /\ \A i \in LiveIntents : istatus[i] = "PREPARED" =>
       orderRow[i] = "absent" /\ BookedOf(i) = {} /\ attempts[i] = 0
  /\ pc = "fills" /\ view.status \in FinalStatuses /\ view.settled =>
       BookedOf(cur) \subseteq FillsOf(cur) /\ Complete(1..executed[cur])
  /\ pc = "reconcile" /\ credited = ExecutedFills /\ ~HistoryGap => Reconciled("live")

\* An order the exchange accepted is in the end found, booked and closed, however often
\* answers are lost and the process dies, unless this takes until the history gap: from then
\* on the operator has to review the account.
AcceptedOrderResolves ==
  \A i \in LiveIntents :
    exStatus[i] # "none" ~> istatus[i] \in TerminalStatuses \/ HistoryGap

\* An intent interrupted before its request does not block trading for ever, whatever
\* TRADING_MODE says when it is recovered.
PreparedResolves ==
  \A i \in Intents : istatus[i] = "PREPARED" ~> istatus[i] # "PREPARED"

(***************************************************************************)
(* The inductive invariant.  The properties above are not inductive: what  *)
(* makes them hold is where each status can be, at the database, on the    *)
(* network and at the exchange, and what the process has read so far.      *)
(***************************************************************************)
VerifyPcs == {"get", "cancel", "cancelPost", "fills", "book", "reconcile"}
LivePcs == {"prepared", "marked", "await", "discover"} \union VerifyPcs

\* The intent the process works on has the status its place in the code implies.
ProcessInv ==
  /\ pc \in LivePcs => cur \in LiveIntents
  /\ pc = "paper" => cur \in PaperIntents
  /\ pc \in {"paper", "prepared"} => istatus[cur] = "PREPARED"
  /\ pc \in {"marked", "await"} => istatus[cur] = "SUBMITTING"
  /\ pc = "marked" => posts[cur] = 0
  /\ pc = "await" => posts[cur] = 1
  /\ pc = "discover" => istatus[cur] \in {"SUBMITTING", "UNRESOLVED"} /\ orderRow[cur] # "known"
  /\ pc \in VerifyPcs => istatus[cur] = "UNRESOLVED" /\ orderRow[cur] = "known"
  /\ job.todo \subseteq Unresolved

OneUnresolved == \A i, j \in Unresolved : i = j

\* Where an intent's order can be, given its row and its POST.
PostInv == \A i \in LiveIntents :
  /\ posts[i] = 0 => i \notin wire /\ exStatus[i] = "none"
  /\ i \in wire => exStatus[i] = "none"
  /\ exStatus[i] = "none" => executed[i] = 0
  /\ settled[i] => exStatus[i] \in FinalStatuses
  /\ orderRow[i] = "known" => exStatus[i] # "none"
  /\ istatus[i] \in {"none", "PREPARED", "SUBMITTING"} => orderRow[i] = "absent"

\* What _verify has read of a final order is still true, and complete before it is used.
ViewInv ==
  /\ pc \in VerifyPcs /\ view.status \in FinalStatuses =>
       /\ exStatus[cur] = view.status
       /\ view.settled => view.count = executed[cur]
       /\ view.count = 0 => executed[cur] = 0
  /\ pc \in {"book", "reconcile"} =>
       view.status \in FinalStatuses /\ view.got = FillsOf(cur)
  /\ pc = "reconcile" => BookedOf(cur) = FillsOf(cur)

\* An order not yet tried has booked nothing, and the account shows only what happened.
BooksInv ==
  /\ \A i \in PaperIntents : istatus[i] \in {"none", "PREPARED"} => BookedOf(i) = {}
  /\ credited \subseteq ExecutedFills

CancelInv == pc = "cancelPost" => cancelPosts[cur] < attempts[cur]

\* What TruthAccepted needs besides: attempts are of orders of known id, filled orders have fills.
TraceInv == \A i \in LiveIntents :
  /\ attempts[i] > 0 => orderRow[i] = "known"
  /\ exStatus[i] = "FILLED" => executed[i] > 0

\* The part about the database and the exchange, and the part about the process.
DataInv == /\ OneUnresolved /\ PostedOnce /\ PostInv
           /\ BookedOnce /\ BooksInv /\ ResolvedMeansBooked

IInv == TypeOK /\ ProcessInv /\ ViewInv /\ CancelInv /\ CancelsAccounted /\ DataInv

(***************************************************************************)
(* Refinement: a live intent is an order of OrderPromise, pending while    *)
(* the database calls it unresolved.  Timeouts, restarts, discovery,       *)
(* cancellation and repeated reads are all stutters of the promise.        *)
(***************************************************************************)
Promise == INSTANCE OrderPromise WITH
  Orders <- LiveIntents,
  phase <- [i \in LiveIntents |->
              IF istatus[i] = "none" THEN "idle"
              ELSE IF i \in Unresolved THEN "pending" ELSE "closed"],
  traded <- executed,
  recorded <- [i \in LiveIntents |-> Cardinality(BookedOf(i))],
  books <- expected

\* The executor keeps the promise.
KeepsPromise == Promise!PromiseSpec

(***************************************************************************)
(* Termination: what a process has left to do, in steps.  A command does   *)
(* not loop: each recovery takes an intent off its list, each round of     *)
(* _verify an attempt off its number, each order of a cycle a new intent.  *)
(***************************************************************************)
Untried == {i \in Intents : istatus[i] = "none"}

RoundLeft == [get |-> 6, cancel |-> 5, cancelPost |-> 4, fills |-> 3, book |-> 2, reconcile |-> 1]
Rounds == 6 * VerificationAttempts
BeforeVerify == [idle |-> 0, trade |-> 1, recover |-> 2, paper |-> 3,
                 discover |-> Rounds + 3, await |-> Rounds + 4,
                 marked |-> Rounds + 5, prepared |-> Rounds + 6]

\* With the intent at hand, and with the others of its list or still to come.
WorkHere == IF pc \in VerifyPcs THEN 2 + 6 * (VerificationAttempts - 1 - tries) + RoundLeft[pc]
            ELSE BeforeVerify[pc]
WorkAhead == Cardinality(job.todo \ {cur}) + Cardinality(Untried)
Work == WorkHere + (Rounds + 7) * WorkAhead

\* Every step of a process is one less to go, whatever the exchange answers, and nothing outside
\* gives it more to do: the lock of storage.process_lock is free again after a bounded number of steps.
ProcessesEnd ==
  [][pc # "idle" => Work' <= Work /\ (ProcessStep => Work' < Work)]_vars
=============================================================================
