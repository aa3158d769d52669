------------------------------ MODULE Outcomes ------------------------------
(***************************************************************************)
(* outcomes.track_outcomes with Storage.pending_outcomes and save_outcome: *)
(* an hourly job that looks up, for every recorded decision, the candle at *)
(* each horizon and the extremes of the whole window, a limited number of  *)
(* decisions per run, retrying what is missing.                            *)
(*                                                                         *)
(* Time is in ticks.  A decision keeps its age and the ticks until its     *)
(* next check, and ages stop at the last horizon; bucket b is the candle   *)
(* that closes b ticks after the decision.  A run is shorter than a tick   *)
(* and holds the process lock, so that no decision is recorded meanwhile;  *)
(* a crash may end it between two rows.                                    *)
(***************************************************************************)
EXTENDS Integers, FiniteSets

CONSTANTS Decisions, \* in the order they are recorded
          Horizons,  \* HORIZONS, in hours
          Longest,   \* the last of them
          Hour,      \* ticks of an hour
          Grace,     \* ticks until the exchange has settled a candle
          Limits     \* what max_decisions_per_run may be set to between runs

ASSUME OutcomesAssumption ==
  /\ IsFiniteSet(Decisions) /\ Decisions \subseteq Nat
  /\ Horizons \subseteq Nat \ {0}
  /\ Longest \in Horizons /\ \A h \in Horizons : h <= Longest
  /\ Hour \in Nat \ {0} /\ Grace \in Nat \ {0} /\ Limits \subseteq Nat \ {0}

VARIABLES age,       \* ticks since created_at, Unrecorded before
          quiet,     \* the bucket nothing was traded in, 0 if none: the exchange has no such candle
          status,    \* of the decision's outcome
          wait,      \* ticks until next_check_at
          checked,   \* rank of updated_at
          observed,  \* observations
          excursion, \* max_favorable_excursion_24h and its companions
          batch      \* rows of the run still to check

row == <<status, wait, checked, observed, excursion>>
vars == <<age, quiet, row, batch>>

Unrecorded == -1
MaxAge == Longest * Hour + Grace
Buckets == 1..(Longest * Hour)
\* A candle read before it has settled may still change.
Values == {"none", "early", "settled"}
Statuses == {"NONE", "PENDING", "PARTIAL_DATA", "ERROR", "COMPLETE"}
Latest == Cardinality(Decisions) + 1

Init ==
  /\ age = [d \in Decisions |-> Unrecorded]
  /\ quiet \in [Decisions -> {0} \union Buckets]
  /\ status = [d \in Decisions |-> "NONE"]
  /\ wait = [d \in Decisions |-> 0]
  /\ checked = [d \in Decisions |-> 0]
  /\ observed = [d \in Decisions |-> [h \in Horizons |-> "none"]]
  /\ excursion = [d \in Decisions |-> "none"]
  /\ batch = {}

-----------------------------------------------------------------------------
Record(d) ==
  /\ batch = {}
  /\ age[d] = Unrecorded
  /\ \A e \in Decisions : e < d => age[e] # Unrecorded
  /\ age' = [age EXCEPT ![d] = 0]
  /\ UNCHANGED <<quiet, row, batch>>

Older(a) == IF a \in 0..(MaxAge - 1) THEN a + 1 ELSE a

Tick ==
  /\ batch = {}
  /\ age' = [d \in Decisions |-> Older(age[d])]
  /\ wait' = [d \in Decisions |-> IF wait[d] > 0 THEN wait[d] - 1 ELSE 0]
  /\ UNCHANGED <<quiet, status, checked, observed, excursion, batch>>

-----------------------------------------------------------------------------
\* pending_outcomes.

Pending(d) ==
  /\ age[d] >= Hour + Grace
  /\ status[d] # "COMPLETE"
  /\ status[d] # "NONE" => wait[d] = 0

\* Mutant: the oldest decisions first.
ByAge(d, e) == d < e
Before(d, e) == checked[d] < checked[e] \/ (checked[d] = checked[e] /\ d < e)

Rank(d) == IF checked[d] = 0 THEN 0
           ELSE Cardinality({checked[e] : e \in Decisions} \intersect 1..checked[d])

\* A run takes the first rows; the ranks make room for its own.
Begin(limit) ==
  LET pending == {d \in Decisions : Pending(d)}
  IN  /\ batch = {}
      /\ batch' \in SUBSET pending /\ batch' # {}
      /\ IF Cardinality(pending) <= limit THEN batch' = pending ELSE Cardinality(batch') = limit
      /\ \A d \in batch', e \in pending \ batch' : Before(d, e)
      /\ checked' = [d \in Decisions |-> Rank(d)]
      /\ UNCHANGED <<age, quiet, status, wait, observed, excursion>>

First(d) == d \in batch /\ \A e \in batch \ {d} : Before(d, e)

-----------------------------------------------------------------------------
\* The loop of track_outcomes, for one row.

\* Mutant: a horizon is due at once.
DueAtOnce(d) == {h \in Horizons : h * Hour <= age[d]}
Due(d) == {h \in Horizons : h * Hour + Grace <= age[d]}

Missing(d) == {h \in Due(d) : observed[d][h] = "none"}
NoExcursion(d) == Longest \in Due(d) /\ excursion[d] = "none"

\* What the exchange may answer for the window up to the last horizon that is due.
Window(d) == {b \in Buckets : \E h \in Due(d) : b <= h * Hour}
Traded(d) == Window(d) \ {quiet[d]}

\* What a read now makes of a bucket.
Value(d, b) == IF b + Grace <= age[d] THEN "settled" ELSE "early"

Observed(d) == {h \in Horizons : observed'[d][h] # "none"}

\* Mutant: the returns alone make an outcome complete.
StatusByReturns(d) ==
  CASE ~(Due(d) \subseteq Observed(d)) -> "PARTIAL_DATA"
    [] Observed(d) = Horizons -> "COMPLETE"
    [] OTHER -> "PENDING"
StatusOf(d) ==
  CASE ~(Due(d) \subseteq Observed(d)) \/ (Longest \in Due(d) /\ excursion'[d] = "none")
         -> "PARTIAL_DATA"
    [] Observed(d) = Horizons /\ excursion'[d] # "none" -> "COMPLETE"
    [] OTHER -> "PENDING"

\* Horizons still to come.
Ahead(d) == Horizons \ Due(d)

\* save_outcome.
Save(d, s, w) ==
  /\ status' = [status EXCEPT ![d] = s]
  /\ wait' = [wait EXCEPT ![d] = w]
  /\ checked' = [checked EXCEPT ![d] = Latest]
  /\ batch' = batch \ {d}
  /\ UNCHANGED <<age, quiet>>

\* The candles of d were read, or none were needed.
Check(d, candles) ==
  /\ First(d)
  /\ candles # {} => Missing(d) # {} \/ NoExcursion(d)
  /\ observed' = [observed EXCEPT ![d] =
       [h \in Horizons |-> IF h \in Missing(d) /\ h * Hour \in candles
                           THEN Value(d, h * Hour) ELSE @[h]]]
  /\ excursion' = [excursion EXCEPT ![d] =
       IF NoExcursion(d) /\ candles = Buckets THEN Value(d, Longest * Hour) ELSE @]
  /\ IF StatusOf(d) = "PENDING"
     THEN \E h \in Ahead(d) :
            /\ \A g \in Ahead(d) : h <= g
            /\ Save(d, "PENDING", h * Hour + Grace - age[d])
     ELSE Save(d, StatusOf(d), Hour)

\* Mutant: an error replaces what was measured.
FailForgetting(d) ==
  /\ First(d)
  /\ Save(d, "ERROR", Hour)
  /\ observed' = [observed EXCEPT ![d] = [h \in Horizons |-> "none"]]
  /\ UNCHANGED excursion

\* The request failed or its answer was invalid: what was measured is kept.
Fail(d) ==
  /\ First(d)
  /\ Save(d, "ERROR", Hour)
  /\ UNCHANGED <<observed, excursion>>

Crash ==
  /\ batch # {}
  /\ batch' = {}
  /\ UNCHANGED <<age, quiet, row>>

Step ==
  \/ \E d \in batch : Fail(d) \/ \E candles \in SUBSET Traded(d) : Check(d, candles)
  \/ Crash

Next == (\E d \in Decisions : Record(d)) \/ Tick \/ (\E limit \in Limits : Begin(limit)) \/ Step

\* Time passes, the timer fires, a run ends, and a decision that comes up again and again is
\* some time answered in full.
Fairness ==
  /\ SF_vars(Tick)
  /\ WF_vars(\E limit \in Limits : Begin(limit))
  /\ WF_vars(Step)
  /\ \A d \in Decisions : SF_vars(Check(d, Traded(d)))

Spec == Init /\ [][Next]_vars
FairSpec == Spec /\ Fairness

-----------------------------------------------------------------------------
\* Properties.

\* Every variable has its type.
TypeOK ==
  /\ age \in [Decisions -> Unrecorded..MaxAge]
  /\ quiet \in [Decisions -> {0} \union Buckets]
  /\ status \in [Decisions -> Statuses]
  /\ wait \in [Decisions -> Nat]
  /\ checked \in [Decisions -> 0..Latest]
  /\ observed \in [Decisions -> [Horizons -> Values]]
  /\ excursion \in [Decisions -> Values]
  /\ batch \in SUBSET Decisions

\* Nothing is measured with a candle that may still change, neither a return nor an extreme.
SettledPrices ==
  \A d \in Decisions : excursion[d] # "early" /\ \A h \in Horizons : observed[d][h] # "early"

\* COMPLETE, which ends the retries, means that every measurement there is was made.
CompleteWhole ==
  \A d \in Decisions : status[d] = "COMPLETE" =>
    excursion[d] # "none" /\ \A h \in Horizons : observed[d][h] # "none"

\* A measurement is made once: no retry, failed read or crash removes or changes one.
NothingLost ==
  [][\A d \in Decisions :
       /\ status[d] = "COMPLETE" => status'[d] = "COMPLETE"
       /\ excursion[d] # "none" => excursion'[d] = excursion[d]
       /\ \A h \in Horizons : observed[d][h] # "none" => observed'[d][h] = observed[d][h]]_vars

\* Decisions whose candles never come are retried for ever, and do not keep the others out of the
\* limited batch.
CompletesEventually ==
  \A d \in Decisions : age[d] >= 0 /\ quiet[d] = 0 ~> status[d] = "COMPLETE"
=============================================================================
