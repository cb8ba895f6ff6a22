--------------------------- MODULE DailyBackfill ---------------------------
(***************************************************************************)
(* The daily backfill (service/ingestion/backfill.py), the scheduler that  *)
(* spawns it (service/ingestion/scheduler.py), and the ingestion service   *)
(* beside it.                                                              *)
(*                                                                         *)
(* A run refreshes a contract manager of its own, adds the contracts the   *)
(* table knows, replays for each the candles since its newest row with a   *)
(* few requests at a time, and then those of one ticker after the other.   *)
(* A row is only written where there is none, and for a ticker only if the *)
(* candle has a usable close.  A gap reconciliation may follow: it looks   *)
(* through a range for minutes without a row (Gaps) and replays from the   *)
(* first of them on.  The ingestion service and the pollers write to the   *)
(* same tables all along.                                                  *)
(*                                                                         *)
(* A key is a contract or a ticker; of a bar only its minute is kept, so   *)
(* the tables are a set of minutes for each key.  Time is counted in       *)
(* minutes.  The contract managers are those of Tracking.                  *)
(***************************************************************************)
EXTENDS Tracking, FiniteSets, Sequences

CONSTANTS
  Tickers,      \* the tickers of config.yaml
  Lookback,     \* --lookback-days, in minutes
  Concurrency,  \* --concurrency
  RunTimes,     \* the slots of the schedule
  Retention,    \* RETENTION_DAYS, in minutes
  Sessions,     \* <<open, close>> of the sessions
  Degraded,     \* ticker and minute of candles that may have no usable close
  None

Keys == Options \cup Tickers

ASSUME BackfillAssumption ==
  /\ {"ingestion", "backfill"} \subseteq Programs
  /\ Lookback \in Nat /\ Concurrency \in Nat \ {0}
  /\ RunTimes \subseteq Nat
  /\ Options \cap Tickers = {}
  /\ Retention \in Nat /\ Sessions \subseteq Nat \X Nat
  /\ Degraded \subseteq Tickers \X Nat

Gaps == INSTANCE Gaps WITH MinuteTicks <- 1

VARIABLES
  stored,     \* option_bars_1m and underlying_bars_1m: key -> minutes with a row
  upSince,    \* minute in which the ingestion service subscribed, or None
  scheduler,  \* "down", the job that runs ("run" the backfill, "greeks",
              \* "reconcile"), "over" after the last of them, "sleep"
  target,     \* the slot it sleeps until
  phase,      \* where the run of the backfill or the reconciliation is; "off"
  window,     \* window_start
  start,      \* key -> first minute requested
  work,       \* key -> "todo", "replay", "check", "commit", "done", "short"
              \* (the replay was incomplete), "failed"; "none" when not a candidate
  candles,    \* key -> minutes received
  unusable,   \* key -> those whose candle came without a usable close
  absent,     \* key -> those of them found without a row
  began,      \* history: minute in which the run began
  had,        \* history: the contracts in the table then
  newest,     \* history: key -> its newest row then, or None
  scanned     \* history: ticker -> scan_start, or None

run == <<phase, window, start, work, candles, unusable, absent>>
history == <<began, had, newest, scanned>>
vars == <<now, tracking, stored, upSince, scheduler, target, run, history>>

-----------------------------------------------------------------------------
Newest(S) == IF S = {} THEN None ELSE CHOOSE m \in S : \A n \in S : n <= m

(* Mutant: a key without a row has no default. *)
LaterRaw(m, n) == m

(* The later of the two; n when there is no m. *)
Later(m, n) == IF m = None \/ m < n THEN n ELSE m

(* Minutes for which the exchange has, or will have, a candle. *)
Quoted(k) == IF k \in Tickers THEN Times ELSE Listed[k]..Expires[k]

(* What the variables of a run hold when none goes on. *)
NoRun == [window |-> 0, start |-> [k \in Keys |-> 0], work |-> [k \in Keys |-> "none"],
          candles |-> [k \in Keys |-> {}], began |-> 0, had |-> {},
          newest |-> [k \in Keys |-> None], scanned |-> [k \in Tickers |-> None]]

Init ==
  /\ TrackingInit
  /\ stored = [k \in Keys |-> {}] /\ upSince = None
  /\ scheduler = "down" /\ target = 0 /\ phase = "off"
  /\ window = NoRun.window /\ start = NoRun.start /\ work = NoRun.work
  /\ candles = NoRun.candles /\ unusable = NoRun.candles /\ absent = NoRun.candles
  /\ began = NoRun.began /\ had = NoRun.had /\ newest = NoRun.newest
  /\ scanned = NoRun.scanned

Tick == Passes /\ UNCHANGED <<tracking, stored, upSince, scheduler, target, run, history>>

-----------------------------------------------------------------------------
(* The ingestion service. *)

(* A refresh gets through; with the first one the service begins to write. *)
Refreshed ==
  /\ \E S \in SUBSET Options : TakesOver("ingestion", S)
  /\ upSince' = IF upSince = None THEN now ELSE upSince
  /\ UNCHANGED <<now, stored, scheduler, target, run, history>>

IngestionDies ==
  /\ upSince # None /\ upSince' = None
  /\ Ends("ingestion")
  /\ UNCHANGED <<now, stored, scheduler, target, run, history>>

(* The row of the minute that is over, for a key it is subscribed to. *)
IngestBar(k) ==
  /\ upSince # None /\ upSince < now
  /\ k \in Tickers \cup tracked["ingestion"]
  /\ now - 1 \in Quoted(k) \ stored[k]
  /\ stored' = [stored EXCEPT ![k] = @ \cup {now - 1}]
  /\ UNCHANGED <<now, tracking, upSince, scheduler, target, run, history>>

Ingestion == Refreshed \/ IngestionDies \/ \E k \in Keys : IngestBar(k)

-----------------------------------------------------------------------------
(* The pollers. *)

(* A poller refreshes its manager or ends, or any program writes contracts. *)
OtherManager ==
  /\ \/ \E S \in SUBSET Options : Records(S)
     \/ \E p \in Programs \ {"ingestion", "backfill"} :
          Ends(p) \/ \E S \in SUBSET Options : TakesOver(p, S)
  /\ UNCHANGED <<now, stored, upSince, scheduler, target, run, history>>

(* The row of a minute they received live or in a catch-up. *)
PollerBar(k) ==
  /\ k \in Options => now <= Expires[k]
  /\ \E m \in {n \in Quoted(k) \ stored[k] : n <= now} :
       stored' = [stored EXCEPT ![k] = @ \cup {m}]
  /\ UNCHANGED <<now, tracking, upSince, scheduler, target, run, history>>

Pollers == OtherManager \/ \E k \in Keys : PollerBar(k)

-----------------------------------------------------------------------------
(* A run of the backfill: BackfillJob.run. *)

Moves(k, state) == work' = [work EXCEPT ![k] = state]

(* The process is spawned and calls refresh(). *)
RunBegins ==
  /\ phase' = "refresh"
  /\ began' = now /\ had' = contracts
  /\ newest' = [k \in Keys |-> Newest(stored[k])]
  /\ UNCHANGED <<now, tracking, stored, upSince, target, window, start, work>>
  /\ UNCHANGED <<candles, unusable, absent, scanned>>

Back(minutes) == IF now > minutes THEN now - minutes ELSE 0

(* ContractDiff.current and window_start are there ... *)
RefreshEnds ==
  /\ phase = "refresh" /\ phase' = "candidates"
  /\ \E S \in SUBSET Options : TakesOver("backfill", S)
  /\ window' = Back(Lookback)
  /\ UNCHANGED <<stored, start, work, candles, unusable, absent>>

(* ... or the database has raised, be it in a commit that landed, and so does run(). *)
RefreshRaises ==
  /\ phase = "refresh" /\ phase' = "failed"
  /\ \E S \in SUBSET Options : Records(S)
  /\ UNCHANGED <<stored, window, start, work, candles, unusable, absent>>

(* Mutant: only what the refresh has resolved. *)
CandidatesTracked == tracked["backfill"]

(* _get_backfill_candidates: what is tracked, and what the table knows. *)
Candidates == tracked["backfill"] \cup {c \in contracts : window <= Expires[c]}

ReadCandidates ==
  /\ phase = "candidates" /\ phase' = "optionStarts"
  /\ work' = [k \in Keys |-> IF k \in Candidates THEN "todo" ELSE "none"]
  /\ UNCHANGED <<tracking, stored, window, start, candles, unusable, absent>>

(* _effective_start_times of the keys that are to be done. *)
ReadStarts(before, after) ==
  /\ phase = before /\ phase' = after
  /\ start' = [k \in Keys |->
                 IF work[k] = "todo" THEN Later(Newest(stored[k]), window) ELSE start[k]]
  /\ UNCHANGED <<tracking, stored, window, work, candles, unusable, absent>>

InWork == {k \in Keys : work[k] \in {"replay", "check", "commit"}}
Settled == \A k \in Keys : work[k] \in {"none", "done", "short", "failed"}

(* gather() is over: the tickers follow. *)
OptionsDone ==
  /\ phase = "options" /\ Settled /\ phase' = "tickerStarts"
  /\ work' = [k \in Keys |-> IF k \in Tickers THEN "todo" ELSE work[k]]
  /\ UNCHANGED <<tracking, stored, window, start, candles, unusable, absent>>

TickersDone ==
  /\ phase = "tickers" /\ Settled /\ phase' = "finished"
  /\ UNCHANGED <<tracking, stored, window, start, work, candles, unusable, absent>>

(* The semaphore of the contracts; the tickers are done one at a time. *)
Free ==
  \/ phase = "options" /\ Cardinality(InWork) < Concurrency
  \/ phase = "tickers" /\ InWork = {}

Request(k) ==
  /\ work[k] = "todo" /\ Free
  /\ Moves(k, "replay")
  /\ UNCHANGED <<stored, candles, unusable, absent>>

(* What a complete replay brings, the candle of the minute in progress included. *)
History(k) == {m \in Quoted(k) : start[k] <= m /\ m <= now}

Complete(k, received) == {m \in History(k) : m < began} \subseteq received

(***************************************************************************)
(* request_candles returns everything, or a part when one of its limits or *)
(* the connection has ended it, or when another replay has taken candles   *)
(* from the queue they share.  A degraded feed sends zeroed candles; only  *)
(* for a ticker does that make a difference.                               *)
(***************************************************************************)
Replayed(k) ==
  /\ work[k] = "replay"
  /\ \E received \in SUBSET History(k) :
       /\ candles' = [candles EXCEPT ![k] = received]
       /\ \E zeroed \in SUBSET {m \in received : <<k, m>> \in Degraded} :
            unusable' = [unusable EXCEPT ![k] = zeroed]
       /\ Moves(k, IF received # {} THEN "check" ELSE IF Complete(k, {}) THEN "done" ELSE "short")
  /\ UNCHANGED <<stored, absent>>

(* One transaction: each minute is looked up, and a zeroed candle skipped ... *)
Lookup(k) ==
  /\ work[k] = "check"
  /\ absent' = [absent EXCEPT ![k] = candles[k] \ (stored[k] \cup unusable[k])]
  /\ Moves(k, "commit")
  /\ UNCHANGED <<stored, candles, unusable>>

Forget(k) ==
  /\ candles' = [candles EXCEPT ![k] = {}]
  /\ absent' = [absent EXCEPT ![k] = {}]
  /\ UNCHANGED unusable

(* ... and those without a row are inserted, unless one has come since. *)
Insert(k) ==
  /\ work[k] = "commit" /\ absent[k] \cap stored[k] = {}
  /\ stored' = [stored EXCEPT ![k] = @ \cup absent[k]]
  /\ Moves(k, IF Complete(k, candles[k]) THEN "done" ELSE "short")
  /\ Forget(k)

(* The request or the transaction raises: the key is given up. *)
GivenUp(k) ==
  /\ k \in InWork /\ phase # "reconcile"
  /\ Moves(k, "failed")
  /\ Forget(k)
  /\ UNCHANGED stored

Process(k) ==
  /\ phase \in {"options", "tickers", "reconcile"}
  /\ Request(k) \/ Replayed(k) \/ Lookup(k) \/ Insert(k) \/ GivenUp(k)
  /\ UNCHANGED <<tracking, phase, window, start>>

(***************************************************************************)
(* The gap reconciliation: reconcile_underlying_gaps for one ticker after  *)
(* the other, over one range.  It is in a process of its own.              *)
(***************************************************************************)
ReconcileBegins ==
  /\ phase' = "reconcile" /\ began' = now /\ window' = Back(Lookback)
  /\ work' = [k \in Keys |-> IF k \in Tickers THEN "todo" ELSE "none"]
  /\ UNCHANGED <<now, tracking, stored, upSince, target, start, candles, unusable, absent>>
  /\ UNCHANGED <<had, newest, scanned>>

(* Mutant: the newest gap is enough. *)
FromGapLast(gaps) == gaps[Len(gaps)][1]

(* What follows the earliest gap comes along with it. *)
FromGap(gaps) == gaps[1][1]

Scan(k) ==
  /\ phase = "reconcile" /\ work[k] = "todo" /\ InWork = {}
  /\ LET from == Later(Back(Retention), window)
         existing == {m \in stored[k] : from <= m /\ m <= began}
         gaps == Gaps!FindGaps(existing, from, began, 1)
     IN /\ scanned' = [scanned EXCEPT ![k] = from]
        /\ IF gaps = <<>> THEN Moves(k, "done") /\ UNCHANGED start
           ELSE Moves(k, "replay") /\ start' = [start EXCEPT ![k] = FromGap(gaps)]
  /\ UNCHANGED <<tracking, stored, phase, window, candles, unusable, absent>>
  /\ UNCHANGED <<began, had, newest>>

(* Here nothing is caught: the tickers that follow are not looked at. *)
ReconcileRaises ==
  /\ phase = "reconcile" /\ phase' = "failed"
  /\ UNCHANGED <<tracking, stored, window, start, work, candles, unusable, absent>>

ReconcileDone ==
  /\ phase = "reconcile" /\ Settled /\ phase' = "finished"
  /\ UNCHANGED <<tracking, stored, window, start, work, candles, unusable, absent>>

RunSteps ==
  /\ \/ /\ \/ RefreshEnds \/ RefreshRaises \/ ReadCandidates
           \/ ReadStarts("optionStarts", "options") \/ OptionsDone
           \/ ReadStarts("tickerStarts", "tickers") \/ TickersDone
           \/ \E k \in Keys : Process(k)
           \/ ReconcileRaises \/ ReconcileDone
        /\ UNCHANGED history
     \/ \E k \in Tickers : Scan(k)
  /\ UNCHANGED <<now, upSince, scheduler, target>>

-----------------------------------------------------------------------------
(* The scheduler. *)

(* The startup run. *)
SchedulerStarts == scheduler = "down" /\ scheduler' = "run" /\ RunBegins

(* The process of the run is gone, and its memory with it. *)
RunIsOver ==
  /\ phase' = "off" /\ Ends("backfill")
  /\ window' = NoRun.window /\ start' = NoRun.start /\ work' = NoRun.work
  /\ candles' = NoRun.candles /\ unusable' = NoRun.candles /\ absent' = NoRun.candles
  /\ began' = NoRun.began /\ had' = NoRun.had /\ newest' = NoRun.newest
  /\ scanned' = NoRun.scanned
  /\ UNCHANGED <<now, stored, upSince, target>>

Exited == phase \in {"finished", "failed"}

Following(job) == IF job = "run" THEN "greeks" ELSE "over"

(* Mutant: a run that failed is the last one. *)
RunExitsLast ==
  /\ scheduler \in {"run", "reconcile"} /\ Exited
  /\ scheduler' = IF phase = "finished" THEN Following(scheduler) ELSE "down"
  /\ RunIsOver

(* run_jobs: whatever the exit code, the next job follows. *)
RunExits ==
  /\ scheduler \in {"run", "reconcile"} /\ Exited
  /\ scheduler' = Following(scheduler)
  /\ RunIsOver

(* It ran out of memory, or could not be spawned. *)
RunKilled ==
  /\ scheduler \in {"run", "reconcile"} /\ ~Exited
  /\ scheduler' = Following(scheduler)
  /\ RunIsOver

(* The Greeks job is over, in whatever way; scheduler_run_gap_reconcile is set. *)
SpawnReconcile == scheduler = "greeks" /\ scheduler' = "reconcile" /\ ReconcileBegins

(* next_run_at: strictly after now.  With none left the bound is reached. *)
NextRun ==
  LET ahead == {t \in RunTimes : t > now} \cup {MaxTime + 1}
  IN CHOOSE t \in ahead : \A u \in ahead : t <= u

(* The last job is over: the Greeks job, when the setting is not there. *)
Sleep ==
  /\ scheduler \in {"greeks", "over"} /\ scheduler' = "sleep"
  /\ target' = NextRun
  /\ UNCHANGED <<now, tracking, stored, upSince, run, history>>

Wake == scheduler = "sleep" /\ now >= target /\ scheduler' = "run" /\ RunBegins

Next ==
  \/ Tick \/ Ingestion \/ Pollers \/ RunSteps
  \/ SchedulerStarts \/ RunExits \/ RunKilled \/ SpawnReconcile \/ Sleep \/ Wake

(* Every await of a run has a time limit or is a statement of the database. *)
Spec ==
  /\ Init /\ [][Next]_vars
  /\ WF_vars(Tick) /\ WF_vars(RunSteps)
  /\ WF_vars(RunExits) /\ WF_vars(Sleep) /\ WF_vars(Wake)

-----------------------------------------------------------------------------
(* Properties. *)

Regular == {m \in Times : \E s \in Sessions : s[1] <= m /\ m <= s[2]}

TypeOK ==
  /\ now \in Times /\ contracts \subseteq Options /\ tracked \in [Programs -> SUBSET Options]
  /\ stored \in [Keys -> SUBSET Times] /\ upSince \in Times \cup {None}
  /\ scheduler \in {"down", "run", "greeks", "reconcile", "over", "sleep"} /\ target \in Nat
  /\ phase \in {"off", "refresh", "failed", "candidates", "optionStarts", "options",
                "tickerStarts", "tickers", "reconcile", "finished"}
  /\ window \in Times /\ start \in [Keys -> Times]
  /\ work \in [Keys -> {"none", "todo", "replay", "check", "commit", "done", "short", "failed"}]
  /\ candles \in [Keys -> SUBSET Times] /\ unusable \in [Keys -> SUBSET Times]
  /\ absent \in [Keys -> SUBSET Times]
  /\ began \in Times /\ had \subseteq Options /\ newest \in [Keys -> Times \cup {None}]
  /\ scanned \in [Tickers -> Times \cup {None}]
  /\ Cardinality(InWork) <= Concurrency

(* The minutes of k that were missing after its newest row when the run began. *)
Gap(k) == {m \in Quoted(k) : Later(newest[k], window) <= m /\ m < began}

(* Another program wrote a newer row of k between that and the read of its start. *)
Overtaken(k) ==
  /\ start[k] # Later(newest[k], window)
  /\ k \in Options => Expires[k] + 1 >= began

(***************************************************************************)
(* A run that ends closes the gap after the newest row of every ticker and *)
(* of every contract that the table knew and that is within the lookback,  *)
(* also of one that expired during the downtime and is in no chain any     *)
(* more, but for the minutes the feed had only a zeroed candle for.  It    *)
(* may give a key up or get a short replay; and a key that other programs  *)
(* still write to may be overtaken.  About the candidates, the effective   *)
(* starts and the skip-if-exists writes of run().                          *)
(***************************************************************************)
GapClosed ==
  scheduler = "run" /\ phase = "finished" =>
    \A k \in Tickers \cup {c \in had : window <= Expires[c]} :
      \/ work[k] \in {"short", "failed"} \/ Overtaken(k)
      \/ Gap(k) \subseteq stored[k] \cup unusable[k]

(***************************************************************************)
(* A reconciliation leaves no session minute of a scanned range without a  *)
(* row, in particular none a backfill was overtaken at or had a zeroed     *)
(* candle for, unless the replay was short or the candle is still zeroed;  *)
(* the minute in which it began may be in progress.  About the request     *)
(* from the earliest gap on.                                               *)
(***************************************************************************)
Reconciled ==
  scheduler = "reconcile" /\ phase = "finished" =>
    \A k \in Tickers :
      \/ work[k] = "short"
      \/ {m \in Regular : scanned[k] <= m /\ m < began} \subseteq stored[k] \cup unusable[k]

(***************************************************************************)
(* No run, however it ends, is the last: each ends, and the slot the       *)
(* scheduler sleeps until is run at.  About run_jobs and run_forever.      *)
(***************************************************************************)
SchedulerKeepsRunning ==
  /\ scheduler = "run" ~> scheduler = "sleep"
  /\ \A t \in RunTimes \cap Times :
       (scheduler = "sleep" /\ target = t) ~> (scheduler = "run" /\ began >= t)
=============================================================================
