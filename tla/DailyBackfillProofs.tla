------------------------ MODULE DailyBackfillProofs ------------------------
(***************************************************************************)
(* For any contracts, tickers, lookback, concurrency, sessions and         *)
(* schedule: DailyBackfill is type correct and keeps to its concurrency, a *)
(* run of the backfill that ends has closed the gaps that it owes, and a   *)
(* reconciliation that ends has left none in its range.                    *)
(*                                                                         *)
(* The argument follows one key through a run.  Nobody but the run writes  *)
(* to a contract that had expired when it began, so its newest row is the  *)
(* same when the start is read (Untouched, Started); and what a key that   *)
(* is done was to bring has rows, whoever wrote them (Covered, Closed).    *)
(*                                                                         *)
(* For the reconciliation the loop of find_gaps is followed round by round *)
(* (Scans, FirstFound), by an induction over the ticks of the range.       *)
(***************************************************************************)
EXTENDS DailyBackfill, WellFoundedInduction, FiniteSetTheorems, TLAPS

States == {"none", "todo", "replay", "check", "commit", "done", "short", "failed"}

Typed ==
  /\ now \in Times /\ began \in Times
  /\ contracts \subseteq Options /\ tracked \in [Programs -> SUBSET Options]
  /\ stored \in [Keys -> SUBSET Times] /\ DOMAIN start = Keys
  /\ work \in [Keys -> States]
  /\ candles \in [Keys -> SUBSET Times] /\ unusable \in [Keys -> SUBSET Times]
  /\ absent \in [Keys -> SUBSET Times]

Running == scheduler = "run"

(* There is no work but that of a run or a reconciliation. *)
Off == scheduler \notin {"run", "reconcile"} => phase = "off" /\ \A k \in Keys : work[k] = "none"

(* The work that each phase of a run finds. *)
Course ==
  Running =>
    /\ began <= now /\ had \subseteq contracts
    /\ phase \in {"refresh", "candidates", "optionStarts", "options", "tickerStarts", "tickers",
                  "finished", "failed"}
    /\ phase \in {"refresh", "candidates", "failed"} => \A k \in Keys : work[k] = "none"
    /\ phase \in {"optionStarts", "options"} => \A k \in Tickers : work[k] = "none"
    /\ phase = "optionStarts" => \A k \in Keys : work[k] \in {"none", "todo"}
    /\ phase = "tickerStarts" =>
         /\ \A k \in Tickers : work[k] = "todo"
         /\ \A k \in Options : work[k] \in {"none", "done", "short", "failed"}
    /\ phase \in {"tickerStarts", "tickers", "finished"} => \A k \in Tickers : work[k] # "none"
    /\ phase = "finished" => Settled

(* All that is owed is done, or given up. *)
Taken ==
  Running /\ phase \in {"optionStarts", "options", "tickerStarts", "tickers", "finished"} =>
    \A c \in had : window <= Expires[c] => work[c] # "none"

Expired(c) == Expires[c] + 1 < began

(* Nobody writes to an expired contract before its start is read ... *)
Untouched ==
  Running /\ phase \in {"refresh", "candidates", "optionStarts"} =>
    \A c \in Options : Expired(c) => Newest(stored[c]) = newest[c]

(* ... so it starts from where its gap begins. *)
Started ==
  Running /\ phase \in {"options", "tickerStarts", "tickers", "finished"} =>
    \A c \in Options : work[c] # "none" /\ Expired(c) => start[c] = Later(newest[c], window)

(* What was received and found to have no row is about to be written, if it can be. *)
Covered == \A k \in Keys : work[k] = "commit" =>
                              candles[k] \subseteq stored[k] \cup absent[k] \cup unusable[k]

(* The minutes a key that is done was to bring have rows, or zeroed candles. *)
Closed ==
  Running =>
    \A k \in Keys : work[k] = "done" =>
      {m \in Quoted(k) : start[k] <= m /\ m < began} \subseteq stored[k] \cup unusable[k]

Inv == Typed /\ Off /\ Course /\ Taken /\ Untouched /\ Started /\ Covered /\ Closed

-----------------------------------------------------------------------------
LEMMA InvGivesGapClosed == Inv => GapClosed
  <1> SUFFICES ASSUME Inv, scheduler = "run", phase = "finished",
                      NEW k \in Tickers \cup {c \in had : window <= Expires[c]},
                      work[k] \notin {"short", "failed"}, ~ Overtaken(k)
               PROVE  Gap(k) \subseteq stored[k] \cup unusable[k]
    BY DEF GapClosed
  <1>1. k \in Keys /\ (k \in Tickers \/ (k \in Options /\ k \in had /\ window <= Expires[k]))
    BY DEF Inv, Typed, Course, Running, Keys
  <1>2. work[k] = "done"
    <2>1. work[k] # "none"
      BY <1>1 DEF Inv, Course, Taken, Running
    <2> QED
      BY <1>1, <2>1 DEF Inv, Course, Settled, Running
  <1>3. start[k] = Later(newest[k], window)
    <2>1. CASE k \in Options /\ Expired(k)
      BY <1>2, <2>1 DEF Inv, Started, Running
    <2>2. CASE ~ (k \in Options /\ Expired(k))
      <3>1. k \in Options => Expires[k] + 1 >= began
        BY <2>2, TrackingAssumption DEF Expired, Inv, Typed, Times, TrackingAssumption
      <3> QED
        BY <3>1 DEF Overtaken
    <2> QED
      BY <2>1, <2>2
  <1> QED
    BY <1>1, <1>2, <1>3 DEF Inv, Closed, Running, Gap

LEMMA InvInit == Init => Inv
  <1> SUFFICES ASSUME Init PROVE Inv
    OBVIOUS
  <1>1. Typed
    <2>1. 0 \in Times
      BY TrackingAssumption DEF TrackingAssumption, Times
    <2> QED
      BY <2>1 DEF Init, TrackingInit, NoRun, Typed, States
  <1>2. scheduler = "down" /\ phase = "off" /\ \A k \in Keys : work[k] = "none"
    BY DEF Init, NoRun
  <1> QED
    BY <1>1, <1>2 DEF Inv, Off, Course, Taken, Untouched, Started, Covered, Closed, Running

-----------------------------------------------------------------------------
(* What goes on beside a run. *)

(* More rows and a later time change nothing for what a run has done. *)
LEMMA Beside ==
  ASSUME Inv, UNCHANGED <<run, history, scheduler>>, now' \in Times, now <= now',
         contracts \subseteq contracts', contracts' \subseteq Options,
         tracked' \in [Programs -> SUBSET Options], stored' \in [Keys -> SUBSET Times],
         \A k \in Keys : stored[k] \subseteq stored'[k],
         \A c \in Options : Running /\ Expired(c) => stored'[c] = stored[c]
  PROVE  Inv'
  <1> USE DEF Inv, run, history, Running
  <1>1. Typed'
    BY DEF Typed
  <1>2. Off' /\ Taken'
    BY DEF Off, Taken
  <1>3. Course'
    <2>1. \A n \in Times : began <= now /\ now <= n => began <= n
      BY TrackingAssumption DEF Typed, Times, TrackingAssumption
    <2> QED
      BY <2>1 DEF Course, Settled
  <1>4. Untouched' /\ Started'
    BY DEF Untouched, Started, Expired, Newest, Later, Keys
  <1>5. Covered'
    BY DEF Covered
  <1>6. Closed'
    BY DEF Closed, Quoted
  <1> QED
    BY <1>1, <1>2, <1>3, <1>4, <1>5, <1>6

LEMMA BesideTakesOver ==
  ASSUME Typed, NEW p \in Programs, NEW S \in SUBSET Options, TakesOver(p, S)
  PROVE  /\ contracts \subseteq contracts' /\ contracts' \subseteq Options
         /\ tracked' \in [Programs -> SUBSET Options]
  BY DEF Typed, TakesOver

LEMMA BesideRecords ==
  ASSUME Typed, NEW S \in SUBSET Options, Records(S)
  PROVE  /\ contracts \subseteq contracts' /\ contracts' \subseteq Options
         /\ tracked' \in [Programs -> SUBSET Options]
  BY DEF Typed, Records

LEMMA BesideEnds ==
  ASSUME Typed, NEW p \in Programs, Ends(p)
  PROVE  contracts' = contracts /\ tracked' \in [Programs -> SUBSET Options]
  BY DEF Typed, Ends

(* A minute for which there is a candle, until now, is one before the clock stops. *)
LEMMA QuotedType ==
  ASSUME Typed, NEW k \in Keys, NEW m \in Quoted(k), m <= now PROVE m \in Times
  <1> USE TrackingAssumption DEF TrackingAssumption
  <1>1. CASE k \in Tickers
    BY <1>1 DEF Quoted
  <1>2. CASE k \notin Tickers
    <2>1. Listed[k] \in Nat /\ Expires[k] \in Nat /\ now \in 0..MaxTime
      BY <1>2 DEF Keys, Typed, Times
    <2>2. m \in Listed[k]..Expires[k]
      BY <1>2 DEF Quoted
    <2> QED
      BY <2>1, <2>2 DEF Times
  <1> QED
    BY <1>1, <1>2

(* A poller does not write to a contract that has expired ... *)
LEMMA PollerIsQuiet ==
  ASSUME Inv, NEW k \in Keys, PollerBar(k)
  PROVE  /\ stored' \in [Keys -> SUBSET Times] /\ \A j \in Keys : stored[j] \subseteq stored'[j]
         /\ \A c \in Options : Running /\ Expired(c) => stored'[c] = stored[c]
  <1>1. PICK m \in {n \in Quoted(k) \ stored[k] : n <= now} : stored' = [stored EXCEPT ![k] = @ \cup {m}]
    BY DEF PollerBar
  <1>2. m \in Times
    BY <1>1, QuotedType DEF Inv
  <1>3. ASSUME NEW c \in Options, Running, Expired(c) PROVE c # k
    <2>1. Expires[c] \in Nat /\ now \in Nat /\ began \in Nat /\ began <= now
      BY <1>3, TrackingAssumption DEF TrackingAssumption, Inv, Typed, Course, Times
    <2> QED
      BY <1>3, <2>1 DEF PollerBar, Expired
  <1> QED
    BY <1>1, <1>2, <1>3 DEF Inv, Typed, Keys

(* ... and neither does the ingestion service. *)
LEMMA ExpiredIsQuiet ==
  ASSUME Inv, NEW k \in Keys, IngestBar(k)
  PROVE  /\ stored' \in [Keys -> SUBSET Times] /\ \A j \in Keys : stored[j] \subseteq stored'[j]
         /\ \A c \in Options : Running /\ Expired(c) => stored'[c] = stored[c]
  <1> USE TrackingAssumption DEF TrackingAssumption
  <1>1. now - 1 \in Quoted(k) /\ stored' = [stored EXCEPT ![k] = @ \cup {now - 1}]
    BY DEF IngestBar
  <1>2. now - 1 \in Times
    <2>1. now \in Nat
      BY DEF Inv, Typed, Times
    <2> QED
      BY <1>1, <2>1, QuotedType DEF Inv
  <1>3. ASSUME NEW c \in Options, Running, Expired(c) PROVE stored'[c] = stored[c]
    <2>1. CASE c = k
      <3>1. now - 1 <= Expires[c] /\ Expires[c] \in Nat /\ began <= now
        <4>1. k \notin Tickers
          BY <2>1, BackfillAssumption DEF BackfillAssumption
        <4> QED
          BY <1>1, <1>3, <2>1, <4>1 DEF Quoted, Inv, Course
      <3>2. Expires[c] + 1 < began /\ now \in Nat /\ began \in Nat
        BY <1>3 DEF Expired, Inv, Typed, Times
      <3> QED
        BY <3>1, <3>2
    <2>2. CASE c # k
      BY <1>1, <2>2 DEF Inv, Typed, Keys
    <2> QED
      BY <2>1, <2>2
  <1> QED
    BY <1>1, <1>2, <1>3 DEF Inv, Typed

LEMMA InvBeside == ASSUME Inv, Tick \/ Ingestion \/ Pollers PROVE Inv'
  <1>0. /\ Typed /\ "ingestion" \in Programs
    BY BackfillAssumption DEF Inv, BackfillAssumption
  <1>1. CASE Tick
    <2>1. now' \in Times /\ now <= now'
      BY <1>0, <1>1, TrackingAssumption DEF Tick, Passes, Typed, Times, TrackingAssumption
    <2> QED
      BY <1>0, <1>1, <2>1, Beside DEF Tick, tracking, Typed
  <1>2. now \in Times /\ now <= now
    BY <1>0, TrackingAssumption DEF Typed, Times, TrackingAssumption
  <1>3. CASE Refreshed
    <2>1. PICK S \in SUBSET Options : TakesOver("ingestion", S)
      BY <1>3 DEF Refreshed
    <2>2. /\ contracts \subseteq contracts' /\ contracts' \subseteq Options
          /\ tracked' \in [Programs -> SUBSET Options]
      BY <1>0, <2>1, BesideTakesOver
    <2> QED
      BY <1>0, <1>2, <1>3, <2>2, Beside DEF Refreshed, Typed
  <1>4. CASE IngestionDies
    <2>1. contracts' = contracts /\ tracked' \in [Programs -> SUBSET Options]
      BY <1>0, <1>4, BesideEnds DEF IngestionDies
    <2> QED
      BY <1>0, <1>2, <1>4, <2>1, Beside DEF IngestionDies, Typed
  <1>5. ASSUME NEW k \in Keys, IngestBar(k) PROVE Inv'
    <2>1. /\ stored' \in [Keys -> SUBSET Times] /\ \A j \in Keys : stored[j] \subseteq stored'[j]
          /\ \A c \in Options : Running /\ Expired(c) => stored'[c] = stored[c]
      BY <1>5, ExpiredIsQuiet
    <2>2. UNCHANGED <<now, tracking, scheduler, run, history>>
      BY <1>5 DEF IngestBar
    <2> QED
      BY <1>0, <1>2, <2>1, <2>2, Beside DEF tracking, Typed
  <1>6. CASE OtherManager
    <2>1. /\ contracts \subseteq contracts' /\ contracts' \subseteq Options
          /\ tracked' \in [Programs -> SUBSET Options]
      <3>1. CASE \E S \in SUBSET Options : Records(S)
        BY <1>0, <3>1, BesideRecords
      <3>2. CASE \E p \in Programs : Ends(p)
        BY <1>0, <3>2, BesideEnds DEF Typed
      <3>3. CASE \E p \in Programs : \E S \in SUBSET Options : TakesOver(p, S)
        BY <1>0, <3>3, BesideTakesOver
      <3> QED
        BY <1>6, <3>1, <3>2, <3>3 DEF OtherManager
    <2> QED
      BY <1>0, <1>2, <1>6, <2>1, Beside DEF OtherManager, Typed
  <1>7. ASSUME NEW k \in Keys, PollerBar(k) PROVE Inv'
    <2>1. /\ stored' \in [Keys -> SUBSET Times] /\ \A j \in Keys : stored[j] \subseteq stored'[j]
          /\ \A c \in Options : Running /\ Expired(c) => stored'[c] = stored[c]
      BY <1>7, PollerIsQuiet
    <2>2. UNCHANGED <<now, tracking, scheduler, run, history>>
      BY <1>7 DEF PollerBar
    <2> QED
      BY <1>0, <1>2, <2>1, <2>2, Beside DEF tracking, Typed
  <1> QED
    BY <1>1, <1>3, <1>4, <1>5, <1>6, <1>7 DEF Ingestion, Pollers

-----------------------------------------------------------------------------
(* The scheduler. *)

LEMMA InvBegins == ASSUME Inv, SchedulerStarts \/ Wake PROVE Inv'
  <1>1. /\ scheduler \in {"down", "sleep"} /\ scheduler' = "run" /\ phase' = "refresh"
        /\ began' = now /\ had' = contracts
        /\ newest' = [k \in Keys |-> Newest(stored[k])]
        /\ UNCHANGED <<now, contracts, tracked, stored, window, start, work, candles, unusable, absent>>
    BY DEF SchedulerStarts, Wake, RunBegins, tracking
  <1>2. \A k \in Keys : work[k] = "none"
    BY <1>1 DEF Inv, Off
  <1>3. Typed'
    BY <1>1 DEF Inv, Typed
  <1>4. Course'
    <2>1. now <= now
      BY TrackingAssumption DEF Inv, Typed, Times, TrackingAssumption
    <2> QED
      BY <1>1, <1>2, <2>1 DEF Course, Running
  <1>5. Untouched'
    BY <1>1 DEF Untouched, Keys, Newest
  <1>6. Off' /\ Taken' /\ Started' /\ Covered' /\ Closed'
    BY <1>1, <1>2 DEF Off, Taken, Started, Covered, Closed
  <1> QED
    BY <1>3, <1>4, <1>5, <1>6 DEF Inv

LEMMA InvOver == ASSUME Inv, RunExits \/ RunKilled PROVE Inv'
  <1>1. /\ scheduler' \in {"greeks", "over"} /\ RunIsOver
    BY DEF RunExits, RunKilled, Following
  <1>2. /\ phase' = "off" /\ \A k \in Keys : work'[k] = "none"
        /\ UNCHANGED <<now, stored, contracts>> /\ began' = 0
    BY <1>1 DEF RunIsOver, NoRun, Ends
  <1>3. Typed'
    <2>1. 0 \in Times
      BY TrackingAssumption DEF TrackingAssumption, Times
    <2>2. /\ work' \in [Keys -> States] /\ DOMAIN start' = Keys
          /\ candles' \in [Keys -> SUBSET Times] /\ unusable' \in [Keys -> SUBSET Times]
          /\ absent' \in [Keys -> SUBSET Times]
      BY <1>1 DEF RunIsOver, NoRun, States
    <2>3. tracked' \in [Programs -> SUBSET Options]
      BY <1>1, BesideEnds, BackfillAssumption DEF RunIsOver, Inv, BackfillAssumption
    <2> QED
      BY <1>2, <2>1, <2>2, <2>3 DEF Inv, Typed
  <1> QED
    BY <1>1, <1>2, <1>3 DEF Inv, Off, Course, Taken, Untouched, Started, Covered, Closed, Running

LEMMA InvSleep == ASSUME Inv, Sleep \/ SpawnReconcile PROVE Inv'
  <1>1. CASE Sleep
    <2>1. /\ scheduler \in {"greeks", "over"} /\ scheduler' = "sleep"
          /\ UNCHANGED <<now, contracts, tracked, stored, run, history>>
      BY <1>1 DEF Sleep, tracking
    <2>2. Typed' /\ Off' /\ Covered'
      BY <2>1 DEF Inv, Typed, Off, Covered, run, history
    <2> QED
      BY <2>1, <2>2 DEF Inv, Course, Taken, Untouched, Started, Closed, Running
  <1>2. CASE SpawnReconcile
    <2>1. /\ scheduler' = "reconcile" /\ began' = now
          /\ work' = [k \in Keys |-> IF k \in Tickers THEN "todo" ELSE "none"]
          /\ UNCHANGED <<now, contracts, tracked, stored, start, candles, unusable, absent>>
      BY <1>2 DEF SpawnReconcile, ReconcileBegins, tracking
    <2>2. Typed'
      BY <2>1 DEF Inv, Typed, States
    <2>3. Covered'
      BY <2>1 DEF Covered
    <2> QED
      BY <2>1, <2>2, <2>3 DEF Inv, Off, Course, Taken, Untouched, Started, Closed, Running
  <1> QED
    BY <1>1, <1>2

-----------------------------------------------------------------------------
(* The phases of a run. *)

LEMMA InvRefresh == ASSUME Inv, RefreshEnds \/ RefreshRaises, UNCHANGED <<history, scheduler, now>>
                    PROVE  Inv'
  <1>1. /\ phase = "refresh" /\ phase' \in {"candidates", "failed"}
        /\ UNCHANGED <<stored, start, work, candles, unusable, absent, began, had, newest, scheduler, now>>
    BY DEF RefreshEnds, RefreshRaises, history
  <1>2. /\ contracts \subseteq contracts' /\ contracts' \subseteq Options
        /\ tracked' \in [Programs -> SUBSET Options]
    <2>1. CASE RefreshEnds
      BY <2>1, BesideTakesOver, BackfillAssumption DEF RefreshEnds, Inv, BackfillAssumption
    <2>2. CASE RefreshRaises
      BY <2>2, BesideRecords DEF RefreshRaises, Inv
    <2> QED
      BY <2>1, <2>2
  <1>3. Typed' /\ Off' /\ Covered' /\ Closed'
    BY <1>1, <1>2 DEF Inv, Typed, Off, Covered, Closed, Running, Quoted
  <1>4. Course'
    BY <1>1, <1>2 DEF Inv, Course, Running
  <1>5. Untouched'
    BY <1>1 DEF Inv, Untouched, Running, Expired
  <1> QED
    BY <1>1, <1>3, <1>4, <1>5 DEF Inv, Taken, Started, Running

LEMMA InvCandidates == ASSUME Inv, ReadCandidates, UNCHANGED <<history, scheduler, now>> PROVE Inv'
  <1>1. /\ phase = "candidates" /\ phase' = "optionStarts"
        /\ work' = [k \in Keys |-> IF k \in Candidates THEN "todo" ELSE "none"]
        /\ UNCHANGED <<contracts, tracked, stored, window, start, candles, unusable, absent, began,
                       had, newest, scheduler, now>>
    BY DEF ReadCandidates, tracking, history
  <1>2. Candidates \subseteq Options
    BY BackfillAssumption DEF Candidates, Inv, Typed, BackfillAssumption
  <1>3. Typed'
    BY <1>1 DEF Inv, Typed, States
  <1>4. \A k \in Keys : work'[k] \in {"none", "todo"}
    BY <1>1
  <1>5. \A k \in Tickers : work'[k] = "none"
    BY <1>1, <1>2, BackfillAssumption DEF BackfillAssumption, Keys
  <1>6. Off' /\ Covered' /\ Closed'
    BY <1>1, <1>4 DEF Inv, Off, Covered, Closed
  <1>7. Course'
    BY <1>1, <1>4, <1>5 DEF Inv, Course, Running
  <1>8. Taken'
    BY <1>1, <1>2 DEF Inv, Course, Taken, Running, Candidates, Keys
  <1>9. Untouched' /\ Started'
    BY <1>1 DEF Inv, Untouched, Started, Running, Expired
  <1> QED
    BY <1>3, <1>6, <1>7, <1>8, <1>9 DEF Inv

LEMMA InvStarts ==
  ASSUME Inv, ReadStarts("optionStarts", "options") \/ ReadStarts("tickerStarts", "tickers"),
         UNCHANGED <<history, scheduler, now>>
  PROVE  Inv'
  <1>1. /\ start' = [k \in Keys |-> IF work[k] = "todo" THEN Later(Newest(stored[k]), window)
                                    ELSE start[k]]
        /\ UNCHANGED <<contracts, tracked, stored, window, work, candles, unusable, absent, began,
                       had, newest, scheduler, now>>
        /\ \/ phase = "optionStarts" /\ phase' = "options"
           \/ phase = "tickerStarts" /\ phase' = "tickers"
    BY DEF ReadStarts, tracking, history
  <1>2. Typed' /\ Off' /\ Covered'
    BY <1>1 DEF Inv, Typed, Off, Covered
  <1>3. Course'
    BY <1>1 DEF Inv, Course, Running
  <1>4. Taken'
    BY <1>1 DEF Inv, Taken, Running
  <1>5. Untouched'
    BY <1>1 DEF Untouched
  <1>6. Started'
    <2> SUFFICES ASSUME Running, NEW c \in Options, work[c] # "none", Expired(c)
                 PROVE  start'[c] = Later(newest[c], window)
      BY <1>1 DEF Started, Running, Expired
    <2>1. CASE phase = "optionStarts"
      <3>1. work[c] = "todo" /\ Newest(stored[c]) = newest[c]
        BY <2>1 DEF Inv, Course, Untouched, Keys
      <3> QED
        BY <1>1, <3>1 DEF Keys
    <2>2. CASE phase = "tickerStarts"
      <3>1. c \in Keys /\ start[c] = Later(newest[c], window)
        BY <2>2 DEF Inv, Started, Keys
      <3>2. start'[c] = start[c] \/ start'[c] = Later(Newest(stored[c]), window)
        BY <1>1, <3>1
      <3>3. work[c] # "todo"
        BY <2>2 DEF Inv, Course
      <3> QED
        BY <1>1, <3>1, <3>3
    <2> QED
      BY <1>1, <2>1, <2>2
  <1>7. Closed'
    BY <1>1 DEF Inv, Closed, Running, Quoted
  <1> QED
    BY <1>2, <1>3, <1>4, <1>5, <1>6, <1>7 DEF Inv

LEMMA InvPhaseEnds ==
  ASSUME Inv, OptionsDone \/ TickersDone \/ ReconcileRaises \/ ReconcileDone,
         UNCHANGED <<history, scheduler, now>>
  PROVE  Inv'
  <1>1. CASE OptionsDone
    <2>1. /\ phase = "options" /\ phase' = "tickerStarts" /\ Settled
          /\ work' = [k \in Keys |-> IF k \in Tickers THEN "todo" ELSE work[k]]
          /\ UNCHANGED <<contracts, tracked, stored, window, start, candles, unusable, absent, began,
                         had, newest, scheduler, now>>
      BY <1>1 DEF OptionsDone, tracking, history
    <2>2. /\ \A k \in Tickers : work'[k] = "todo"
          /\ \A k \in Options : work'[k] = work[k]
      BY <2>1, BackfillAssumption DEF BackfillAssumption, Keys
    <2>3. Typed'
      BY <2>1 DEF Inv, Typed, States
    <2>4. Off' /\ Covered' /\ Untouched'
      BY <2>1, <2>2 DEF Inv, Off, Covered, Untouched, Keys
    <2>5. Course'
      BY <2>1, <2>2 DEF Inv, Course, Settled, Running, Keys
    <2>6. Taken'
      BY <2>1, <2>2 DEF Inv, Typed, Taken, Course, Running, Keys
    <2>7. Started' /\ Closed'
      BY <2>1, <2>2 DEF Inv, Started, Closed, Running, Quoted, Expired, Keys
    <2> QED
      BY <2>3, <2>4, <2>5, <2>6, <2>7 DEF Inv
  <1>2. CASE TickersDone
    <2>1. /\ phase = "tickers" /\ phase' = "finished" /\ Settled
          /\ UNCHANGED <<contracts, tracked, stored, window, start, work, candles, unusable, absent,
                         began, had, newest, scheduler, now>>
      BY <1>2 DEF TickersDone, tracking, history
    <2>2. Typed' /\ Off' /\ Covered' /\ Untouched'
      BY <2>1 DEF Inv, Typed, Off, Covered, Untouched
    <2>3. Course'
      BY <2>1 DEF Inv, Course, Settled, Running
    <2>4. Taken' /\ Started' /\ Closed'
      BY <2>1 DEF Inv, Taken, Started, Closed, Running, Quoted, Expired
    <2> QED
      BY <2>2, <2>3, <2>4 DEF Inv
  <1>3. CASE ReconcileRaises \/ ReconcileDone
    <2>1. /\ phase = "reconcile" /\ phase' \in {"failed", "finished"}
          /\ UNCHANGED <<contracts, tracked, stored, window, start, work, candles, unusable, absent, began,
                         scheduler, now>>
      BY <1>3 DEF ReconcileRaises, ReconcileDone, tracking, history
    <2>2. ~ Running
      BY <2>1 DEF Inv, Course
    <2>3. Typed' /\ Off' /\ Covered'
      BY <2>1 DEF Inv, Typed, Off, Covered
    <2> QED
      BY <2>1, <2>2, <2>3 DEF Inv, Course, Taken, Untouched, Started, Closed, Running
  <1> QED
    BY <1>1, <1>2, <1>3

LEMMA InvScan == ASSUME Inv, NEW k \in Tickers, Scan(k), UNCHANGED <<scheduler, now>> PROVE Inv'
  <1>1. /\ phase = "reconcile" /\ work[k] = "todo"
        /\ \E state \in {"done", "replay"} : work' = [work EXCEPT ![k] = state]
        /\ UNCHANGED <<contracts, tracked, stored, phase, candles, unusable, absent, began, scheduler, now>>
    BY DEF Scan, Moves, tracking
  <1>2. DOMAIN start' = Keys
    BY DEF Scan, Inv, Typed
  <1>3. ~ Running /\ scheduler \in {"run", "reconcile"}
    BY <1>1 DEF Inv, Course, Off
  <1>4. Typed'
    BY <1>1, <1>2 DEF Inv, Typed, States
  <1>5. Covered'
    BY <1>1 DEF Inv, Typed, Covered
  <1> QED
    BY <1>1, <1>3, <1>4, <1>5 DEF Inv, Off, Course, Taken, Untouched, Started, Closed, Running

-----------------------------------------------------------------------------
(* The work on one key. *)

(* It moves from one state to another, in a phase that has work. *)
LEMMA ProcessMoves ==
  ASSUME Inv, NEW k \in Keys, Process(k)
  PROVE  /\ work[k] \in {"todo", "replay", "check", "commit"}
         /\ \E state \in {"replay", "check", "commit", "done", "short", "failed"} :
              work' = [work EXCEPT ![k] = state]
         /\ work[k] = "todo" => phase \in {"options", "tickers"}
         /\ UNCHANGED <<contracts, tracked, phase, window, start>>
  <1>1. CASE Request(k)
    BY <1>1 DEF Request, Free, Moves, Process, tracking
  <1>2. CASE Replayed(k) \/ Lookup(k) \/ Insert(k)
    BY <1>2 DEF Replayed, Lookup, Insert, Moves, Process, tracking
  <1>3. CASE GivenUp(k)
    BY <1>3 DEF GivenUp, InWork, Moves, Process, tracking
  <1> QED
    BY <1>1, <1>2, <1>3 DEF Process

LEMMA ProcessTypes ==
  ASSUME Inv, NEW k \in Keys, Process(k)
  PROVE  /\ stored' \in [Keys -> SUBSET Times] /\ \A j \in Keys : stored[j] \subseteq stored'[j]
         /\ \A j \in Keys \ {k} :
              /\ stored'[j] = stored[j] /\ candles'[j] = candles[j]
              /\ unusable'[j] = unusable[j] /\ absent'[j] = absent[j]
         /\ candles' \in [Keys -> SUBSET Times] /\ unusable' \in [Keys -> SUBSET Times]
         /\ absent' \in [Keys -> SUBSET Times]
  <1>1. CASE Replayed(k)
    <2>1. History(k) \subseteq Times
      <3>1. CASE k \in Tickers
        BY <3>1 DEF History, Quoted
      <3>2. CASE k \notin Tickers
        <4>1. Listed[k] \in Nat /\ Expires[k] \in Nat /\ now \in 0..MaxTime
          BY <3>2, TrackingAssumption DEF TrackingAssumption, Keys, Inv, Typed, Times
        <4>2. \A m \in History(k) : m \in Listed[k]..Expires[k] /\ m <= now
          BY <3>2 DEF History, Quoted
        <4>3. ASSUME NEW m \in History(k) PROVE m \in 0..MaxTime
          <5>1. m \in Listed[k]..Expires[k] /\ m <= now
            BY <4>2
          <5>2. MaxTime \in Nat
            BY TrackingAssumption DEF TrackingAssumption
          <5> QED
            BY <4>1, <5>1, <5>2
        <4> QED
          BY <4>3 DEF Times
      <3> QED
        BY <3>1, <3>2
    <2> QED
      BY <1>1, <2>1 DEF Replayed, Inv, Typed
  <1>2. CASE Request(k) \/ Lookup(k)
    BY <1>2 DEF Request, Lookup, Inv, Typed
  <1>3. CASE Insert(k) \/ GivenUp(k)
    BY <1>3 DEF Insert, GivenUp, Forget, Inv, Typed
  <1> QED
    BY <1>1, <1>2, <1>3 DEF Process

(* It comes to "commit" and to "done" with what it owes. *)
LEMMA ProcessOwes ==
  ASSUME Inv, NEW k \in Keys, Process(k), UNCHANGED <<began, now>>
  PROVE  /\ work'[k] = "commit" => candles'[k] \subseteq stored'[k] \cup absent'[k] \cup unusable'[k]
         /\ work'[k] = "done" => {m \in Quoted(k) : start[k] <= m /\ m < began} \cap {m \in Nat : m <= now}
                                   \subseteq stored'[k] \cup unusable'[k]
  <1> USE DEF Moves, Inv, Typed, States
  <1>1. CASE Request(k) \/ GivenUp(k)
    BY <1>1 DEF Request, GivenUp
  <1>2. CASE Replayed(k)
    <2>1. work'[k] # "commit" /\ (work'[k] = "done" => Complete(k, {}))
      BY <1>2 DEF Replayed
    <2> QED
      BY <2>1 DEF Complete, History
  <1>3. CASE Lookup(k)
    BY <1>3 DEF Lookup
  <1>4. CASE Insert(k)
    <2>1. work[k] = "commit" /\ work'[k] # "commit" /\ (work'[k] = "done" => Complete(k, candles[k]))
      BY <1>4 DEF Insert
    <2>2. candles[k] \subseteq stored'[k] \cup unusable'[k]
      BY <1>4, <2>1 DEF Insert, Forget, Covered
    <2> QED
      BY <2>1, <2>2 DEF Complete, History
  <1> QED
    BY <1>1, <1>2, <1>3, <1>4 DEF Process

LEMMA InvProcess ==
  ASSUME Inv, NEW k \in Keys, Process(k), UNCHANGED <<history, scheduler, now>>
  PROVE  Inv'
  <1>1. PICK state \in {"replay", "check", "commit", "done", "short", "failed"} :
          work' = [work EXCEPT ![k] = state]
    BY ProcessMoves
  <1>2. /\ work[k] \in {"todo", "replay", "check", "commit"}
        /\ work[k] = "todo" => phase \in {"options", "tickers"}
        /\ UNCHANGED <<contracts, tracked, phase, window, start, began, had, newest, scheduler, now>>
    BY ProcessMoves DEF history
  <1>3. work'[k] = state /\ \A j \in Keys \ {k} : work'[j] = work[j]
    BY <1>1 DEF Inv, Typed
  <1>4. Running => phase \in {"options", "tickers"} /\ (phase = "options" => k \notin Tickers)
    BY <1>2 DEF Inv, Course, Settled, Keys
  <1>5. Typed'
    BY <1>1, <1>2, ProcessTypes DEF Inv, Typed, States
  <1>6. Off' /\ Untouched'
    BY <1>2, <1>4 DEF Inv, Off, Untouched, Running
  <1>7. Course'
    BY <1>2, <1>3, <1>4 DEF Inv, Course, Running, Keys
  <1>8. Taken'
    BY <1>2, <1>3, <1>4 DEF Inv, Typed, Course, Taken, Running, Keys
  <1>9. Started'
    BY <1>2, <1>3, <1>4 DEF Inv, Started, Running, Expired, Keys
  <1>10. Covered'
    BY <1>2, <1>3, ProcessTypes, ProcessOwes DEF Inv, Covered
  <1>11. Closed'
    <2> SUFFICES ASSUME Running, NEW j \in Keys, work'[j] = "done"
                 PROVE  {m \in Quoted(j) : start[j] <= m /\ m < began} \subseteq stored'[j] \cup unusable'[j]
      BY <1>2 DEF Closed, Running, Quoted
    <2>1. CASE j = k
      <3>1. {m \in Quoted(j) : start[j] <= m /\ m < began} \cap {m \in Nat : m <= now}
               \subseteq stored'[j] \cup unusable'[j]
        BY <1>2, <2>1, ProcessOwes
      <3>2. Quoted(j) \subseteq Nat /\ now \in Nat /\ began \in Nat /\ began <= now
        BY TrackingAssumption DEF TrackingAssumption, Quoted, Keys, Inv, Typed, Course, Times
      <3> QED
        BY <3>1, <3>2
    <2>2. CASE j # k
      BY <1>3, <2>2, ProcessTypes DEF Inv, Closed
    <2> QED
      BY <2>1, <2>2
  <1> QED
    BY <1>5, <1>6, <1>7, <1>8, <1>9, <1>10, <1>11 DEF Inv

-----------------------------------------------------------------------------
LEMMA InvStep == ASSUME Inv, [Next]_vars PROVE Inv'
  <1>1. CASE RunSteps
    <2>1. UNCHANGED <<scheduler, now>>
      BY <1>1 DEF RunSteps
    <2>2. ASSUME NEW k \in Tickers, Scan(k) PROVE Inv'
      BY <2>1, <2>2, InvScan
    <2>3. ASSUME NEW k \in Keys, Process(k), UNCHANGED history PROVE Inv'
      BY <2>1, <2>3, InvProcess
    <2> QED
      BY <1>1, <2>1, <2>2, <2>3, InvRefresh, InvCandidates, InvStarts, InvPhaseEnds DEF RunSteps
  <1>2. CASE UNCHANGED vars
    <2>1. UNCHANGED <<run, history, scheduler, now, contracts, tracked, stored>>
      BY <1>2 DEF vars, tracking
    <2>2. now <= now
      BY TrackingAssumption DEF Inv, Typed, Times, TrackingAssumption
    <2> QED
      BY <2>1, <2>2, Beside DEF Inv, Typed
  <1> QED
    BY <1>1, <1>2, InvBeside, InvBegins, InvOver, InvSleep DEF Next

(***************************************************************************)
(* A run that ends has closed the gap of every ticker and of every         *)
(* contract that the table knew within the lookback, but for the minutes   *)
(* with a zeroed candle, unless it gave the key up, its replay was short,  *)
(* or another program's newer row overtook it.                             *)
(***************************************************************************)
THEOREM GapsClosed == Spec => []GapClosed
  BY InvInit, InvStep, InvGivesGapClosed, PTL DEF Spec

-----------------------------------------------------------------------------
(* Numbers: induction, and functions that are defined by it. *)

(* Every set of numbers has a least one. *)
LEMMA LeastNumber ==
  ASSUME NEW T \in SUBSET Nat, T # {} PROVE \E n \in T : \A m \in T : n <= m
  <1> DEFINE Smaller == {p \in Nat \X Nat : p[1] < p[2]}
  <1>1. IsWellFoundedOn(Smaller, Nat)
    BY NatLessThanWellFounded DEF OpToRel
  <1>2. \E n \in T : \A m \in T : ~ (<<m, n>> \in Smaller)
    <2> HIDE DEF Smaller
    <2> QED
      BY <1>1, WFMin
  <1>3. PICK n \in T : \A m \in T : ~ (<<m, n>> \in Smaller)
    BY <1>2
  <1>4. ASSUME NEW m \in T PROVE n <= m
    <2>1. <<m, n>> \notin Smaller /\ m \in Nat /\ n \in Nat
      BY <1>3
    <2>2. ~ (m < n)
      BY <2>1
    <2> QED
      BY <2>1, <2>2
  <1> QED
    BY <1>4

(* A set of numbers that has 0, and with each number the next, has them all. *)
LEMMA AllNumbers ==
  ASSUME NEW T \in SUBSET Nat, 0 \in T, \A n \in T : n + 1 \in T PROVE T = Nat
  <1> SUFFICES ASSUME Nat \ T # {} PROVE FALSE
    OBVIOUS
  <1>1. PICK n \in Nat \ T : \A m \in Nat \ T : n <= m
    BY LeastNumber
  <1>2. n # 0 /\ n - 1 \in Nat
    OBVIOUS
  <1>3. n - 1 \in T
    BY <1>1, <1>2
  <1> QED
    BY <1>1, <1>2, <1>3

(* f goes from init in steps. *)
Iterates(f, S, init, step) ==
  f \in [Nat -> S] /\ f[0] = init /\ \A n \in Nat : f[n + 1] = step[n][f[n]]

(* There is a function with a given first value and given steps. *)
LEMMA Iterated ==
  ASSUME NEW S, NEW init \in S, NEW step, step \in [Nat -> [S -> S]]
  PROVE  \E f : Iterates(f, S, init, step)
  <1> DEFINE Upto(n) == {g \in [0..n -> S] : g[0] = init /\ \A i \in 0..(n - 1) : g[i + 1] = step[i][g[i]]}
             Agree(i) == \A n, m \in Nat : \A g, h : i <= n /\ i <= m /\ g \in Upto(n) /\ h \in Upto(m)
                           => g[i] = h[i]
             Common == {i \in Nat : Agree(i)}
             Reached == {n \in Nat : Upto(n) # {}}
  <1>1. \A i \in Nat : Agree(i)
    <2>1. Agree(0)
      OBVIOUS
    <2>2. ASSUME NEW i \in Nat, Agree(i) PROVE Agree(i + 1)
      <3> SUFFICES ASSUME NEW n \in Nat, NEW m \in Nat, NEW g, NEW h, i + 1 <= n, i + 1 <= m,
                          g \in Upto(n), h \in Upto(m)
                   PROVE  g[i + 1] = h[i + 1]
        <4> HIDE DEF Upto
        <4> QED
          OBVIOUS
      <3>1. i <= n /\ i <= m /\ i \in 0..(n - 1) /\ i \in 0..(m - 1)
        OBVIOUS
      <3>2. g[i] = h[i]
        <4> HIDE DEF Upto
        <4> QED
          BY <2>2, <3>1
      <3> QED
        BY <3>1, <3>2
    <2> HIDE DEF Agree
    <2>3. Common \in SUBSET Nat /\ 0 \in Common /\ \A i \in Common : i + 1 \in Common
      BY <2>1, <2>2
    <2>4. Common = Nat
      <3> HIDE DEF Common
      <3> QED
        BY <2>3, AllNumbers
    <2> QED
      BY <2>4
  <1>2. Reached = Nat
    <2>1. 0 \in Reached
      <3>1. [i \in 0..0 |-> init] \in Upto(0)
        OBVIOUS
      <3> QED
        BY <3>1
    <2>2. ASSUME NEW n \in Reached PROVE n + 1 \in Reached
      <3>1. PICK g \in Upto(n) : TRUE
        OBVIOUS
      <3> DEFINE h == [i \in 0..(n + 1) |-> IF i <= n THEN g[i] ELSE step[n][g[n]]]
      <3>2. g[n] \in S /\ step[n][g[n]] \in S
        OBVIOUS
      <3>3. h \in [0..(n + 1) -> S] /\ h[0] = init
        BY <3>2
      <3>4. ASSUME NEW i \in 0..n PROVE h[i + 1] = step[i][h[i]]
        <4>1. CASE i = n
          BY <4>1
        <4>2. CASE i # n
          <5>1. i \in 0..(n - 1) /\ i + 1 \in 0..n /\ i \in 0..n
            BY <4>2
          <5>2. h[i + 1] = g[i + 1] /\ h[i] = g[i]
            BY <5>1
          <5> QED
            BY <5>1, <5>2
        <4> QED
          BY <4>1, <4>2
      <3>5. h \in Upto(n + 1) /\ n + 1 \in Nat
        <4> HIDE DEF h
        <4>1. (n + 1) - 1 = n
          OBVIOUS
        <4> QED
          BY <3>3, <3>4, <4>1
      <3> HIDE DEF Upto
      <3> QED
        BY <3>5
    <2> HIDE DEF Reached
    <2>3. Reached \in SUBSET Nat
      BY DEF Reached
    <2> QED
      BY <2>1, <2>2, <2>3, AllNumbers
  <1> DEFINE one == [n \in Nat |-> CHOOSE g \in Upto(n) : TRUE]
             f == [n \in Nat |-> one[n][n]]
  <1>3. \A n \in Nat : one[n] \in Upto(n)
    BY <1>2
  <1>4. f \in [Nat -> S] /\ f[0] = init
    <2> HIDE DEF one
    <2>1. \A n \in Nat : one[n][n] \in S
      BY <1>3
    <2>2. one[0][0] = init
      BY <1>3
    <2> QED
      BY <2>1, <2>2
  <1>5. ASSUME NEW n \in Nat PROVE f[n + 1] = step[n][f[n]]
    <2> HIDE DEF one
    <2>1. one[n + 1] \in Upto(n + 1) /\ one[n] \in Upto(n) /\ n \in 0..n
      BY <1>3
    <2>2. one[n + 1][n + 1] = step[n][one[n + 1][n]]
      BY <2>1
    <2>3. one[n + 1][n] = one[n][n]
      <3>1. Agree(n) /\ n <= n + 1 /\ n <= n /\ n + 1 \in Nat
        <4> HIDE DEF Agree
        <4> QED
          BY <1>1
      <3> HIDE DEF Upto
      <3> QED
        BY <2>1, <3>1
    <2> QED
      BY <2>2, <2>3
  <1> QED
    BY <1>4, <1>5 DEF Iterates

-----------------------------------------------------------------------------
(* The loop of find_gaps. *)

ScanState == [gaps : Seq(Int \X Int), first : Int, prev : Int]

(* What it begins with. *)
Nothing == [gaps |-> <<>>, first |-> -1, prev |-> -1]

(* What it makes of the n-th tick. *)
Round(existing, from, to, n, scan) ==
  IF from + n - 1 \in Gaps!ExpectedBarMinutes(from, to)
  THEN Gaps!Look(existing, scan, from + n - 1, 1) ELSE scan

(* A round keeps the types. *)
LEMMA LookType ==
  ASSUME NEW existing, NEW minute \in Int, NEW scan \in ScanState
  PROVE  Gaps!Look(existing, scan, minute, 1) \in ScanState
  <1>1. Gaps!CloseGap(scan, minute, 1) \in Seq(Int \X Int)
    BY DEF Gaps!CloseGap, Gaps!GapBefore, ScanState
  <1>2. scan.gaps \in Seq(Int \X Int) /\ scan.first \in Int /\ scan.prev \in Int
    BY DEF ScanState
  <1>3. CASE minute \in existing
    BY <1>1, <1>2, <1>3 DEF Gaps!Look, ScanState
  <1>4. CASE minute \notin existing
    BY <1>2, <1>4 DEF Gaps!Look, ScanState
  <1> QED
    BY <1>3, <1>4

(* scan[n] is what the loop has after n ticks. *)
Scans(scan, existing, from, to) ==
  /\ scan \in [Nat -> ScanState] /\ scan[0] = Nothing
  /\ \A n \in Nat : scan[n + 1] = Round(existing, from, to, n + 1, scan[n])

(* The recursive function is what its equations say. *)
LEMMA ScanSteps ==
  ASSUME NEW existing, NEW from \in Nat, NEW to \in Nat
  PROVE  Scans(Gaps!ScanOf(existing, from, to, 1), existing, from, to)
  <1> DEFINE scan == Gaps!ScanOf(existing, from, to, 1)
  <1> DEFINE step == [n \in Nat |-> [s \in ScanState |-> Round(existing, from, to, n + 1, s)]]
  <1>1. \A n \in Nat, s \in ScanState : Round(existing, from, to, n, s) \in ScanState
    BY LookType DEF Round
  <1>2. step \in [Nat -> [ScanState -> ScanState]]
    BY <1>1
  <1>3. Nothing \in ScanState
    BY DEF Nothing, ScanState
  <1>4. PICK f \in [Nat -> ScanState] : f[0] = Nothing /\ \A n \in Nat : f[n + 1] = step[n][f[n]]
    <2> HIDE DEF step
    <2>1. PICK f : Iterates(f, ScanState, Nothing, step)
      BY <1>2, <1>3, Iterated
    <2> QED
      BY <2>1 DEF Iterates
  <1> DEFINE Body(g) == [n \in Nat |-> IF n = 0 THEN Nothing ELSE Round(existing, from, to, n, g[n - 1])]
  <1>5. \A n \in Nat : f[n + 1] = Round(existing, from, to, n + 1, f[n])
    BY <1>4
  <1>6. f = Body(f)
    <2>1. ASSUME NEW n \in Nat PROVE f[n] = Body(f)[n]
      <3>1. CASE n = 0
        BY <1>4, <3>1
      <3>2. CASE n # 0
        <4>1. n - 1 \in Nat /\ (n - 1) + 1 = n
          BY <3>2
        <4> QED
          BY <1>5, <3>2, <4>1
      <3> QED
        BY <3>1, <3>2
    <2> QED
      BY <2>1
  <1>7. scan = CHOOSE g : g = Body(g)
    BY DEF Gaps!ScanOf, Round, Nothing
  <1> HIDE DEF scan
  <1>8. scan = Body(scan)
    <2> HIDE DEF Body
    <2> QED
      BY <1>6, <1>7
  <1>9. scan[0] = Nothing /\ \A n \in Nat : scan[n + 1] = Round(existing, from, to, n + 1, scan[n])
    <2>1. \A n \in Nat : n + 1 \in Nat /\ n + 1 # 0 /\ (n + 1) - 1 = n
      OBVIOUS
    <2> QED
      BY <1>8, <2>1
  <1>10. \A n \in Nat : scan[n] \in ScanState
    <2> DEFINE T == {n \in Nat : scan[n] \in ScanState}
    <2>1. 0 \in T /\ \A n \in T : n + 1 \in T
      BY <1>1, <1>3, <1>9
    <2>2. T \in SUBSET Nat
      OBVIOUS
    <2>3. T = Nat
      <3> HIDE DEF T
      <3> QED
        BY <2>1, <2>2, AllNumbers
    <2> QED
      BY <2>3
  <1>11. scan = [n \in Nat |-> scan[n]]
    BY <1>8
  <1>12. scan \in [Nat -> ScanState]
    BY <1>10, <1>11
  <1> QED
    BY <1>9, <1>12 DEF Scans, scan

-----------------------------------------------------------------------------
Expected(from, to) == Gaps!ExpectedBarMinutes(from, to)

Missing(existing, from, to) == Expected(from, to) \ existing

(* The gap found first, or the one that is open, begins with the first of `missing`. *)
FirstFound(scan, missing) ==
  /\ scan.gaps = <<>> /\ scan.first = -1 => missing = {}
  /\ scan.gaps = <<>> /\ scan.first # -1 => scan.first \in missing /\ \A m \in missing : scan.first <= m
  /\ scan.gaps # <<>> => scan.gaps[1][1] \in missing /\ \A m \in missing : scan.gaps[1][1] <= m
  /\ scan.first # -1 => scan.first \in missing /\ scan.first <= scan.prev

(* The expected minutes are in the range. *)
LEMMA ExpectedInside ==
  ASSUME NEW from \in Nat, NEW to \in Nat
  PROVE  Expected(from, to) \subseteq from..to
  BY BackfillAssumption
  DEF BackfillAssumption, Expected, Gaps!ExpectedBarMinutes, Gaps!SessionMinutes, Gaps!Later, Gaps!Earlier

(* A gap is never too short for a minimum of one minute. *)
LEMMA CloseKeeps ==
  ASSUME NEW scan \in ScanState, NEW minute \in Int, scan.first <= scan.prev
  PROVE  /\ Gaps!CloseGap(scan, minute, 1) = Append(scan.gaps, <<scan.first, scan.prev>>)
         /\ Gaps!CloseGap(scan, minute, 1) # <<>>
         /\ Gaps!CloseGap(scan, minute, 1)[1][1]
              = IF scan.gaps = <<>> THEN scan.first ELSE scan.gaps[1][1]
  <1>1. scan.gaps \in Seq(Int \X Int) /\ scan.first \in Int /\ scan.prev \in Int
    BY DEF ScanState
  <1>2. Gaps!GapMinutes(<<scan.first, scan.prev>>) >= 1
    BY <1>1 DEF Gaps!GapMinutes
  <1>3. Gaps!CloseGap(scan, minute, 1) = Append(scan.gaps, <<scan.first, scan.prev>>)
    BY <1>2 DEF Gaps!CloseGap, Gaps!GapBefore
  <1>4. <<scan.first, scan.prev>> \in Int \X Int
    BY <1>1
  <1> DEFINE closed == Append(scan.gaps, <<scan.first, scan.prev>>)
  <1>5. Len(closed) = Len(scan.gaps) + 1 /\ closed # <<>>
    <2>1. Len(closed) = Len(scan.gaps) + 1 /\ Len(scan.gaps) \in Nat
      BY <1>1, <1>4
    <2>2. Len(<<>>) = 0
      OBVIOUS
    <2> HIDE DEF closed
    <2> QED
      BY <2>1, <2>2
  <1>6. CASE scan.gaps = <<>>
    BY <1>1, <1>3, <1>4, <1>5, <1>6
  <1>7. CASE scan.gaps # <<>>
    <2>1. Len(scan.gaps) >= 1
      BY <1>1, <1>7
    <2>2. closed[1] = scan.gaps[1]
      BY <1>1, <1>4, <2>1
    <2> QED
      BY <1>3, <1>5, <1>7, <2>2
  <1> QED
    BY <1>6, <1>7

(* Another expected minute. *)
LEMMA FirstFoundStep ==
  ASSUME NEW existing, NEW missing \in SUBSET Nat, NEW minute \in Nat, NEW scan \in ScanState,
         \A m \in missing : m < minute, FirstFound(scan, missing)
  PROVE  FirstFound(Gaps!Look(existing, scan, minute, 1),
                    missing \cup (IF minute \in existing THEN {} ELSE {minute}))
  <1> DEFINE next == Gaps!Look(existing, scan, minute, 1)
  <1>1. scan.gaps \in Seq(Int \X Int) /\ scan.first \in Int /\ scan.prev \in Int
    BY DEF ScanState
  <1>2. CASE minute \in existing /\ scan.first = -1
    <2>1. next.gaps = scan.gaps /\ next.first = -1
      BY <1>2 DEF Gaps!Look
    <2> QED
      BY <1>2, <2>1 DEF FirstFound
  <1>3. CASE minute \in existing /\ scan.first # -1
    <2>1. next.gaps = Gaps!CloseGap(scan, minute, 1) /\ next.first = -1
      BY <1>3 DEF Gaps!Look
    <2>2. scan.first <= scan.prev
      BY <1>3 DEF FirstFound
    <2> QED
      BY <1>3, <2>1, <2>2, CloseKeeps DEF FirstFound
  <1>4. CASE minute \notin existing
    <2>1. next.gaps = scan.gaps /\ next.prev = minute /\ next.first = IF scan.first = -1 THEN minute ELSE scan.first
      BY <1>4 DEF Gaps!Look, ScanState
    <2>2. CASE scan.gaps = <<>> /\ scan.first = -1
      BY <1>1, <1>4, <2>1, <2>2 DEF FirstFound
    <2>3. CASE scan.first # -1 /\ scan.gaps = <<>>
      BY <1>1, <1>4, <2>1, <2>3 DEF FirstFound
    <2>4. CASE scan.gaps # <<>>
      BY <1>1, <1>4, <2>1, <2>4 DEF FirstFound
    <2> QED
      BY <2>2, <2>3, <2>4
  <1> QED
    BY <1>2, <1>3, <1>4

(* Nothing is missing when no gap is found, and nothing before the first one. *)
LEMMA GapsFound ==
  ASSUME NEW existing, NEW from \in Nat, NEW to \in Nat,
         NEW gaps, gaps = Gaps!FindGaps(existing, from, to, 1)
  PROVE  /\ gaps = <<>> => Missing(existing, from, to) = {}
         /\ gaps # <<>> => /\ gaps[1][1] \in Missing(existing, from, to)
                           /\ \A m \in Missing(existing, from, to) : gaps[1][1] <= m
  <1> DEFINE missing == Missing(existing, from, to)
             Before(n) == {m \in missing : m < from + n}
  <1>1. PICK scan : scan = Gaps!ScanOf(existing, from, to, 1) /\ Scans(scan, existing, from, to)
    BY ScanSteps
  <1>2. /\ scan \in [Nat -> ScanState] /\ scan[0] = Nothing
        /\ \A n \in Nat : scan[n + 1] = Round(existing, from, to, n + 1, scan[n])
    BY <1>1 DEF Scans
  <1>3. missing \subseteq from..to /\ missing \subseteq Nat
    BY ExpectedInside DEF Missing
  <1>4. \A n \in Nat : FirstFound(scan[n], Before(n))
    <2>1. FirstFound(scan[0], Before(0))
      BY <1>2, <1>3 DEF FirstFound, Nothing
    <2>2. ASSUME NEW n \in Nat, FirstFound(scan[n], Before(n)) PROVE FirstFound(scan[n + 1], Before(n + 1))
      <3>1. from + (n + 1) - 1 = from + n /\ from + n \in Nat /\ scan[n] \in ScanState
        BY <1>2
      <3>2. CASE from + n \in Expected(from, to)
        <4>1. scan[n + 1] = Gaps!Look(existing, scan[n], from + n, 1)
          BY <1>2, <3>1, <3>2 DEF Round, Expected
        <4>2. Before(n + 1) = Before(n) \cup (IF from + n \in existing THEN {} ELSE {from + n})
          BY <1>3, <3>2 DEF Missing
        <4>3. Before(n) \in SUBSET Nat /\ \A m \in Before(n) : m < from + n
          BY <1>3
        <4> HIDE DEF Before
        <4> QED
          BY <2>2, <3>1, <4>1, <4>2, <4>3, FirstFoundStep
      <3>3. CASE from + n \notin Expected(from, to)
        <4>1. scan[n + 1] = scan[n]
          BY <1>2, <3>1, <3>3 DEF Round, Expected
        <4>2. Before(n + 1) = Before(n)
          BY <1>3, <3>3 DEF Missing
        <4> QED
          BY <2>2, <4>1, <4>2
      <3> QED
        BY <3>2, <3>3
    <2> DEFINE T == {n \in Nat : FirstFound(scan[n], Before(n))}
    <2> HIDE DEF Before
    <2>3. T \in SUBSET Nat /\ 0 \in T /\ \A n \in T : n + 1 \in T
      BY <2>1, <2>2
    <2>4. T = Nat
      <3> HIDE DEF T
      <3> QED
        BY <2>3, AllNumbers
    <2> QED
      BY <2>4
  <1>5. CASE Expected(from, to) = {}
    BY <1>5 DEF Missing, Expected, Gaps!FindGaps
  <1>6. CASE Expected(from, to) # {}
    <2> DEFINE n == to - from + 1
    <2>1. n \in Nat
      BY <1>6, ExpectedInside
    <2>2. Before(n) = missing
      BY <1>3, <2>1
    <2>3. gaps = IF scan[n].first = -1 THEN scan[n].gaps ELSE Gaps!CloseGap(scan[n], scan[n].prev, 1)
      BY <1>1, <1>6 DEF Expected, Gaps!FindGaps
    <2>4. FirstFound(scan[n], missing) /\ scan[n] \in ScanState
      BY <1>2, <1>4, <2>1, <2>2
    <2>5. CASE scan[n].first = -1
      BY <2>3, <2>4, <2>5 DEF FirstFound
    <2>6. CASE scan[n].first # -1
      <3>1. scan[n].prev \in Int /\ scan[n].first <= scan[n].prev
        BY <2>4, <2>6 DEF FirstFound, ScanState
      <3> QED
        BY <2>3, <2>4, <2>6, <3>1, CloseKeeps DEF FirstFound
    <2> QED
      BY <2>5, <2>6
  <1> QED
    BY <1>5, <1>6

-----------------------------------------------------------------------------
(* The other types. *)

Phases == {"off", "refresh", "failed", "candidates", "optionStarts", "options",
           "tickerStarts", "tickers", "reconcile", "finished"}

Shaped ==
  /\ upSince \in Times \cup {None} /\ target \in Nat
  /\ scheduler \in {"down", "run", "greeks", "reconcile", "over", "sleep"}
  /\ phase \in Phases /\ window \in Times /\ start \in [Keys -> Times]
  /\ had \subseteq Options /\ newest \in [Keys -> Times \cup {None}]
  /\ scanned \in [Tickers -> Times \cup {None}]

Bounded == IsFiniteSet(InWork) /\ Cardinality(InWork) <= Concurrency

(* The newest row is a row. *)
LEMMA NewestType ==
  ASSUME NEW S \in SUBSET Times PROVE Newest(S) \in Times \cup {None}
  <1>1. CASE S = {}
    BY <1>1 DEF Newest
  <1>2. CASE S # {}
    <2>1. MaxTime \in Nat /\ S \subseteq 0..MaxTime
      BY TrackingAssumption DEF TrackingAssumption, Times
    <2> DEFINE Ages == {MaxTime - m : m \in S}
    <2>2. Ages \in SUBSET Nat /\ Ages # {}
      <3>1. \A m \in S : MaxTime - m \in Nat
        BY <2>1
      <3> QED
        BY <1>2, <3>1
    <2>3. PICK a \in Ages : \A b \in Ages : a <= b
      <3> HIDE DEF Ages
      <3> QED
        BY <2>2, LeastNumber
    <2>4. PICK m \in S : a = MaxTime - m
      OBVIOUS
    <2>5. \A n \in S : n <= m
      <3> TAKE n \in S
      <3>1. MaxTime - n \in Ages
        OBVIOUS
      <3>2. MaxTime - m <= MaxTime - n
        BY <2>3, <2>4, <3>1
      <3> QED
        BY <2>1, <3>2
    <2> QED
      BY <1>2, <2>5 DEF Newest
  <1> QED
    BY <1>1, <1>2

LEMMA StartType ==
  ASSUME NEW S \in SUBSET Times, NEW w \in Times PROVE Later(Newest(S), w) \in Times
  BY NewestType DEF Later

LEMMA BackType == ASSUME now \in Times, NEW minutes \in Nat PROVE Back(minutes) \in Times
  BY TrackingAssumption DEF TrackingAssumption, Times, Back

LEMMA NextRunType == ASSUME now \in Times PROVE NextRun \in Nat
  <1> DEFINE ahead == {t \in RunTimes : t > now} \cup {MaxTime + 1}
  <1>1. ahead \in SUBSET Nat /\ ahead # {}
    <2>1. RunTimes \subseteq Nat /\ MaxTime + 1 \in Nat
      BY TrackingAssumption, BackfillAssumption DEF TrackingAssumption, BackfillAssumption
    <2> QED
      BY <2>1
  <1>2. \E t \in ahead : \A u \in ahead : t <= u
    <2> HIDE DEF ahead
    <2> QED
      BY <1>1, LeastNumber
  <1>3. NextRun \in ahead
    BY <1>2 DEF NextRun
  <1> QED
    BY <1>1, <1>3

(* When no more keys are worked on than before, the bound holds. *)
LEMMA NoMoreWork == ASSUME Bounded, InWork' \subseteq InWork PROVE Bounded'
  <1>1. IsFiniteSet(InWork') /\ Cardinality(InWork') <= Cardinality(InWork)
    BY FS_Subset DEF Bounded
  <1>2. Cardinality(InWork') \in Nat /\ Cardinality(InWork) \in Nat /\ Concurrency \in Nat
    BY <1>1, FS_CardinalityType, BackfillAssumption DEF Bounded, BackfillAssumption
  <1> QED
    BY <1>1, <1>2 DEF Bounded

LEMMA OneMoreWork ==
  ASSUME Bounded, NEW k, InWork' \subseteq InWork \cup {k}, Cardinality(InWork) < Concurrency \/ InWork = {}
  PROVE  Bounded'
  <1>1. IsFiniteSet(InWork \cup {k}) /\ Cardinality(InWork \cup {k}) <= Cardinality(InWork) + 1
    <2>1. IsFiniteSet(InWork) /\ Cardinality(InWork) \in Nat
      BY FS_CardinalityType DEF Bounded
    <2>2. /\ IsFiniteSet(InWork \cup {k})
          /\ Cardinality(InWork \cup {k}) = IF k \in InWork THEN Cardinality(InWork) ELSE Cardinality(InWork) + 1
      BY <2>1, FS_AddElement
    <2> QED
      BY <2>1, <2>2
  <1>2. IsFiniteSet(InWork') /\ Cardinality(InWork') <= Cardinality(InWork \cup {k})
    BY <1>1, FS_Subset
  <1>3. /\ Cardinality(InWork') \in Nat /\ Cardinality(InWork) \in Nat
        /\ Cardinality(InWork \cup {k}) \in Nat /\ Concurrency \in Nat \ {0}
    BY <1>1, <1>2, FS_CardinalityType, BackfillAssumption DEF Bounded, BackfillAssumption
  <1>4. InWork = {} => Cardinality(InWork) = 0
    BY FS_EmptySet
  <1> QED
    BY <1>1, <1>2, <1>3, <1>4 DEF Bounded

LEMMA ShapedInit == Init => Shaped /\ Bounded
  <1> SUFFICES ASSUME Init PROVE Shaped /\ Bounded
    OBVIOUS
  <1>1. 0 \in Times /\ 0 \in Nat
    BY TrackingAssumption DEF TrackingAssumption, Times
  <1>2. Shaped
    BY <1>1 DEF Init, NoRun, Shaped, Phases
  <1>3. InWork = {}
    BY DEF Init, NoRun, InWork
  <1> QED
    BY <1>2, <1>3, FS_EmptySet, BackfillAssumption DEF Bounded, BackfillAssumption

LEMMA ShapedBeside ==
  ASSUME Typed, Shaped, Bounded, Tick \/ Ingestion \/ Pollers PROVE Shaped' /\ Bounded'
  <1>1. UNCHANGED <<scheduler, target, phase, window, start, work, history>>
    BY DEF Tick, Ingestion, Refreshed, IngestionDies, IngestBar, Pollers, OtherManager, PollerBar, run
  <1>2. upSince' \in Times \cup {None}
    BY DEF Tick, Ingestion, Refreshed, IngestionDies, IngestBar, Pollers, OtherManager, PollerBar, Typed,
           Shaped
  <1>3. InWork' \subseteq InWork
    BY <1>1 DEF InWork
  <1> QED
    BY <1>1, <1>2, <1>3, NoMoreWork DEF Shaped, history

LEMMA ShapedSchedule ==
  ASSUME Typed, Shaped, Bounded,
         SchedulerStarts \/ RunExits \/ RunKilled \/ SpawnReconcile \/ Sleep \/ Wake
  PROVE  Shaped' /\ Bounded'
  <1>1. CASE SchedulerStarts \/ Wake
    <2>1. /\ scheduler' = "run" /\ phase' = "refresh" /\ had' = contracts
          /\ newest' = [k \in Keys |-> Newest(stored[k])]
          /\ UNCHANGED <<upSince, target, window, start, work, scanned>>
      BY <1>1 DEF SchedulerStarts, Wake, RunBegins
    <2>2. \A k \in Keys : Newest(stored[k]) \in Times \cup {None}
      BY NewestType DEF Typed
    <2>3. newest' \in [Keys -> Times \cup {None}]
      BY <2>1, <2>2
    <2>4. InWork' \subseteq InWork
      BY <2>1 DEF InWork
    <2> QED
      BY <2>1, <2>3, <2>4, NoMoreWork DEF Typed, Shaped, Phases
  <1>2. CASE RunExits \/ RunKilled
    <2>1. /\ scheduler' \in {"greeks", "over"} /\ phase' = "off"
          /\ window' = 0 /\ start' = [k \in Keys |-> 0] /\ work' = [k \in Keys |-> "none"]
          /\ had' = {} /\ newest' = [k \in Keys |-> None] /\ scanned' = [k \in Tickers |-> None]
          /\ UNCHANGED <<upSince, target>>
      BY <1>2 DEF RunExits, RunKilled, Following, RunIsOver, NoRun
    <2>2. 0 \in Times
      BY TrackingAssumption DEF TrackingAssumption, Times
    <2>3. InWork' \subseteq InWork
      BY <2>1 DEF InWork
    <2> QED
      BY <2>1, <2>2, <2>3, NoMoreWork DEF Shaped, Phases
  <1>3. CASE SpawnReconcile
    <2>1. /\ scheduler' = "reconcile" /\ phase' = "reconcile" /\ window' = Back(Lookback)
          /\ work' = [k \in Keys |-> IF k \in Tickers THEN "todo" ELSE "none"]
          /\ UNCHANGED <<upSince, target, start, had, newest, scanned>>
      BY <1>3 DEF SpawnReconcile, ReconcileBegins
    <2>2. window' \in Times
      BY <2>1, BackType, BackfillAssumption DEF BackfillAssumption, Typed
    <2>3. InWork' \subseteq InWork
      BY <2>1 DEF InWork
    <2> QED
      BY <2>1, <2>2, <2>3, NoMoreWork DEF Shaped, Phases
  <1>4. CASE Sleep
    <2>1. /\ scheduler' = "sleep" /\ target' = NextRun
          /\ UNCHANGED <<upSince, phase, window, start, work, had, newest, scanned>>
      BY <1>4 DEF Sleep, run, history
    <2>2. InWork' \subseteq InWork
      BY <2>1 DEF InWork
    <2> QED
      BY <2>1, <2>2, NoMoreWork, NextRunType DEF Typed, Shaped
  <1> QED
    BY <1>1, <1>2, <1>3, <1>4

(* The range of a reconciliation, and the gap it begins at. *)
LEMMA ScanType ==
  ASSUME Typed, Shaped, NEW k \in Tickers, Scan(k)
  PROVE  \E from \in Times :
           /\ scanned' = [scanned EXCEPT ![k] = from]
           /\ \/ /\ work' = [work EXCEPT ![k] = "done"] /\ UNCHANGED start
                 /\ Missing(stored[k], from, began) = {}
              \/ \E first \in Times :
                   /\ work' = [work EXCEPT ![k] = "replay"] /\ start' = [start EXCEPT ![k] = first]
                   /\ first <= began /\ \A m \in Missing(stored[k], from, began) : first <= m
  <1> DEFINE from == Later(Back(Retention), window)
             existing == {m \in stored[k] : from <= m /\ m <= began}
             gaps == Gaps!FindGaps(existing, from, began, 1)
  <1>1. /\ scanned' = [scanned EXCEPT ![k] = from]
        /\ IF gaps = <<>> THEN Moves(k, "done") /\ UNCHANGED start
           ELSE Moves(k, "replay") /\ start' = [start EXCEPT ![k] = FromGap(gaps)]
    BY DEF Scan
  <1>2. from \in Times /\ began \in Times
    BY BackType, BackfillAssumption DEF BackfillAssumption, Typed, Shaped, Later
  <1>3. Times \subseteq Nat /\ \A m, n \in Times : m..n \subseteq Times
    BY TrackingAssumption DEF TrackingAssumption, Times
  <1>4. from \in Nat /\ began \in Nat
    BY <1>2, <1>3
  <1> HIDE DEF from
  <1>5. Missing(existing, from, began) = Missing(stored[k], from, began)
    <2>1. \A m \in Expected(from, began) : from <= m /\ m <= began
      BY <1>4, ExpectedInside
    <2> QED
      BY <2>1 DEF Missing
  <1> HIDE DEF existing, gaps
  <1>6. /\ gaps = <<>> => Missing(existing, from, began) = {}
        /\ gaps # <<>> => /\ gaps[1][1] \in Missing(existing, from, began)
                          /\ \A m \in Missing(existing, from, began) : gaps[1][1] <= m
    BY <1>4, GapsFound DEF gaps
  <1>7. CASE gaps = <<>>
    BY <1>1, <1>2, <1>5, <1>6, <1>7 DEF Moves
  <1>8. CASE gaps # <<>>
    <2>1. gaps[1][1] \in from..began
      BY <1>4, <1>6, <1>8, ExpectedInside DEF Missing
    <2>2. gaps[1][1] \in Times /\ gaps[1][1] <= began
      BY <1>2, <1>3, <1>4, <2>1
    <2> QED
      BY <1>1, <1>2, <1>5, <1>6, <1>8, <2>2 DEF Moves, FromGap
  <1> QED
    BY <1>7, <1>8

LEMMA ShapedRun == ASSUME Inv, Shaped, Bounded, RunSteps PROVE Shaped' /\ Bounded'
  <1>0. Typed
    BY DEF Inv
  <1>1. UNCHANGED <<upSince, scheduler, target>>
    BY DEF RunSteps
  <1>2. CASE RefreshEnds \/ RefreshRaises \/ TickersDone \/ ReconcileRaises \/ ReconcileDone
    <2>1. /\ phase' \in Phases /\ UNCHANGED <<start, work>> /\ (UNCHANGED window \/ window' = Back(Lookback))
      BY <1>2 DEF RefreshEnds, RefreshRaises, TickersDone, ReconcileRaises, ReconcileDone, Phases
    <2>2. window' \in Times
      BY <1>0, <2>1, BackType, BackfillAssumption DEF BackfillAssumption, Typed, Shaped
    <2>3. UNCHANGED history
      BY <1>2, <2>1 DEF RunSteps, Scan, RefreshEnds, RefreshRaises, TickersDone, ReconcileRaises,
                        ReconcileDone
    <2>4. InWork' \subseteq InWork
      BY <2>1 DEF InWork
    <2> QED
      BY <1>1, <2>1, <2>2, <2>3, <2>4, NoMoreWork DEF Shaped, history
  <1>3. ASSUME UNCHANGED history, phase' \in Phases, UNCHANGED window, start' \in [Keys -> Times],
               InWork' \subseteq InWork
        PROVE  Shaped' /\ Bounded'
    BY <1>1, <1>3, NoMoreWork DEF Shaped, history
  <1>4. CASE ReadCandidates \/ OptionsDone
    <2>1. /\ phase' \in Phases /\ UNCHANGED <<window, start>>
          /\ \A k \in Keys : work'[k] \in {"todo", "none", work[k]}
      BY <1>4 DEF ReadCandidates, OptionsDone, Phases
    <2>2. UNCHANGED history
      BY <1>4, <2>1 DEF RunSteps, Scan, ReadCandidates, OptionsDone
    <2>3. InWork' \subseteq InWork
      BY <2>1 DEF InWork
    <2> QED
      BY <1>3, <2>1, <2>2, <2>3 DEF Shaped
  <1>5. CASE ReadStarts("optionStarts", "options") \/ ReadStarts("tickerStarts", "tickers")
    <2>1. /\ phase' \in Phases /\ UNCHANGED <<window, work>>
          /\ start' = [k \in Keys |-> IF work[k] = "todo" THEN Later(Newest(stored[k]), window) ELSE start[k]]
      BY <1>5 DEF ReadStarts, Phases
    <2>2. \A k \in Keys : Later(Newest(stored[k]), window) \in Times /\ start[k] \in Times
      BY <1>0, StartType DEF Typed, Shaped
    <2>3. start' \in [Keys -> Times]
      BY <2>1, <2>2
    <2>4. UNCHANGED history
      BY <1>5, <2>1 DEF RunSteps, Scan, ReadStarts
    <2>5. InWork' \subseteq InWork
      BY <2>1 DEF InWork
    <2> QED
      BY <1>3, <2>1, <2>3, <2>4, <2>5
  <1>6. ASSUME NEW k \in Keys, Process(k), UNCHANGED history PROVE Shaped' /\ Bounded'
    <2>1. UNCHANGED <<phase, window, start>>
      BY <1>6, ProcessMoves
    <2>2. PICK state \in {"replay", "check", "commit", "done", "short", "failed"} :
            work' = [work EXCEPT ![k] = state]
      BY <1>6, ProcessMoves
    <2>3. \A j \in Keys \ {k} : work'[j] = work[j]
      BY <2>2 DEF Inv, Typed
    <2>4. Bounded'
      <3>1. CASE Request(k)
        <4>1. Cardinality(InWork) < Concurrency \/ InWork = {}
          BY <3>1 DEF Request, Free
        <4>2. InWork' \subseteq InWork \cup {k}
          BY <2>3 DEF InWork
        <4> QED
          BY <4>1, <4>2, OneMoreWork
      <3>2. CASE ~Request(k)
        <4>1. k \in InWork
          BY <1>6, <3>2 DEF Process, Replayed, Lookup, Insert, GivenUp, InWork
        <4>2. InWork' \subseteq InWork
          BY <2>3, <4>1 DEF InWork
        <4> QED
          BY <4>2, NoMoreWork
      <3> QED
        BY <3>1, <3>2
    <2> QED
      BY <1>1, <1>6, <2>1, <2>4 DEF Shaped, history
  <1>7. ASSUME NEW k \in Tickers, Scan(k) PROVE Shaped' /\ Bounded'
    <2>1. PICK from \in Times :
            /\ scanned' = [scanned EXCEPT ![k] = from]
            /\ \/ work' = [work EXCEPT ![k] = "done"] /\ UNCHANGED start
               \/ \E first \in Times : work' = [work EXCEPT ![k] = "replay"] /\ start' = [start EXCEPT ![k] = first]
      BY <1>0, <1>7, ScanType
    <2>2. InWork = {} /\ UNCHANGED <<phase, window, had, newest>>
      BY <1>7 DEF Scan
    <2>3. \A j \in Keys \ {k} : work'[j] = work[j]
      BY <2>1 DEF Inv, Typed
    <2>4. InWork' \subseteq InWork \cup {k}
      BY <2>3 DEF InWork
    <2>5. Bounded'
      BY <2>2, <2>4, OneMoreWork
    <2>6. start' \in [Keys -> Times] /\ scanned' \in [Tickers -> Times \cup {None}]
      BY <2>1 DEF Shaped
    <2> QED
      BY <1>1, <2>2, <2>5, <2>6 DEF Shaped
  <1> QED
    BY <1>2, <1>4, <1>5, <1>6, <1>7 DEF RunSteps

LEMMA ShapedStep == ASSUME Inv, Shaped, Bounded, [Next]_vars PROVE Shaped' /\ Bounded'
  <1>1. CASE UNCHANGED vars
    <2>1. UNCHANGED <<upSince, scheduler, target, run, history>>
      BY <1>1 DEF vars
    <2>2. InWork' \subseteq InWork
      BY <2>1 DEF InWork, run
    <2> QED
      BY <2>1, <2>2, NoMoreWork DEF Shaped, run, history
  <1> QED
    BY <1>1, ShapedBeside, ShapedSchedule, ShapedRun DEF Inv, Next

LEMMA ShapedInvariant == Spec => [](Inv /\ Shaped /\ Bounded)
  <1>1. Inv /\ Shaped /\ Bounded /\ [Next]_vars => (Inv /\ Shaped /\ Bounded)'
    BY InvStep, ShapedStep
  <1> QED
    BY <1>1, InvInit, ShapedInit, PTL DEF Spec

(***************************************************************************)
(* The variables keep their types, and no more contracts are replayed at a *)
(* time than --concurrency admits, one ticker at a time.  About the        *)
(* semaphore of run() and the loops over the tickers.                      *)
(***************************************************************************)
THEOREM TypeCorrect == Spec => []TypeOK
  <1>1. Inv /\ Shaped /\ Bounded => TypeOK
    BY DEF Inv, Typed, Shaped, Bounded, TypeOK, States, Phases
  <1> QED
    BY <1>1, ShapedInvariant, PTL

-----------------------------------------------------------------------------
(* The gap reconciliation. *)

(* No session minute of a scanned range is without a row before `until`. *)
Held(k, until) == {m \in Regular : scanned[k] <= m /\ m < until} \subseteq stored[k]

(* ... or had but a zeroed candle. *)
Mended(k) == {m \in Regular : scanned[k] <= m /\ m < began} \subseteq stored[k] \cup unusable[k]

(***************************************************************************)
(* A ticker that is replayed has all its rows before the gap that it is    *)
(* replayed from, and one that is done has all of them that there can be.  *)
(***************************************************************************)
Mending ==
  scheduler = "reconcile" =>
    /\ phase \in {"reconcile", "finished", "failed"} /\ began <= now
    /\ phase = "finished" => Settled
    /\ \A k \in Tickers :
         /\ work[k] \notin {"none", "failed"}
         /\ work[k] \in {"replay", "check", "commit"} => Held(k, start[k])
         /\ work[k] = "done" => Mended(k)

LEMMA MendingGivesReconciled == Inv /\ Mending => Reconciled
  BY DEF Inv, Mending, Reconciled, Settled, Mended, Keys

LEMMA MendingInit == Init => Mending
  BY DEF Init, Mending

(* With more rows there are none less. *)
LEMMA MendingBeside ==
  ASSUME Inv, Mending, UNCHANGED <<run, history, scheduler>>, began <= now => began <= now',
         \A k \in Keys : stored[k] \subseteq stored'[k]
  PROVE  Mending'
  BY DEF Mending, Held, Mended, Settled, run, history, Keys

(* A session minute of the range is an expected one. *)
LEMMA RegularExpected ==
  ASSUME NEW from \in Times, NEW to \in Times, NEW m \in Regular, from <= m, m <= to
  PROVE  m \in Expected(from, to)
  <1>1. PICK s \in Sessions : s[1] <= m /\ m <= s[2]
    BY DEF Regular
  <1>2. s[1] \in Nat /\ s[2] \in Nat /\ from \in Nat /\ to \in Nat /\ m \in Nat
    BY TrackingAssumption, BackfillAssumption
    DEF TrackingAssumption, BackfillAssumption, Times, Regular
  <1>3. m \in Gaps!SessionMinutes(s, from, to)
    BY <1>1, <1>2 DEF Gaps!SessionMinutes, Gaps!Later, Gaps!Earlier
  <1> QED
    BY <1>3 DEF Expected, Gaps!ExpectedBarMinutes

LEMMA MendingScan ==
  ASSUME Inv, Shaped, Mending, NEW k \in Tickers, Scan(k), UNCHANGED <<now, scheduler>>
  PROVE  Mending'
  <1>1. PICK from \in Times :
          /\ scanned' = [scanned EXCEPT ![k] = from]
          /\ \/ /\ work' = [work EXCEPT ![k] = "done"] /\ UNCHANGED start
                /\ Missing(stored[k], from, began) = {}
             \/ \E first \in Times :
                  /\ work' = [work EXCEPT ![k] = "replay"] /\ start' = [start EXCEPT ![k] = first]
                  /\ first <= began /\ \A m \in Missing(stored[k], from, began) : first <= m
    BY ScanType DEF Inv
  <1>2. phase = "reconcile" /\ UNCHANGED <<phase, stored, began, unusable>>
    BY DEF Scan
  <1>3. /\ \A j \in Tickers \ {k} : work'[j] = work[j] /\ scanned'[j] = scanned[j] /\ start'[j] = start[j]
        /\ scanned'[k] = from
    BY <1>1 DEF Inv, Typed, Shaped, Keys
  <1>4. /\ k \in Keys /\ began \in Times /\ Times \subseteq Nat /\ Regular \subseteq Times
        /\ from \in Nat /\ began \in Nat
    BY TrackingAssumption DEF TrackingAssumption, Inv, Typed, Keys, Regular, Times
  <1>5. ASSUME NEW m \in Regular, from <= m, m <= began, m \notin stored[k]
        PROVE  m \in Missing(stored[k], from, began)
    BY <1>4, <1>5, RegularExpected DEF Missing
  <1>6. work'[k] \in {"done", "replay"} /\ (work'[k] = "done" => Mended(k)')
        /\ (work'[k] = "replay" => Held(k, start[k])')
    <2>1. CASE work' = [work EXCEPT ![k] = "done"] /\ Missing(stored[k], from, began) = {}
      <3>1. work'[k] = "done"
        BY <1>4, <2>1 DEF Inv, Typed
      <3>2. {m \in Regular : from <= m /\ m < began} \subseteq stored[k]
        <4>1. \A m \in Regular : m < began => m <= began
          BY <1>4
        <4> QED
          BY <1>5, <2>1, <4>1
      <3> QED
        BY <1>2, <1>3, <3>1, <3>2 DEF Mended
    <2>2. ASSUME NEW first \in Times, work' = [work EXCEPT ![k] = "replay"],
                 start' = [start EXCEPT ![k] = first], first <= began,
                 \A m \in Missing(stored[k], from, began) : first <= m
          PROVE  work'[k] = "replay" /\ Held(k, start[k])'
      <3>1. work'[k] = "replay" /\ start'[k] = first
        BY <1>4, <2>2 DEF Inv, Typed, Shaped
      <3>2. ASSUME NEW m \in Regular, from <= m, m < first PROVE m \in stored[k]
        <4>1. m <= began /\ ~ (first <= m)
          BY <1>4, <2>2, <3>2
        <4> QED
          BY <1>5, <2>2, <3>2, <4>1
      <3> QED
        BY <1>2, <1>3, <3>1, <3>2 DEF Held
    <2> QED
      BY <1>1, <2>1, <2>2
  <1> QED
    BY <1>2, <1>3, <1>6 DEF Mending, Held, Mended

LEMMA MendingProcess ==
  ASSUME Inv, Shaped, Mending, NEW k \in Keys, Process(k), UNCHANGED <<history, scheduler, now>>
  PROVE  Mending'
  <1> SUFFICES ASSUME scheduler = "reconcile" PROVE Mending'
    BY DEF Mending
  <1>1. phase = "reconcile" /\ began <= now /\ UNCHANGED <<phase, start, began, scanned>>
    BY ProcessMoves DEF Mending, Process, history
  <1>2. PICK state \in {"replay", "check", "commit", "done", "short", "failed"} :
          work' = [work EXCEPT ![k] = state]
    BY ProcessMoves
  <1>3. work'[k] = state /\ \A j \in Keys \ {k} : work'[j] = work[j]
    BY <1>2 DEF Inv, Typed
  <1>4. work[k] \in {"replay", "check", "commit"} /\ state # "failed"
    BY <1>1, <1>3, ProcessMoves, BackfillAssumption
    DEF Process, Request, Free, Replayed, Lookup, Insert, GivenUp, Moves, Inv, Typed
  <1>5. /\ \A j \in Keys : stored[j] \subseteq stored'[j]
        /\ \A j \in Keys \ {k} : unusable'[j] = unusable[j]
    BY ProcessTypes
  <1>6. k \in Tickers /\ state = "done" => Mended(k)'
    <2> SUFFICES ASSUME k \in Tickers, state = "done", NEW m \in Regular, scanned[k] <= m, m < began
                 PROVE  m \in stored'[k] \cup unusable'[k]
      BY <1>1 DEF Mended
    <2>1. m \in Nat /\ m \in Quoted(k) /\ start[k] \in Nat /\ began \in Nat /\ now \in Nat
      BY TrackingAssumption DEF TrackingAssumption, Inv, Typed, Shaped, Regular, Quoted, Times
    <2>2. CASE m < start[k]
      BY <1>4, <1>5, <2>2 DEF Mending, Held
    <2>3. CASE start[k] <= m
      <3>1. m <= now
        BY <1>1, <2>1
      <3> QED
        BY <1>1, <1>3, <2>1, <2>3, <3>1, ProcessOwes DEF history
    <2> QED
      BY <2>1, <2>2, <2>3
  <1> QED
    BY <1>1, <1>3, <1>4, <1>5, <1>6 DEF Mending, Held, Mended, Keys

LEMMA MendingStep == ASSUME Inv, Shaped, Mending, [Next]_vars PROVE Mending'
  <1>1. CASE Tick \/ Ingestion \/ Pollers
    <2>1. UNCHANGED <<run, history, scheduler>>
      BY <1>1 DEF Tick, Ingestion, Refreshed, IngestionDies, IngestBar, Pollers, OtherManager, PollerBar
    <2>2. \A k \in Keys : stored[k] \subseteq stored'[k]
      BY <1>1, ExpiredIsQuiet, PollerIsQuiet
      DEF Tick, Ingestion, Refreshed, IngestionDies, Pollers, OtherManager
    <2>3. began <= now => began <= now'
      <3>1. now \in Nat /\ began \in Nat /\ (now' = now \/ now' = now + 1)
        BY <1>1, TrackingAssumption
        DEF TrackingAssumption, Tick, Passes, Ingestion, Refreshed, IngestionDies, IngestBar, Pollers,
            OtherManager, PollerBar, Inv, Typed, Times
      <3> QED
        BY <3>1
    <2> QED
      BY <2>1, <2>2, <2>3, MendingBeside
  <1>2. CASE UNCHANGED vars
    BY <1>2, MendingBeside DEF vars
  <1>3. CASE SchedulerStarts \/ RunExits \/ RunKilled \/ Sleep \/ Wake
    BY <1>3 DEF SchedulerStarts, RunExits, RunKilled, Following, Sleep, Wake, Mending
  <1>4. CASE SpawnReconcile
    <2>1. now <= now
      BY TrackingAssumption DEF TrackingAssumption, Inv, Typed, Times
    <2> QED
      BY <1>4, <2>1 DEF SpawnReconcile, ReconcileBegins, Mending, Keys
  <1>5. CASE RunSteps
    <2>1. UNCHANGED <<now, scheduler>>
      BY <1>5 DEF RunSteps
    <2>2. CASE RefreshEnds \/ RefreshRaises \/ ReadCandidates \/ ReadStarts("optionStarts", "options")
               \/ OptionsDone \/ ReadStarts("tickerStarts", "tickers") \/ TickersDone
      BY <2>1, <2>2 DEF RefreshEnds, RefreshRaises, ReadCandidates, ReadStarts, OptionsDone, TickersDone,
                        Mending
    <2>3. ASSUME ReconcileRaises \/ ReconcileDone, UNCHANGED history PROVE Mending'
      BY <2>1, <2>3 DEF ReconcileRaises, ReconcileDone, Mending, Settled, Held, Mended, history
    <2> QED
      BY <1>5, <2>1, <2>2, <2>3, MendingScan, MendingProcess DEF RunSteps
  <1> QED
    BY <1>1, <1>2, <1>3, <1>4, <1>5 DEF Next

(***************************************************************************)
(* A reconciliation that comes to its end leaves no session minute of a    *)
(* range it has looked through without a row, unless the replay of the     *)
(* ticker was short or the feed had but a zeroed candle for the minute.    *)
(* About the loop of find_gaps (GapsFound) and the replay from the first   *)
(* gap on.                                                                 *)
(***************************************************************************)
THEOREM RangeReconciled == Spec => []Reconciled
  <1>1. Inv /\ Shaped /\ Mending /\ [Next]_vars => Mending'
    BY MendingStep
  <1>2. Inv /\ Mending => Reconciled
    BY MendingGivesReconciled
  <1> QED
    BY <1>1, <1>2, MendingInit, ShapedInvariant, PTL DEF Spec
=============================================================================
