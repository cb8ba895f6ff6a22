------------------------------ MODULE Pipeline ------------------------------
(***************************************************************************)
(* The live ingestion pipeline: service/ingestion/pipeline.py, its two     *)
(* BarAggregators (bar_aggregator.py), the writes of service/db/upsert.py  *)
(* and the start and stop sequence of service/ingestion/main.py.           *)
(*                                                                         *)
(* Events are folded into buckets by wall-clock minute.  The flush loop    *)
(* pops the buckets whose minute is over, writes the option bars in one    *)
(* transaction and then the underlying bars in another, and puts back what *)
(* it could not write.  While it waits for the database, events go on      *)
(* arriving, the contract refresh may change the tracked set, a backfill   *)
(* may insert rows for the same minutes, and the process may be asked to   *)
(* stop or may be killed.                                                  *)
(*                                                                         *)
(* The option and the underlying aggregator are one function of slots: an  *)
(* option's slots are the first aggregator, a ticker's the second.         *)
(***************************************************************************)
EXTENDS Bars, Sequences

CONSTANTS
  OptionIds,     \* option contract ids
  Tickers,       \* underlying tickers
  Quotes,        \* <<bid, ask>> of the Quote events the feed may send
  Greeks,        \* Greeks snapshots the feed may send
  MinuteTicks,   \* clock ticks in a minute
  GraceTicks,    \* flush grace, in ticks
  MaxTime,       \* bound: the clock stops here
  MaxEvents,     \* bound: observations accepted in all
  MaxLives       \* bound: starts of the process

Bucket == [open : Price, high : Price, low : Price, close : Price,
           bid : Price, ask : Price, greeks : Greeks \cup {None}, obs : SUBSET Nat]

Row == [by : {"flush", "close", "backfill"}, life : Nat, bar : Bucket]

ASSUME PipelineAssumption ==
  /\ OptionIds \cap Tickers = {}
  /\ Quotes \subseteq Price \X Price
  /\ None \notin Greeks \cup Bucket \cup Row
  /\ MinuteTicks \in Nat \ {0}
  /\ GraceTicks \in Nat
  /\ MaxTime \in Nat /\ MaxEvents \in Nat /\ MaxLives \in Nat

VARIABLES
  now,      \* the wall clock, in ticks
  phase,    \* "running", "cancelled" (run task ended), "closing" or "down"
  life,     \* which start of the process this is
  tracked,  \* ContractManager._tracked
  bars,     \* slot -> bucket the aggregators hold, or None
  stage,    \* the write being awaited: "option", "underlying", or "idle"
  popped,   \* slot -> bucket popped and not yet written or put back, or None
  writing,  \* slots whose rows are in the INSERT being awaited
  rows,     \* slot -> row of the bar tables, or None
  log,      \* history: every observation that was accepted
  gone      \* history: observations dropped as untracked, skipped because
            \* their row existed, or lost

vars == <<now, phase, life, tracked, bars, stage, popped, writing, rows, log, gone>>

-----------------------------------------------------------------------------
Keys == OptionIds \cup Tickers

MinuteOf(t) == t - (t % MinuteTicks)

(* Bound: minutes whose bars fall due before the clock stops. *)
Minutes == {MinuteOf(t) : t \in {x \in 0..MaxTime :
                                   MinuteOf(x) + MinuteTicks + GraceTicks <= MaxTime}}

Slots == Keys \X Minutes

SlotsOf(keys) == {s \in Slots : s[1] \in keys}

NoBars == [s \in Slots |-> None]

Present(f) == {s \in Slots : f[s] # None}

Obs(f) == UNION {f[s].obs : s \in Present(f)}

BackfilledRow == [by |-> "backfill", life |-> 0, bar |-> EmptyBucket]

(* The rows of a flush are told from those of the shutdown by `by`. *)
RowOf(b) ==
  [by |-> IF phase = "closing" THEN "close" ELSE "flush", life |-> life, bar |-> b]

Held == Obs(bars) \cup Obs(popped)

Stored == UNION {rows[s].bar.obs : s \in Present(rows)}

Init ==
  /\ now = 0
  /\ phase = "running"
  /\ life = 1
  /\ tracked \in SUBSET OptionIds
  /\ bars = NoBars
  /\ stage = "idle"
  /\ popped = NoBars
  /\ writing = {}
  /\ rows = NoBars
  /\ log = <<>>
  /\ gone = [dropped |-> {}, skipped |-> {}, lost |-> {}]

-----------------------------------------------------------------------------
Tick ==
  /\ now < MaxTime
  /\ now' = now + 1
  /\ UNCHANGED <<phase, life, tracked, bars, stage, popped, writing, rows, log, gone>>

(* The feed is closed last, after the pipeline. *)
FeedOpen ==
  /\ phase # "down"
  /\ Len(log) < MaxEvents
  /\ MinuteOf(now) \in Minutes

BucketAt(s) == IF bars[s] = None THEN EmptyBucket ELSE bars[s]

Accept(s, mark, bid, ask, greeks, bucket) ==
  /\ log' = Append(log, [slot |-> s, life |-> life, mark |-> mark,
                         bid |-> bid, ask |-> ask, greeks |-> greeks])
  /\ bars' = [bars EXCEPT ![s] = bucket]
  /\ UNCHANGED <<now, phase, life, tracked, stage, popped, writing, rows, gone>>

(* A quote with neither side has no mark and is ignored. *)
OnQuote(key, bid, ask) ==
  LET s == <<key, MinuteOf(now)>>
      mark == Mark(bid, ask)
  IN /\ FeedOpen
     /\ mark # None
     /\ Accept(s, mark, bid, ask, None,
               UpdatePrice(BucketAt(s), mark, bid, ask, Len(log) + 1))

OnOptionGreeks(key, greeks) ==
  LET s == <<key, MinuteOf(now)>>
  IN /\ FeedOpen
     /\ Accept(s, None, None, None, greeks,
               UpdateGreeks(BucketAt(s), greeks, Len(log) + 1))

(***************************************************************************)
(* A refresh cycle ends: the tracked set is whatever the chain and the     *)
(* delta range make it.                                                    *)
(***************************************************************************)
Refresh ==
  /\ phase = "running"
  /\ tracked' \in SUBSET OptionIds
  /\ UNCHANGED <<now, phase, life, bars, stage, popped, writing, rows, log, gone>>

(***************************************************************************)
(* Another program (backfill, gap-reconcile, a poller) inserts the row of  *)
(* a minute that has begun.  It looks first and leaves a row that exists.  *)
(***************************************************************************)
BackfillInserts(s) ==
  /\ rows[s] = None
  /\ s[2] <= now
  /\ rows' = [rows EXCEPT ![s] = BackfilledRow]
  /\ UNCHANGED <<now, phase, life, tracked, bars, stage, popped, writing, log, gone>>

-----------------------------------------------------------------------------
(* Flushing. *)

(* Mutant: no option bars, nothing to write. *)
StageAfterPopOptionsOnly(f) ==
  IF Present(f) \cap SlotsOf(OptionIds) # {} THEN "option" ELSE "idle"

StageAfterPop(f) ==
  IF Present(f) \cap SlotsOf(OptionIds) # {} THEN "option"
  ELSE IF Present(f) \cap SlotsOf(Tickers) # {} THEN "underlying"
  ELSE "idle"

(* Mutant: a bar with Greeks and no price makes no row. *)
RowsForPriced(st, f) ==
  IF st = "option" THEN {s \in Present(f) : s[1] \in tracked /\ f[s].close # None}
  ELSE IF st = "underlying" THEN Present(f) \cap SlotsOf(Tickers)
  ELSE {}

(* The rows built for a stage: option bars only of contracts still tracked. *)
RowsFor(st, f) ==
  IF st = "option" THEN {s \in Present(f) : s[1] \in tracked}
  ELSE IF st = "underlying" THEN Present(f) \cap SlotsOf(Tickers)
  ELSE {}

(* Mutant: due when the grace period alone is over. *)
DueTooEarly(t) == {s \in Present(bars) : t >= s[2] + GraceTicks}

Due(t) == {s \in Present(bars) : t >= s[2] + MinuteTicks + GraceTicks}

(***************************************************************************)
(* Both aggregators are popped before the first write is awaited.          *)
(***************************************************************************)
Pop(due) ==
  LET f == [s \in Slots |-> IF s \in due THEN bars[s] ELSE None]
  IN /\ popped' = f
     /\ bars' = [s \in Slots |-> IF s \in due THEN None ELSE bars[s]]
     /\ stage' = StageAfterPop(f)
     /\ writing' = RowsFor(StageAfterPop(f), f)
     /\ UNCHANGED <<now, life, tracked, rows, log, gone>>

FlushReadyBars ==
  /\ phase = "running" /\ stage = "idle"
  /\ Due(now) # {}
  /\ Pop(Due(now))
  /\ UNCHANGED phase

(* The popped bars of the write being awaited. *)
Batch == Present(popped) \cap SlotsOf(IF stage = "option" THEN OptionIds ELSE Tickers)

(* Mutant: the insert overwrites on conflict. *)
RowsOverwritten ==
  [s \in Slots |-> IF s \in writing THEN RowOf(popped[s]) ELSE rows[s]]

(* insert_ignore: a row that exists is left alone. *)
RowsInserted ==
  [s \in Slots |-> IF s \in writing /\ rows[s] = None THEN RowOf(popped[s]) ELSE rows[s]]

ObsIn(S) == UNION {popped[s].obs : s \in S}

Committed(lost) ==
  [dropped |-> gone.dropped \cup (ObsIn(Batch \ writing) \ Stored),
   skipped |-> gone.skipped
                 \cup UNION {popped[s].obs \ rows[s].bar.obs :
                               s \in {x \in writing : rows[x] # None}},
   lost    |-> gone.lost \cup (lost \ Stored)]

NextStage ==
  LET f == [s \in Slots |-> IF s \in Batch THEN None ELSE popped[s]]
      st == IF stage = "option" /\ Present(f) # {} THEN "underlying" ELSE "idle"
  IN /\ popped' = f
     /\ stage' = st
     /\ writing' = RowsFor(st, f)

WriteCommits ==
  /\ stage # "idle"
  /\ rows' = RowsInserted
  /\ gone' = Committed({})
  /\ NextStage
  /\ UNCHANGED <<now, phase, life, tracked, bars, log>>

(* Mutant: a failed write restores nothing. *)
WriteRaisesNoRestore(landed) ==
  /\ stage # "idle" /\ writing # {}
  /\ rows' = IF landed THEN RowsInserted ELSE rows
  /\ NextStage
  /\ UNCHANGED <<now, phase, life, tracked, bars, log, gone>>

(* Mutant: one transaction for both, so a failure puts everything back. *)
WriteRaisesForBoth(landed) ==
  /\ stage # "idle" /\ writing # {}
  /\ rows' = IF landed THEN RowsInserted ELSE rows
  /\ bars' = [s \in Slots |-> OrElse(bars[s], popped[s])]
  /\ popped' = NoBars /\ stage' = "idle" /\ writing' = {}
  /\ UNCHANGED <<now, phase, life, tracked, log, gone>>

(***************************************************************************)
(* The write raises, and every popped bucket of the batch is put back,     *)
(* under a bucket that has started since.  A connection that breaks during *)
(* the commit raises although the rows are in (`landed`).                  *)
(***************************************************************************)
WriteRaises(landed) ==
  /\ stage # "idle" /\ writing # {}
  /\ rows' = IF landed THEN RowsInserted ELSE rows
  /\ bars' = [s \in Slots |->
               IF s \notin Batch THEN bars[s]
               ELSE IF bars[s] = None THEN popped[s]
               ELSE MergeOlder(bars[s], popped[s])]
  /\ NextStage
  /\ UNCHANGED <<now, phase, life, tracked, log, gone>>

-----------------------------------------------------------------------------
(* Stopping and starting. *)

(***************************************************************************)
(* The awaited write is abandoned: by the cancellation, which is no        *)
(* Exception and so restores nothing, or by the end of the process.  The   *)
(* transaction may have been committed all the same.                       *)
(***************************************************************************)
Abandon(landed, alsoLost) ==
  /\ IF landed
     THEN /\ rows' = RowsInserted
          /\ gone' = Committed(ObsIn(Present(popped) \ Batch) \cup alsoLost)
     ELSE /\ rows' = rows
          /\ gone' = [gone EXCEPT !.lost = @ \cup ((Obs(popped) \cup alsoLost) \ Stored)]
  /\ popped' = NoBars
  /\ stage' = "idle"
  /\ writing' = {}
  /\ UNCHANGED <<now, life, tracked, log>>

(* SIGTERM: main() cancels the run task and waits for it to end. *)
Cancel(landed) ==
  /\ phase = "running"
  /\ landed => writing # {}
  /\ Abandon(landed, {})
  /\ phase' = "cancelled"
  /\ UNCHANGED bars

(* IngestionPipeline.close(): everything is popped, due or not. *)
Close ==
  /\ phase = "cancelled"
  /\ Pop(Present(bars))
  /\ phase' = "closing"

(* close() returned: what its writes put back, and what came since, ends here. *)
Exit ==
  /\ phase = "closing" /\ stage = "idle"
  /\ phase' = "down"
  /\ bars' = NoBars
  /\ gone' = [gone EXCEPT !.lost = @ \cup (Obs(bars) \ Stored)]
  /\ UNCHANGED <<now, life, tracked, stage, popped, writing, rows, log>>

Crash(landed) ==
  /\ phase # "down"
  /\ landed => writing # {}
  /\ Abandon(landed, Obs(bars))
  /\ phase' = "down"
  /\ bars' = NoBars

(* The container is restarted, and its first refresh resolves the contracts. *)
Restart ==
  /\ phase = "down" /\ life < MaxLives
  /\ phase' = "running"
  /\ life' = life + 1
  /\ tracked' \in SUBSET OptionIds
  /\ UNCHANGED <<now, bars, stage, popped, writing, rows, log, gone>>

-----------------------------------------------------------------------------
Feed ==
  \/ \E key \in Keys, q \in Quotes : OnQuote(key, q[1], q[2])
  \/ \E key \in OptionIds, g \in Greeks : OnOptionGreeks(key, g)

Next ==
  \/ Tick
  \/ Feed
  \/ Refresh
  \/ \E s \in Slots : BackfillInserts(s)
  \/ FlushReadyBars
  \/ WriteCommits
  \/ \E landed \in BOOLEAN : WriteRaises(landed)
  \/ \E landed \in BOOLEAN : Cancel(landed)
  \/ Close
  \/ Exit
  \/ \E landed \in BOOLEAN : Crash(landed)
  \/ Restart

Spec == Init /\ [][Next]_vars

(***************************************************************************)
(* The event loop runs what is ready, so the clock, the flush loop and an  *)
(* awaited write all move on; a write may raise every time, except that    *)
(* underlying bars are written again and again until one write gets        *)
(* through.                                                                *)
(***************************************************************************)
FairSpec ==
  /\ Spec
  /\ WF_vars(Tick)
  /\ WF_vars(FlushReadyBars)
  /\ WF_vars(WriteCommits \/ \E landed \in BOOLEAN : WriteRaises(landed))
  /\ SF_vars(stage = "underlying" /\ WriteCommits)

-----------------------------------------------------------------------------
(* Properties. *)

Observation == [slot : Slots, life : Nat, mark : Price, bid : Price, ask : Price,
                greeks : Greeks \cup {None}]

(***************************************************************************)
(* The variables have their types, and a write is being awaited exactly    *)
(* when something is popped.                                               *)
(***************************************************************************)
TypeOK ==
  /\ now \in 0..MaxTime
  /\ phase \in {"running", "cancelled", "closing", "down"}
  /\ life \in Nat \ {0}
  /\ tracked \in SUBSET OptionIds
  /\ bars \in [Slots -> Bucket \cup {None}]
  /\ stage \in {"idle", "option", "underlying"}
  /\ popped \in [Slots -> Bucket \cup {None}]
  /\ writing \subseteq Present(popped)
  /\ rows \in [Slots -> Row \cup {None}]
  /\ log \in Seq(Observation)
  /\ gone \in [dropped : SUBSET Nat, skipped : SUBSET Nat, lost : SUBSET Nat]
  /\ stage = "idle" => popped = NoBars

Gone == gone.dropped \cup gone.skipped \cup gone.lost

(***************************************************************************)
(* No observation vanishes or is in two hands: each one accepted is held   *)
(* in one bucket, is reported by a row, or was dropped, skipped or lost,   *)
(* and what is gone is neither held nor stored.  About pop_ready/restore   *)
(* around the two writes of _flush_ready_bars.                             *)
(***************************************************************************)
Accounted ==
  /\ DOMAIN log = Held \cup Stored \cup Gone
  /\ (Held \cup Stored) \cap Gone = {}
  /\ Obs(bars) \cap Obs(popped) = {}

QuotesIn(l, b) == {i \in b.obs : l[i].mark # None}

SnapshotsIn(l, b) == {i \in b.obs : l[i].greeks # None}

FirstOf(S, i) == i \in S /\ \A j \in S : i <= j

LastOf(S, i) == i \in S /\ \A j \in S : j <= i

(* The bucket b reports exactly those observations of l it was made from. *)
ReportsPrices(l, b) ==
  LET quotes == QuotesIn(l, b)
  IN /\ \A price \in {b.open, b.high, b.low, b.close} : price = None <=> quotes = {}
     /\ quotes = {} => b.bid = None /\ b.ask = None
     /\ \A i \in quotes :
          /\ b.low <= l[i].mark /\ l[i].mark <= b.high
          /\ FirstOf(quotes, i) => b.open = l[i].mark
          /\ LastOf(quotes, i) =>
               /\ b.close = l[i].mark
               /\ l[i].bid # None => b.bid = l[i].bid
               /\ l[i].ask # None => b.ask = l[i].ask
     /\ b.high # None => \E i \in quotes : b.high = l[i].mark
     /\ b.low # None => \E i \in quotes : b.low = l[i].mark

ReportsGreeks(l, b) ==
  LET snapshots == SnapshotsIn(l, b)
  IN /\ b.greeks = None <=> snapshots = {}
     /\ \A i \in snapshots : LastOf(snapshots, i) => b.greeks = l[i].greeks

Reports(l, b) == ReportsPrices(l, b) /\ ReportsGreeks(l, b)

(***************************************************************************)
(* Whatever was popped, put back and merged on the way, every bucket and   *)
(* every row reports the first, last, highest and lowest mark, the latest  *)
(* sides and the latest Greeks of its own observations, which are all of   *)
(* its instrument and minute.  About Bucket.update_price, update_greeks    *)
(* and merge_older.                                                        *)
(***************************************************************************)
BarsFaithful ==
  \A s \in Slots :
    \A b \in {bars[s], popped[s]} \cup {rows[t].bar : t \in Present(rows) \cap {s}} :
      b # None => Reports(log, b) /\ \A i \in b.obs : log[i].slot = s

ObservedIn(s, l) == {i \in DOMAIN log : log[i].slot = s /\ log[i].life = l}

(***************************************************************************)
(* A row the flush loop writes is a whole minute: it reports every         *)
(* observation that start of the process ever accepted for it, those it    *)
(* accepts later included.  Only the flush at shutdown writes part of a    *)
(* minute.  About pop_ready's due time.                                    *)
(***************************************************************************)
WholeMinute ==
  \A s \in Present(rows) :
    rows[s].by = "flush" => rows[s].bar.obs = ObservedIn(s, rows[s].life)

(***************************************************************************)
(* A bar that is retried although its row is already in (the commit landed *)
(* and the connection broke) is the bar of that row: the conflict that     *)
(* insert_ignore swallows then discards nothing.                           *)
(***************************************************************************)
RetryHarmless ==
  phase = "running" =>
    \A s \in Present(rows) :
      rows[s].life = life =>
        \A b \in {bars[s], popped[s]} : b # None => rows[s].bar = b

(***************************************************************************)
(* Neither the pipeline nor a program that inserts bars changes or removes *)
(* a row that exists: insert_ignore and backfill's check-then-insert both  *)
(* yield to the first.  (The Greeks job updates Greeks columns of option   *)
(* rows afterwards: GreeksJob.)                                            *)
(***************************************************************************)
RowsImmutable ==
  [][\A s \in Present(rows) : rows'[s] = rows[s]]_rows

(***************************************************************************)
(* Underlying bars do not depend on the option path: if underlying writes  *)
(* eventually get through, every underlying observation of a service that  *)
(* stays up leaves memory for good, even if every option write raises.     *)
(* About the two separate transactions of _flush_ready_bars.               *)
(***************************************************************************)
UnderlyingSettles ==
  \A n \in 1..MaxEvents :
    (n \in Held /\ log[n].slot[1] \in Tickers) ~> (n \notin Held \/ phase # "running")

(***************************************************************************)
(* main.py, lines 6-8: a SIGTERM makes the service "flush in-progress bars *)
(* rather than losing them".                                               *)
(***************************************************************************)
GracefulStopLosesNothing ==
  [][phase = "running" /\ phase' = "cancelled" => gone'.lost = gone.lost]_vars

(* What is in the batch but in no row: its option was not tracked. *)
Untracked == ObsIn(Batch \ writing)

Ledger == INSTANCE BarLedger WITH
  Slots <- Slots,
  OptionSlots <- SlotsOf(OptionIds),
  slotOf <- [i \in 1..Len(log) |-> log[i].slot],
  held <- Held,
  released <- Untracked,
  table <- [s \in Slots |-> IF rows[s] = None THEN {} ELSE {rows[s].bar.obs}],
  tracked <- SlotsOf(tracked),
  running <- phase = "running"

(***************************************************************************)
(* The pipeline keeps the promise of BarLedger: while it is up, only bars  *)
(* of options that were not tracked when their rows were built go without  *)
(* a row.  About _write_option_bars, which asks get_resolved once per      *)
(* bucket, before the write is awaited.                                    *)
(***************************************************************************)
ImplementsLedger == Ledger!Spec
=============================================================================
