--------------------------- MODULE LiveUnderlying ---------------------------
(***************************************************************************)
(* The live underlying poller, service/ingestion/live_underlying.py, in    *)
(* its default mode (--source trade).                                      *)
(*                                                                         *)
(* The poll loop drains the Trade stream into one bucket for each ticker   *)
(* and minute, takes out the buckets whose minute is over and writes them. *)
(* A second task, started with the process, replays what is missing from   *)
(* the Candle stream, one ticker after the other.  Both use one connection *)
(* and insert into underlying_bars_1m under one lock, each row only if it  *)
(* is not there; the daily backfill, another program, inserts there too.   *)
(*                                                                         *)
(* Trades carry the time of the exchange, which may be behind the clock by *)
(* a delay; a bar is the set of trades it was made from.  Time is counted  *)
(* in minutes.                                                             *)
(***************************************************************************)
EXTENDS Integers, Sequences

CONSTANTS
  Order,       \* the tickers, in the order of the command line
  Delays,      \* minutes by which the feed may be behind
  Window,      \* minutes of the polling window
  Lookback,    \* --catch-up-hours, in minutes
  Zeroed,      \* ticker and minute of candles without a usable close
  Backfills,   \* ticker and minute of the rows the daily backfill may write
  None,
  MaxTime,     \* bound: the clock stops here
  MaxTrades,   \* bound: trades received in all
  MaxDrops,    \* bound: connections that die
  MaxLives     \* bound: starts of the process

Row == [by : {"trade", "candle", "backfill"}, obs : SUBSET Nat, life : Nat]

ASSUME LiveAssumption ==
  /\ Len(Order) \in Nat \ {0}
  /\ \A i, j \in 1..Len(Order) : Order[i] = Order[j] => i = j
  /\ None \notin Row
  /\ Delays \subseteq Nat /\ Delays # {} /\ Lookback \in Nat
  /\ MaxTime \in Nat /\ MaxTrades \in Nat /\ MaxDrops \in Nat /\ MaxLives \in Nat

Tickers == {Order[i] : i \in 1..Len(Order)}
Minutes == 0..MaxTime
Slots == Tickers \X Minutes
Writers == {"poll", "catchup"}

VARIABLES
  now,       \* the wall clock
  phase,     \* "down", "up", "stopping" (SIGTERM), "closing" (after the loop)
  life,      \* starts of the process so far
  streamer,  \* TastyTradeSource._streamer: "none", "live", or a connection
             \* that died and raises ("broken") or only goes quiet ("silent")
  at,        \* writer -> the await it is suspended in
  buckets,   \* _TradeBarAggregator._buckets: slot -> trades
  bars,      \* writer -> slot -> trades of the bars it has to write
  absent,    \* writer -> slots it found without a row
  rows,      \* underlying_bars_1m: slot -> row, or None
  begun,     \* the time at which the catch-ups of this life began
  turn,      \* ticker the catch-up task is at
  start,     \* first minute of its replay
  cut,       \* the replay's connection died or was torn down
  drops,     \* connections that died so far
  trades,    \* history: every trade received
  gone,      \* history: trades whose row was there, or that were lost
  newest,    \* history: ticker -> minute the catch-up has to start from
  met,       \* history: ticker -> minutes with a row when its turn had come
  caughtUp   \* history: tickers whose catch-up ended well in this life

replay == <<begun, turn, start, cut>>
history == <<trades, gone, newest, met, caughtUp>>
vars == <<now, phase, life, streamer, at, buckets, bars, absent, rows, replay, drops, history>>

-----------------------------------------------------------------------------
NoBars == [s \in {} |-> {}]

Held == UNION {buckets[s] : s \in Slots}

(* Trades of the bars the poll loop has in hand. *)
Popped == UNION {bars["poll"][s] : s \in DOMAIN bars["poll"]}

NoTrades == [s \in Slots |-> {}]

Init ==
  /\ now = 0 /\ phase = "down" /\ life = 0
  /\ streamer = "none"
  /\ at = [w \in Writers |-> "off"]
  /\ buckets = NoTrades
  /\ bars = [w \in Writers |-> NoBars] /\ absent = [w \in Writers |-> {}]
  /\ rows = [s \in Slots |-> None]
  /\ begun = 0 /\ turn = 1 /\ start = 0 /\ cut = FALSE
  /\ drops = 0
  /\ trades = <<>> /\ gone = [skipped |-> {}, lost |-> {}]
  /\ newest = [t \in Tickers |-> 0] /\ met = [t \in Tickers |-> {}] /\ caughtUp = {}

Tick ==
  /\ now < MaxTime
  /\ now' = now + 1
  /\ UNCHANGED <<phase, life, streamer, at, buckets, bars, absent, rows, replay, drops, history>>

Floor == IF now > Lookback THEN now - Lookback ELSE 0

StoredMinutes(t) == {m \in Minutes : rows[<<t, m>>] # None}

(* _latest_bar_time, or `floor` if that is later. *)
StartsFrom(t, floor) ==
  {m \in StoredMinutes(t) \cup {floor} : \A n \in StoredMinutes(t) \cup {floor} : n <= m}

(***************************************************************************)
(* run() up to the loop: the catch-up task is created and the loop begins. *)
(***************************************************************************)
Start ==
  /\ phase = "down" /\ life < MaxLives
  /\ phase' = "up" /\ life' = life + 1
  /\ at' = [poll |-> "idle", catchup |-> "latest"]
  /\ begun' = now /\ turn' = 1 /\ start' = 0 /\ cut' = FALSE
  /\ newest' = [t \in Tickers |-> CHOOSE m \in StartsFrom(t, Floor) : TRUE]
  /\ met' = [t \in Tickers |-> {}] /\ caughtUp' = {}
  /\ UNCHANGED <<now, streamer, buckets, bars, absent, rows, drops, trades, gone>>

-----------------------------------------------------------------------------
(* The connection. *)

Drop(how) ==
  /\ streamer = "live" /\ drops < MaxDrops
  /\ streamer' = how /\ drops' = drops + 1
  /\ cut' = (cut \/ at["catchup"] = "replay")
  /\ UNCHANGED <<now, phase, life, at, buckets, bars, absent, rows, begun, turn, start, history>>

(* _mark_disconnected *)
TearDown ==
  /\ streamer' = "none"
  /\ cut' = (cut \/ at["catchup"] = "replay")

(* _ensure_streamer, when it succeeds *)
Ensured == IF streamer = "none" THEN "live" ELSE streamer

-----------------------------------------------------------------------------
(* The poll loop. *)

Goes(w, await) == at' = [at EXCEPT ![w] = await]

(* Connecting may fail, too: the loop then tries again. *)
PollBegins ==
  /\ phase = "up" /\ at["poll"] = "idle" /\ now \in Window
  /\ streamer' = Ensured
  /\ Goes("poll", "subscribe")
  /\ UNCHANGED <<now, phase, life, buckets, bars, absent, rows, replay, drops, history>>

(* A connection that has gone quiet takes commands for a while. *)
Subscribed ==
  /\ at["poll"] = "subscribe" /\ streamer \in {"live", "silent"}
  /\ Goes("poll", "drain")
  /\ UNCHANGED <<now, phase, life, streamer, buckets, bars, absent, rows, replay, drops, history>>

(* Mutant: only a drain that fails drops the connection. *)
SubscribeFailsKeeps ==
  /\ at["poll"] = "subscribe"
  /\ Goes("poll", "idle")
  /\ UNCHANGED <<now, phase, life, streamer, buckets, bars, absent, rows, replay, drops, history>>

SubscribeFails ==
  /\ at["poll"] = "subscribe"
  /\ TearDown /\ Goes("poll", "idle")
  /\ UNCHANGED <<now, phase, life, buckets, bars, absent, rows, begun, turn, start, drops, history>>

Receive(t, d) ==
  /\ at["poll"] = "drain" /\ streamer = "live"
  /\ now - d \in Minutes /\ Len(trades) < MaxTrades
  /\ buckets' = [buckets EXCEPT ![<<t, now - d>>] = @ \cup {Len(trades) + 1}]
  /\ trades' = Append(trades, [slot |-> <<t, now - d>>, life |-> life])
  /\ UNCHANGED <<now, phase, life, streamer, at, bars, absent, rows, replay, drops,
                 gone, newest, met, caughtUp>>

(* Mutant: the drain has no time limit. *)
DrainRaises ==
  /\ at["poll"] = "drain" /\ streamer = "broken"
  /\ TearDown /\ Goes("poll", "idle")
  /\ UNCHANGED <<now, phase, life, buckets, bars, absent, rows, begun, turn, start, drops, history>>

(* listen() raises, or no event came for the whole grace period. *)
DrainFails ==
  /\ at["poll"] = "drain"
  /\ TearDown /\ Goes("poll", "idle")
  /\ UNCHANGED <<now, phase, life, buckets, bars, absent, rows, begun, turn, start, drops, history>>

(* ready_bars *)
Ready == {s \in Slots : buckets[s] # {} /\ s[2] + 1 <= now}

(* Mutant: drop_ready takes the whole ticker out, not only the minute. *)
AfterDropTicker ==
  [s \in Slots |-> IF \E r \in Ready : r[1] = s[1] THEN {} ELSE buckets[s]]

(* drop_ready *)
AfterDrop == [s \in Slots |-> IF s \in Ready THEN {} ELSE buckets[s]]

(***************************************************************************)
(* The first event after listen_s ends the drain; unsubscribing follows,   *)
(* whether it works or not, and the completed minutes are taken out.       *)
(***************************************************************************)
Drained ==
  /\ at["poll"] = "drain" /\ streamer = "live"
  /\ Goes("poll", IF Ready = {} THEN "idle" ELSE "lock")
  /\ bars' = [bars EXCEPT !["poll"] = [s \in Ready |-> buckets[s]]]
  /\ buckets' = AfterDrop
  /\ UNCHANGED <<now, phase, life, streamer, absent, rows, replay, drops, history>>

-----------------------------------------------------------------------------
(* The catch-up task. *)

Ticker == Order[turn]

NextTicker(settled) ==
  /\ Goes("catchup", IF turn < Len(Order) THEN "latest" ELSE "off")
  /\ turn' = turn + 1 /\ start' = 0 /\ cut' = FALSE
  /\ caughtUp' = caughtUp \cup settled
  /\ UNCHANGED begun

ReadLatest ==
  /\ at["catchup"] = "latest"
  /\ \E m \in StartsFrom(Ticker, IF begun > Lookback THEN begun - Lookback ELSE 0) :
       IF begun - m < 1 THEN NextTicker({Ticker})
       ELSE /\ start' = m /\ Goes("catchup", "connect")
            /\ UNCHANGED <<begun, turn, cut, caughtUp>>
  /\ met' = [met EXCEPT ![Ticker] = StoredMinutes(Ticker)]
  /\ UNCHANGED <<now, phase, life, streamer, buckets, bars, absent, rows, drops,
                 trades, gone, newest>>

RequestCandles ==
  /\ at["catchup"] = "connect"
  /\ streamer' = Ensured /\ cut' = (streamer \in {"broken", "silent"})
  /\ Goes("catchup", "replay")
  /\ UNCHANGED <<now, phase, life, buckets, bars, absent, rows, begun, turn, start, drops, history>>

(* Mutant: only what comes after the newest bar. *)
HistoryAfter(d) == {m \in Minutes : start < m /\ m <= now - d}

(* Candles from the start on, of a feed that is behind by d. *)
History(d) == {m \in Minutes : start <= m /\ m <= now - d}

(***************************************************************************)
(* The replay ends: it has every minute from the first one asked for to    *)
(* the one in progress, or some of them if its connection failed.          *)
(***************************************************************************)
Replayed ==
  /\ at["catchup"] = "replay"
  /\ \E d \in Delays :
       \E S \in IF cut THEN SUBSET History(d) ELSE {History(d)} :
         IF S = {} THEN NextTicker(IF cut THEN {} ELSE {Ticker}) /\ UNCHANGED bars
         ELSE /\ bars' = [bars EXCEPT !["catchup"] = [s \in {Ticker} \X S |-> {}]]
              /\ Goes("catchup", "lock")
              /\ UNCHANGED <<replay, caughtUp>>
  /\ UNCHANGED <<now, phase, life, streamer, buckets, absent, rows, drops, trades, gone>>
  /\ UNCHANGED <<newest, met>>

(* The query, the connection or the replay raises: on to the next ticker. *)
CatchUpRaises ==
  /\ at["catchup"] \in {"latest", "connect", "replay"}
  /\ NextTicker({})
  /\ UNCHANGED <<now, phase, life, streamer, buckets, bars, absent, rows, drops,
                 trades, gone, newest, met>>

-----------------------------------------------------------------------------
(* Writing, by either of them. *)

(* write_lock is held from the first look at the table to the commit. *)
LockIdle == \A w \in Writers : at[w] \notin {"check", "commit"}

(* Mutant: there is no lock. *)
TakeLockAlways(w) ==
  /\ at[w] = "lock"
  /\ Goes(w, "check")
  /\ UNCHANGED <<now, phase, life, streamer, buckets, bars, absent, rows, replay, drops, history>>

TakeLock(w) ==
  /\ at[w] = "lock" /\ LockIdle
  /\ Goes(w, "check")
  /\ UNCHANGED <<now, phase, life, streamer, buckets, bars, absent, rows, replay, drops, history>>

(* Which rows are there, and which candles are of no use. *)
Check(w) ==
  /\ at[w] = "check"
  /\ Goes(w, "commit")
  /\ absent' = [absent EXCEPT ![w] =
       {s \in DOMAIN bars[w] : rows[s] = None /\ (w = "catchup" => s \notin Zeroed)}]
  /\ UNCHANGED <<now, phase, life, streamer, buckets, bars, rows, replay, drops, history>>

(* A row that appeared since Check makes the whole commit fail. *)
CanCommit(w) == at[w] = "commit" /\ \A s \in absent[w] : rows[s] = None

Inserted(w) ==
  [s \in Slots |-> IF s \in absent[w]
                   THEN [by |-> IF w = "poll" THEN "trade" ELSE "candle",
                         obs |-> bars[w][s], life |-> life]
                   ELSE rows[s]]

Leave(w, settled) ==
  /\ bars' = [bars EXCEPT ![w] = NoBars]
  /\ absent' = [absent EXCEPT ![w] = {}]
  /\ IF w = "poll" THEN Goes(w, "idle") /\ UNCHANGED <<replay, caughtUp>>
     ELSE NextTicker(settled)
  /\ UNCHANGED <<now, phase, life, streamer, buckets, drops, trades, newest, met>>

Commit(w) ==
  /\ CanCommit(w)
  /\ rows' = Inserted(w)
  /\ gone' = [gone EXCEPT !.skipped =
       @ \cup UNION {bars[w][s] : s \in DOMAIN bars[w] \ absent[w]}]
  /\ Leave(w, IF cut THEN {} ELSE {Ticker})

(* A query or the commit raises, because of a row that has appeared or not. *)
WriteFails(w) ==
  /\ at[w] \in {"check", "commit"}
  /\ gone' = [gone EXCEPT !.lost = @ \cup UNION {bars[w][s] : s \in DOMAIN bars[w]}]
  /\ UNCHANGED rows
  /\ Leave(w, {})

(* The daily backfill, when its commit succeeds. *)
Backfill(s) ==
  /\ rows[s] = None /\ s[2] <= now
  /\ rows' = [rows EXCEPT ![s] = [by |-> "backfill", obs |-> {}, life |-> 0]]
  /\ UNCHANGED <<now, phase, life, streamer, at, buckets, bars, absent, replay, drops, history>>

-----------------------------------------------------------------------------
(* Stop and restart. *)

(* SIGTERM; the loop looks at it between polls. *)
Stop ==
  /\ phase = "up"
  /\ phase' = "stopping"
  /\ UNCHANGED <<now, life, streamer, at, buckets, bars, absent, rows, replay, drops, history>>

(* The process is gone with all it held. *)
Down ==
  /\ phase' = "down" /\ streamer' = "none"
  /\ at' = [w \in Writers |-> "off"]
  /\ buckets' = NoTrades
  /\ bars' = [w \in Writers |-> NoBars] /\ absent' = [w \in Writers |-> {}]
  /\ gone' = [gone EXCEPT !.lost = @ \cup Held \cup Popped]
  /\ begun' = 0 /\ turn' = 1 /\ start' = 0 /\ cut' = FALSE
  /\ met' = [t \in Tickers |-> {}] /\ caughtUp' = {}
  /\ UNCHANGED <<now, life, rows, drops, trades, newest>>

(***************************************************************************)
(* The finally clause of run() cancels the catch-up.  collect_events       *)
(* swallows that: a replay only ends early, what it has is written, and    *)
(* the next ticker follows.  Anywhere else the task ends.  (A commit that  *)
(* lands all the same is Commit.)                                          *)
(***************************************************************************)
Cancel ==
  /\ phase = "stopping" /\ at["poll"] = "idle"
  /\ phase' = "closing"
  /\ \/ /\ at["catchup"] = "replay" /\ cut' = TRUE
        /\ UNCHANGED <<at, bars, absent>>
     \/ /\ Goes("catchup", "off")
        /\ bars' = [bars EXCEPT !["catchup"] = NoBars]
        /\ absent' = [absent EXCEPT !["catchup"] = {}]
        /\ UNCHANGED cut
  /\ UNCHANGED <<now, life, streamer, buckets, rows, begun, turn, start, drops, history>>

(* Once the catch-up task is over the source is closed. *)
Finish == phase = "closing" /\ at["catchup"] = "off" /\ Down

Crash == phase # "down" /\ Down

-----------------------------------------------------------------------------
Write(w) == TakeLock(w) \/ Check(w) \/ Commit(w) \/ WriteFails(w)

Poll == PollBegins \/ Subscribed \/ SubscribeFails \/ DrainFails \/ Drained \/ Write("poll")

CatchUp == ReadLatest \/ RequestCandles \/ Replayed \/ CatchUpRaises \/ Write("catchup")

Next ==
  \/ Tick \/ Start \/ Stop \/ Cancel \/ Finish \/ Crash
  \/ Poll \/ CatchUp
  \/ \E t \in Tickers, d \in Delays : Receive(t, d)
  \/ \E how \in {"broken", "silent"} : Drop(how)
  \/ \E s \in Slots \cap Backfills : Backfill(s)

Spec == Init /\ [][Next]_vars

(***************************************************************************)
(* The event loop runs what can run, a timeout fires, the lock is first    *)
(* come first served, and a subscription at a healthy feed works some day. *)
(***************************************************************************)
FairSpec ==
  /\ Spec
  /\ WF_vars(Poll) /\ SF_vars(PollBegins) /\ SF_vars(Subscribed) /\ SF_vars(TakeLock("poll"))
  /\ WF_vars(CatchUp) /\ WF_vars(Cancel) /\ WF_vars(Finish)

-----------------------------------------------------------------------------
(* Properties. *)

Awaits == {"off", "idle", "subscribe", "drain", "latest", "connect", "replay",
           "lock", "check", "commit"}

(***************************************************************************)
(* The variables have their types, and only one writer is between its look *)
(* at the table and its commit.                                            *)
(***************************************************************************)
TypeOK ==
  /\ now \in Minutes /\ phase \in {"down", "up", "stopping", "closing"} /\ life \in 0..MaxLives
  /\ streamer \in {"none", "live", "broken", "silent"}
  /\ at \in [Writers -> Awaits]
  /\ buckets \in [Slots -> SUBSET Nat]
  /\ DOMAIN bars = Writers /\ absent \in [Writers -> SUBSET Slots]
  /\ \A w \in Writers :
       /\ absent[w] \subseteq DOMAIN bars[w] /\ DOMAIN bars[w] \subseteq Slots
       /\ \A s \in DOMAIN bars[w] : bars[w][s] \subseteq Nat
  /\ rows \in [Slots -> Row \cup {None}]
  /\ begun \in Minutes /\ turn \in 1..Len(Order) + 1 /\ start \in Minutes /\ cut \in BOOLEAN
  /\ drops \in 0..MaxDrops
  /\ trades \in Seq([slot : Slots, life : Nat])
  /\ gone \in [skipped : SUBSET Nat, lost : SUBSET Nat]
  /\ newest \in [Tickers -> Minutes] /\ met \in [Tickers -> SUBSET Minutes]
  /\ caughtUp \subseteq Tickers
  /\ \A v, w \in Writers : at[v] \in {"check", "commit"} /\ at[w] \in {"check", "commit"} => v = w

(***************************************************************************)
(* The two writers of the poller never make each other's commit fail: a    *)
(* row that one found missing and that has appeared since is the work of   *)
(* another program.  About write_lock around both check-then-inserts.      *)
(***************************************************************************)
OnlyOthersCollide ==
  \A w \in Writers : \A s \in absent[w] : rows[s] # None => rows[s].by = "backfill"

Stored == UNION {rows[s].obs : s \in {r \in Slots : rows[r] # None}}

(***************************************************************************)
(* No trade vanishes or is counted twice: it is in one bucket, in one bar  *)
(* that is being written, in the row of its own minute, or it is known to  *)
(* be gone.  About drop_ready taking out what ready_bars has returned.     *)
(***************************************************************************)
TradesAccounted ==
  /\ DOMAIN trades = Held \cup Popped \cup Stored \cup gone.skipped \cup gone.lost
  /\ Held \cap (Popped \cup Stored) = {} /\ Popped \cap Stored = {}
  /\ (Held \cup Popped \cup Stored) \cap (gone.skipped \cup gone.lost) = {}
  /\ \A s \in Slots :
       /\ \A n \in buckets[s] : trades[n].slot = s
       /\ rows[s] # None => \A n \in rows[s].obs : trades[n].slot = s

(***************************************************************************)
(* The poller gets over a connection that died, even one that only goes    *)
(* quiet and raises nothing: it drains a live one again.  About the time   *)
(* limit of the drain and _mark_disconnected.                              *)
(***************************************************************************)
CaptureResumes ==
  (phase = "up" /\ streamer \in {"broken", "silent"} /\ now \in Window)
    ~> ((at["poll"] = "drain" /\ streamer = "live") \/ phase # "up" \/ now \notin Window)

(***************************************************************************)
(* A SIGTERM ends the process, whatever the poll loop waits for and the    *)
(* catch-up task is at.  About the time limit of the drain, and the cancel *)
(* and await of that task.                                                 *)
(***************************************************************************)
StopEnds == phase = "stopping" ~> phase = "down"

(***************************************************************************)
(* live_underlying.py, line 174: the aggregator "exposes only fully        *)
(* closed minutes".  The row of a minute has all its trades that this      *)
(* start of the process ever received.                                     *)
(***************************************************************************)
OnlyClosedMinutes ==
  \A s \in Slots :
    rows[s] # None /\ rows[s].by = "trade" =>
      \A n \in DOMAIN trades : trades[n].slot = s /\ trades[n].life = rows[s].life => n \in rows[s].obs

(* A newer row was there when the turn of t came to have its start read. *)
Overtaken(t, m) == \E n \in met[t] : m < n

(* What the catch-up of t is to bring: from its newest bar to the start of the process. *)
Owed(t) ==
  {m \in Minutes : newest[t] <= m /\ (\A d \in Delays : m < begun - d) /\ <<t, m>> \notin Zeroed}

(***************************************************************************)
(* A catch-up that went well has closed the gap between the newest bar     *)
(* that there was at the start of the process and that start: it misses no *)
(* minute that the feed has, and not zeroed.  A row that another writer    *)
(* put there in between, until the turn of the ticker came, excuses those  *)
(* before it, and only those.  About catch_up_ticker beside the trade path *)
(* and the backfill.                                                       *)
(***************************************************************************)
CatchUpClosesGap ==
  \A t \in caughtUp : \A m \in Owed(t) : rows[<<t, m>>] # None \/ Overtaken(t, m)
=============================================================================
