------------------------ MODULE LiveUnderlyingProofs ------------------------
(***************************************************************************)
(* For any tickers, delays, trades, connections that die and restarts:     *)
(* LiveUnderlying is type correct and its lock has one holder, its two     *)
(* writers never make each other's commit fail, no trade vanishes or       *)
(* counts twice, and a catch-up that went well has closed its gap.         *)
(*                                                                         *)
(* The argument is about what a writer has in hand at each await (Hands):  *)
(* what it found missing it holds only under the lock, and the bars of the *)
(* catch-up are made of no trades.  For the gap it follows the catch-up of *)
(* one ticker (Course): a start beyond the newest bar is a row that was    *)
(* there when its turn came (Passed); a replay that was not cut has all    *)
(* that is owed from there on (Fetched); and what it does not write has a  *)
(* row or no usable close (Looked).                                        *)
(***************************************************************************)
EXTENDS LiveUnderlying, FiniteSetTheorems, TLAPS

PollAwaits == {"off", "idle", "subscribe", "drain", "lock", "check", "commit"}

CatchUpAwaits == {"off", "latest", "connect", "replay", "lock", "check", "commit"}

(* What each writer has in hand at the await it is suspended in. *)
Hands ==
  /\ at["poll"] \in PollAwaits /\ at["catchup"] \in CatchUpAwaits
  /\ at["catchup"] # "off" => turn <= Len(Order)
  /\ \A w \in Writers :
       /\ at[w] # "commit" => absent[w] = {}
       /\ at[w] \notin {"lock", "check", "commit"} => DOMAIN bars[w] = {}
  /\ \A s \in DOMAIN bars["catchup"] : bars["catchup"][s] = {}
  /\ phase = "down" => \A w \in Writers : at[w] = "off"

Typed == TypeOK /\ Hands

(* The trades of a bar in hand are of its minute. *)
PoppedPlaced ==
  \A s \in DOMAIN bars["poll"] : \A n \in bars["poll"][s] : trades[n].slot = s

Inv == Typed /\ OnlyOthersCollide /\ TradesAccounted /\ PoppedPlaced

-----------------------------------------------------------------------------
(* Type correctness. *)

(* A set of minutes that is not empty has a last one. *)
LEMMA LastMinute ==
  ASSUME NEW S \in SUBSET Minutes, S # {}
  PROVE  \E m \in S : \A n \in S : n <= m
  <1> DEFINE After(m) == {n \in S : m < n}
             T == {After(m) : m \in S}
  <1>1. IsFiniteSet(S)
    <2>1. IsFiniteSet(0..MaxTime)
      BY LiveAssumption, FS_Interval DEF LiveAssumption
    <2> QED
      BY <2>1, FS_Subset DEF Minutes
  <1>2. IsWellFoundedOn(StrictSubsetOrdering(S), SUBSET S)
    BY <1>1, FS_FiniteSubsetsOfFinite, FS_StrictSubsetOrderingWellFounded
  <1>3. T \subseteq SUBSET S /\ T # {}
    OBVIOUS
  <1>4. PICK x \in T : \A y \in T : ~ (<<y, x>> \in StrictSubsetOrdering(S))
    <2> HIDE DEF T
    <2> QED
      BY <1>2, <1>3, WFMin
  <1>5. PICK m \in S : x = After(m)
    BY <1>4
  <1>6. ASSUME NEW n \in S, m < n PROVE FALSE
    <2>1. /\ After(n) \subseteq After(m)
          /\ n \in After(m) /\ n \notin After(n)
      <3>1. S \subseteq Int
        BY LiveAssumption DEF LiveAssumption, Minutes
      <3>2. \A k \in S : n < k => m < k
        BY <1>6, <3>1
      <3>3. ~ (n < n)
        BY <3>1
      <3> QED
        BY <1>6, <3>2, <3>3
    <2>2. After(n) \in T /\ After(n) \in SUBSET S /\ After(m) \in SUBSET S
      OBVIOUS
    <2> HIDE DEF After, T
    <2>3. <<After(n), After(m)>> \in StrictSubsetOrdering(S)
      BY <2>1, <2>2 DEF StrictSubsetOrdering
    <2> QED
      BY <1>4, <1>5, <2>2, <2>3
  <1>7. \A n \in S : n <= m
    BY <1>6, LiveAssumption DEF LiveAssumption, Minutes
  <1> QED
    BY <1>7

(* So there is a minute to start from. *)
LEMMA StartExists ==
  ASSUME NEW t, NEW floor \in Minutes
  PROVE  (CHOOSE m \in StartsFrom(t, floor) : TRUE) \in Minutes
  <1>1. StoredMinutes(t) \cup {floor} \in SUBSET Minutes /\ StoredMinutes(t) \cup {floor} # {}
    BY DEF StoredMinutes
  <1>2. \E m \in StartsFrom(t, floor) : TRUE
    BY <1>1, LastMinute DEF StartsFrom
  <1>3. StartsFrom(t, floor) \subseteq Minutes
    BY <1>1 DEF StartsFrom
  <1> QED
    BY <1>2, <1>3

LEMMA TypedInit == Init => Typed
  <1> SUFFICES ASSUME Init PROVE Typed
    OBVIOUS
  <1> USE LiveAssumption DEF LiveAssumption
  <1>1. trades \in Seq([slot : Slots, life : Nat]) /\ gone \in [skipped : SUBSET Nat, lost : SUBSET Nat]
    BY DEF Init
  <1>2. DOMAIN bars = Writers /\ \A w \in Writers : DOMAIN bars[w] = {} /\ absent[w] = {}
    BY DEF Init, NoBars
  <1>3. at \in [Writers -> Awaits] /\ absent \in [Writers -> SUBSET Slots] /\ \A w \in Writers : at[w] = "off"
    BY DEF Init, Awaits
  <1>4. buckets \in [Slots -> SUBSET Nat] /\ rows \in [Slots -> Row \cup {None}]
    BY DEF Init, NoTrades
  <1>5. /\ now \in Minutes /\ phase = "down" /\ life \in 0..MaxLives /\ streamer = "none"
        /\ begun \in Minutes /\ turn = 1 /\ start \in Minutes /\ drops \in 0..MaxDrops
        /\ caughtUp = {}
    BY DEF Init, Minutes
  <1>a. cut \in BOOLEAN
    BY DEF Init
  <1>6. newest = [t \in Tickers |-> 0] /\ met = [t \in Tickers |-> {}] /\ 0 \in Minutes
    BY DEF Init, Minutes
  <1>7. TypeOK
    BY <1>1, <1>2, <1>3, <1>4, <1>5, <1>6, <1>a DEF TypeOK
  <1>8. Hands
    BY <1>2, <1>3, <1>5 DEF Hands, PollAwaits, CatchUpAwaits, Writers
  <1> QED
    BY <1>7, <1>8 DEF Typed

(* The catch-up goes on to the next ticker, or is over. *)
LEMMA NextTickerTypes ==
  ASSUME Typed, NEW settled \in SUBSET {Ticker}, NextTicker(settled), at["catchup"] # "off"
  PROVE  /\ at' \in [Writers -> Awaits] /\ at'["poll"] = at["poll"]
         /\ at'["catchup"] \in {"latest", "off"}
         /\ turn' \in 1..Len(Order) + 1 /\ (at'["catchup"] # "off" => turn' <= Len(Order))
         /\ start' \in Minutes /\ cut' \in BOOLEAN /\ begun' = begun /\ caughtUp' \subseteq Tickers
  <1> USE LiveAssumption DEF LiveAssumption
  <1>1. turn \in 1..Len(Order)
    BY DEF Typed, TypeOK, Hands
  <1>2. Ticker \in Tickers /\ caughtUp \subseteq Tickers
    BY <1>1 DEF Typed, TypeOK, Ticker, Tickers
  <1>3. at' \in [Writers -> Awaits] /\ at'["poll"] = at["poll"]
    BY DEF Typed, TypeOK, NextTicker, Goes, Writers, Awaits
  <1>4. at'["catchup"] = IF turn < Len(Order) THEN "latest" ELSE "off"
    BY DEF Typed, TypeOK, NextTicker, Goes, Writers
  <1>5. turn' = turn + 1 /\ start' = 0 /\ begun' = begun /\ caughtUp' \subseteq Tickers
    BY <1>2 DEF NextTicker
  <1>6. cut' \in BOOLEAN
    BY DEF NextTicker
  <1>7. turn' \in 1..Len(Order) + 1 /\ (at'["catchup"] # "off" => turn' <= Len(Order))
    BY <1>1, <1>4, <1>5
  <1> QED
    BY <1>3, <1>4, <1>5, <1>6, <1>7 DEF Minutes

(* A trade has a number, a minute and a life. *)
LEMMA ReceiveTypes ==
  ASSUME Typed, NEW t \in Tickers, NEW d \in Delays, Receive(t, d)
  PROVE  Len(trades) + 1 \in Nat /\ <<t, now - d>> \in Slots /\ life \in Nat
  <1>1. Len(trades) \in Nat
    BY DEF Typed, TypeOK
  <1>2. life \in Nat
    BY LiveAssumption DEF LiveAssumption, Typed, TypeOK
  <1> QED
    BY <1>1, <1>2 DEF Receive, Slots

(* The steps that leave what the writers have in hand alone. *)
LEMMA TypedQuiet ==
  ASSUME Typed, UNCHANGED <<bars, absent>>,
         \/ Tick \/ Start \/ Stop \/ PollBegins \/ Subscribed \/ SubscribeFails \/ DrainFails
         \/ RequestCandles \/ CatchUpRaises \/ ReadLatest
         \/ (\E t \in Tickers, d \in Delays : Receive(t, d))
         \/ (\E how \in {"broken", "silent"} : Drop(how))
         \/ (\E s \in Slots \cap Backfills : Backfill(s))
         \/ (\E w \in Writers : TakeLock(w))
         \/ UNCHANGED vars
  PROVE  Typed'
  <1> USE LiveAssumption DEF LiveAssumption, Typed, TypeOK, Hands, Goes, Minutes, Awaits,
          PollAwaits, CatchUpAwaits, Writers
  <1>1. CASE Tick
    BY <1>1 DEF Tick, replay, history
  <1>2. CASE Start
    <2>1. Floor \in Minutes
      BY DEF Floor
    <2>2. newest' = [t \in Tickers |-> CHOOSE m \in StartsFrom(t, Floor) : TRUE]
      BY <1>2 DEF Start
    <2>3. newest' \in [Tickers -> Minutes]
      BY <2>1, <2>2, StartExists
    <2>4. /\ at' \in [Writers -> Awaits] /\ at'["poll"] = "idle" /\ at'["catchup"] = "latest"
      BY <1>2 DEF Start
    <2>5. \A w \in Writers : DOMAIN bars[w] = {} /\ absent[w] = {}
      BY <1>2 DEF Start
    <2>6. life' \in 0..MaxLives /\ begun' \in Minutes /\ turn' = 1 /\ start' = 0
      BY <1>2 DEF Start
    <2>7. cut' \in BOOLEAN
      BY <1>2 DEF Start
    <2>8. TypeOK'
      <3>1. /\ UNCHANGED <<now, streamer, buckets, bars, absent, rows, drops, trades, gone>>
            /\ phase' = "up" /\ caughtUp' = {} /\ met' \in [Tickers -> SUBSET Minutes]
        BY <1>2 DEF Start
      <3>2. start' \in Minutes /\ turn' \in 1..Len(Order) + 1
        BY <2>6
      <3>3. /\ DOMAIN bars' = Writers /\ absent' \in [Writers -> SUBSET Slots]
            /\ \A w \in Writers :
                 /\ absent'[w] \subseteq DOMAIN bars'[w] /\ DOMAIN bars'[w] \subseteq Slots
                 /\ \A s \in DOMAIN bars'[w] : bars'[w][s] \subseteq Nat
        BY <3>1
      <3> QED
        BY <2>3, <2>4, <2>6, <2>7, <3>1, <3>2, <3>3
    <2>9. Hands'
      BY <1>2, <2>4, <2>5, <2>6 DEF Start
    <2> QED
      BY <2>8, <2>9
  <1>3. CASE Stop
    BY <1>3 DEF Stop, replay, history
  <1>4. CASE PollBegins
    BY <1>4 DEF PollBegins, replay, history, Ensured
  <1>5. CASE Subscribed
    BY <1>5 DEF Subscribed, replay, history
  <1>6. CASE SubscribeFails
    BY <1>6 DEF SubscribeFails, TearDown, history
  <1>7. CASE DrainFails
    BY <1>7 DEF DrainFails, TearDown, history
  <1>8. CASE RequestCandles
    BY <1>8 DEF RequestCandles, history, Ensured
  <1>9. CASE CatchUpRaises
    <2>1. /\ at' \in [Writers -> Awaits] /\ at'["poll"] = at["poll"]
          /\ at'["catchup"] \in {"latest", "off"}
          /\ turn' \in 1..Len(Order) + 1 /\ (at'["catchup"] # "off" => turn' <= Len(Order))
          /\ start' \in Minutes /\ cut' \in BOOLEAN /\ begun' = begun /\ caughtUp' \subseteq Tickers
      BY <1>9, NextTickerTypes DEF CatchUpRaises
    <2> QED
      BY <1>9, <2>1 DEF CatchUpRaises
  <1>10. CASE ReadLatest
    <2>a. met' \in [Tickers -> SUBSET Minutes]
      BY <1>10 DEF ReadLatest, StoredMinutes
    <2>1. CASE NextTicker({Ticker})
      <3>1. /\ at' \in [Writers -> Awaits] /\ at'["poll"] = at["poll"]
            /\ at'["catchup"] \in {"latest", "off"}
            /\ turn' \in 1..Len(Order) + 1 /\ (at'["catchup"] # "off" => turn' <= Len(Order))
            /\ start' \in Minutes /\ cut' \in BOOLEAN /\ begun' = begun /\ caughtUp' \subseteq Tickers
        BY <1>10, <2>1, NextTickerTypes DEF ReadLatest
      <3> QED
        BY <1>10, <2>a, <3>1 DEF ReadLatest
    <2>2. CASE ~ NextTicker({Ticker})
      <3>1. PICK m : /\ start' = m /\ Goes("catchup", "connect")
                     /\ m \in StartsFrom(Ticker, IF begun > Lookback THEN begun - Lookback ELSE 0)
                     /\ UNCHANGED <<begun, turn, cut, caughtUp>>
        BY <1>10, <2>2 DEF ReadLatest
      <3>2. m \in Minutes
        BY <3>1 DEF StartsFrom, StoredMinutes
      <3> QED
        BY <1>10, <2>a, <3>1, <3>2 DEF ReadLatest
    <2> QED
      BY <2>1, <2>2
  <1>11. ASSUME NEW t \in Tickers, NEW d \in Delays, Receive(t, d) PROVE Typed'
    <2>1. Len(trades) + 1 \in Nat /\ <<t, now - d>> \in Slots /\ life \in Nat
      BY <1>11, ReceiveTypes
    <2>2. trades' \in Seq([slot : Slots, life : Nat])
      BY <1>11, <2>1 DEF Receive
    <2>3. buckets' \in [Slots -> SUBSET Nat]
      BY <1>11, <2>1 DEF Receive
    <2> QED
      BY <1>11, <2>2, <2>3 DEF Receive, replay
  <1>12. ASSUME NEW how \in {"broken", "silent"}, Drop(how) PROVE Typed'
    BY <1>12 DEF Drop, history
  <1>13. ASSUME NEW s \in Slots \cap Backfills, Backfill(s) PROVE Typed'
    BY <1>13 DEF Backfill, replay, history, Row
  <1>14. ASSUME NEW w \in Writers, TakeLock(w) PROVE Typed'
    BY <1>14 DEF TakeLock, LockIdle, replay, history
  <1>15. CASE UNCHANGED vars
    BY <1>15 DEF vars, replay, history
  <1> QED
    BY <1>1, <1>2, <1>3, <1>4, <1>5, <1>6, <1>7, <1>8, <1>9, <1>10, <1>11, <1>12, <1>13, <1>14,
       <1>15

(* A writer is done with its bars. *)
LEMMA TypedLeave ==
  ASSUME Typed, NEW w \in Writers, NEW settled \in SUBSET {Ticker}, Leave(w, settled),
         at[w] \in {"check", "commit"},
         rows' \in [Slots -> Row \cup {None}], gone' \in [skipped : SUBSET Nat, lost : SUBSET Nat]
  PROVE  Typed'
  <1>1. /\ DOMAIN bars' = Writers /\ absent' \in [Writers -> SUBSET Slots]
        /\ DOMAIN bars'[w] = {} /\ absent'[w] = {}
        /\ \A v \in Writers \ {w} : bars'[v] = bars[v] /\ absent'[v] = absent[v]
    BY DEF Typed, TypeOK, Leave, NoBars
  <1>2. /\ at' \in [Writers -> Awaits] /\ \A v \in Writers \ {w} : at'[v] = at[v]
        /\ at'["poll"] \in PollAwaits /\ at'["catchup"] \in CatchUpAwaits
        /\ at'[w] \notin {"lock", "check", "commit"}
        /\ turn' \in 1..Len(Order) + 1 /\ (at'["catchup"] # "off" => turn' <= Len(Order))
        /\ start' \in Minutes /\ cut' \in BOOLEAN /\ begun' = begun /\ caughtUp' \subseteq Tickers
    <2>1. CASE w = "poll"
      <3>1. at' = [at EXCEPT !["poll"] = "idle"] /\ UNCHANGED <<replay, caughtUp>>
        BY <2>1 DEF Leave, Goes
      <3> QED
        BY <2>1, <3>1 DEF Typed, TypeOK, Hands, Writers, Awaits, PollAwaits, CatchUpAwaits, replay
    <2>2. CASE w = "catchup"
      <3>1. NextTicker(settled) /\ at["catchup"] # "off"
        BY <2>2 DEF Leave
      <3>2. /\ at' \in [Writers -> Awaits] /\ at'["poll"] = at["poll"]
            /\ at'["catchup"] \in {"latest", "off"}
            /\ turn' \in 1..Len(Order) + 1 /\ (at'["catchup"] # "off" => turn' <= Len(Order))
            /\ start' \in Minutes /\ cut' \in BOOLEAN /\ begun' = begun /\ caughtUp' \subseteq Tickers
        BY <3>1, NextTickerTypes
      <3> QED
        BY <2>2, <3>2 DEF Typed, Hands, Writers, CatchUpAwaits
    <2> QED
      BY <2>1, <2>2 DEF Writers
  <1>3. UNCHANGED <<now, phase, life, streamer, buckets, drops, trades, newest, met>>
    BY DEF Leave
  <1>4. Hands'
    BY <1>1, <1>2, <1>3 DEF Typed, Hands, Writers
  <1>5. \A v, u \in Writers : at'[v] \in {"check", "commit"} /\ at'[u] \in {"check", "commit"} => v = u
    BY <1>2 DEF Typed, TypeOK
  <1>6. TypeOK'
    BY <1>1, <1>2, <1>3, <1>5 DEF Typed, TypeOK
  <1> QED
    BY <1>4, <1>6 DEF Typed

(* What a writer finds missing has a bar, and what it writes is a row. *)
LEMMA TypedWrite ==
  ASSUME Typed, NEW w \in Writers, Check(w) \/ Commit(w) \/ WriteFails(w)
  PROVE  Typed'
  <1>1. CASE Check(w)
    <2>1. /\ absent' \in [Writers -> SUBSET Slots]
          /\ \A v \in Writers : absent'[v] \subseteq DOMAIN bars[v] /\ (v # w => absent'[v] = absent[v])
      BY <1>1 DEF Check, Typed, TypeOK
    <2>2. at' = [at EXCEPT ![w] = "commit"] /\ at[w] = "check"
      BY <1>1 DEF Check, Goes
    <2>3. at' \in [Writers -> Awaits] /\ at'[w] = "commit" /\ \A v \in Writers \ {w} : at'[v] = at[v]
      BY <2>2 DEF Typed, TypeOK, Awaits
    <2>4. UNCHANGED <<now, phase, life, streamer, buckets, bars, rows, begun, turn, start, cut,
                      drops, trades, gone, newest, met, caughtUp>>
      BY <1>1 DEF Check, replay, history
    <2>5. Hands'
      BY <2>1, <2>2, <2>3, <2>4 DEF Typed, Hands, Writers, PollAwaits, CatchUpAwaits
    <2>6. TypeOK'
      BY <2>1, <2>2, <2>3, <2>4 DEF Typed, TypeOK
    <2> QED
      BY <2>5, <2>6 DEF Typed
  <1>2. CASE Commit(w)
    <2>1. \A s \in Slots : Inserted(w)[s] \in Row \cup {None}
      BY DEF Inserted, Row, Typed, TypeOK
    <2>2. rows' \in [Slots -> Row \cup {None}]
      BY <1>2, <2>1 DEF Commit, Inserted
    <2>3. UNION {bars[w][s] : s \in DOMAIN bars[w] \ absent[w]} \subseteq Nat
      BY DEF Typed, TypeOK
    <2>4. gone' \in [skipped : SUBSET Nat, lost : SUBSET Nat]
      BY <1>2, <2>3 DEF Commit, Typed, TypeOK
    <2> QED
      BY <1>2, <2>2, <2>4, TypedLeave DEF Commit, CanCommit
  <1>3. CASE WriteFails(w)
    <2>1. UNION {bars[w][s] : s \in DOMAIN bars[w]} \subseteq Nat
      BY DEF Typed, TypeOK
    <2>2. gone' \in [skipped : SUBSET Nat, lost : SUBSET Nat] /\ rows' \in [Slots -> Row \cup {None}]
      BY <1>3, <2>1 DEF WriteFails, Typed, TypeOK
    <2> QED
      BY <1>3, <2>2, TypedLeave DEF WriteFails
  <1> QED
    BY <1>1, <1>2, <1>3

(* The bars that a drain or a replay gives. *)
LEMMA TypedTaken ==
  ASSUME Typed, Drained \/ Replayed
  PROVE  Typed'
  <1>1. CASE Drained
    <2>1. Ready \subseteq Slots /\ AfterDrop \in [Slots -> SUBSET Nat]
      BY DEF Ready, AfterDrop, Typed, TypeOK
    <2>2. /\ DOMAIN bars' = Writers /\ DOMAIN bars'["poll"] = Ready
          /\ bars'["catchup"] = bars["catchup"]
          /\ \A s \in Ready : bars'["poll"][s] = buckets[s]
      BY <1>1 DEF Drained, Typed, TypeOK, Writers
    <2>3. /\ at' \in [Writers -> Awaits] /\ at["poll"] = "drain" /\ at'["catchup"] = at["catchup"]
          /\ at'["poll"] \in {"idle", "lock"} /\ (at'["poll"] = "idle" => Ready = {})
      BY <1>1 DEF Drained, Goes, Typed, TypeOK, Writers, Awaits
    <2>4. /\ buckets' = AfterDrop
          /\ UNCHANGED <<now, phase, life, streamer, absent, rows, begun, turn, start, cut, drops,
                         trades, gone, newest, met, caughtUp>>
      BY <1>1 DEF Drained, replay, history
    <2>5. Hands'
      BY <2>2, <2>3, <2>4 DEF Typed, Hands, Writers, PollAwaits
    <2>6. \A s \in Ready : buckets[s] \subseteq Nat
      BY <2>1 DEF Typed, TypeOK
    <2>7. absent["poll"] = {}
      BY <2>3 DEF Typed, Hands, Writers
    <2>8. TypeOK'
      BY <2>1, <2>2, <2>3, <2>4, <2>6, <2>7 DEF Typed, TypeOK, Writers
    <2> QED
      BY <2>5, <2>8 DEF Typed
  <1>2. CASE Replayed
    <2>1. PICK d \in Delays : \E S \in IF cut THEN SUBSET History(d) ELSE {History(d)} :
            IF S = {} THEN NextTicker(IF cut THEN {} ELSE {Ticker}) /\ UNCHANGED bars
            ELSE /\ bars' = [bars EXCEPT !["catchup"] = [s \in {Ticker} \X S |-> {}]]
                 /\ Goes("catchup", "lock")
                 /\ UNCHANGED <<replay, caughtUp>>
      BY <1>2 DEF Replayed
    <2>2. PICK S \in IF cut THEN SUBSET History(d) ELSE {History(d)} :
            IF S = {} THEN NextTicker(IF cut THEN {} ELSE {Ticker}) /\ UNCHANGED bars
            ELSE /\ bars' = [bars EXCEPT !["catchup"] = [s \in {Ticker} \X S |-> {}]]
                 /\ Goes("catchup", "lock")
                 /\ UNCHANGED <<replay, caughtUp>>
      BY <2>1
    <2>3. S \subseteq Minutes
      BY <2>2 DEF History
    <2>4. /\ at["catchup"] = "replay"
          /\ UNCHANGED <<now, phase, life, streamer, buckets, absent, rows, drops, trades, gone, newest, met>>
      BY <1>2 DEF Replayed
    <2>5. CASE S = {}
      <3> DEFINE settled == IF cut THEN {} ELSE {Ticker}
      <3>1. NextTicker(settled) /\ UNCHANGED bars /\ settled \in SUBSET {Ticker}
        BY <2>2, <2>5
      <3>2. /\ at' \in [Writers -> Awaits] /\ at'["poll"] = at["poll"]
            /\ at'["catchup"] \in {"latest", "off"}
            /\ turn' \in 1..Len(Order) + 1 /\ (at'["catchup"] # "off" => turn' <= Len(Order))
            /\ start' \in Minutes /\ cut' \in BOOLEAN /\ begun' = begun /\ caughtUp' \subseteq Tickers
        BY <2>4, <3>1, NextTickerTypes
      <3>3. Hands'
        BY <2>4, <3>1, <3>2 DEF Typed, Hands, Writers, CatchUpAwaits
      <3>4. TypeOK'
        BY <2>4, <3>1, <3>2 DEF Typed, TypeOK, Writers
      <3> QED
        BY <3>3, <3>4 DEF Typed
    <2>6. CASE S # {}
      <3>1. /\ bars' = [bars EXCEPT !["catchup"] = [s \in {Ticker} \X S |-> {}]]
            /\ at' = [at EXCEPT !["catchup"] = "lock"]
            /\ UNCHANGED <<begun, turn, start, cut, caughtUp>>
        BY <2>2, <2>6 DEF Goes, replay
      <3>2. at' \in [Writers -> Awaits] /\ at'["poll"] = at["poll"] /\ at'["catchup"] = "lock"
        BY <3>1 DEF Typed, TypeOK, Awaits, Writers
      <3>3. {Ticker} \X S \subseteq Slots
        <4>1. turn \in 1..Len(Order)
          BY <2>4, LiveAssumption DEF Typed, TypeOK, Hands, LiveAssumption
        <4> QED
          BY <2>3, <4>1 DEF Ticker, Tickers, Slots
      <3>4. /\ DOMAIN bars' = Writers /\ bars'["poll"] = bars["poll"]
            /\ DOMAIN bars'["catchup"] = {Ticker} \X S
            /\ \A s \in {Ticker} \X S : bars'["catchup"][s] = {}
        BY <3>1 DEF Typed, TypeOK, Writers
      <3>5. absent["catchup"] = {}
        BY <2>4 DEF Typed, Hands, Writers
      <3>6. Hands'
        BY <2>4, <3>1, <3>2, <3>4 DEF Typed, Hands, Writers, CatchUpAwaits
      <3>7. TypeOK'
        BY <2>4, <3>1, <3>2, <3>3, <3>4, <3>5 DEF Typed, TypeOK, Writers
      <3> QED
        BY <3>6, <3>7 DEF Typed
    <2> QED
      BY <2>5, <2>6
  <1> QED
    BY <1>1, <1>2

(* The end of the catch-up task, and of the process. *)
LEMMA TypedEnds ==
  ASSUME Typed, Cancel \/ Finish \/ Crash
  PROVE  Typed'
  <1>1. CASE Cancel
    <2>1. /\ phase = "stopping" /\ phase' = "closing"
          /\ UNCHANGED <<now, life, streamer, buckets, rows, begun, turn, start, drops,
                         trades, gone, newest, met, caughtUp>>
      BY <1>1 DEF Cancel, history
    <2>2. CASE at["catchup"] = "replay" /\ cut' = TRUE /\ UNCHANGED <<at, bars, absent>>
      <3>1. cut' \in BOOLEAN
        BY <2>2
      <3> QED
        BY <2>1, <2>2, <3>1 DEF Typed, TypeOK, Hands
    <2>3. CASE /\ Goes("catchup", "off")
               /\ bars' = [bars EXCEPT !["catchup"] = NoBars]
               /\ absent' = [absent EXCEPT !["catchup"] = {}]
               /\ UNCHANGED cut
      <3>1. /\ at' \in [Writers -> Awaits] /\ at'["poll"] = at["poll"] /\ at'["catchup"] = "off"
        BY <2>3 DEF Goes, Typed, TypeOK, Awaits, Writers
      <3>2. /\ DOMAIN bars' = Writers /\ bars'["poll"] = bars["poll"] /\ DOMAIN bars'["catchup"] = {}
            /\ absent' \in [Writers -> SUBSET Slots]
            /\ absent'["poll"] = absent["poll"] /\ absent'["catchup"] = {}
        BY <2>3 DEF Typed, TypeOK, Writers, NoBars
      <3>3. Hands'
        BY <2>1, <3>1, <3>2 DEF Typed, Hands, Writers, CatchUpAwaits
      <3>4. TypeOK'
        BY <2>1, <2>3, <3>1, <3>2 DEF Typed, TypeOK, Writers
      <3> QED
        BY <3>3, <3>4 DEF Typed
    <2> QED
      BY <1>1, <2>2, <2>3 DEF Cancel
  <1>2. CASE Down
    <2>1. Held \cup Popped \subseteq Nat
      BY DEF Held, Popped, Typed, TypeOK, Writers
    <2>2. gone' \in [skipped : SUBSET Nat, lost : SUBSET Nat]
      BY <1>2, <2>1 DEF Down, Typed, TypeOK
    <2>3. /\ at' \in [Writers -> Awaits] /\ \A w \in Writers : at'[w] = "off"
      BY <1>2 DEF Down, Awaits
    <2>4. /\ DOMAIN bars' = Writers /\ absent' \in [Writers -> SUBSET Slots]
          /\ \A w \in Writers : DOMAIN bars'[w] = {} /\ absent'[w] = {}
      BY <1>2 DEF Down, NoBars
    <2>5. buckets' \in [Slots -> SUBSET Nat]
      BY <1>2 DEF Down, NoTrades
    <2>6. /\ phase' = "down" /\ streamer' = "none" /\ begun' = 0 /\ turn' = 1 /\ start' = 0
          /\ caughtUp' = {} /\ met' \in [Tickers -> SUBSET Minutes]
          /\ UNCHANGED <<now, life, rows, drops, trades, newest>>
      BY <1>2 DEF Down
    <2>7. cut' \in BOOLEAN
      BY <1>2 DEF Down
    <2>8. 0 \in Minutes /\ 1 \in 1..Len(Order) + 1
      BY LiveAssumption DEF LiveAssumption, Minutes
    <2>9. Hands'
      BY <2>3, <2>4, <2>6 DEF Hands, Writers, PollAwaits, CatchUpAwaits
    <2>10. TypeOK'
      BY <2>2, <2>3, <2>4, <2>5, <2>6, <2>7, <2>8 DEF Typed, TypeOK
    <2> QED
      BY <2>9, <2>10 DEF Typed
  <1> QED
    BY <1>1, <1>2 DEF Finish, Crash

LEMMA TypedStep == ASSUME Typed, [Next]_vars PROVE Typed'
  <1> USE TypedQuiet, TypedWrite, TypedTaken, TypedEnds
  <1>1. ASSUME NEW w \in Writers, Write(w) PROVE Typed'
    <2>1. CASE TakeLock(w)
      <3>1. UNCHANGED <<bars, absent>>
        BY <2>1 DEF TakeLock
      <3> QED
        BY <2>1, <3>1
    <2> QED
      BY <1>1, <2>1 DEF Write
  <1>2. CASE Poll
    <2>1. CASE Write("poll")
      BY <1>1, <2>1 DEF Writers
    <2>2. CASE PollBegins \/ Subscribed \/ SubscribeFails \/ DrainFails
      <3>1. UNCHANGED <<bars, absent>>
        BY <2>2 DEF PollBegins, Subscribed, SubscribeFails, DrainFails
      <3> QED
        BY <2>2, <3>1
    <2> QED
      BY <1>2, <2>1, <2>2 DEF Poll
  <1>3. CASE CatchUp
    <2>1. CASE Write("catchup")
      BY <1>1, <2>1 DEF Writers
    <2>2. CASE ReadLatest \/ RequestCandles \/ CatchUpRaises
      <3>1. UNCHANGED <<bars, absent>>
        BY <2>2 DEF ReadLatest, RequestCandles, CatchUpRaises
      <3> QED
        BY <2>2, <3>1
    <2> QED
      BY <1>3, <2>1, <2>2 DEF CatchUp
  <1>4. CASE Cancel \/ Finish \/ Crash
    BY <1>4
  <1>5. CASE \/ Tick \/ Start \/ Stop \/ UNCHANGED vars
             \/ \E t \in Tickers, d \in Delays : Receive(t, d)
             \/ \E how \in {"broken", "silent"} : Drop(how)
             \/ \E s \in Slots \cap Backfills : Backfill(s)
    <2>1. UNCHANGED <<bars, absent>>
      BY <1>5 DEF Tick, Start, Stop, vars, Receive, Drop, Backfill
    <2> QED
      BY <1>5, <2>1
  <1> QED
    BY <1>2, <1>3, <1>4, <1>5 DEF Next

(***************************************************************************)
(* The variables always have their types, and one writer at most is        *)
(* between its look at the table and its commit: the two share write_lock. *)
(***************************************************************************)
THEOREM TypeCorrect == Spec => []TypeOK
  <1>1. Typed => TypeOK
    BY DEF Typed
  <1> QED
    BY TypedInit, TypedStep, <1>1, PTL DEF Spec

-----------------------------------------------------------------------------
(* The two writers. *)

(* What a step does to the table and to what is found missing. *)
LEMMA TableMoves ==
  ASSUME Typed, [Next]_vars
  PROVE  \/ rows' = rows /\ absent' = absent
         \/ \E w \in Writers : Check(w) \/ Commit(w) \/ WriteFails(w)
         \/ \E s \in Slots \cap Backfills : Backfill(s)
         \/ rows' = rows /\ \A w \in Writers : absent'[w] \in {absent[w], {}}
  <1>1. CASE Poll \/ CatchUp
    BY <1>1 DEF Poll, CatchUp, Write, PollBegins, Subscribed, SubscribeFails, DrainFails, Drained,
                ReadLatest, RequestCandles, Replayed, CatchUpRaises, TakeLock, Writers
  <1>2. CASE Cancel
    BY <1>2 DEF Cancel, Typed, TypeOK, Writers
  <1>3. CASE Finish \/ Crash
    BY <1>3 DEF Finish, Crash, Down
  <1>4. CASE \/ Tick \/ Start \/ Stop \/ UNCHANGED vars
             \/ \E t \in Tickers, d \in Delays : Receive(t, d)
             \/ \E how \in {"broken", "silent"} : Drop(how)
    BY <1>4 DEF Tick, Start, Stop, vars, Receive, Drop
  <1> QED
    BY <1>1, <1>2, <1>3, <1>4 DEF Next

LEMMA CollideStep ==
  ASSUME Typed, Typed', OnlyOthersCollide, [Next]_vars
  PROVE  OnlyOthersCollide'
  <1>1. CASE rows' = rows /\ \A w \in Writers : absent'[w] \in {absent[w], {}}
    BY <1>1 DEF OnlyOthersCollide
  <1>2. ASSUME NEW w \in Writers, Check(w) PROVE OnlyOthersCollide'
    BY <1>2 DEF Check, OnlyOthersCollide, Typed, TypeOK
  <1>3. ASSUME NEW w \in Writers, Commit(w) PROVE OnlyOthersCollide'
    <2>1. \A v \in Writers : absent'[v] = {}
      <3>1. absent'[w] = {}
        BY <1>3 DEF Commit, Leave, Typed, TypeOK
      <3>2. ASSUME NEW v \in Writers, v # w PROVE absent'[v] = {}
        <4>1. at[w] = "commit"
          BY <1>3 DEF Commit, CanCommit
        <4>2. at[v] # "commit"
          BY <3>2, <4>1 DEF Typed, TypeOK
        <4> QED
          BY <1>3, <3>2, <4>2 DEF Commit, Leave, Typed, TypeOK, Hands
      <3> QED
        BY <3>1, <3>2
    <2> QED
      BY <2>1 DEF OnlyOthersCollide
  <1>4. ASSUME NEW w \in Writers, WriteFails(w) PROVE OnlyOthersCollide'
    BY <1>4 DEF WriteFails, Leave, OnlyOthersCollide, Typed, TypeOK
  <1>5. ASSUME NEW s \in Slots \cap Backfills, Backfill(s) PROVE OnlyOthersCollide'
    BY <1>5 DEF Backfill, OnlyOthersCollide, Typed, TypeOK, history
  <1>6. CASE rows' = rows /\ absent' = absent
    BY <1>6 DEF OnlyOthersCollide
  <1> QED
    BY <1>1, <1>2, <1>3, <1>4, <1>5, <1>6, TableMoves

(***************************************************************************)
(* The trade path and the catch-up never make each other's commit fail: a  *)
(* row that appears after one of them has looked is another program's.     *)
(***************************************************************************)
THEOREM OthersOnly == Spec => []OnlyOthersCollide
  <1>1. Init => OnlyOthersCollide
    BY DEF Init, OnlyOthersCollide
  <1> QED
    BY <1>1, TypedInit, TypedStep, CollideStep, PTL DEF Spec

-----------------------------------------------------------------------------
(* The trades. *)

(* Where a trade is. *)
LEMMA InHeld == \A n : n \in Held <=> \E s \in Slots : n \in buckets[s]
  BY DEF Held

LEMMA InPopped == \A n : n \in Popped <=> \E s \in DOMAIN bars["poll"] : n \in bars["poll"][s]
  BY DEF Popped

LEMMA InStored == \A n : n \in Stored <=> \E s \in Slots : rows[s] # None /\ n \in rows[s].obs
  BY DEF Stored

LEMMA InHeldNext == \A n : n \in Held' <=> \E s \in Slots : n \in buckets'[s]
  BY DEF Held

LEMMA InPoppedNext ==
  \A n : n \in Popped' <=> \E s \in DOMAIN bars'["poll"] : n \in bars'["poll"][s]
  BY DEF Popped

LEMMA InStoredNext ==
  \A n : n \in Stored' <=> \E s \in Slots : rows'[s] # None /\ n \in rows'[s].obs
  BY DEF Stored

(* The trades that are somewhere, and that are gone. *)
Gone == gone.skipped \cup gone.lost

(* Every trade in a bucket or a row is in that of its minute. *)
Placed ==
  \A s \in Slots :
    /\ \A n \in buckets[s] : trades[n].slot = s
    /\ rows[s] # None => \A n \in rows[s].obs : trades[n].slot = s

LEMMA AccountsNow ==
  TradesAccounted <=>
    /\ DOMAIN trades = Held \cup Popped \cup Stored \cup Gone
    /\ Held \cap (Popped \cup Stored) = {} /\ Popped \cap Stored = {}
    /\ (Held \cup Popped \cup Stored) \cap Gone = {}
    /\ Placed
  BY DEF TradesAccounted, Gone, Placed

LEMMA AccountsNext ==
  TradesAccounted' <=>
    /\ DOMAIN trades' = Held' \cup Popped' \cup Stored' \cup Gone'
    /\ Held' \cap (Popped' \cup Stored') = {} /\ Popped' \cap Stored' = {}
    /\ (Held' \cup Popped' \cup Stored') \cap Gone' = {}
    /\ Placed'
  BY DEF TradesAccounted, Gone, Placed

(* The steps that leave the trades where they are. *)
LEMMA TradesRest ==
  ASSUME Inv, UNCHANGED <<trades, buckets, gone>>, bars'["poll"] = bars["poll"],
         \/ UNCHANGED rows
         \/ \E s \in Slots \cap Backfills : Backfill(s)
  PROVE  TradesAccounted' /\ PoppedPlaced'
  <1>1. PoppedPlaced'
    BY DEF Inv, PoppedPlaced
  <1>2. Held' = Held /\ Popped' = Popped /\ Gone' = Gone
    BY DEF Held, Popped, Gone
  <1>3. \A s \in Slots : rows'[s] = rows[s] \/ (rows[s] = None /\ rows'[s].obs = {})
    BY DEF Backfill, Inv, Typed, TypeOK
  <1>4. Stored' = Stored
    BY <1>3, InStored, InStoredNext
  <1>5. Placed'
    BY <1>3, AccountsNow DEF Inv, Placed
  <1> QED
    BY <1>1, <1>2, <1>4, <1>5, AccountsNow, AccountsNext DEF Inv

(* A trade arrives, and is in the bucket of its minute. *)
LEMMA TradesReceive ==
  ASSUME Inv, NEW t \in Tickers, NEW d \in Delays, Receive(t, d)
  PROVE  TradesAccounted' /\ PoppedPlaced'
  <1> DEFINE new == Len(trades) + 1
             slot == <<t, now - d>>
  <1>1. /\ slot \in Slots /\ trades \in Seq([slot : Slots, life : Nat])
        /\ life \in Nat /\ Len(trades) \in Nat
    BY LiveAssumption DEF Receive, Slots, Inv, Typed, TypeOK, LiveAssumption
  <1>2. /\ trades' = Append(trades, [slot |-> slot, life |-> life])
        /\ buckets' = [buckets EXCEPT ![slot] = @ \cup {new}]
        /\ UNCHANGED <<bars, rows, gone>>
    BY DEF Receive
  <1> HIDE DEF slot
  <1>3. /\ DOMAIN trades = 1..Len(trades) /\ DOMAIN trades' = DOMAIN trades \cup {new}
        /\ new \notin DOMAIN trades
    BY <1>1, <1>2
  <1>4. /\ trades'[new].slot = slot /\ \A n \in DOMAIN trades : trades'[n] = trades[n]
    BY <1>1, <1>2
  <1>5. /\ \A s \in Slots : buckets'[s] = IF s = slot THEN buckets[s] \cup {new} ELSE buckets[s]
    BY <1>1, <1>2 DEF Inv, Typed, TypeOK
  <1> HIDE DEF new
  <1>6. Held' = Held \cup {new}
    BY <1>1, <1>5, InHeld, InHeldNext
  <1>7. Popped' = Popped /\ Stored' = Stored /\ Gone' = Gone
    BY <1>2 DEF Popped, Stored, Gone
  <1>8. Held \cup Popped \cup Stored \cup Gone = DOMAIN trades
    BY AccountsNow DEF Inv
  <1>9. PoppedPlaced'
    BY <1>2, <1>4, <1>8, InPopped DEF Inv, PoppedPlaced
  <1>10. Placed'
    <2>1. \A s \in Slots : \A n \in buckets[s] : trades'[n].slot = s
      BY <1>4, <1>8, InHeld, AccountsNow DEF Inv, Placed
    <2>2. ASSUME NEW s \in Slots, NEW n \in buckets'[s] PROVE trades'[n].slot = s
      <3>1. n \in buckets[s] \/ (s = slot /\ n = new)
        BY <1>5
      <3> QED
        BY <1>4, <2>1, <3>1
    <2>3. \A s \in Slots : rows[s] # None => \A n \in rows[s].obs : trades'[n].slot = s
      BY <1>4, <1>8, InStored, AccountsNow DEF Inv, Placed
    <2> QED
      BY <1>2, <2>2, <2>3 DEF Placed
  <1> QED
    BY <1>3, <1>6, <1>7, <1>8, <1>9, <1>10, AccountsNow, AccountsNext DEF Inv

(* The completed minutes are taken out, each with all its trades. *)
LEMMA TradesDrained ==
  ASSUME Inv, Drained
  PROVE  TradesAccounted' /\ PoppedPlaced'
  <1>1. /\ DOMAIN bars["poll"] = {} /\ at["poll"] = "drain"
    BY DEF Drained, Inv, Typed, Hands, Writers
  <1>2. /\ DOMAIN bars'["poll"] = Ready /\ \A s \in Ready : bars'["poll"][s] = buckets[s]
        /\ \A s \in Slots : buckets'[s] = IF s \in Ready THEN {} ELSE buckets[s]
        /\ UNCHANGED <<trades, rows, gone>>
    BY DEF Drained, Inv, Typed, TypeOK, Writers, AfterDrop, history
  <1>3. Ready \subseteq Slots
    BY DEF Ready
  <1>4. Popped = {}
    BY <1>1, InPopped
  <1>5. \A n : n \in Held' <=> \E s \in Slots \ Ready : n \in buckets[s]
    BY <1>2, InHeldNext
  <1>6. \A n : n \in Popped' <=> \E s \in Ready : n \in buckets[s]
    BY <1>2, InPoppedNext
  <1>7. Held = Held' \cup Popped'
    BY <1>3, <1>5, <1>6, InHeld
  <1>8. Held' \cap Popped' = {}
    BY <1>3, <1>5, <1>6, AccountsNow DEF Inv, Placed
  <1>9. Stored' = Stored /\ Gone' = Gone
    BY <1>2 DEF Stored, Gone
  <1>10. Placed' /\ PoppedPlaced'
    BY <1>2, <1>3, AccountsNow DEF Inv, Placed, PoppedPlaced
  <1> QED
    BY <1>2, <1>4, <1>7, <1>8, <1>9, <1>10, AccountsNow, AccountsNext DEF Inv

(* What a commit takes out of the hands of a writer is in a row, or gone. *)
LEMMA TradesCommit ==
  ASSUME Inv, NEW w \in Writers, Commit(w)
  PROVE  TradesAccounted' /\ PoppedPlaced'
  <1>1. /\ \A s \in absent[w] : rows[s] = None
        /\ \A s \in Slots :
             IF s \in absent[w]
             THEN rows'[s] \in Row /\ rows'[s].obs = bars[w][s]
             ELSE rows'[s] = rows[s]
        /\ UNCHANGED <<trades, buckets>>
    <2>1. \A s \in absent[w] : bars[w][s] \in SUBSET Nat /\ life \in Nat
      BY LiveAssumption DEF Inv, Typed, TypeOK, LiveAssumption
    <2> QED
      BY <2>1 DEF Commit, CanCommit, Inserted, Leave, Row
  <1>2. /\ DOMAIN bars'[w] = {} /\ \A v \in Writers \ {w} : bars'[v] = bars[v]
        /\ absent[w] \subseteq DOMAIN bars[w] /\ DOMAIN bars[w] \subseteq Slots
    BY DEF Commit, Leave, Inv, Typed, TypeOK, NoBars
  <1>3. \A n : n \in Gone' <=> n \in Gone \/ \E s \in DOMAIN bars[w] \ absent[w] : n \in bars[w][s]
    BY DEF Commit, Gone, Inv, Typed, TypeOK
  <1>4. \A n : n \in Stored' <=> n \in Stored \/ \E s \in absent[w] : n \in bars[w][s]
    BY <1>1, <1>2, InStored, InStoredNext, LiveAssumption DEF LiveAssumption
  <1>5. Held' = Held
    BY <1>1 DEF Held
  <1>6. CASE w = "catchup"
    <2>1. \A s \in DOMAIN bars[w] : bars[w][s] = {}
      BY <1>6 DEF Inv, Typed, Hands
    <2>2. Stored' = Stored /\ Gone' = Gone
      BY <1>2, <1>3, <1>4, <2>1
    <2>3. Popped' = Popped /\ PoppedPlaced'
      BY <1>1, <1>2, <1>6 DEF Popped, PoppedPlaced, Inv, Writers
    <2>4. Placed'
      BY <1>1, <1>2, <2>1, AccountsNow DEF Inv, Placed
    <2> QED
      BY <1>1, <1>5, <2>2, <2>3, <2>4, AccountsNow, AccountsNext DEF Inv
  <1>7. CASE w = "poll"
    <2>1. Popped' = {} /\ PoppedPlaced'
      BY <1>2, <1>7, InPoppedNext DEF PoppedPlaced
    <2>2. \A n : n \in Popped => n \in Stored' \/ n \in Gone'
      BY <1>3, <1>4, <1>7, InPopped
    <2>3. /\ \A n \in Stored' : n \in Stored \/ n \in Popped
          /\ \A n \in Gone' : n \in Gone \/ n \in Popped
          /\ Stored \subseteq Stored' /\ Gone \subseteq Gone'
      BY <1>2, <1>3, <1>4, <1>7, InPopped
    <2>4. \A n : (\E s \in absent[w] : n \in bars[w][s])
                   => ~ \E r \in DOMAIN bars[w] \ absent[w] : n \in bars[w][r]
      BY <1>2, <1>7 DEF Inv, PoppedPlaced
    <2>5. Stored' \cap Gone' = {}
      BY <1>2, <1>3, <1>4, <1>7, <2>4, InPopped, AccountsNow DEF Inv
    <2>6. Placed'
      BY <1>1, <1>2, <1>7, AccountsNow DEF Inv, Placed, PoppedPlaced
    <2> QED
      BY <1>1, <1>5, <2>1, <2>2, <2>3, <2>5, <2>6, AccountsNow, AccountsNext DEF Inv
  <1> QED
    BY <1>6, <1>7 DEF Writers

(* What a write that raises takes out of the hands of a writer is gone. *)
LEMMA TradesLost ==
  ASSUME Inv, NEW w \in Writers, WriteFails(w)
  PROVE  TradesAccounted' /\ PoppedPlaced'
  <1>1. /\ DOMAIN bars'[w] = {} /\ \A v \in Writers \ {w} : bars'[v] = bars[v]
        /\ UNCHANGED <<trades, buckets, rows>>
    BY DEF WriteFails, Leave, Inv, Typed, TypeOK, NoBars
  <1>2. \A n : n \in Gone' <=> n \in Gone \/ \E s \in DOMAIN bars[w] : n \in bars[w][s]
    BY DEF WriteFails, Gone, Inv, Typed, TypeOK
  <1>3. Held' = Held /\ Stored' = Stored
    BY <1>1 DEF Held, Stored
  <1>4. Placed'
    BY <1>1, AccountsNow DEF Inv, Placed
  <1>5. CASE w = "catchup"
    <2>1. Gone' = Gone
      BY <1>2, <1>5 DEF Inv, Typed, Hands
    <2>2. Popped' = Popped /\ PoppedPlaced'
      BY <1>1, <1>5 DEF Popped, PoppedPlaced, Inv, Writers
    <2> QED
      BY <1>1, <1>3, <1>4, <2>1, <2>2, AccountsNow, AccountsNext DEF Inv
  <1>6. CASE w = "poll"
    <2>1. Gone' = Gone \cup Popped
      BY <1>2, <1>6, InPopped
    <2>2. Popped' = {} /\ PoppedPlaced'
      BY <1>1, <1>6, InPoppedNext DEF PoppedPlaced
    <2> QED
      BY <1>1, <1>3, <1>4, <2>1, <2>2, AccountsNow, AccountsNext DEF Inv
  <1> QED
    BY <1>5, <1>6 DEF Writers

(* What the process held is gone with it. *)
LEMMA TradesDown ==
  ASSUME Inv, Down
  PROVE  TradesAccounted' /\ PoppedPlaced'
  <1>1. /\ \A s \in Slots : buckets'[s] = {}
        /\ DOMAIN bars'["poll"] = {} /\ UNCHANGED <<trades, rows>>
    BY DEF Down, NoTrades, NoBars, Writers
  <1>2. Held' = {} /\ Popped' = {} /\ PoppedPlaced'
    BY <1>1, InHeldNext, InPoppedNext DEF PoppedPlaced
  <1>3. Stored' = Stored
    BY <1>1 DEF Stored
  <1>4. Gone' = Gone \cup Held \cup Popped
    BY DEF Down, Gone, Inv, Typed, TypeOK
  <1>5. Placed'
    BY <1>1, AccountsNow DEF Inv, Placed
  <1> QED
    BY <1>1, <1>2, <1>3, <1>4, <1>5, AccountsNow, AccountsNext DEF Inv

LEMMA TradesStep ==
  ASSUME Inv, Typed', [Next]_vars
  PROVE  TradesAccounted' /\ PoppedPlaced'
  <1> USE TradesRest
  <1>1. ASSUME NEW w \in Writers, Write(w) PROVE TradesAccounted' /\ PoppedPlaced'
    <2>1. CASE TakeLock(w) \/ Check(w)
      BY <2>1 DEF TakeLock, Check, history
    <2> QED
      BY <1>1, <2>1, TradesCommit, TradesLost DEF Write
  <1>2. CASE Poll
    <2>1. CASE PollBegins \/ Subscribed \/ SubscribeFails \/ DrainFails
      BY <2>1 DEF PollBegins, Subscribed, SubscribeFails, DrainFails, history
    <2> QED
      BY <1>1, <1>2, <2>1, TradesDrained DEF Poll, Writers
  <1>3. CASE CatchUp
    <2>1. CASE ReadLatest \/ RequestCandles \/ CatchUpRaises
      BY <2>1 DEF ReadLatest, RequestCandles, CatchUpRaises, history
    <2>2. CASE Replayed
      <3>1. bars'["poll"] = bars["poll"]
        BY <2>2 DEF Replayed, Inv, Typed, TypeOK, Writers
      <3> QED
        BY <2>2, <3>1 DEF Replayed
    <2> QED
      BY <1>1, <1>3, <2>1, <2>2 DEF CatchUp, Writers
  <1>4. CASE Cancel
    <2>1. bars'["poll"] = bars["poll"]
      BY <1>4 DEF Cancel, Inv, Typed, TypeOK, Writers
    <2> QED
      BY <1>4, <2>1 DEF Cancel, history
  <1>5. CASE Finish \/ Crash
    BY <1>5, TradesDown DEF Finish, Crash
  <1>6. ASSUME NEW t \in Tickers, NEW d \in Delays, Receive(t, d)
        PROVE  TradesAccounted' /\ PoppedPlaced'
    BY <1>6, TradesReceive
  <1>7. ASSUME NEW s \in Slots \cap Backfills, Backfill(s) PROVE TradesAccounted' /\ PoppedPlaced'
    BY <1>7 DEF Backfill, history
  <1>8. CASE \/ Tick \/ Start \/ Stop \/ UNCHANGED vars
             \/ \E how \in {"broken", "silent"} : Drop(how)
    BY <1>8 DEF Tick, Start, Stop, vars, Drop, history
  <1> QED
    BY <1>2, <1>3, <1>4, <1>5, <1>6, <1>7, <1>8 DEF Next

(***************************************************************************)
(* No trade vanishes or is counted twice, however drains, failed writes,   *)
(* the catch-up, the backfill and restarts interleave: it is in one bucket *)
(* or bar, in the row of its minute, or known to be skipped or lost.       *)
(***************************************************************************)
THEOREM NoneUnaccounted == Spec => []TradesAccounted
  <1>1. Init => Inv
    <2> SUFFICES ASSUME Init PROVE Inv
      OBVIOUS
    <2>1. /\ \A s \in Slots : buckets[s] = {} /\ rows[s] = None
          /\ DOMAIN bars["poll"] = {} /\ gone.skipped = {} /\ gone.lost = {} /\ trades = <<>>
      BY DEF Init, NoTrades, NoBars, Writers
    <2>2. Held = {} /\ Popped = {} /\ Stored = {} /\ Gone = {} /\ DOMAIN trades = {}
      BY <2>1, InHeld, InPopped, InStored DEF Gone
    <2>3. TradesAccounted /\ PoppedPlaced
      BY <2>1, <2>2, AccountsNow DEF Placed, PoppedPlaced
    <2> QED
      BY <2>3, TypedInit DEF Init, Inv, OnlyOthersCollide
  <1>2. Inv /\ [Next]_vars => Inv'
    BY TypedStep, CollideStep, TradesStep DEF Inv
  <1>3. Inv => TradesAccounted
    BY DEF Inv
  <1> QED
    BY <1>1, <1>2, <1>3, PTL DEF Spec

-----------------------------------------------------------------------------
(* The catch-up. *)

(* Where the catch-ups of this life look back to at the farthest. *)
Oldest == IF begun > Lookback THEN begun - Lookback ELSE 0

(* t has rows for the minutes it is to have them for, or is excused. *)
Settled(t) == \A m \in Owed(t) : rows[<<t, m>>] # None \/ Overtaken(t, m)

(* The catch-ups began in this life, and none has ended well before its turn. *)
Unserved ==
  phase # "down" =>
    /\ begun <= now /\ \A t \in Tickers : Oldest <= newest[t]
    /\ \A i \in 1..Len(Order) : turn <= i => Order[i] \notin caughtUp

(* The start is where the gap begins, or the ticker is overtaken. *)
Passed ==
  at["catchup"] \in {"connect", "replay", "lock", "check", "commit"} =>
    \A m \in Minutes : newest[Ticker] <= m /\ m < start => Overtaken(Ticker, m)

(* A replay that was not cut has brought all that is owed from there on. *)
Fetched ==
  at["catchup"] \in {"lock", "check", "commit"} =>
    /\ DOMAIN bars["catchup"] \subseteq {Ticker} \X Minutes
    /\ ~cut => \A m \in Owed(Ticker) : start <= m => <<Ticker, m>> \in DOMAIN bars["catchup"]

(* What the catch-up does not write has a row, or no usable close. *)
Looked ==
  at["catchup"] = "commit" =>
    \A s \in DOMAIN bars["catchup"] \ absent["catchup"] : s \in Zeroed \/ rows[s] # None

AllSettled == \A t \in caughtUp : Settled(t)

Course == Unserved /\ Passed /\ Fetched /\ Looked /\ AllSettled

LEMMA CourseInit == Init => Course
  BY DEF Init, Course, Unserved, Passed, Fetched, Looked, AllSettled, Writers

(* A row stays as it is. *)
LEMMA RowsStay ==
  ASSUME Typed, [Next]_vars
  PROVE  \A s \in Slots : rows[s] # None => rows'[s] = rows[s]
  <1>1. ASSUME NEW w \in Writers, Check(w) \/ Commit(w) \/ WriteFails(w)
        PROVE  \A s \in Slots : rows[s] # None => rows'[s] = rows[s]
    BY <1>1 DEF Check, Commit, CanCommit, Inserted, WriteFails
  <1>2. ASSUME NEW r \in Slots \cap Backfills, Backfill(r)
        PROVE  \A s \in Slots : rows[s] # None => rows'[s] = rows[s]
    BY <1>2 DEF Backfill, Typed, TypeOK
  <1> QED
    BY <1>1, <1>2, TableMoves

(* What has been answered remains so. *)
LEMMA SettledStays ==
  ASSUME \A s \in Slots : rows[s] # None => rows'[s] = rows[s], NEW t \in Tickers, met'[t] = met[t]
  PROVE  /\ \A m \in Minutes : rows[<<t, m>>] # None => rows'[<<t, m>>] # None
         /\ \A m \in Minutes : Overtaken(t, m) => Overtaken(t, m)'
         /\ Owed(t)' = Owed(t) /\ Settled(t) => Settled(t)'
  <1>1. \A m \in Minutes : <<t, m>> \in Slots
    BY DEF Slots
  <1>2. \A m \in Minutes : Overtaken(t, m) => Overtaken(t, m)'
    BY DEF Overtaken
  <1>3. Owed(t) \subseteq Minutes
    BY DEF Owed
  <1> QED
    BY <1>1, <1>2, <1>3 DEF Settled

LEMMA TickerInOrder ==
  ASSUME Typed, at["catchup"] # "off" PROVE turn \in 1..Len(Order) /\ Ticker \in Tickers
  <1>1. turn \in 1..Len(Order)
    BY LiveAssumption DEF Typed, TypeOK, Hands, LiveAssumption
  <1> QED
    BY <1>1 DEF Ticker, Tickers

(* The steps that the catch-up task takes no part in. *)
LEMMA CourseBeside ==
  ASSUME Typed, Course, \A s \in Slots : rows[s] # None => rows'[s] = rows[s],
         now' \in Minutes, now <= now', phase' = "down" => phase = "down", phase = "down" => phase' = "down",
         cut => cut', UNCHANGED <<begun, turn, start, newest, met, caughtUp>>,
         at'["catchup"] = at["catchup"], bars'["catchup"] = bars["catchup"],
         absent'["catchup"] = absent["catchup"]
  PROVE  Course'
  <1>1. \A t \in Tickers : Owed(t)' = Owed(t)
    BY DEF Owed
  <1>2. AllSettled'
    BY <1>1, SettledStays DEF Course, AllSettled, Typed, TypeOK
  <1>3. Unserved'
    <2>1. begun <= now => begun <= now'
      BY LiveAssumption DEF LiveAssumption, Typed, TypeOK, Minutes
    <2> QED
      BY <2>1 DEF Course, Unserved, Oldest
  <1>4. Passed'
    <2>1. Ticker' = Ticker
      BY DEF Ticker
    <2> QED
      BY <2>1, SettledStays, TickerInOrder DEF Course, Passed
  <1>5. Fetched'
    <2>1. Ticker' = Ticker
      BY DEF Ticker
    <2> QED
      BY <1>1, <2>1, TickerInOrder DEF Course, Fetched
  <1>6. Looked'
    BY DEF Course, Looked, Typed, TypeOK, Writers
  <1> QED
    BY <1>2, <1>3, <1>4, <1>5, <1>6 DEF Course

(* The turn of the next ticker. *)
LEMMA CourseNextTicker ==
  ASSUME Typed, Course, \A s \in Slots : rows[s] # None => rows'[s] = rows[s],
         UNCHANGED <<now, phase, newest>>, at["catchup"] # "off", \A j \in Tickers \ {Ticker} : met'[j] = met[j],
         NEW t, t = Ticker, NEW settled \in SUBSET {t}, NextTicker(settled), settled # {} => Settled(t)'
  PROVE  Course'
  <1>1. /\ UNCHANGED begun /\ turn' = turn + 1 /\ caughtUp' = caughtUp \cup settled
        /\ at'["catchup"] \in {"latest", "off"}
    BY DEF NextTicker, Goes, Typed, TypeOK, Writers
  <1>2. \A u \in Tickers : Owed(u)' = Owed(u)
    BY <1>1 DEF Owed
  <1>3. turn \in 1..Len(Order) /\ Ticker \in Tickers /\ turn \in Nat /\ Len(Order) \in Nat
    BY TickerInOrder, LiveAssumption DEF LiveAssumption
  <1>a. phase # "down" /\ Ticker \notin caughtUp
    BY <1>3 DEF Course, Unserved, Ticker, Typed, Hands, Writers
  <1>4. AllSettled'
    <2>1. ASSUME NEW u \in caughtUp PROVE Settled(u)'
      BY <1>2, <1>a, SettledStays DEF Course, AllSettled, Typed, TypeOK
    <2> QED
      BY <1>1, <2>1 DEF AllSettled
  <1>5. Unserved'
    <2>1. ASSUME NEW i \in 1..Len(Order), turn + 1 <= i PROVE Order[i] \notin caughtUp'
      <3>1. Order[i] # Ticker /\ turn <= i
        BY <1>3, <2>1, LiveAssumption DEF LiveAssumption, Ticker
      <3> QED
        BY <1>1, <1>a, <3>1 DEF Course, Unserved
    <2>2. phase # "down" => begun' <= now' /\ \A u \in Tickers : Oldest' <= newest'[u]
      BY <1>1 DEF Course, Unserved, Oldest
    <2> QED
      BY <1>1, <2>1, <2>2 DEF Unserved
  <1>6. Passed' /\ Fetched' /\ Looked'
    BY <1>1 DEF Passed, Fetched, Looked
  <1> QED
    BY <1>4, <1>5, <1>6 DEF Course

(* The process begins anew. *)
LEMMA CourseStart == ASSUME Typed, Course, Start PROVE Course'
  <1>1. /\ phase' = "up" /\ at'["poll"] = "idle" /\ at'["catchup"] = "latest" /\ begun' = now /\ turn' = 1
        /\ caughtUp' = {} /\ UNCHANGED <<now, rows>>
        /\ newest' = [t \in Tickers |-> CHOOSE m \in StartsFrom(t, Floor) : TRUE]
    BY DEF Start
  <1>2. Floor \in Minutes /\ Floor = Oldest'
    BY <1>1, LiveAssumption DEF LiveAssumption, Typed, TypeOK, Minutes, Floor, Oldest
  <1>3. ASSUME NEW t \in Tickers
        PROVE  newest'[t] \in Minutes /\ \A n \in StoredMinutes(t) \cup {Floor} : n <= newest'[t]
    <2>1. StoredMinutes(t) \cup {Floor} \in SUBSET Minutes /\ StoredMinutes(t) \cup {Floor} # {}
      BY <1>2 DEF StoredMinutes
    <2>2. \E m \in StartsFrom(t, Floor) : TRUE
      BY <2>1, LastMinute DEF StartsFrom
    <2>3. newest'[t] \in StartsFrom(t, Floor)
      BY <1>1, <2>2
    <2> QED
      BY <2>1, <2>3 DEF StartsFrom
  <1>4. Unserved'
    <2>1. begun' <= now'
      BY <1>1, LiveAssumption DEF LiveAssumption, Typed, TypeOK, Minutes
    <2>2. \A t \in Tickers : Oldest' <= newest'[t]
      BY <1>2, <1>3
    <2> QED
      BY <1>1, <2>1, <2>2 DEF Unserved
  <1> QED
    BY <1>1, <1>4 DEF Course, Passed, Fetched, Looked, AllSettled

(* It begins at the newest row it has met, and any minute before that is excused. *)
LEMMA CourseReadLatest == ASSUME Typed, Course, ReadLatest PROVE Course'
  <1>1. PICK m \in StartsFrom(Ticker, Oldest) :
          IF begun - m < 1 THEN NextTicker({Ticker})
          ELSE /\ start' = m /\ Goes("catchup", "connect")
               /\ UNCHANGED <<begun, turn, cut, caughtUp>>
    BY DEF ReadLatest, Oldest
  <1>2. /\ at["catchup"] = "latest"
        /\ UNCHANGED <<now, phase, bars, absent, rows, newest>>
        /\ met' = [met EXCEPT ![Ticker] = StoredMinutes(Ticker)]
    BY DEF ReadLatest
  <1>3. /\ turn \in 1..Len(Order) /\ Ticker \in Tickers /\ phase # "down" /\ Ticker = Order[turn]
        /\ turn \in Nat
    BY <1>2, TickerInOrder DEF Typed, Hands, Writers, Ticker
  <1>4. Oldest \in Minutes /\ begun \in Minutes /\ newest[Ticker] \in Minutes /\ Minutes \subseteq Nat
    BY <1>3, LiveAssumption DEF LiveAssumption, Typed, TypeOK, Minutes, Oldest
  <1>5. m \in Minutes /\ (m = Oldest \/ rows[<<Ticker, m>>] # None)
    BY <1>1, <1>4 DEF StartsFrom, StoredMinutes
  <1>a. PICK u \in Tickers : u = Ticker
    BY <1>3
  <1>b. met'[u] = StoredMinutes(u) /\ \A j \in Tickers \ {u} : met'[j] = met[j]
    BY <1>2, <1>a DEF Typed, TypeOK
  <1>c. u \notin caughtUp
    <2>1. turn <= turn
      BY <1>3
    <2> QED
      BY <1>3, <1>a, <2>1 DEF Course, Unserved
  <1>6. ASSUME NEW n \in Minutes, newest[u] <= n, n < m PROVE Overtaken(u, n)'
    <2>1. Oldest <= newest[u]
      BY <1>3, <1>a DEF Course, Unserved
    <2> DEFINE from == newest[u]
               oldest == Oldest
    <2>2. from \in Nat /\ oldest \in Nat /\ n \in Nat /\ m \in Nat /\ from <= n /\ n < m /\ oldest <= from
      BY <1>4, <1>5, <1>6, <1>a, <2>1
    <2>3. m # oldest
      <3> HIDE DEF from, oldest
      <3> QED
        BY <2>2
    <2>4. m \in StoredMinutes(u)
      BY <1>5, <1>a, <2>3 DEF StoredMinutes
    <2> QED
      BY <1>6, <1>b, <2>4 DEF Overtaken
  <1>7. CASE begun - m < 1
    <2>1. NextTicker({u})
      BY <1>1, <1>7, <1>a
    <2>2. Owed(u)' = Owed(u)
      BY <1>2, <2>1 DEF Owed, NextTicker
    <2>3. ASSUME NEW n \in Owed(u) PROVE Overtaken(u, n)'
      <3>1. PICK d \in Delays : d \in Nat
        BY LiveAssumption DEF LiveAssumption
      <3>2. n \in Minutes /\ newest[u] <= n /\ n < begun - d
        BY <3>1 DEF Owed
      <3>3. n < m
        <4>1. n \in Nat /\ m \in Nat /\ begun \in Nat
          BY <1>4, <1>5, <3>2
        <4> QED
          BY <1>7, <3>1, <3>2, <4>1
      <3> QED
        BY <1>6, <3>2, <3>3
    <2>4. Settled(u)'
      BY <2>2, <2>3 DEF Settled
    <2>5. \A s \in Slots : rows[s] # None => rows'[s] = rows[s]
      BY <1>2
    <2> QED
      BY <1>2, <1>a, <1>b, <2>1, <2>4, <2>5, CourseNextTicker
  <1>8. CASE ~ (begun - m < 1)
    <2>1. /\ start' = m /\ at'["catchup"] = "connect" /\ UNCHANGED <<begun, turn, cut, caughtUp>>
      BY <1>1, <1>8 DEF Goes, Typed, TypeOK, Writers
    <2>2. Unserved'
      BY <1>2, <2>1 DEF Course, Unserved, Oldest
    <2>3. AllSettled'
      <3> SUFFICES ASSUME NEW t \in caughtUp PROVE Settled(t)'
        BY <2>1 DEF AllSettled
      <3>1. t \in Tickers /\ met'[t] = met[t] /\ Settled(t)
        BY <1>b, <1>c DEF Course, AllSettled, Typed, TypeOK
      <3>2. Owed(t)' = Owed(t)
        BY <1>2, <2>1 DEF Owed
      <3> QED
        BY <1>2, <3>1, <3>2, SettledStays
    <2>4. Passed'
      <3>1. Ticker' = u
        BY <1>a, <2>1 DEF Ticker
      <3> QED
        BY <1>2, <1>6, <2>1, <3>1 DEF Passed
    <2> QED
      BY <2>1, <2>2, <2>3, <2>4 DEF Course, Fetched, Looked
  <1> QED
    BY <1>7, <1>8

(* The connection comes up, or fails the replay before it has begun. *)
LEMMA CourseRequest == ASSUME Typed, Course, RequestCandles PROVE Course'
  <1>1. /\ at["catchup"] = "connect" /\ at'["catchup"] = "replay"
        /\ UNCHANGED <<now, phase, bars, absent, rows, begun, turn, start, newest, met, caughtUp>>
    BY DEF RequestCandles, Goes, Typed, TypeOK, Writers, history
  <1>2. Unserved' /\ AllSettled' /\ Passed'
    BY <1>1 DEF Course, Unserved, AllSettled, Passed, Settled, Owed, Overtaken, Oldest, Ticker
  <1> QED
    BY <1>1, <1>2 DEF Course, Fetched, Looked

(* The replay has brought every minute that is owed, or it was cut. *)
LEMMA CourseReplayed == ASSUME Typed, Course, Replayed PROVE Course'
  <1>1. /\ at["catchup"] = "replay" /\ UNCHANGED <<now, phase, absent, rows, newest, met>>
    BY DEF Replayed
  <1>a. PICK d \in Delays :
          \E S \in IF cut THEN SUBSET History(d) ELSE {History(d)} :
            IF S = {} THEN NextTicker(IF cut THEN {} ELSE {Ticker}) /\ UNCHANGED bars
            ELSE /\ bars' = [bars EXCEPT !["catchup"] = [s \in {Ticker} \X S |-> {}]]
                 /\ Goes("catchup", "lock")
                 /\ UNCHANGED <<replay, caughtUp>>
    BY DEF Replayed
  <1>2. PICK S \in IF cut THEN SUBSET History(d) ELSE {History(d)} :
          IF S = {} THEN NextTicker(IF cut THEN {} ELSE {Ticker}) /\ UNCHANGED bars
          ELSE /\ bars' = [bars EXCEPT !["catchup"] = [s \in {Ticker} \X S |-> {}]]
               /\ Goes("catchup", "lock")
               /\ UNCHANGED <<replay, caughtUp>>
    BY <1>a
  <1>3. Ticker \in Tickers /\ phase # "down" /\ begun <= now /\ S \subseteq Minutes
    BY <1>1, <1>2, TickerInOrder DEF Course, Unserved, Typed, Hands, Writers, History
  <1>4. ASSUME NEW m \in Owed(Ticker), start <= m PROVE m \in History(d)
    <2>1. m \in Minutes /\ m < begun - d /\ begun \in Nat /\ now \in Nat /\ d \in Nat /\ m \in Nat
      BY <1>4, LiveAssumption DEF LiveAssumption, Owed, Typed, TypeOK, Minutes
    <2> QED
      BY <1>3, <1>4, <2>1 DEF History
  <1>5. ASSUME NEW m \in Owed(Ticker), ~ (start <= m) PROVE Overtaken(Ticker, m)
    <2>1. m \in Minutes /\ newest[Ticker] <= m /\ m \in Nat /\ start \in Nat
      BY <1>5, LiveAssumption DEF LiveAssumption, Owed, Typed, TypeOK, Minutes
    <2> QED
      BY <1>1, <1>5, <2>1 DEF Course, Passed
  <1>6. CASE S = {}
    <2>1. PICK u \in Tickers : u = Ticker
      BY <1>3
    <2> DEFINE settled == IF cut THEN {} ELSE {u}
    <2>2. settled \in SUBSET {u} /\ NextTicker(settled)
      BY <1>2, <1>6, <2>1
    <2>3. \A s \in Slots : rows[s] # None => rows'[s] = rows[s]
      BY <1>1
    <2>4. ASSUME settled # {} PROVE Settled(u)'
      <3>1. Settled(u)
        BY <1>2, <1>4, <1>5, <1>6, <2>1, <2>4 DEF Settled
      <3>2. Owed(u)' = Owed(u)
        BY <1>1, <2>2 DEF Owed, NextTicker
      <3> QED
        BY <1>1, <2>3, <3>1, <3>2, SettledStays
    <2> HIDE DEF settled
    <2> QED
      BY <1>1, <2>1, <2>2, <2>3, <2>4, CourseNextTicker
  <1>7. CASE S # {}
    <2>1. /\ bars'["catchup"] = [s \in {Ticker} \X S |-> {}]
          /\ at'["catchup"] = "lock" /\ UNCHANGED <<begun, turn, start, cut, caughtUp>>
      BY <1>2, <1>7 DEF Goes, Typed, TypeOK, Writers, replay
    <2>2. Unserved' /\ AllSettled' /\ Passed'
      BY <1>1, <2>1 DEF Course, Unserved, AllSettled, Passed, Settled, Owed, Overtaken, Oldest, Ticker
    <2>3. Fetched'
      <3>1. Ticker' = Ticker /\ Owed(Ticker)' = Owed(Ticker)
        BY <1>1, <2>1 DEF Owed, Ticker
      <3>2. DOMAIN bars'["catchup"] = {Ticker} \X S
        BY <2>1
      <3>3. ~cut => S = History(d)
        BY <1>2
      <3> QED
        BY <1>3, <1>4, <2>1, <3>1, <3>2, <3>3 DEF Fetched
    <2> QED
      BY <2>1, <2>2, <2>3 DEF Course, Looked
  <1> QED
    BY <1>6, <1>7

(* A ticker that is given up. *)
LEMMA CourseGivenUp ==
  ASSUME Typed, Course, UNCHANGED <<now, phase, newest, met, rows>>, at["catchup"] # "off", NextTicker({})
  PROVE  Course'
  <1>1. PICK u : u = Ticker
    OBVIOUS
  <1>2. {} \in SUBSET {u}
    OBVIOUS
  <1> QED
    BY <1>1, <1>2, CourseNextTicker

(* The catch-up looks at the table under the lock. *)
LEMMA CourseCheck == ASSUME Typed, Course, Check("catchup") PROVE Course'
  <1>1. /\ at["catchup"] = "check" /\ at'["catchup"] = "commit"
        /\ UNCHANGED <<now, phase, bars, rows, begun, turn, start, cut, newest, met, caughtUp>>
        /\ absent'["catchup"] = {s \in DOMAIN bars["catchup"] : rows[s] = None /\ s \notin Zeroed}
    BY DEF Check, Goes, Typed, TypeOK, Writers, history, replay
  <1>2. Unserved' /\ AllSettled' /\ Passed' /\ Fetched'
    BY <1>1 DEF Course, Unserved, AllSettled, Passed, Fetched, Settled, Owed, Overtaken, Oldest, Ticker
  <1>3. Looked'
    BY <1>1 DEF Looked
  <1> QED
    BY <1>2, <1>3 DEF Course

LEMMA CourseTakesLock == ASSUME Typed, Course, TakeLock("catchup") PROVE Course'
  <1>1. /\ at["catchup"] = "lock" /\ at'["catchup"] = "check"
        /\ UNCHANGED <<now, phase, bars, rows, begun, turn, start, cut, newest, met, caughtUp>>
    BY DEF TakeLock, Goes, Typed, TypeOK, Writers, history, replay
  <1>2. Unserved' /\ AllSettled' /\ Passed' /\ Fetched'
    BY <1>1 DEF Course, Unserved, AllSettled, Passed, Fetched, Settled, Owed, Overtaken, Oldest, Ticker
  <1> QED
    BY <1>1, <1>2 DEF Course, Looked

(* What was missing is written: the gap of the ticker is closed. *)
LEMMA CourseCommit == ASSUME Typed, Course, Commit("catchup") PROVE Course'
  <1>1. /\ at["catchup"] = "commit" /\ rows' = Inserted("catchup")
        /\ \A s \in absent["catchup"] : rows[s] = None
        /\ UNCHANGED <<now, phase, newest, met>> /\ NextTicker(IF cut THEN {} ELSE {Ticker})
    BY DEF Commit, CanCommit, Leave
  <1>2. Ticker \in Tickers /\ absent["catchup"] \subseteq DOMAIN bars["catchup"]
        /\ DOMAIN bars["catchup"] \subseteq {Ticker} \X Minutes
    BY <1>1, TickerInOrder DEF Course, Fetched, Typed, TypeOK, Writers
  <1>3. \A s \in Slots : rows[s] # None => rows'[s] = rows[s]
    BY <1>1 DEF Inserted
  <1>5. \A s \in absent["catchup"] : rows'[s] # None
    <2>1. \A s \in absent["catchup"] : s \in Slots /\ bars["catchup"][s] \in SUBSET Nat /\ life \in Nat
      BY <1>2, LiveAssumption DEF LiveAssumption, Typed, TypeOK, Writers
    <2>2. \A s \in absent["catchup"] :
            rows'[s] = [by |-> "candle", obs |-> bars["catchup"][s], life |-> life]
      BY <1>1, <2>1 DEF Inserted
    <2>3. ASSUME NEW s \in absent["catchup"] PROVE rows'[s] \in Row
      <3> DEFINE obs == bars["catchup"][s]
      <3>1. obs \in SUBSET Nat /\ life \in Nat /\ rows'[s] = [by |-> "candle", obs |-> obs, life |-> life]
        BY <2>1, <2>2
      <3> HIDE DEF obs
      <3> QED
        BY <3>1 DEF Row
    <2> QED
      BY <2>3, LiveAssumption DEF LiveAssumption
  <1>6. PICK u \in Tickers : u = Ticker
    BY <1>2
  <1> DEFINE settled == IF cut THEN {} ELSE {u}
  <1>7. settled \in SUBSET {u} /\ NextTicker(settled)
    BY <1>1, <1>6
  <1>8. ASSUME settled # {} PROVE Settled(u)'
    <2>1. ASSUME NEW m \in Owed(u) PROVE rows'[<<u, m>>] # None \/ Overtaken(u, m)'
      <3>1. m \in Minutes /\ newest[u] <= m /\ <<u, m>> \notin Zeroed /\ <<u, m>> \in Slots
        BY DEF Owed, Slots
      <3>2. m < start \/ start <= m
        BY <3>1, LiveAssumption DEF LiveAssumption, Typed, TypeOK, Minutes
      <3>3. CASE m < start
        <4>1. Overtaken(u, m)
          BY <1>1, <1>6, <3>1, <3>3 DEF Course, Passed
        <4> QED
          BY <1>1, <1>3, <3>1, <4>1, SettledStays
      <3>4. CASE start <= m
        <4>1. <<u, m>> \in DOMAIN bars["catchup"]
          BY <1>1, <1>6, <1>8, <3>4 DEF Course, Fetched
        <4>2. <<u, m>> \in absent["catchup"] \/ rows[<<u, m>>] # None
          BY <1>1, <3>1, <4>1 DEF Course, Looked
        <4> QED
          BY <1>3, <1>5, <3>1, <4>2
      <3> QED
        BY <3>2, <3>3, <3>4
    <2>2. Owed(u)' = Owed(u)
      BY <1>1, <1>7 DEF Owed, NextTicker
    <2> QED
      BY <2>1, <2>2 DEF Settled
  <1> HIDE DEF settled
  <1> QED
    BY <1>1, <1>3, <1>6, <1>7, <1>8, CourseNextTicker

(* The process is gone, or only the catch-up task is. *)
LEMMA CourseEnds == ASSUME Typed, Course, Cancel \/ Finish \/ Crash PROVE Course'
  <1>1. CASE Finish \/ Crash
    <2>1. phase' = "down" /\ at'["catchup"] = "off" /\ caughtUp' = {}
      BY <1>1 DEF Finish, Crash, Down, Writers
    <2> QED
      BY <2>1 DEF Course, Unserved, Passed, Fetched, Looked, AllSettled
  <1>2. CASE Cancel
    <2>1. /\ phase = "stopping" /\ phase' = "closing" /\ UNCHANGED <<now, rows, begun, turn, start, newest, met, caughtUp>>
      BY <1>2 DEF Cancel, history
    <2>2. Unserved' /\ AllSettled'
      BY <2>1 DEF Course, Unserved, AllSettled, Settled, Owed, Overtaken, Oldest
    <2>3. CASE at["catchup"] = "replay" /\ UNCHANGED <<at, bars, absent>>
      <3>1. Passed'
        BY <2>1, <2>3 DEF Course, Passed, Overtaken, Ticker
      <3> QED
        BY <2>2, <2>3, <3>1 DEF Course, Fetched, Looked
    <2>4. CASE Goes("catchup", "off")
      <3>1. at'["catchup"] = "off"
        BY <2>4 DEF Goes, Typed, TypeOK, Writers
      <3> QED
        BY <2>2, <3>1 DEF Course, Passed, Fetched, Looked
    <2> QED
      BY <1>2, <2>3, <2>4 DEF Cancel
  <1> QED
    BY <1>1, <1>2

(* What the poll loop, the connection and the backfill leave to the catch-up. *)
LEMMA CoursePoll ==
  ASSUME Typed, Course, \A s \in Slots : rows[s] # None => rows'[s] = rows[s],
         Poll \/ (\E t \in Tickers, d \in Delays : Receive(t, d))
  PROVE  Course'
  <1>1. /\ UNCHANGED <<now, phase, begun, turn, start, newest, met, caughtUp>> /\ (cut => cut')
        /\ at'["catchup"] = at["catchup"] /\ bars'["catchup"] = bars["catchup"]
        /\ absent'["catchup"] = absent["catchup"]
    <2>1. CASE PollBegins \/ Subscribed \/ TakeLock("poll") \/ Check("poll")
      BY <2>1 DEF PollBegins, Subscribed, TakeLock, Check, Goes, replay, history, Typed, TypeOK, Writers
    <2>2. CASE SubscribeFails \/ DrainFails \/ Drained
      BY <2>2 DEF SubscribeFails, DrainFails, Drained, TearDown, Goes, replay, history, Typed, TypeOK, Writers
    <2>3. CASE Commit("poll") \/ WriteFails("poll")
      BY <2>3 DEF Commit, WriteFails, Leave, Goes, replay, Typed, TypeOK, Writers
    <2>4. CASE \E t \in Tickers, d \in Delays : Receive(t, d)
      BY <2>4 DEF Receive, replay
    <2> QED
      BY <2>1, <2>2, <2>3, <2>4 DEF Poll, Write
  <1>2. now' \in Minutes /\ now <= now'
    BY <1>1, LiveAssumption DEF LiveAssumption, Typed, TypeOK, Minutes
  <1> QED
    BY <1>1, <1>2, CourseBeside

LEMMA CourseOthers ==
  ASSUME Typed, Course, Tick \/ Stop \/ (\E how \in {"broken", "silent"} : Drop(how))
                        \/ (\E s \in Slots \cap Backfills : Backfill(s)) \/ UNCHANGED vars
  PROVE  Course'
  <1>1. UNCHANGED <<begun, turn, start, newest, met, caughtUp, at, bars, absent>>
    BY DEF Tick, Stop, Drop, Backfill, vars, replay, history
  <1>a. cut => cut'
    BY DEF Tick, Stop, Drop, Backfill, vars, replay
  <1>b. phase' = phase \/ (phase = "up" /\ phase' = "stopping")
    BY DEF Tick, Stop, Drop, Backfill, vars
  <1>2. \A s \in Slots : rows[s] # None => rows'[s] = rows[s]
    BY DEF Tick, Stop, Drop, Backfill, vars, Typed, TypeOK
  <1>3. now' \in Minutes /\ now <= now'
    BY LiveAssumption DEF LiveAssumption, Tick, Stop, Drop, Backfill, vars, Typed, TypeOK, Minutes
  <1> QED
    BY <1>1, <1>2, <1>3, <1>a, <1>b, CourseBeside

LEMMA CourseStep == ASSUME Typed, Course, [Next]_vars PROVE Course'
  <1>1. CASE Poll \/ \E t \in Tickers, d \in Delays : Receive(t, d)
    BY <1>1, RowsStay, CoursePoll
  <1>2. CASE CatchUp
    <2>1. CASE CatchUpRaises
      BY <2>1, CourseGivenUp DEF CatchUpRaises
    <2>2. CASE WriteFails("catchup")
      BY <2>2, CourseGivenUp DEF WriteFails, Leave
    <2> QED
      BY <1>2, <2>1, <2>2, CourseReadLatest, CourseRequest, CourseReplayed, CourseTakesLock,
         CourseCheck, CourseCommit DEF CatchUp, Write
  <1> QED
    BY <1>1, <1>2, CourseStart, CourseEnds, CourseOthers DEF Next

(***************************************************************************)
(* A catch-up that went well leaves no minute of its gap without a row,    *)
(* but for zeroed candles and those before a row that the trade path or    *)
(* the backfill had written when its turn came, whatever the feed, the     *)
(* poll loop and the backfill do meanwhile.                                *)
(***************************************************************************)
THEOREM GapIsClosed == Spec => []CatchUpClosesGap
  <1>1. Typed /\ Course => CatchUpClosesGap
    BY DEF Typed, TypeOK, Course, AllSettled, Settled, Owed, CatchUpClosesGap
  <1> QED
    BY <1>1, TypedInit, TypedStep, CourseInit, CourseStep, PTL DEF Spec
=============================================================================
