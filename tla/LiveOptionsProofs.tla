------------------------- MODULE LiveOptionsProofs -------------------------
(***************************************************************************)
(* For any contracts, tickers, windows and bounds: LiveOptions is type     *)
(* correct and never overdraws the semaphore, requests nothing for a       *)
(* contract without a row, leaves no subscription behind unless a command  *)
(* raised, and writes the whole lookback once a candle has repeated.       *)
(***************************************************************************)
EXTENDS LiveOptions, FiniteSetTheorems, TLAPS

States == {"none", "todo", "subscribe", "fallback", "listen", "unsubscribe",
           "returned", "commit", "done", "failed"}

Forms == {"candle", "plain"}

(* Between subscribing and unsubscribing it is known which way was taken. *)
WayKnown == \A s \in Symbols : at[s] \in {"listen", "unsubscribe"} => via[s] \in Forms

(* A pass has its time. *)
Timed == phase \notin {"idle", "stopped"} => asOf \in Minutes

(* There are requests while a pass gathers, and at no other time. *)
Quiet == phase # "gather" => at = For("none")

Typed == TypeOK /\ WayKnown /\ Timed /\ Quiet

-----------------------------------------------------------------------------
(* The semaphore. *)

(* When no more contracts are busy than before, the bound holds. *)
LEMMA NoMoreBusy ==
  ASSUME TypeOK, Busy' \subseteq Busy
  PROVE  Cardinality(Busy') <= Concurrency
  <1>1. IsFiniteSet(Busy)
    BY CandlesAssumption, FS_Subset, Busy \in SUBSET Symbols DEF CandlesAssumption, Busy
  <1>2. IsFiniteSet(Busy') /\ Cardinality(Busy') <= Cardinality(Busy)
    BY <1>1, FS_Subset
  <1>3. Cardinality(Busy) \in Nat /\ Cardinality(Busy') \in Nat
    BY <1>1, <1>2, FS_CardinalityType
  <1>4. Cardinality(Busy) <= Concurrency /\ Concurrency \in Nat
    BY LiveOptionsAssumption DEF LiveOptionsAssumption, TypeOK
  <1> QED
    BY <1>2, <1>3, <1>4

(* A request takes a place that is free. *)
LEMMA OneMoreBusy ==
  ASSUME TypeOK, Free, NEW s \in Symbols, Busy' \subseteq Busy \cup {s}
  PROVE  Cardinality(Busy') <= Concurrency
  <1>1. IsFiniteSet(Busy)
    BY CandlesAssumption, FS_Subset, Busy \in SUBSET Symbols DEF CandlesAssumption, Busy
  <1>2. /\ IsFiniteSet(Busy \cup {s}) /\ Cardinality(Busy \cup {s}) <= Cardinality(Busy) + 1
        /\ Cardinality(Busy) \in Nat
    BY <1>1, FS_AddElement, FS_CardinalityType
  <1>3. IsFiniteSet(Busy') /\ Cardinality(Busy') <= Cardinality(Busy \cup {s})
    BY <1>2, FS_Subset
  <1>4. Cardinality(Busy \cup {s}) \in Nat /\ Cardinality(Busy') \in Nat
    BY <1>2, <1>3, FS_CardinalityType
  <1>5. Cardinality(Busy) < Concurrency /\ Concurrency \in Nat
    BY LiveOptionsAssumption DEF LiveOptionsAssumption, Free
  <1> QED
    BY <1>2, <1>3, <1>4, <1>5

(* A contract that is busy and comes to another state takes no other's place. *)
LEMMA BusyMoves ==
  ASSUME TypeOK, NEW s \in Symbols, at[s] \notin {"none", "todo", "done", "failed"},
         NEW state, at' = [at EXCEPT ![s] = state]
  PROVE  Busy' \subseteq Busy
  BY DEF TypeOK, Busy, Ended

-----------------------------------------------------------------------------
(* Type correctness. *)

LEMMA TypedInit == Init => Typed
  <1> SUFFICES ASSUME Init PROVE Typed
    OBVIOUS
  <1> USE CandlesAssumption, LiveOptionsAssumption DEF CandlesAssumption, LiveOptionsAssumption
  <1>1. Busy = {}
    BY DEF Init, CandlesInit, For, Busy, Ended
  <1>2. Cardinality(Busy) <= Concurrency
    BY <1>1, FS_EmptySet
  <1>3. CandlesTypeOK
    <2>1. queue \in Seq(Events)
      BY DEF Init, CandlesInit
    <2> QED
      BY <2>1 DEF Init, CandlesInit, CandlesTypeOK, For, Minutes
  <1>4. TypeOK
    BY <1>2, <1>3 DEF Init, CandlesInit, For, TypeOK
  <1> QED
    BY <1>4 DEF Init, CandlesInit, For, Typed, WayKnown, Timed, Quiet

(* The states in which a request of s is suspended. *)
Suspended(s) == at[s] \in {"subscribe", "fallback", "listen", "unsubscribe"}

LEMMA RaisesTypes ==
  ASSUME Typed, NEW s \in Symbols, NEW form \in Forms, Raises(s, form)
  PROVE  faults' \in 0..MaxFaults /\ leftover' \in [Symbols -> SUBSET {"candle", "plain"}]
  <1> USE CandlesAssumption DEF CandlesAssumption, Typed, TypeOK, CandlesTypeOK, Raises, Forms
  <1>1. faults' \in 0..MaxFaults
    OBVIOUS
  <1>2. leftover' \in [Symbols -> SUBSET {"candle", "plain"}]
    OBVIOUS
  <1> QED
    BY <1>1, <1>2

LEMMA ReachesTypes ==
  ASSUME Typed, NEW s \in Symbols, NEW form \in Forms, NEW minutes \in SUBSET Minutes,
         Reaches(s, form, minutes) \/ UNCHANGED <<subs, pending>>
  PROVE  /\ subs' \in [Symbols -> SUBSET {"candle", "plain"}]
         /\ pending' \in [Symbols -> SUBSET Minutes]
  <1> USE DEF Typed, TypeOK, CandlesTypeOK, Forms
  <1>1. CASE Reaches(s, form, minutes)
    BY <1>1 DEF Reaches
  <1>2. CASE UNCHANGED <<subs, pending>>
    BY <1>2
  <1> QED
    BY <1>1, <1>2

(* The steps of a request keep the types of what belongs to requests and feed. *)
LEMMA AdvanceTypes ==
  ASSUME Typed, NEW s \in Symbols, Advance(s)
  PROVE  /\ CandlesTypeOK' /\ WayKnown'
         /\ Suspended(s) /\ \E state \in States : at' = [at EXCEPT ![s] = state]
  <1> USE CandlesAssumption
      DEF CandlesAssumption, Typed, TypeOK, CandlesTypeOK, WayKnown, Suspended, States, Forms, Goes
  <1>0. History(s) \subseteq Minutes
    BY DEF History
  <1>1. CASE Subscribed(s)
    BY <1>0, <1>1 DEF Subscribed, Reaches, Listens
  <1>2. CASE SubscribeRaises(s)
    <2>1. faults' \in 0..MaxFaults /\ leftover' \in [Symbols -> SUBSET {"candle", "plain"}]
      BY <1>2, RaisesTypes, "candle" \in Forms DEF SubscribeRaises
    <2>2. /\ subs' \in [Symbols -> SUBSET {"candle", "plain"}]
          /\ pending' \in [Symbols -> SUBSET Minutes]
      BY <1>0, <1>2, ReachesTypes, "candle" \in Forms DEF SubscribeRaises
    <2> QED
      BY <1>2, <2>1, <2>2 DEF SubscribeRaises, request
  <1>3. CASE FallbackSubscribed(s)
    BY <1>0, <1>3 DEF FallbackSubscribed, Reaches, Listens
  <1>4. CASE FallbackRaises(s)
    <2>1. faults' \in 0..MaxFaults /\ leftover' \in [Symbols -> SUBSET {"candle", "plain"}]
      BY <1>4, RaisesTypes, "plain" \in Forms DEF FallbackRaises
    <2>2. /\ subs' \in [Symbols -> SUBSET {"candle", "plain"}]
          /\ pending' \in [Symbols -> SUBSET Minutes]
      BY <1>4, ReachesTypes, "plain" \in Forms, {} \in SUBSET Minutes DEF FallbackRaises
    <2>3. 0 \in Minutes
      BY DEF Minutes
    <2> QED
      BY <1>4, <2>1, <2>2, <2>3 DEF FallbackRaises, Over
  <1>5. CASE GivesUp(s)
    BY <1>5 DEF GivesUp, feed, request
  <1>6. CASE Unsubscribed(s)
    BY <1>6 DEF Unsubscribed, Removed, request
  <1>7. CASE UnsubscribeRaises(s)
    BY <1>7 DEF UnsubscribeRaises, Raises, Removed, request
  <1> QED
    BY <1>1, <1>2, <1>3, <1>4, <1>5, <1>6, <1>7 DEF Advance

(* So do the feed and what a request takes from it. *)
LEMMA TakeTypes ==
  ASSUME Typed, NEW s \in Symbols, Take(s)
  PROVE  /\ CandlesTypeOK' /\ WayKnown'
         /\ Suspended(s) /\ \E state \in States : at' = [at EXCEPT ![s] = state]
  <1> USE DEF Typed, TypeOK, Suspended, States, Goes
  <1>1. queue \in Seq(Events) /\ queue # <<>>
    BY DEF CandlesTypeOK, Take
  <1>2. Head(queue) \in Events /\ Tail(queue) \in Seq(Events)
    BY <1>1
  <1>3. Head(queue)[2] \in Minutes
    BY <1>2 DEF Events
  <1>4. Suspended(s) /\ \E state \in States : at' = [at EXCEPT ![s] = state]
    BY DEF Take
  <1>5. WayKnown'
    BY DEF Take, WayKnown, CandlesTypeOK
  <1>6. got' \in [Symbols -> SUBSET Minutes] /\ repeated' \in [Symbols -> BOOLEAN]
    <2>1. CASE Head(queue)[1] \in Contains[s]
      <3>1. got' = [got EXCEPT ![s] = @ \cup {Head(queue)[2]}]
        BY <2>1 DEF Take
      <3>2. repeated' = repeated \/ repeated' = [repeated EXCEPT ![s] = TRUE]
        BY <2>1 DEF Take
      <3> QED
        BY <1>3, <3>1, <3>2 DEF CandlesTypeOK
    <2>2. CASE Head(queue)[1] \notin Contains[s]
      BY <2>2 DEF Take, CandlesTypeOK
    <2> QED
      BY <2>1, <2>2
  <1>7. CandlesTypeOK'
    BY <1>2, <1>6 DEF Take, CandlesTypeOK, feed
  <1> QED
    BY <1>4, <1>5, <1>7

LEMMA FeedTypes ==
  ASSUME Typed, NEW s \in Symbols, Feed(s)
  PROVE  CandlesTypeOK' /\ WayKnown' /\ at' = at
  <1> PICK m \in Quoted[s] \cap Minutes :
        queue' = Append(queue, <<s, m>>) /\ pending' = [pending EXCEPT ![s] = @ \ {m}]
    BY DEF Feed
  <1>1. <<s, m>> \in Events /\ queue \in Seq(Events)
    BY DEF Events, Typed, TypeOK, CandlesTypeOK
  <1>2. queue' \in Seq(Events)
    BY <1>1
  <1>3. CandlesTypeOK'
    BY <1>2 DEF Feed, Typed, TypeOK, CandlesTypeOK, request
  <1> QED
    BY <1>3 DEF Feed, Typed, WayKnown, request

LEMMA DiesTypes == ASSUME Typed, Dies PROVE CandlesTypeOK' /\ WayKnown' /\ at' = at
  BY DEF Dies, Typed, TypeOK, CandlesTypeOK, WayKnown, For, request

LEMMA OverTypes ==
  ASSUME Typed, NEW s \in Symbols, NEW how \in States, Over(s, how), UNCHANGED <<now, feed, queue>>
  PROVE  CandlesTypeOK'
  <1>1. 0 \in Minutes
    BY CandlesAssumption DEF CandlesAssumption, Minutes
  <1> QED
    BY <1>1 DEF Over, Typed, TypeOK, CandlesTypeOK, feed

LEMMA NextTickerTypes ==
  ASSUME Typed, NextTicker
  PROVE  /\ phase' \in {"refresh", "idle"} /\ turn' \in 1..Len(Order)
         /\ asOf' \in Minutes \cup {None} /\ (asOf \in Minutes => asOf' \in Minutes)
         /\ chosen' = {} /\ fresh' = {}
  BY LiveOptionsAssumption
  DEF LiveOptionsAssumption, NextTicker, Typed, TypeOK, CandlesTypeOK

(* A step that is not a request's own keeps the types, if it keeps its part of them. *)
LEMMA GatherTypes ==
  ASSUME Typed, phase \in {"chain", "persist"}, NEW S \in SUBSET Symbols, Gather(S)
  PROVE  /\ at' \in [Symbols -> States] /\ Busy' \subseteq Busy
         /\ (\A s \in Symbols : at'[s] \in {"none", "todo"}) \/ at' = at
         /\ phase' \in {"refresh", "idle", "gather"} /\ turn' \in 1..Len(Order)
         /\ asOf' \in Minutes \cup {None} /\ (phase' # "idle" => asOf' \in Minutes)
         /\ chosen' \subseteq Symbols /\ fresh' \subseteq Symbols /\ Quiet'
  <1>1. CASE S = {}
    BY <1>1, NextTickerTypes DEF Gather, Typed, TypeOK, Timed, Quiet, For, States, Busy, Ended
  <1>2. CASE S # {}
    BY <1>2 DEF Gather, Typed, TypeOK, Timed, Quiet, States, Busy, Ended
  <1> QED
    BY <1>1, <1>2

LEMMA TypedStep == ASSUME Typed, [Next]_vars PROVE Typed'
  <1> USE DEF Typed
  <1>a. ASSUME CandlesTypeOK', WayKnown', UNCHANGED <<tables, pass, absent>>,
               at' \in [Symbols -> States], Busy' \subseteq Busy, phase = "gather" \/ at' = at
        PROVE  Typed'
    <2>1. Cardinality(Busy') <= Concurrency
      BY <1>a, NoMoreBusy
    <2> QED
      BY <1>a, <2>1 DEF TypeOK, Timed, Quiet, For, tables, pass, States
  <1>b. ASSUME UNCHANGED <<candles, absent>>,
               contracts' \subseteq Symbols, rows' \in [Symbols -> SUBSET Minutes],
               phase' \in {"idle", "refresh", "candidates", "chain", "check", "persist", "gather",
                           "stopped"},
               turn' \in 1..Len(Order), asOf' \in Minutes \cup {None},
               phase' \notin {"idle", "stopped"} => asOf' \in Minutes,
               phase # "gather" \/ phase' = phase,
               chosen' \subseteq Symbols, fresh' \subseteq Symbols
        PROVE  Typed'
    <2>1. Busy' = Busy
      BY <1>b DEF Busy, Ended, candles
    <2> QED
      BY <1>b, <2>1 DEF TypeOK, CandlesTypeOK, WayKnown, Timed, Quiet, For, candles, feed, request
  <1>1. CASE Tick
    <2>1. CandlesTypeOK' /\ at' = at
      BY <1>1, CandlesAssumption
      DEF CandlesAssumption, Tick, TypeOK, CandlesTypeOK, Minutes, feed, request
    <2>2. WayKnown' /\ Busy' = Busy
      BY <1>1 DEF Tick, WayKnown, request, Busy, Ended
    <2> QED
      BY <1>1, <1>a, <2>1, <2>2 DEF Tick, TypeOK, States
  <1>2. CASE Elsewhere
    <2>1. contracts' \subseteq Symbols /\ rows' \in [Symbols -> SUBSET Minutes]
      BY <1>2, LiveOptionsAssumption DEF LiveOptionsAssumption, Elsewhere, TypeOK
    <2> QED
      BY <1>2, <1>b, <2>1 DEF Elsewhere, TypeOK, Timed, pass
  <1>3. CASE PassBegins
    BY <1>3, <1>b DEF PassBegins, TypeOK, CandlesTypeOK, tables
  <1>4. CASE Refreshed
    BY <1>4, <1>b DEF Refreshed, TypeOK, Timed
  <1>5. CASE ReadCandidates
    BY <1>5, <1>b DEF ReadCandidates, TypeOK, Timed, tables, OfTicker
  <1>6. CASE ReadChain
    <2> PICK S \in SUBSET OfTicker(Symbols) :
          IF S \subseteq chosen THEN Gather(chosen)
          ELSE /\ phase' = "check" /\ chosen' = chosen \cup S /\ fresh' = S \ chosen
               /\ UNCHANGED <<turn, asOf, at>>
      BY <1>6 DEF ReadChain
    <2>1. CASE S \subseteq chosen
      <3>1. Gather(chosen) /\ phase = "chain" /\ chosen \in SUBSET Symbols
        BY <1>6, <2>1 DEF ReadChain, TypeOK
      <3>2. CandlesTypeOK'
        BY <1>6 DEF ReadChain, TypeOK, CandlesTypeOK, feed, request
      <3>3. WayKnown'
        BY <1>6, <3>1, GatherTypes DEF ReadChain, WayKnown, request, States
      <3>4. Cardinality(Busy') <= Concurrency
        BY <3>1, GatherTypes, NoMoreBusy
      <3> QED
        BY <1>6, <3>1, <3>2, <3>3, <3>4, GatherTypes DEF ReadChain, TypeOK, Timed, tables, States
    <2>2. CASE ~(S \subseteq chosen)
      <3>1. S \subseteq Symbols
        BY DEF OfTicker
      <3> QED
        BY <1>6, <1>b, <2>2, <3>1 DEF ReadChain, TypeOK, Timed, tables, candles
    <2> QED
      BY <2>1, <2>2
  <1>7. CASE Check
    BY <1>7, <1>b DEF Check, TypeOK, Timed, tables
  <1>8. CASE Persist
    <2>1. Gather(chosen) /\ phase = "persist" /\ chosen \in SUBSET Symbols
      BY <1>8 DEF Persist, TypeOK
    <2>2. CandlesTypeOK'
      BY <1>8 DEF Persist, TypeOK, CandlesTypeOK, feed, request
    <2>3. WayKnown'
      BY <1>8, <2>1, GatherTypes DEF Persist, WayKnown, request, States
    <2>4. Cardinality(Busy') <= Concurrency
      BY <2>1, GatherTypes, NoMoreBusy
    <2> QED
      BY <1>8, <2>1, <2>2, <2>3, <2>4, GatherTypes DEF Persist, TypeOK, Timed, States
  <1>9. CASE PollRaises
    BY <1>9, <1>b, NextTickerTypes DEF PollRaises, TypeOK, Timed, tables
  <1>10. CASE Gathered
    <2>1. Busy' = {}
      BY <1>10 DEF Gathered, For, Busy, Ended
    <2>2. Cardinality(Busy') <= Concurrency
      BY <2>1, NoMoreBusy
    <2>3. CandlesTypeOK' /\ WayKnown'
      BY <1>10 DEF Gathered, TypeOK, CandlesTypeOK, WayKnown, For, feed, request
    <2> QED
      BY <1>10, <2>2, <2>3, NextTickerTypes DEF Gathered, TypeOK, Timed, Quiet, tables, For
  <1>11. CASE Candle
    <2>1. /\ CandlesTypeOK' /\ WayKnown' /\ at' \in [Symbols -> States] /\ Busy' \subseteq Busy
          /\ phase = "gather" \/ at' = at
      <3>1. ASSUME NEW s \in Symbols, Advance(s) \/ Take(s)
            PROVE  /\ CandlesTypeOK' /\ WayKnown'
                   /\ Suspended(s) /\ \E state \in States : at' = [at EXCEPT ![s] = state]
        BY <3>1, AdvanceTypes, TakeTypes
      <3>2. ASSUME NEW s \in Symbols, Advance(s) \/ Take(s)
            PROVE  at' \in [Symbols -> States] /\ Busy' \subseteq Busy /\ phase = "gather"
        BY <3>1, <3>2, BusyMoves DEF Suspended, TypeOK, States, Quiet, For
      <3>3. ASSUME Dies \/ \E s \in Symbols : Feed(s)
            PROVE  CandlesTypeOK' /\ WayKnown' /\ at' = at
        BY <3>3, DiesTypes, FeedTypes
      <3>4. at' = at => at' \in [Symbols -> States] /\ Busy' = Busy
        BY DEF TypeOK, States, Busy, Ended
      <3> QED
        BY <1>11, <3>1, <3>2, <3>3, <3>4 DEF Candle, RequestOrFeed
    <2> QED
      BY <1>11, <1>a, <2>1 DEF Candle
  <1>12. CASE Stop
    <2>1. <<>> \in Seq(Events)
      OBVIOUS
    <2>2. CandlesTypeOK' /\ at' = at
      BY <1>12, <2>1 DEF Stop, TypeOK, CandlesTypeOK, For, request
    <2>3. WayKnown' /\ Busy' = Busy
      BY <1>12 DEF Stop, WayKnown, request, Busy, Ended
    <2> QED
      BY <1>12, <2>2, <2>3 DEF Stop, TypeOK, Timed, Quiet, For, tables
  <1>c. ASSUME NEW c \in Symbols, at[c] # "none" PROVE phase = "gather" /\ asOf \in Minutes
    BY <1>c DEF Quiet, For, Timed
  <1>13. ASSUME NEW c \in Symbols, Request(c) PROVE Typed'
    <2>1. phase = "gather" /\ asOf \in Minutes
      BY <1>13, <1>c DEF Request
    <2>2. First \in Minutes
      BY <2>1, CandlesAssumption, LiveOptionsAssumption
      DEF CandlesAssumption, LiveOptionsAssumption, First, Minutes
    <2>3. CandlesTypeOK'
      <3>1. trouble' \in [Symbols -> {"none", "shared", "spoilt"}]
        BY <1>13 DEF Request, Begin, Disturbed, TypeOK, CandlesTypeOK
      <3> QED
        BY <1>13, <2>2, <3>1 DEF Request, Begin, TypeOK, CandlesTypeOK, feed
    <2>4. at' = [at EXCEPT ![c] = "subscribe"]
      BY <1>13 DEF Request, Begin, Goes
    <2>5. Busy' \subseteq Busy \cup {c}
      BY <2>4 DEF TypeOK, Busy, Ended
    <2>6. Cardinality(Busy') <= Concurrency
      BY <1>13, <2>5, OneMoreBusy DEF Request
    <2>7. WayKnown'
      BY <1>13, <2>4 DEF Request, Begin, WayKnown, TypeOK
    <2> QED
      BY <1>13, <2>1, <2>3, <2>4, <2>6, <2>7 DEF Request, TypeOK, Timed, Quiet, tables, pass
  <1>d. ASSUME NEW c \in Symbols, at[c] \in {"returned", "commit"}, NEW state \in States,
               Over(c, state), UNCHANGED <<now, feed, queue, contracts, pass>>,
               rows' \in [Symbols -> SUBSET Minutes], absent' \in [Symbols -> SUBSET Minutes],
               state \notin {"listen", "unsubscribe"}
        PROVE  Typed'
    <2>1. phase = "gather" /\ at' = [at EXCEPT ![c] = state]
      BY <1>c, <1>d DEF Over, Goes
    <2>2. Busy' \subseteq Busy
      BY <1>d, <2>1, BusyMoves
    <2>3. CandlesTypeOK'
      BY <1>d, OverTypes
    <2>4. WayKnown'
      BY <1>d, <2>1 DEF Over, WayKnown, TypeOK, CandlesTypeOK
    <2>5. Cardinality(Busy') <= Concurrency
      BY <2>2, NoMoreBusy
    <2> QED
      BY <1>d, <2>1, <2>3, <2>4, <2>5 DEF TypeOK, Timed, Quiet, pass, States
  <1>14. ASSUME NEW c \in Symbols, Lookup(c) PROVE Typed'
    <2>1. CASE got[c] = {}
      BY <1>14, <1>d, <2>1 DEF Lookup, tables, TypeOK, States
    <2>2. CASE got[c] # {}
      <3>1. at' = [at EXCEPT ![c] = "commit"] /\ at[c] = "returned" /\ UNCHANGED request
        BY <1>14, <2>2 DEF Lookup, Goes
      <3>2. absent' \in [Symbols -> SUBSET Minutes]
        BY <1>14, <2>2 DEF Lookup, TypeOK, CandlesTypeOK
      <3>3. Cardinality(Busy') <= Concurrency
        BY <3>1, BusyMoves, NoMoreBusy
      <3>4. CandlesTypeOK' /\ WayKnown'
        BY <1>14, <3>1 DEF Lookup, TypeOK, CandlesTypeOK, WayKnown, feed, request
      <3>5. phase = "gather"
        BY <1>c, <3>1
      <3> QED
        BY <1>14, <3>1, <3>2, <3>3, <3>4, <3>5 DEF Lookup, TypeOK, Timed, Quiet, tables, pass
    <2> QED
      BY <2>1, <2>2
  <1>15. ASSUME NEW c \in Symbols, Insert(c) PROVE Typed'
    <2>1. rows' \in [Symbols -> SUBSET Minutes] /\ absent' \in [Symbols -> SUBSET Minutes]
      BY <1>15 DEF Insert, TypeOK
    <2> QED
      BY <1>15, <1>d, <2>1 DEF Insert, States
  <1>16. ASSUME NEW c \in Symbols, WriteFails(c) PROVE Typed'
    <2>1. rows' \in [Symbols -> SUBSET Minutes] /\ absent' \in [Symbols -> SUBSET Minutes]
      BY <1>16 DEF WriteFails, TypeOK, tables
    <2> QED
      BY <1>16, <1>d, <2>1 DEF WriteFails, States, tables
  <1>17. CASE UNCHANGED vars
    BY <1>17, <1>b DEF vars, tables, pass, TypeOK, Timed
  <1> QED
    BY <1>1, <1>2, <1>3, <1>4, <1>5, <1>6, <1>7, <1>8, <1>9, <1>10, <1>11, <1>12, <1>13, <1>14,
       <1>15, <1>16, <1>17
    DEF Next, Pass, Write

(***************************************************************************)
(* The variables keep their types, and never do more requests run than     *)
(* --concurrency allows: the semaphore of poll_ticker.                     *)
(***************************************************************************)
THEOREM TypeCorrect == Spec => []TypeOK
  <1>1. Typed => TypeOK
    BY DEF Typed
  <1> QED
    BY TypedInit, TypedStep, <1>1, PTL DEF Spec

LEMMA TypedInvariance == Spec => []Typed
  BY TypedInit, TypedStep, PTL DEF Spec

-----------------------------------------------------------------------------
(* Nothing is requested before its contract has a row. *)

(* What the pass is about to gather has its row, but for what it is to add. *)
ChosenKnown ==
  /\ phase = "chain" => chosen \subseteq contracts
  /\ phase \in {"check", "persist"} => chosen \ fresh \subseteq contracts

Known == ChosenKnown /\ KnownBeforeRequested

(* The table of contracts only grows. *)
LEMMA ContractsGrow == ASSUME [Next]_vars PROVE contracts \subseteq contracts'
  BY DEF Next, Tick, Elsewhere, Pass, PassBegins, Refreshed, ReadCandidates, ReadChain, Check,
         Persist, PollRaises, Gathered, Candle, Stop, Request, Write, Lookup, Insert, WriteFails,
         vars, tables, candles

(* No step but that of a gathering begins with a request that was not there. *)
LEMMA RequestsKept ==
  ASSUME Typed, [Next]_vars, ~ReadChain, ~Persist, NEW s \in Symbols, at'[s] # "none"
  PROVE  at[s] # "none"
  <1> USE DEF Typed, TypeOK
  <1>1. CASE at' = at
    BY <1>1
  <1>2. ASSUME NEW c \in Symbols, at[c] # "none", NEW state, at' = [at EXCEPT ![c] = state]
        PROVE  at[s] # "none"
    BY <1>2
  <1>3. CASE Gathered
    BY <1>3 DEF Gathered, For
  <1>4. CASE Candle
    <2>1. ASSUME NEW c \in Symbols, Advance(c) \/ Take(c) PROVE at[s] # "none"
      BY <1>2, <2>1, AdvanceTypes, TakeTypes DEF Suspended
    <2>2. ASSUME Dies \/ \E c \in Symbols : Feed(c) PROVE at' = at
      BY <2>2 DEF Dies, Feed
    <2> QED
      BY <1>1, <1>4, <2>1, <2>2 DEF Candle, RequestOrFeed
  <1>5. ASSUME NEW c \in Symbols, Request(c) \/ Write(c) PROVE at[s] # "none"
    <2>1. at[c] # "none" /\ (at' = [at EXCEPT ![c] = at'[c]])
      BY <1>5 DEF Request, Begin, Write, Lookup, Insert, WriteFails, Over, Goes
    <2> QED
      BY <1>2, <2>1
  <1>6. CASE Tick \/ Elsewhere \/ PassBegins \/ Refreshed \/ ReadCandidates \/ Check \/ PollRaises
             \/ Stop \/ UNCHANGED vars
    <2>1. at' = at
      BY <1>6 DEF Tick, Elsewhere, PassBegins, Refreshed, ReadCandidates, Check, PollRaises, Stop,
                  vars, candles
    <2> QED
      BY <1>1, <2>1
  <1> QED
    BY <1>3, <1>4, <1>5, <1>6 DEF Next, Pass

LEMMA KnownInit == Init => Known
  BY DEF Init, CandlesInit, For, Known, ChosenKnown, KnownBeforeRequested

(* Gathering what has its row requests nothing that has none. *)
LEMMA GatherKnown ==
  ASSUME Typed, phase \in {"chain", "persist"}, NEW S \in SUBSET Symbols, Gather(S),
         S \subseteq contracts'
  PROVE  Known'
  <1>1. CASE S = {}
    BY <1>1 DEF Gather, NextTicker, Known, ChosenKnown, KnownBeforeRequested, Typed, Quiet, For
  <1>2. CASE S # {}
    BY <1>2 DEF Gather, Known, ChosenKnown, KnownBeforeRequested
  <1> QED
    BY <1>1, <1>2

LEMMA KnownStep == ASSUME Typed, Known, [Next]_vars PROVE Known'
  <1>1. CASE ReadChain
    <2> PICK S \in SUBSET OfTicker(Symbols) :
          IF S \subseteq chosen THEN Gather(chosen)
          ELSE /\ phase' = "check" /\ chosen' = chosen \cup S /\ fresh' = S \ chosen
               /\ UNCHANGED <<turn, asOf, at>>
      BY <1>1 DEF ReadChain
    <2>1. phase = "chain" /\ chosen \in SUBSET Symbols /\ chosen \subseteq contracts
          /\ contracts' = contracts
      BY <1>1 DEF ReadChain, Known, ChosenKnown, Typed, TypeOK, tables
    <2>2. CASE S \subseteq chosen
      BY <2>1, <2>2, GatherKnown
    <2>3. CASE ~(S \subseteq chosen)
      BY <2>1, <2>3 DEF Known, ChosenKnown, KnownBeforeRequested
    <2> QED
      BY <2>2, <2>3
  <1>2. CASE Persist
    <2>1. phase = "persist" /\ chosen \in SUBSET Symbols /\ chosen \ fresh \subseteq contracts
          /\ contracts' = contracts \cup fresh /\ Gather(chosen)
      BY <1>2 DEF Persist, Known, ChosenKnown, Typed, TypeOK
    <2> QED
      BY <2>1, GatherKnown
  <1>3. CASE ~ReadChain /\ ~Persist
    <2>1. KnownBeforeRequested'
      BY <1>3, RequestsKept, ContractsGrow DEF Known, KnownBeforeRequested
    <2>2. CASE UNCHANGED <<phase, chosen, fresh>>
      BY <2>1, <2>2, ContractsGrow DEF Known, ChosenKnown
    <2>3. CASE phase' \notin {"chain", "check", "persist"}
      BY <2>1, <2>3 DEF Known, ChosenKnown
    <2>4. CASE ReadCandidates
      BY <2>1, <2>4 DEF ReadCandidates, OfTicker, Known, ChosenKnown, tables
    <2>5. CASE Check
      BY <2>1, <2>5 DEF Check, Known, ChosenKnown, tables
    <2>6. ReadCandidates \/ Check \/ UNCHANGED <<phase, chosen, fresh>>
          \/ phase' \notin {"chain", "check", "persist"}
      BY <1>3 DEF Next, Tick, Elsewhere, Pass, PassBegins, Refreshed, PollRaises, Gathered,
                  NextTicker, Candle, Stop, Request, Write, Lookup, Insert, WriteFails, vars, pass
    <2> QED
      BY <2>2, <2>3, <2>4, <2>5, <2>6
  <1> QED
    BY <1>1, <1>2, <1>3

(***************************************************************************)
(* A candle is only requested for a contract that has a row, so that the   *)
(* rows of its bars may refer to it: the persist of the chain fallback.    *)
(***************************************************************************)
THEOREM KnownFirst == Spec => []KnownBeforeRequested
  <1>1. Init => Typed /\ Known
    BY TypedInit, KnownInit
  <1>2. Typed /\ Known /\ [Next]_vars => (Typed /\ Known)'
    BY TypedStep, KnownStep
  <1>3. Known => KnownBeforeRequested
    BY DEF Known
  <1> QED
    BY <1>1, <1>2, <1>3, PTL DEF Spec

-----------------------------------------------------------------------------
(* No subscription is left behind. *)

(* What s may be subscribed to: what a raise has left, and what it listens to. *)
Justified(s) ==
  leftover[s] \cup (IF at[s] \in {"listen", "unsubscribe"} THEN {via[s]} ELSE {})

(* A connection that is dead has no subscriptions. *)
Leak == (\A s \in Symbols : subs[s] \subseteq Justified(s)) /\ (~alive => subs = For({}))

LEMMA LeakInit == Init => Leak
  BY DEF Init, CandlesInit, For, Leak, Justified

(* A step that leaves subscriptions alone, and does not end a request that has one. *)
LEMMA LeakKept ==
  ASSUME Leak, UNCHANGED <<subs, alive>>,
         \A s \in Symbols : leftover[s] \subseteq leftover'[s],
         \A s \in Symbols :
           at[s] \in {"listen", "unsubscribe"} =>
             at'[s] \in {"listen", "unsubscribe"} /\ via'[s] = via[s]
  PROVE  Leak'
  BY DEF Leak, Justified, For

LEMMA AdvanceLeak == ASSUME Typed, Leak, NEW s \in Symbols, Advance(s) PROVE Leak'
  <1> USE DEF Typed, TypeOK, CandlesTypeOK, Leak, Justified, For, Goes
  <1>1. CASE Subscribed(s)
    BY <1>1 DEF Subscribed, Reaches, Listens
  <1>2. CASE SubscribeRaises(s)
    <2>1. CASE alive
      BY <1>2, <2>1 DEF SubscribeRaises, Raises, Reaches, request
    <2>2. CASE ~alive
      BY <1>2, <2>2 DEF SubscribeRaises, Raises, Reaches, request
    <2> QED
      BY <2>1, <2>2
  <1>3. CASE FallbackSubscribed(s)
    BY <1>3 DEF FallbackSubscribed, Reaches, Listens
  <1>4. CASE FallbackRaises(s)
    <2>1. CASE alive
      BY <1>4, <2>1 DEF FallbackRaises, Raises, Reaches, Over
    <2>2. CASE ~alive
      BY <1>4, <2>2 DEF FallbackRaises, Raises, Reaches, Over
    <2> QED
      BY <2>1, <2>2
  <1>5. CASE GivesUp(s)
    BY <1>5, LeakKept DEF GivesUp, feed, request
  <1>6. CASE Unsubscribed(s)
    <2>1. /\ subs' = [subs EXCEPT ![s] = @ \ {via[s]}]
          /\ leftover' = [leftover EXCEPT ![s] = @ \ {via[s]}]
          /\ at[s] = "unsubscribe" /\ at' = [at EXCEPT ![s] = "returned"]
          /\ via' = via /\ alive' = alive
      BY <1>6 DEF Unsubscribed, Removed, request
    <2>2. \A u \in Symbols : subs'[u] \subseteq Justified(u)'
      BY <2>1
    <2>3. ASSUME ~alive PROVE subs' = For({})
      <3>1. subs = For({})
        BY <2>3
      <3>2. \A u \in Symbols : subs'[u] = {}
        BY <2>1, <3>1
      <3> QED
        BY <2>1, <3>2
    <2> QED
      BY <2>1, <2>2, <2>3
  <1>7. CASE UnsubscribeRaises(s)
    <2>1. CASE alive
      BY <1>7, <2>1 DEF UnsubscribeRaises, Raises, Removed, request
    <2>2. CASE ~alive
      BY <1>7, <2>2 DEF UnsubscribeRaises, Raises, Removed, request
    <2> QED
      BY <2>1, <2>2
  <1> QED
    BY <1>1, <1>2, <1>3, <1>4, <1>5, <1>6, <1>7 DEF Advance

LEMMA LeakStep == ASSUME Typed, Leak, [Next]_vars PROVE Leak'
  <1> USE DEF Typed, TypeOK
  <1>1. CASE Tick \/ Elsewhere \/ PassBegins \/ Refreshed \/ ReadCandidates \/ Check \/ PollRaises
             \/ UNCHANGED vars
    <2>1. UNCHANGED <<subs, alive, leftover, at, via>>
      BY <1>1 DEF Tick, Elsewhere, PassBegins, Refreshed, ReadCandidates, Check, PollRaises,
                  vars, candles, feed, request
    <2> QED
      BY <2>1, LeakKept
  <1>2. CASE ReadChain \/ Persist
    <2>1. UNCHANGED <<subs, alive, leftover, via>> /\ at = For("none")
      BY <1>2 DEF ReadChain, Persist, feed, request, Quiet
    <2> QED
      BY <2>1, LeakKept DEF For
  <1>3. CASE Gathered
    <2>1. \A s \in Symbols : at[s] \notin {"listen", "unsubscribe"}
      BY <1>3 DEF Gathered, Ended
    <2> QED
      BY <1>3, <2>1, LeakKept DEF Gathered, feed, request
  <1>4. CASE Candle
    <2>1. ASSUME NEW s \in Symbols, Take(s) PROVE Leak'
      BY <2>1, LeakKept DEF Take, feed, Goes
    <2>2. ASSUME NEW s \in Symbols, Feed(s) PROVE Leak'
      BY <2>2, LeakKept DEF Feed, request
    <2>3. CASE Dies
      BY <2>3 DEF Dies, Leak, Justified, For, request
    <2> QED
      BY <1>4, <2>1, <2>2, <2>3, AdvanceLeak DEF Candle, RequestOrFeed
  <1>5. CASE Stop
    BY <1>5 DEF Stop, Leak, Justified, For, request
  <1>6. ASSUME NEW c \in Symbols, Request(c) PROVE Leak'
    BY <1>6, LeakKept DEF Request, Begin, Goes, feed
  <1>7. ASSUME NEW c \in Symbols, Write(c) PROVE Leak'
    <2>1. UNCHANGED feed /\ at[c] \in {"returned", "commit"}
      BY <1>7 DEF Write, Lookup, Insert, WriteFails
    <2>2. \A s \in Symbols \ {c} : at'[s] = at[s] /\ via'[s] = via[s]
      BY <1>7 DEF Write, Lookup, Insert, WriteFails, Over, Goes, request, CandlesTypeOK
    <2> QED
      BY <2>1, <2>2, LeakKept DEF feed
  <1> QED
    BY <1>1, <1>2, <1>3, <1>4, <1>5, <1>6, <1>7 DEF Next, Pass

(***************************************************************************)
(* A request that is over leaves no subscription, however it ended, unless *)
(* one of its commands raised: _unsubscribe_candle_compat.                 *)
(***************************************************************************)
THEOREM NothingLeaked == Spec => []NoLeakedSubscription
  <1>1. Init => Typed /\ Leak
    BY TypedInit, LeakInit
  <1>2. Typed /\ Leak /\ [Next]_vars => (Typed /\ Leak)'
    BY TypedStep, LeakStep
  <1>3. Leak => NoLeakedSubscription
    BY DEF Leak, Justified, NoLeakedSubscription, Active
  <1> QED
    BY <1>1, <1>2, <1>3, PTL DEF Spec

-----------------------------------------------------------------------------
(* The window of a poll. *)

(* The minutes of c among the first i events of the queue. *)
Queued(c, i) == {m \in Minutes : \E j \in 1..i : queue[j] = <<c, m>>}

Alone(c) == Suspended(c) /\ trouble[c] = "none"

(* A request that nothing disturbs is the only one, and the only one to be sent events. *)
Solo(c) ==
  Alone(c) =>
    /\ Active = {c} /\ began[c] <= now
    /\ \A u \in Contains[c] \ {c} : subs[u] = {}
    /\ \A i \in 1..Len(queue) : queue[i][1] \in Contains[c] => queue[i][1] = c
    /\ at[c] = "subscribe" => subs[c] = {} /\ Queued(c, Len(queue)) = {}

(* A request begins with nothing, and listens no more after a repeated candle. *)
Unused(c) ==
  /\ at[c] \notin {"listen", "unsubscribe", "returned", "commit"} => got[c] = {} /\ ~repeated[c]
  /\ at[c] = "listen" => ~repeated[c]

(***************************************************************************)
(* While it listens, what it is owed has come, or is in the queue, or is   *)
(* still to be sent; and when a candle that may end it comes once more,    *)
(* all of it is before that one.                                           *)
(***************************************************************************)
Coming(c) ==
  /\ Owed(c) \subseteq pending[c] \cup got[c] \cup Queued(c, Len(queue))
  /\ pending[c] \cap (got[c] \cup Queued(c, Len(queue))) = {}

LastRepeats(c) ==
  \A i \in 1..Len(queue), m \in Minutes :
    queue[i] = <<c, m>> /\ m >= began[c] - Gate /\ m \in got[c] \cup Queued(c, i - 1)
      => Owed(c) \subseteq got[c] \cup Queued(c, i - 1)

Listening(c) ==
  at[c] = "listen" /\ trouble[c] = "none" => (alive => Coming(c)) /\ LastRepeats(c)

(* What it has got is kept until it is written. *)
Kept(c) ==
  /\ at[c] \in {"unsubscribe", "returned", "commit"} /\ repeated[c] /\ trouble[c] = "none"
       => Owed(c) \subseteq got[c]
  /\ at[c] = "commit" => got[c] \subseteq rows[c] \cup absent[c]

Polled(c) == Solo(c) /\ Unused(c) /\ Listening(c) /\ Kept(c)

PolledAll == \A c \in Symbols : Polled(c)

LEMMA PolledInit == Init => PolledAll
  BY DEF Init, CandlesInit, For, PolledAll, Polled, Solo, Alone, Suspended, Unused, Listening, Kept

(* Steps that leave the requests and what they are sent alone. *)
LEMMA PolledStill ==
  ASSUME Typed, PolledAll, now' \in Minutes, now <= now',
         UNCHANGED <<feed, queue, at, request, absent>>,
         \A c \in Symbols : rows[c] \subseteq rows'[c]
  PROVE  PolledAll'
  <1> SUFFICES ASSUME NEW c \in Symbols PROVE Polled(c)'
    BY DEF PolledAll
  <1>1. Polled(c)
    BY DEF PolledAll
  <1>2. UNCHANGED <<alive, subs, pending, start, began, got, repeated, trouble>>
    BY DEF feed, request
  <1>3. Queued(c, Len(queue))' = Queued(c, Len(queue)) /\ Owed(c)' = Owed(c) /\ Active' = Active
    BY <1>2 DEF Queued, Owed, Active
  <1>4. began[c] <= now => began'[c] <= now'
    BY <1>2, CandlesAssumption DEF CandlesAssumption, Minutes, Typed, TypeOK, CandlesTypeOK
  <1>5. Solo(c)'
    BY <1>1, <1>2, <1>3, <1>4 DEF Polled, Solo, Alone, Suspended
  <1>6. Unused(c)'
    BY <1>1, <1>2 DEF Polled, Unused
  <1>7. Listening(c)'
    <2>1. \A i : Queued(c, i)' = Queued(c, i)
      BY DEF Queued
    <2>2. Coming(c)' = Coming(c)
      BY <1>2, <1>3 DEF Coming
    <2>3. LastRepeats(c) => LastRepeats(c)'
      BY <1>2, <1>3, <2>1 DEF LastRepeats
    <2> QED
      BY <1>1, <1>2, <2>2, <2>3 DEF Polled, Listening
  <1>8. Kept(c)'
    BY <1>1, <1>2, <1>3 DEF Polled, Kept
  <1> QED
    BY <1>5, <1>6, <1>7, <1>8 DEF Polled

(* When no contract is in a request, little is asked for. *)
LEMMA PolledAtRest ==
  ASSUME PolledAll, UNCHANGED request,
         \A c \in Symbols : /\ at[c] \in {"none", "todo", "done", "failed"}
                            /\ at'[c] \in {"none", "todo", "done", "failed"}
  PROVE  PolledAll'
  BY DEF PolledAll, Polled, Solo, Alone, Suspended, Unused, Listening, Kept, request

-----------------------------------------------------------------------------
(* The steps of a request. *)

(* A step of s is none of another's. *)
LEMMA OthersKeep ==
  ASSUME Typed, NEW s \in Symbols, Advance(s) \/ Take(s), NEW c \in Symbols, c # s
  PROVE  /\ at'[c] = at[c] /\ start'[c] = start[c] /\ began'[c] = began[c] /\ got'[c] = got[c]
         /\ repeated'[c] = repeated[c] /\ trouble'[c] = trouble[c]
  <1> USE DEF Typed, TypeOK, CandlesTypeOK, Goes, request
  <1>1. CASE Subscribed(s) \/ SubscribeRaises(s) \/ FallbackSubscribed(s)
    BY <1>1 DEF Subscribed, SubscribeRaises, FallbackSubscribed, Listens
  <1>2. CASE FallbackRaises(s)
    BY <1>2 DEF FallbackRaises, Over
  <1>3. CASE GivesUp(s) \/ Unsubscribed(s) \/ UnsubscribeRaises(s)
    BY <1>3 DEF GivesUp, Unsubscribed, UnsubscribeRaises
  <1>4. CASE Take(s)
    BY <1>4 DEF Take
  <1> QED
    BY <1>1, <1>2, <1>3, <1>4 DEF Advance

LEMMA PolledOthers ==
  ASSUME Typed, PolledAll, NEW s \in Symbols, Advance(s) \/ Take(s), UNCHANGED <<rows, absent>>,
         NEW c \in Symbols, c # s
  PROVE  Polled(c)'
  <1>1. Suspended(s) /\ s \in Active
    BY AdvanceTypes, TakeTypes DEF Suspended, Active
  <1>2. ~Alone(c) /\ ~Alone(c)'
    BY <1>1, OthersKeep DEF PolledAll, Polled, Solo, Alone, Suspended
  <1>3. Owed(c)' = Owed(c)
    BY OthersKeep DEF Owed
  <1>4. Solo(c)' /\ Listening(c)'
    BY <1>2 DEF Solo, Listening, Alone, Suspended
  <1>5. Unused(c)' /\ Kept(c)'
    BY <1>3, OthersKeep DEF PolledAll, Polled, Unused, Kept
  <1> QED
    BY <1>4, <1>5 DEF Polled

(* The request that goes on with nothing new in the queue. *)
LEMMA StaysSolo ==
  ASSUME Typed, PolledAll, NEW s \in Symbols, Advance(s) \/ Take(s),
         Suspended(s)', at'[s] # "subscribe", trouble'[s] = "none" => trouble[s] = "none",
         \A i \in 1..Len(queue)' : \E j \in 1..Len(queue) : queue'[i] = queue[j],
         \A u \in Symbols \ {s} : subs'[u] = subs[u],
         UNCHANGED <<began, now>>
  PROVE  Solo(s)'
  <1> SUFFICES ASSUME trouble'[s] = "none" PROVE Solo(s)'
    BY DEF Solo, Alone
  <1>1. Suspended(s)
    BY AdvanceTypes, TakeTypes
  <1>2. /\ Active = {s} /\ began[s] <= now
        /\ \A u \in Contains[s] \ {s} : subs[u] = {}
        /\ \A i \in 1..Len(queue) : queue[i][1] \in Contains[s] => queue[i][1] = s
    BY <1>1 DEF PolledAll, Polled, Solo, Alone
  <1>3. \A c \in Symbols : c # s => at'[c] = at[c]
    BY OthersKeep
  <1>4. Active' = {s}
    BY <1>2, <1>3 DEF Active, Suspended
  <1>5. \A u \in Contains[s] \ {s} : subs'[u] = {}
    BY <1>2, CandlesAssumption DEF CandlesAssumption
  <1> QED
    BY <1>2, <1>4, <1>5 DEF Solo

LEMMA PolledSubscribed ==
  ASSUME Typed, PolledAll, NEW s \in Symbols, Subscribed(s) PROVE Polled(s)'
  <1> USE DEF Typed, TypeOK, CandlesTypeOK, Goes
  <1>1. /\ at[s] = "subscribe" /\ at'[s] = "listen" /\ alive /\ alive' = alive
        /\ pending'[s] = History(s)
        /\ \A u \in Symbols \ {s} : subs'[u] = subs[u]
        /\ UNCHANGED <<now, queue, start, began, got, repeated, trouble>>
    BY DEF Subscribed, Reaches, Listens
  <1>2. Unused(s) /\ Solo(s)
    BY DEF PolledAll, Polled
  <1>3. Solo(s)'
    BY <1>1, StaysSolo DEF Suspended, Advance
  <1>4. Unused(s)' /\ Kept(s)'
    BY <1>1, <1>2 DEF Unused, Kept
  <1>5. ASSUME trouble[s] = "none" PROVE Coming(s)' /\ LastRepeats(s)'
    <2>1. /\ began[s] <= now /\ Queued(s, Len(queue)) = {} /\ got[s] = {}
      BY <1>1, <1>2, <1>5 DEF Solo, Alone, Suspended, Unused
    <2>2. Owed(s) \subseteq History(s)
      BY <2>1, CandlesAssumption DEF CandlesAssumption, Minutes, Owed, History
    <2>3. Owed(s)' = Owed(s) /\ Queued(s, Len(queue))' = {}
      BY <1>1, <2>1 DEF Owed, Queued
    <2>4. Coming(s)'
      BY <1>1, <2>1, <2>2, <2>3 DEF Coming
    <2>5. \A i \in 1..Len(queue'), m \in Minutes : queue'[i] # <<s, m>>
      BY <2>3 DEF Queued
    <2> QED
      BY <2>4, <2>5 DEF LastRepeats
  <1> QED
    BY <1>1, <1>3, <1>4, <1>5 DEF Polled, Listening

LEMMA PolledRaised ==
  ASSUME Typed, PolledAll, NEW s \in Symbols,
         SubscribeRaises(s) \/ FallbackSubscribed(s) \/ FallbackRaises(s)
  PROVE  Polled(s)'
  <1> USE DEF Typed, TypeOK, CandlesTypeOK, Goes
  <1>0. Unused(s)
    BY DEF PolledAll, Polled
  <1>1. CASE SubscribeRaises(s)
    <2>1. /\ at[s] = "subscribe" /\ at'[s] = "fallback"
          /\ \A u \in Symbols \ {s} : subs'[u] = subs[u]
          /\ UNCHANGED <<now, queue, request>>
      BY <1>1 DEF SubscribeRaises, Reaches
    <2>2. Solo(s)'
      BY <1>1, <2>1, StaysSolo DEF Suspended, Advance, request
    <2> QED
      BY <1>0, <2>1, <2>2 DEF Polled, Unused, Listening, Kept, request
  <1>2. CASE FallbackSubscribed(s)
    <2>1. /\ at[s] = "fallback" /\ at'[s] = "listen" /\ trouble'[s] = "spoilt"
          /\ UNCHANGED <<got, repeated>>
      BY <1>2 DEF FallbackSubscribed, Listens
    <2> QED
      BY <1>0, <2>1 DEF Polled, Unused, Solo, Alone, Listening, Kept
  <1>3. CASE FallbackRaises(s)
    <2>1. at'[s] = "failed" /\ got'[s] = {} /\ ~repeated'[s]
      BY <1>3 DEF FallbackRaises, Over
    <2> QED
      BY <2>1 DEF Polled, Unused, Solo, Alone, Suspended, Listening, Kept
  <1> QED
    BY <1>1, <1>2, <1>3

LEMMA PolledEnds ==
  ASSUME Typed, PolledAll, NEW s \in Symbols, GivesUp(s) \/ Unsubscribed(s) \/ UnsubscribeRaises(s)
  PROVE  Polled(s)'
  <1> USE DEF Typed, TypeOK, CandlesTypeOK, Goes
  <1>0. Unused(s) /\ Kept(s)
    BY DEF PolledAll, Polled
  <1>1. CASE GivesUp(s)
    <2>1. /\ at[s] = "listen" /\ at'[s] = "unsubscribe"
          /\ UNCHANGED <<now, subs, queue, began, got, repeated, trouble>>
      BY <1>1 DEF GivesUp, feed, request
    <2>2. Solo(s)'
      BY <1>1, <2>1, StaysSolo DEF Suspended, Advance
    <2> QED
      BY <1>0, <2>1, <2>2 DEF Polled, Unused, Listening, Kept
  <1>2. CASE Unsubscribed(s) \/ UnsubscribeRaises(s)
    <2>1. /\ at[s] = "unsubscribe" /\ at'[s] = "returned"
          /\ UNCHANGED request
      BY <1>2 DEF Unsubscribed, UnsubscribeRaises
    <2>2. Owed(s)' = Owed(s)
      BY <2>1 DEF Owed, request
    <2> QED
      BY <1>0, <2>1, <2>2 DEF Polled, Unused, Solo, Alone, Suspended, Listening, Kept, request
  <1> QED
    BY <1>1, <1>2

(* The head of the queue is taken: what was behind it moves up. *)
LEMMA QueueMovesUp ==
  ASSUME queue \in Seq(Events), queue # <<>>, queue' = Tail(queue)
  PROVE  /\ Len(queue) \in Nat /\ Len(queue') = Len(queue) - 1 /\ Len(queue') \in Nat
         /\ \A i \in 1..Len(queue') : i + 1 \in 1..Len(queue) /\ queue'[i] = queue[i + 1]
         /\ Head(queue) = queue[1] /\ 1 \in 1..Len(queue)
  OBVIOUS

LEMMA QueuedMovesUp ==
  ASSUME queue \in Seq(Events), queue # <<>>, queue' = Tail(queue), NEW c \in Symbols,
         NEW i \in Nat, i <= Len(queue')
  PROVE  Queued(c, i + 1) = Queued(c, i)' \cup {m \in Minutes : queue[1] = <<c, m>>}
  <1>1. \A j \in 1..i : j + 1 \in 1..(i + 1) /\ queue'[j] = queue[j + 1]
    BY QueueMovesUp
  <1>2. \A j \in 1..(i + 1) : j = 1 \/ (j - 1 \in 1..i /\ queue'[j - 1] = queue[j])
    BY QueueMovesUp
  <1>3. 1 \in 1..(i + 1)
    OBVIOUS
  <1> QED
    BY <1>1, <1>2, <1>3 DEF Queued

LEMMA PolledTake == ASSUME Typed, PolledAll, NEW s \in Symbols, Take(s) PROVE Polled(s)'
  <1> USE DEF Typed, TypeOK, CandlesTypeOK, Goes
  <1>1. /\ at[s] = "listen" /\ queue \in Seq(Events) /\ queue # <<>> /\ queue' = Tail(queue)
        /\ UNCHANGED <<now, alive, subs, pending, start, began, trouble>>
    BY DEF Take, feed
  <1>2. Solo(s) /\ Unused(s) /\ Listening(s)
    BY DEF PolledAll, Polled
  <1>3. at'[s] \in {"listen", "unsubscribe"}
    BY <1>1 DEF Take
  <1>4. Solo(s)'
    <2>1. \A i \in 1..Len(queue)' : \E j \in 1..Len(queue) : queue'[i] = queue[j]
      BY <1>1, QueueMovesUp
    <2> QED
      BY <1>1, <1>3, <2>1, StaysSolo DEF Suspended
  <1>5. Owed(s)' = Owed(s)
    BY <1>1 DEF Owed
  <1>6. queue[1] \in Events /\ queue[1] = Head(queue)
    BY <1>1, QueueMovesUp
  <1> DEFINE event == queue[1]
  <1>7. CASE event[1] \in Contains[s]
    <2> DEFINE m == event[2]
    <2>1. /\ m \in Minutes /\ got' = [got EXCEPT ![s] = @ \cup {m}]
          /\ IF EndsWith(s, m)
             THEN at' = [at EXCEPT ![s] = "unsubscribe"] /\ repeated' = [repeated EXCEPT ![s] = TRUE]
             ELSE UNCHANGED <<at, repeated>>
      BY <1>6, <1>7 DEF Take, Events
    <2> HIDE DEF m
    <2>2. got'[s] = got[s] \cup {m}
      BY <2>1
    <2>3. ASSUME trouble[s] = "none"
          PROVE  /\ event = <<s, m>> /\ \A n \in Minutes : event = <<s, n>> <=> n = m
                 /\ (alive => Coming(s)) /\ LastRepeats(s)
      <3>1. event[1] = s
        BY <1>1, <1>2, <1>7, <2>3, QueueMovesUp DEF Solo, Alone, Suspended
      <3>2. event = <<s, m>>
        BY <1>6, <3>1 DEF Events, m
      <3> QED
        BY <1>1, <1>2, <2>3, <3>2 DEF Listening
    <2>4. CASE EndsWith(s, m)
      <3>1. at'[s] = "unsubscribe" /\ repeated'[s]
        BY <2>1, <2>4
      <3>2. ASSUME trouble[s] = "none" PROVE Owed(s) \subseteq got[s]
        <4>1. Queued(s, 0) = {} /\ 1 \in 1..Len(queue) /\ 1 - 1 = 0
          BY <1>1, QueueMovesUp DEF Queued
        <4>2. m \in got[s] /\ m >= began[s] - Gate
          BY <2>4 DEF EndsWith
        <4> QED
          BY <2>1, <2>3, <3>2, <4>1, <4>2 DEF LastRepeats
      <3> QED
        BY <1>1, <1>4, <1>5, <2>2, <3>1, <3>2 DEF Polled, Unused, Listening, Kept
    <2>5. CASE ~EndsWith(s, m)
      <3>1. at'[s] = "listen" /\ ~repeated'[s]
        BY <1>1, <1>2, <2>1, <2>5 DEF Unused
      <3>2. ASSUME trouble[s] = "none", NEW i \in Nat, i <= Len(queue')
            PROVE  got[s] \cup Queued(s, i + 1) = got'[s] \cup Queued(s, i)'
        <4>1. Queued(s, i + 1) = Queued(s, i)' \cup {n \in Minutes : queue[1] = <<s, n>>}
          BY <1>1, <3>2, QueuedMovesUp
        <4>2. {n \in Minutes : queue[1] = <<s, n>>} = {m}
          BY <2>1, <2>3, <3>2
        <4> QED
          BY <2>2, <4>1, <4>2
      <3>3. ASSUME trouble[s] = "none", alive PROVE Coming(s)'
        <4>1. /\ Len(queue') \in Nat /\ Len(queue) = Len(queue') + 1
          BY <1>1, QueueMovesUp
        <4>2. got[s] \cup Queued(s, Len(queue)) = got'[s] \cup Queued(s, Len(queue))'
          BY <3>2, <3>3, <4>1
        <4> QED
          BY <1>1, <1>5, <2>3, <3>3, <4>2 DEF Coming
      <3>4. ASSUME trouble[s] = "none" PROVE LastRepeats(s)'
        <4> SUFFICES ASSUME NEW i \in 1..Len(queue'), NEW n \in Minutes,
                            queue'[i] = <<s, n>>, n >= began[s] - Gate,
                            n \in got'[s] \cup Queued(s, i - 1)'
                     PROVE  Owed(s) \subseteq got'[s] \cup Queued(s, i - 1)'
          BY <1>1, <1>5 DEF LastRepeats
        <4>1. i + 1 \in 1..Len(queue) /\ queue[i + 1] = <<s, n>> /\ Len(queue') \in Nat
          BY <1>1, QueueMovesUp
        <4>2. i - 1 \in Nat /\ i - 1 <= Len(queue') /\ (i - 1) + 1 = i /\ (i + 1) - 1 = i
          BY <4>1
        <4>3. got[s] \cup Queued(s, i) = got'[s] \cup Queued(s, i - 1)'
          BY <3>2, <3>4, <4>2
        <4> QED
          BY <2>3, <3>4, <4>1, <4>2, <4>3 DEF LastRepeats
      <3> QED
        BY <1>1, <1>4, <3>1, <3>3, <3>4 DEF Polled, Unused, Listening, Kept
    <2> QED
      BY <2>4, <2>5
  <1>8. CASE event[1] \notin Contains[s]
    <2>1. UNCHANGED <<at, got, repeated>>
      BY <1>6, <1>8 DEF Take
    <2>2. {n \in Minutes : queue[1] = <<s, n>>} = {}
      BY <1>8, CandlesAssumption DEF CandlesAssumption
    <2>3. ASSUME NEW i \in Nat, i <= Len(queue') PROVE Queued(s, i + 1) = Queued(s, i)'
      <3>1. Queued(s, i + 1) = Queued(s, i)' \cup {n \in Minutes : queue[1] = <<s, n>>}
        BY <1>1, <2>3, QueuedMovesUp
      <3> QED
        BY <2>2, <3>1
    <2>4. ASSUME trouble[s] = "none", alive PROVE Coming(s)'
      <3>1. Len(queue') \in Nat /\ Len(queue) = Len(queue') + 1
        BY <1>1, QueueMovesUp
      <3>2. Queued(s, Len(queue)) = Queued(s, Len(queue))'
        BY <2>3, <3>1
      <3> QED
        BY <1>1, <1>2, <1>5, <2>1, <2>4, <3>2 DEF Listening, Coming
    <2>5. ASSUME trouble[s] = "none" PROVE LastRepeats(s)'
      <3> SUFFICES ASSUME NEW i \in 1..Len(queue'), NEW n \in Minutes,
                          queue'[i] = <<s, n>>, n >= began[s] - Gate,
                          n \in got[s] \cup Queued(s, i - 1)'
                   PROVE  Owed(s) \subseteq got[s] \cup Queued(s, i - 1)'
        BY <1>1, <1>5, <2>1 DEF LastRepeats
      <3>1. i + 1 \in 1..Len(queue) /\ queue[i + 1] = <<s, n>> /\ Len(queue') \in Nat
        BY <1>1, QueueMovesUp
      <3>2. i - 1 \in Nat /\ i - 1 <= Len(queue') /\ (i - 1) + 1 = i /\ (i + 1) - 1 = i
        BY <3>1
      <3>3. Queued(s, i) = Queued(s, i - 1)'
        BY <2>3, <3>2
      <3> QED
        BY <1>1, <1>2, <2>5, <3>1, <3>2, <3>3 DEF Listening, LastRepeats
    <2> QED
      BY <1>1, <1>2, <1>4, <2>1, <2>4, <2>5 DEF Polled, Unused, Listening, Kept
  <1> QED
    BY <1>7, <1>8

-----------------------------------------------------------------------------
(* The feed. *)

(* An event comes to the end of the queue. *)
LEMMA QueueGrows ==
  ASSUME queue \in Seq(Events), NEW event \in Events, queue' = Append(queue, event)
  PROVE  /\ Len(queue) \in Nat /\ Len(queue') = Len(queue) + 1
         /\ \A i \in 1..Len(queue) : i \in 1..Len(queue') /\ queue'[i] = queue[i]
         /\ queue'[Len(queue')] = event
  OBVIOUS

LEMMA QueuedGrows ==
  ASSUME queue \in Seq(Events), NEW event \in Events, queue' = Append(queue, event),
         NEW c \in Symbols
  PROVE  /\ \A i \in 0..Len(queue) : Queued(c, i)' = Queued(c, i)
         /\ Queued(c, Len(queue))' = Queued(c, Len(queue)) \cup {m \in Minutes : event = <<c, m>>}
  <1>1. \A i \in 0..Len(queue) : \A j \in 1..i : queue'[j] = queue[j]
    BY QueueGrows
  <1>2. \A j \in 1..Len(queue') : j \in 1..Len(queue) \/ j = Len(queue')
    BY QueueGrows
  <1>3. Len(queue') \in 1..Len(queue') /\ \A j \in 1..Len(queue) : j \in 1..Len(queue')
    BY QueueGrows
  <1>4. \A i \in 0..Len(queue) : Queued(c, i)' = Queued(c, i)
    BY <1>1 DEF Queued
  <1>5. \A j \in 1..Len(queue) : queue'[j] = queue[j]
    BY QueueGrows
  <1>6. Queued(c, Len(queue))' = Queued(c, Len(queue)) \cup {m \in Minutes : event = <<c, m>>}
    BY <1>2, <1>3, <1>5, QueueGrows DEF Queued
  <1> QED
    BY <1>4, <1>6

LEMMA PolledFeed == ASSUME Typed, PolledAll, NEW s \in Symbols, Feed(s),
                          UNCHANGED <<rows, absent>>
                   PROVE  PolledAll'
  <1> USE DEF Typed, TypeOK, CandlesTypeOK
  <1> PICK m \in Quoted[s] \cap Minutes :
        Sends(s, m) /\ queue' = Append(queue, <<s, m>>) /\ pending' = [pending EXCEPT ![s] = @ \ {m}]
    BY DEF Feed
  <1>1. /\ alive /\ alive' = alive /\ subs[s] # {} /\ UNCHANGED <<now, subs, at, request>>
        /\ queue \in Seq(Events) /\ <<s, m>> \in Events
    BY DEF Feed, Events
  <1> SUFFICES ASSUME NEW c \in Symbols PROVE Polled(c)'
    BY DEF PolledAll
  <1>2. Polled(c)
    BY DEF PolledAll
  <1>3. Unused(c)'
    BY <1>1, <1>2 DEF Polled, Unused, request
  <1>4. Owed(c)' = Owed(c) /\ Active' = Active
    BY <1>1 DEF Owed, Active, request
  <1>5. Solo(c)'
    <2> SUFFICES ASSUME Alone(c) PROVE Solo(c)'
      BY <1>1 DEF Solo, Alone, Suspended, request
    <2>1. /\ Active = {c} /\ began[c] <= now
          /\ \A u \in Contains[c] \ {c} : subs[u] = {}
          /\ \A i \in 1..Len(queue) : queue[i][1] \in Contains[c] => queue[i][1] = c
          /\ at[c] = "subscribe" => subs[c] = {} /\ Queued(c, Len(queue)) = {}
      BY <1>1, <1>2 DEF Polled, Solo
    <2>2. s \notin Contains[c] \/ s = c
      BY <1>1, <2>1
    <2>3. \A i \in 1..Len(queue') : queue'[i][1] \in Contains[c] => queue'[i][1] = c
      BY <1>1, <2>1, <2>2, QueueGrows
    <2>4. at[c] = "subscribe" => Queued(c, Len(queue))' = {}
      <3>1. at[c] = "subscribe" => c # s
        BY <1>1, <2>1
      <3> QED
        BY <1>1, <2>1, <3>1, QueuedGrows
    <2> QED
      BY <1>1, <1>4, <2>1, <2>3, <2>4 DEF Solo, request
  <1>6. Listening(c)'
    <2> SUFFICES ASSUME at[c] = "listen", trouble[c] = "none" PROVE Coming(c)' /\ LastRepeats(c)'
      BY <1>1 DEF Listening, request
    <2>1. Coming(c) /\ LastRepeats(c) /\ began[c] <= now /\ Queued(c, Len(queue)) \subseteq Minutes
      BY <1>1, <1>2 DEF Polled, Listening, Solo, Alone, Suspended, Queued
    <2>2. /\ Queued(c, Len(queue))' = Queued(c, Len(queue)) \cup {n \in Minutes : <<s, m>> = <<c, n>>}
          /\ \A i \in 0..Len(queue) : Queued(c, i)' = Queued(c, i)
      BY <1>1, QueuedGrows
    <2>3. got' = got /\ began' = began
      BY <1>1 DEF request
    <2>4. CASE c = s
      <3>1. {n \in Minutes : <<s, m>> = <<c, n>>} = {m} /\ pending'[c] = pending[c] \ {m}
        BY <2>4
      <3>2. Coming(c)'
        BY <1>4, <2>1, <2>2, <2>3, <3>1 DEF Coming
      <3>3. ASSUME m \in got[c] \cup Queued(c, Len(queue)), m >= began[c] - Gate
            PROVE  Owed(c) \subseteq got[c] \cup Queued(c, Len(queue))
        <4>1. m \notin pending[c]
          BY <2>1, <3>3 DEF Coming
        <4>2. ~(m < began[c] - Gate)
          BY <3>3, CandlesAssumption DEF CandlesAssumption, Minutes
        <4>3. pending[c] = {}
          BY <2>4, <4>1, <4>2 DEF Sends
        <4> QED
          BY <2>1, <4>3 DEF Coming
      <3>4. LastRepeats(c)'
        <4> SUFFICES ASSUME NEW i \in 1..Len(queue'), NEW n \in Minutes,
                            queue'[i] = <<c, n>>, n >= began[c] - Gate,
                            n \in got[c] \cup Queued(c, i - 1)'
                     PROVE  Owed(c) \subseteq got[c] \cup Queued(c, i - 1)'
          BY <1>4, <2>3 DEF LastRepeats
        <4>1. i - 1 \in 0..Len(queue) /\ Queued(c, i - 1)' = Queued(c, i - 1)
          BY <1>1, <2>2, QueueGrows
        <4>2. CASE i \in 1..Len(queue)
          <5>1. queue'[i] = queue[i]
            BY <1>1, <4>2, QueueGrows
          <5> QED
            BY <2>1, <4>1, <4>2, <5>1 DEF LastRepeats
        <4>3. CASE i = Len(queue') /\ i - 1 = Len(queue)
          <5>1. n = m
            BY <1>1, <4>3, QueueGrows
          <5> QED
            BY <3>3, <4>1, <4>3, <5>1
        <4> QED
          BY <1>1, <4>2, <4>3, QueueGrows
      <3> QED
        BY <3>2, <3>4
    <2>5. CASE c # s
      <3>1. {n \in Minutes : <<s, m>> = <<c, n>>} = {} /\ pending'[c] = pending[c]
        BY <2>5
      <3>2. Coming(c)'
        BY <1>4, <2>1, <2>2, <2>3, <3>1 DEF Coming
      <3>3. LastRepeats(c)'
        <4> SUFFICES ASSUME NEW i \in 1..Len(queue'), NEW n \in Minutes,
                            queue'[i] = <<c, n>>, n >= began[c] - Gate,
                            n \in got[c] \cup Queued(c, i - 1)'
                     PROVE  Owed(c) \subseteq got[c] \cup Queued(c, i - 1)'
          BY <1>4, <2>3 DEF LastRepeats
        <4>1. i - 1 \in 0..Len(queue) /\ Queued(c, i - 1)' = Queued(c, i - 1)
          BY <1>1, <2>2, QueueGrows
        <4>2. i \in 1..Len(queue) /\ queue'[i] = queue[i]
          BY <1>1, <2>5, QueueGrows
        <4> QED
          BY <2>1, <4>1, <4>2 DEF LastRepeats
      <3> QED
        BY <3>2, <3>3
    <2> QED
      BY <2>4, <2>5
  <1>7. Kept(c)'
    BY <1>1, <1>2, <1>4 DEF Polled, Kept, request
  <1> QED
    BY <1>2, <1>3, <1>5, <1>6, <1>7 DEF Polled

LEMMA PolledDies == ASSUME PolledAll, Dies, UNCHANGED <<rows, absent>> PROVE PolledAll'
  <1> SUFFICES ASSUME NEW c \in Symbols PROVE Polled(c)'
    BY DEF PolledAll
  <1>1. Polled(c)
    BY DEF PolledAll
  <1>2. ~alive' /\ subs' = For({}) /\ UNCHANGED <<now, queue, at, request, rows, absent>>
    BY DEF Dies
  <1>3. Owed(c)' = Owed(c) /\ Active' = Active /\ \A i : Queued(c, i)' = Queued(c, i)
    BY <1>2 DEF Owed, Active, Queued, request
  <1>4. Solo(c)'
    <2>1. \A u \in Contains[c] : subs'[u] = {}
      BY <1>2, CandlesAssumption DEF CandlesAssumption, For
    <2>2. subs'[c] = {}
      BY <1>2 DEF For
    <2> QED
      BY <1>1, <1>2, <1>3, <2>1, <2>2 DEF Polled, Solo, Alone, Suspended, request
  <1>5. Listening(c)'
    <2>1. LastRepeats(c) => LastRepeats(c)'
      BY <1>2, <1>3 DEF LastRepeats, request
    <2> QED
      BY <1>1, <1>2, <2>1 DEF Polled, Listening, request
  <1>6. Unused(c)' /\ Kept(c)'
    BY <1>1, <1>2, <1>3 DEF Polled, Unused, Kept, request
  <1> QED
    BY <1>4, <1>5, <1>6 DEF Polled

-----------------------------------------------------------------------------
(* The poller. *)

LEMMA PolledRequest == ASSUME Typed, PolledAll, NEW s \in Symbols, Request(s) PROVE PolledAll'
  <1> USE DEF Typed, TypeOK, CandlesTypeOK
  <1>1. /\ at[s] = "todo" /\ at' = [at EXCEPT ![s] = "subscribe"]
        /\ began' = [began EXCEPT ![s] = now] /\ \A u \in Symbols \ {s} : start'[u] = start[u]
        /\ trouble' = [u \in Symbols |->
             IF u = s THEN Disturbed(s)
             ELSE IF u \in Active /\ trouble[u] = "none" THEN "shared" ELSE trouble[u]]
        /\ UNCHANGED <<now, alive, subs, pending, queue, got, repeated, rows, absent>>
    BY DEF Request, Begin, Goes, feed, tables
  <1> SUFFICES ASSUME NEW c \in Symbols PROVE Polled(c)'
    BY DEF PolledAll
  <1>2. Polled(c)
    BY DEF PolledAll
  <1>3. CASE c = s
    <2>1. Unused(c)' /\ Listening(c)' /\ Kept(c)'
      BY <1>1, <1>2, <1>3 DEF Polled, Unused, Listening, Kept
    <2>2. Solo(c)'
      <3> SUFFICES ASSUME trouble'[c] = "none" PROVE Solo(c)'
        BY DEF Solo, Alone
      <3>1. ~Leftovers(c) /\ Active = {}
        BY <1>1, <1>3 DEF Disturbed
      <3>2. /\ \A i \in 1..Len(queue) : queue[i][1] \notin Contains[c]
            /\ \A u \in Contains[c] : subs[u] = {}
        BY <3>1 DEF Leftovers
      <3>3. c \in Contains[c]
        BY CandlesAssumption DEF CandlesAssumption
      <3>4. Active' = {c}
        BY <1>1, <1>3, <3>1 DEF Active
      <3>5. Queued(c, Len(queue))' = {}
        BY <1>1, <3>2, <3>3 DEF Queued
      <3>6. began'[c] <= now'
        BY <1>1, <1>3, CandlesAssumption DEF CandlesAssumption, Minutes
      <3> QED
        BY <1>1, <3>2, <3>3, <3>4, <3>5, <3>6 DEF Solo
    <2> QED
      BY <2>1, <2>2 DEF Polled
  <1>4. CASE c # s
    <2>1. at'[c] = at[c] /\ ~Alone(c)'
      BY <1>1, <1>4 DEF Alone, Suspended, Active
    <2>2. trouble'[c] = "none" => trouble[c] = "none"
      BY <1>1, <1>4
    <2>3. Owed(c)' = Owed(c)
      BY <1>1, <1>4 DEF Owed
    <2>4. Solo(c)' /\ Listening(c)'
      BY <2>1 DEF Solo, Listening, Alone, Suspended
    <2> QED
      BY <1>1, <1>2, <2>1, <2>2, <2>3, <2>4 DEF Polled, Unused, Kept
  <1> QED
    BY <1>3, <1>4

LEMMA PolledWrite == ASSUME Typed, PolledAll, NEW s \in Symbols, Write(s) PROVE PolledAll'
  <1> USE DEF Typed, TypeOK, CandlesTypeOK
  <1>1. /\ at[s] \in {"returned", "commit"}
        /\ at' = [at EXCEPT ![s] = at'[s]] /\ at'[s] \in {"commit", "done", "failed"}
        /\ UNCHANGED <<now, alive, subs, pending, queue>>
        /\ \A c \in Symbols \ {s} :
             /\ start'[c] = start[c] /\ began'[c] = began[c] /\ got'[c] = got[c]
             /\ repeated'[c] = repeated[c] /\ trouble'[c] = trouble[c] /\ absent'[c] = absent[c]
             /\ rows'[c] = rows[c]
    BY DEF Write, Lookup, Insert, WriteFails, Over, Goes, feed, request, tables
  <1> SUFFICES ASSUME NEW c \in Symbols PROVE Polled(c)'
    BY DEF PolledAll
  <1>2. Polled(c)
    BY DEF PolledAll
  <1>3. CASE c = s
    <2>1. Solo(c)' /\ Listening(c)'
      BY <1>1, <1>3 DEF Solo, Alone, Suspended, Listening
    <2>2. CASE at'[s] = "commit"
      <3>1. absent'[s] = got[s] \ rows[s] /\ UNCHANGED <<request, rows>>
        BY <1>1, <2>2 DEF Write, Lookup, Insert, WriteFails, Over, Goes, tables
      <3>2. Owed(c)' = Owed(c)
        BY <3>1 DEF Owed, request
      <3> QED
        BY <1>1, <1>2, <1>3, <2>1, <2>2, <3>1, <3>2 DEF Polled, Unused, Kept, request
    <2>3. CASE at'[s] # "commit"
      <3>1. got'[s] = {} /\ ~repeated'[s]
        BY <1>1, <2>3 DEF Write, Lookup, Insert, WriteFails, Over, Goes
      <3> QED
        BY <1>1, <1>3, <2>1, <2>3, <3>1 DEF Polled, Unused, Kept
    <2> QED
      BY <2>2, <2>3
  <1>4. CASE c # s
    <2>1. Active' = Active /\ at'[c] = at[c]
      BY <1>1, <1>4 DEF Active
    <2>2. Owed(c)' = Owed(c) /\ \A i : Queued(c, i)' = Queued(c, i)
      BY <1>1, <1>4 DEF Owed, Queued
    <2>3. Solo(c)'
      BY <1>1, <1>2, <1>4, <2>1, <2>2 DEF Polled, Solo, Alone, Suspended
    <2>4. /\ UNCHANGED <<queue, pending, now>>
          /\ got'[c] = got[c] /\ began'[c] = began[c] /\ start'[c] = start[c]
          /\ repeated'[c] = repeated[c] /\ trouble'[c] = trouble[c] /\ absent'[c] = absent[c]
          /\ rows'[c] = rows[c]
      BY <1>1, <1>4
    <2>5. Coming(c)' = Coming(c)
      BY <2>2, <2>4 DEF Coming
    <2>6. LastRepeats(c)' = LastRepeats(c)
      BY <2>2, <2>4 DEF LastRepeats
    <2> QED
      BY <1>1, <1>2, <1>4, <2>1, <2>2, <2>3, <2>4, <2>5, <2>6 DEF Polled, Unused, Listening, Kept
  <1> QED
    BY <1>3, <1>4

LEMMA PolledStep == ASSUME Typed, PolledAll, [Next]_vars PROVE PolledAll'
  <1> USE DEF Typed, TypeOK, CandlesTypeOK
  <1>1. CASE Tick \/ Elsewhere \/ PassBegins \/ Refreshed \/ ReadCandidates \/ Check \/ PollRaises
             \/ UNCHANGED vars
    <2>1. UNCHANGED <<feed, queue, at, request, absent>>
      BY <1>1 DEF Tick, Elsewhere, PassBegins, Refreshed, ReadCandidates, Check, PollRaises, vars, candles
    <2>2. \A c \in Symbols : rows[c] \subseteq rows'[c]
      BY <1>1 DEF Tick, Elsewhere, PassBegins, Refreshed, ReadCandidates, Check, PollRaises, vars, tables
    <2>3. now' \in Minutes /\ now <= now'
      BY <1>1, CandlesAssumption
      DEF CandlesAssumption, Minutes, Tick, Elsewhere, PassBegins, Refreshed, ReadCandidates, Check,
          PollRaises, vars, candles
    <2> QED
      BY <2>1, <2>2, <2>3, PolledStill
  <1>2. CASE ReadChain \/ Persist
    <2>1. /\ phase \in {"chain", "persist"} /\ chosen \in SUBSET Symbols /\ UNCHANGED request
          /\ Gather(chosen) \/ at' = at
      BY <1>2 DEF ReadChain, Persist
    <2>2. \A c \in Symbols : at[c] = "none" /\ at'[c] \in {"none", "todo"}
      BY <2>1 DEF Quiet, For, Gather
    <2> QED
      BY <2>1, <2>2, PolledAtRest
  <1>3. CASE Gathered
    BY <1>3, PolledAtRest DEF Gathered, Ended, For
  <1>4. CASE Candle
    <2>1. UNCHANGED <<rows, absent>>
      BY <1>4 DEF Candle, tables
    <2>2. ASSUME NEW s \in Symbols, Advance(s) \/ Take(s) PROVE PolledAll'
      <3>1. Polled(s)'
        BY <2>2, PolledSubscribed, PolledRaised, PolledEnds, PolledTake DEF Advance
      <3> QED
        BY <2>1, <2>2, <3>1, PolledOthers DEF PolledAll
    <2> QED
      BY <1>4, <2>1, <2>2, PolledFeed, PolledDies DEF Candle, RequestOrFeed
  <1>5. CASE Stop
    <2>1. UNCHANGED <<at, request>> /\ at = For("none")
      BY <1>5 DEF Stop, Quiet
    <2> QED
      BY <2>1, PolledAtRest DEF For
  <1> QED
    BY <1>1, <1>2, <1>3, <1>4, <1>5, PolledRequest, PolledWrite DEF Next, Pass

(* A step that ends the poll of a contract leaves its window in the table. *)
LEMMA EndCovers ==
  ASSUME Typed, PolledAll, [Next]_vars, NEW c \in Symbols,
         at[c] \in {"returned", "commit"}, at'[c] = "done", repeated[c], trouble[c] = "none"
  PROVE  Owed(c) \subseteq rows'[c]
  <1> USE DEF Typed, TypeOK, CandlesTypeOK
  <1>1. Kept(c) /\ Owed(c) \subseteq got[c]
    BY DEF PolledAll, Polled, Kept
  <1>2. Write(c)
    <2>1. phase = "gather"
      BY DEF Quiet, For
    <2>2. ASSUME NEW s \in Symbols, Advance(s) \/ Take(s) PROVE FALSE
      <3>1. (Suspended(s) /\ at'[c] = at[c]) \/ s = c
        BY <2>2, AdvanceTypes, TakeTypes, OthersKeep
      <3> QED
        BY <2>2, <3>1, AdvanceTypes, TakeTypes DEF Suspended
    <2>3. ASSUME NEW s \in Symbols, Request(s) \/ Write(s), s # c PROVE FALSE
      BY <2>3 DEF Request, Begin, Write, Lookup, Insert, WriteFails, Over, Goes
    <2>4. ~Request(c)
      BY DEF Request
    <2>5. ~(Tick \/ Elsewhere \/ Pass \/ Stop \/ UNCHANGED vars \/ Dies \/ \E s \in Symbols : Feed(s))
      BY <2>1 DEF Tick, Elsewhere, Pass, PassBegins, Refreshed, ReadCandidates, ReadChain, Check, Persist,
                  PollRaises, Gathered, Stop, Dies, Feed, For, vars, candles
    <2> QED
      BY <2>2, <2>3, <2>4, <2>5 DEF Next, Candle, RequestOrFeed
  <1>3. CASE Lookup(c)
    BY <1>1, <1>3 DEF Lookup, Goes
  <1>4. CASE Insert(c)
    BY <1>1, <1>4 DEF Insert, Kept
  <1>5. CASE WriteFails(c)
    BY <1>5 DEF WriteFails, Over, Goes
  <1> QED
    BY <1>2, <1>3, <1>4, <1>5 DEF Write

(***************************************************************************)
(* A poll that saw the candle in progress twice, alone with a queue that   *)
(* held nothing of its symbol, has left no minute of its lookback without  *)
(* a row: repeat_key_min_value, and the skip-if-exists write.              *)
(***************************************************************************)
THEOREM WindowIsCovered == Spec => WindowCovered
  <1>1. Init => Typed /\ PolledAll
    BY TypedInit, PolledInit
  <1>2. Typed /\ PolledAll /\ [Next]_vars => (Typed /\ PolledAll)'
    BY TypedStep, PolledStep
  <1> DEFINE Covers(c) ==
        at[c] \in {"returned", "commit"} /\ at'[c] = "done" /\ repeated[c] /\ trouble[c] = "none"
          => Owed(c) \subseteq rows'[c]
  <1>3. Typed /\ PolledAll /\ [Next]_vars => [\A c \in Symbols : Covers(c)]_vars
    BY EndCovers
  <1> QED
    BY <1>1, <1>2, <1>3, PTL DEF Spec, WindowCovered
=============================================================================
