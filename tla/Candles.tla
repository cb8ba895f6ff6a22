------------------------------ MODULE Candles ------------------------------
(***************************************************************************)
(* The requests for candles: TastyTradeSource.request_candles              *)
(* (service/sources/tastytrade.py) and the loop of collect_events          *)
(* (service/sources/_async_utils.py) under it.                             *)
(*                                                                         *)
(* A request subscribes its symbol, takes events until one of the limits   *)
(* ends it, and unsubscribes.  All requests of a process share one         *)
(* connection and its one queue of Candle events: an event goes to one of  *)
(* those that listen, which drops it when it is not to its filter, and     *)
(* what nobody takes is there for the next request.                        *)
(*                                                                         *)
(* The feed sends the history of a subscription in any order and may       *)
(* repeat what is older than the gate; after the history it sends the      *)
(* candle of the minute in progress over and over.  An event is a symbol   *)
(* and a minute.  Who makes the requests is in the module that extends     *)
(* this one.                                                               *)
(***************************************************************************)
EXTENDS Integers, Sequences, FiniteSets

CONSTANTS
  Symbols,
  Contains,   \* symbol -> the symbols whose names contain its own
  Quoted,     \* symbol -> the minutes that have a candle
  Gate,       \* minutes by which a repeated candle may be older than the request
  MaxTime,    \* bound: the clock stops here
  MaxQueue,   \* bound: events in the queue
  MaxFaults   \* bound: commands that raise on a connection that is alive

Minutes == 0..MaxTime
Events == Symbols \X Minutes

ASSUME CandlesAssumption ==
  /\ MaxTime \in Nat /\ Gate \in Nat /\ MaxQueue \in Nat /\ MaxFaults \in Nat
  /\ IsFiniteSet(Symbols)
  /\ Contains \in [Symbols -> SUBSET Symbols] /\ \A s \in Symbols : s \in Contains[s]
  /\ Quoted \in [Symbols -> SUBSET Nat]

VARIABLES
  now,
  alive,      \* the connection works
  subs,       \* symbol -> how the server is subscribed to it: "candle", "plain"
  pending,    \* symbol -> minutes of its history the feed has yet to send
  queue,      \* DXLinkStreamer's queue of Candle events
  at,         \* symbol -> the await its request is suspended in, or how it ended
  via,        \* symbol -> subscribed_via
  start,      \* symbol -> start_time
  began,      \* symbol -> request_started
  got,        \* symbol -> minutes of the events kept
  faults,     \* commands that raised so far
  repeated,   \* history: symbol -> its request ended with a repeated candle
  trouble,    \* history: symbol -> what disturbed its request: "none", "shared"
              \* (another one used the queue), "spoilt" (by what was left of
              \* earlier ones, or by a subscription without a start time)
  leftover    \* history: symbol -> subscriptions a command that raised may have left

feed == <<alive, subs, pending, faults, leftover>>
request == <<via, start, began, got, repeated, trouble>>

-----------------------------------------------------------------------------
Active == {s \in Symbols : at[s] \in {"subscribe", "fallback", "listen", "unsubscribe"}}

For(value) == [s \in Symbols |-> value]

CandlesInit ==
  /\ now = 0 /\ alive = TRUE
  /\ subs = For({}) /\ pending = For({}) /\ queue = <<>>
  /\ at = For("none")
  /\ via = For("none") /\ start = For(0) /\ began = For(0) /\ got = For({})
  /\ repeated = For(FALSE) /\ trouble = For("none")
  /\ faults = 0 /\ leftover = For({})

Goes(s, await) == at' = [at EXCEPT ![s] = await]

-----------------------------------------------------------------------------
(* The request begins.  What was left of earlier ones is not cleared away. *)

Leftovers(s) ==
  \/ \E i \in 1..Len(queue) : queue[i][1] \in Contains[s]
  \/ \E u \in Contains[s] \ Active : subs[u] # {}

Disturbed(s) ==
  IF Leftovers(s) THEN "spoilt" ELSE IF Active # {} THEN "shared" ELSE "none"

Begin(s, first) ==
  /\ Goes(s, "subscribe")
  /\ start' = [start EXCEPT ![s] = first] /\ began' = [began EXCEPT ![s] = now]
  /\ trouble' = [u \in Symbols |->
       IF u = s THEN Disturbed(s)
       ELSE IF u \in Active /\ trouble[u] = "none" THEN "shared" ELSE trouble[u]]
  /\ UNCHANGED <<now, feed, queue, via, got, repeated>>

History(s) == {m \in Quoted[s] \cap Minutes : start[s] <= m /\ m <= now}

(* A subscription of the given form reaches the server, which sends `minutes`. *)
Reaches(s, form, minutes) ==
  /\ alive
  /\ subs' = [subs EXCEPT ![s] = @ \cup {form}]
  /\ pending' = [pending EXCEPT ![s] = minutes]

(* A command of s raises: what it has done at the server is not known. *)
Raises(s, form) ==
  /\ alive => faults < MaxFaults
  /\ faults' = IF alive THEN faults + 1 ELSE faults
  /\ leftover' = [leftover EXCEPT ![s] = IF alive THEN @ \cup {form} ELSE @]

Listens(s, form) ==
  /\ Goes(s, "listen")
  /\ via' = [via EXCEPT ![s] = form]

Subscribed(s) ==
  /\ at[s] = "subscribe"
  /\ Reaches(s, "candle", History(s)) /\ Listens(s, "candle")
  /\ UNCHANGED <<now, alive, queue, start, began, got, repeated, trouble, faults, leftover>>

SubscribeRaises(s) ==
  /\ at[s] = "subscribe"
  /\ Raises(s, "candle")
  /\ Reaches(s, "candle", History(s)) \/ UNCHANGED <<subs, pending>>
  /\ Goes(s, "fallback")
  /\ UNCHANGED <<now, alive, queue, request>>

(* subscribe() has no start time: of the history any part may come. *)
FallbackSubscribed(s) ==
  /\ at[s] = "fallback"
  /\ \E minutes \in SUBSET History(s) : Reaches(s, "plain", minutes)
  /\ Listens(s, "plain")
  /\ trouble' = [trouble EXCEPT ![s] = "spoilt"]
  /\ UNCHANGED <<now, alive, queue, start, began, got, repeated, faults, leftover>>

(* The request is over, in whatever way, and nothing is left of it. *)
Over(s, how) ==
  /\ Goes(s, how)
  /\ via' = [via EXCEPT ![s] = "none"]
  /\ start' = [start EXCEPT ![s] = 0] /\ began' = [began EXCEPT ![s] = 0]
  /\ got' = [got EXCEPT ![s] = {}]
  /\ repeated' = [repeated EXCEPT ![s] = FALSE] /\ trouble' = [trouble EXCEPT ![s] = "none"]

(* The request raises, and nothing is unsubscribed. *)
FallbackRaises(s) ==
  /\ at[s] = "fallback"
  /\ Raises(s, "plain")
  /\ Reaches(s, "plain", {}) \/ UNCHANGED <<subs, pending>>
  /\ Over(s, "failed")
  /\ UNCHANGED <<now, alive, queue>>

-----------------------------------------------------------------------------
(* The feed. *)

(* A candle of the history, an old one once more, or the one in progress. *)
Sends(s, m) ==
  \/ m \in pending[s]
  \/ start[s] <= m /\ m < began[s] - Gate
  \/ pending[s] = {} /\ m = now

Feed(s) ==
  /\ alive /\ subs[s] # {} /\ Len(queue) < MaxQueue
  /\ \E m \in Quoted[s] \cap Minutes :
       /\ Sends(s, m)
       /\ queue' = Append(queue, <<s, m>>)
       /\ pending' = [pending EXCEPT ![s] = @ \ {m}]
  /\ UNCHANGED <<now, alive, subs, faults, leftover, at, request>>

Dies ==
  /\ alive /\ alive' = FALSE
  /\ subs' = For({}) /\ pending' = For({})
  /\ UNCHANGED <<now, queue, at, request, faults, leftover>>

-----------------------------------------------------------------------------
(* collect_events *)

(* Mutant: the first repetition of whatever candle ends the request. *)
EndsWithEager(s, m) == m \in got[s]

(* A candle seen before, and recent enough to be the one in progress. *)
EndsWith(s, m) == m \in got[s] /\ m >= began[s] - Gate

(* s is the one that gets the next event; the filter looks for a substring. *)
Take(s) ==
  /\ at[s] = "listen" /\ queue # <<>>
  /\ queue' = Tail(queue)
  /\ LET event == Head(queue)
     IN IF event[1] \notin Contains[s] THEN UNCHANGED <<at, got, repeated>>
        ELSE /\ got' = [got EXCEPT ![s] = @ \cup {event[2]}]
             /\ IF EndsWith(s, event[2])
                THEN Goes(s, "unsubscribe") /\ repeated' = [repeated EXCEPT ![s] = TRUE]
                ELSE UNCHANGED <<at, repeated>>
  /\ UNCHANGED <<now, feed, via, start, began, trouble>>

(***************************************************************************)
(* Nothing that passes the filter came for a while, the time is up, there  *)
(* are too many events, or listen() raises: what has come is the result.   *)
(***************************************************************************)
GivesUp(s) ==
  /\ at[s] = "listen"
  /\ Goes(s, "unsubscribe")
  /\ UNCHANGED <<now, feed, queue, request>>

Removed(s, form) ==
  /\ subs' = [subs EXCEPT ![s] = @ \ {form}]
  /\ pending' = [pending EXCEPT ![s] = IF subs[s] \subseteq {form} THEN {} ELSE @]

(* Mutant: unsubscribe(), whichever way the subscription was made. *)
UnsubscribedPlain(s) ==
  /\ at[s] = "unsubscribe"
  /\ Removed(s, "plain") /\ Goes(s, "returned")
  /\ leftover' = [leftover EXCEPT ![s] = @ \ {via[s]}]
  /\ UNCHANGED <<now, alive, queue, request, faults>>

(* unsubscribe_candle() or unsubscribe(), as the subscription was made. *)
Unsubscribed(s) ==
  /\ at[s] = "unsubscribe"
  /\ Removed(s, via[s]) /\ Goes(s, "returned")
  /\ leftover' = [leftover EXCEPT ![s] = @ \ {via[s]}]
  /\ UNCHANGED <<now, alive, queue, request, faults>>

(* It is logged, and the request returns all the same. *)
UnsubscribeRaises(s) ==
  /\ at[s] = "unsubscribe"
  /\ Raises(s, via[s])
  /\ Removed(s, via[s]) \/ UNCHANGED <<subs, pending>>
  /\ Goes(s, "returned")
  /\ UNCHANGED <<now, alive, queue, request>>

-----------------------------------------------------------------------------
(* Mutant: a request that hears nothing waits on. *)
AdvanceUntimed(s) ==
  \/ Subscribed(s) \/ SubscribeRaises(s) \/ FallbackSubscribed(s) \/ FallbackRaises(s)
  \/ Unsubscribed(s) \/ UnsubscribeRaises(s)

(* What the event loop, or a time limit, sees to. *)
Advance(s) ==
  \/ Subscribed(s) \/ SubscribeRaises(s) \/ FallbackSubscribed(s) \/ FallbackRaises(s)
  \/ GivesUp(s) \/ Unsubscribed(s) \/ UnsubscribeRaises(s)

RequestOrFeed == Dies \/ \E s \in Symbols : Advance(s) \/ Take(s) \/ Feed(s)

(* The part of the type invariant that is about the requests and the feed. *)
CandlesTypeOK ==
  /\ now \in Minutes /\ alive \in BOOLEAN
  /\ subs \in [Symbols -> SUBSET {"candle", "plain"}]
  /\ leftover \in [Symbols -> SUBSET {"candle", "plain"}]
  /\ pending \in [Symbols -> SUBSET Minutes] /\ queue \in Seq(Events)
  /\ via \in [Symbols -> {"none", "candle", "plain"}]
  /\ start \in [Symbols -> Minutes] /\ began \in [Symbols -> Minutes]
  /\ got \in [Symbols -> SUBSET Minutes] /\ repeated \in [Symbols -> BOOLEAN]
  /\ trouble \in [Symbols -> {"none", "shared", "spoilt"}]
  /\ faults \in 0..MaxFaults

(***************************************************************************)
(* No request leaves a subscription behind, except where a command raised: *)
(* left ones keep filling the queue, and add up until the server refuses   *)
(* more.  About _unsubscribe_candle_compat mirroring the way taken.        *)
(***************************************************************************)
NoLeakedSubscription == \A s \in Symbols \ Active : subs[s] \subseteq leftover[s]
=============================================================================
