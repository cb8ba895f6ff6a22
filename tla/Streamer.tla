------------------------------ MODULE Streamer ------------------------------
(***************************************************************************)
(* The streaming side of service/sources/tastytrade.py as the ingestion    *)
(* service uses it: one DXLink connection, shared by a listener task for   *)
(* Quote events, one for Greeks events and the refresh cycle of            *)
(* service/ingestion/pipeline.py, and closed by service/ingestion/main.py. *)
(*                                                                         *)
(* A task runs from one await to the next, so one action is what a task    *)
(* does between two awaits; at[t] names the await it is suspended in.  The *)
(* two asyncio locks need no variable: _streamer_lock is held by a task    *)
(* that awaits a connection, and _reconnect_lock by a listener from        *)
(* "auth" to the end of its resubscription.                                *)
(*                                                                         *)
(* The feed is not under the repository: a connection may die at any time, *)
(* a command on a dead one raises, one on a live one may time out after    *)
(* part of its symbols went through, and a listener may raise only once    *)
(* its connection is dead or closed.                                       *)
(***************************************************************************)
EXTENDS Integers

CONSTANTS
  Underlyings,   \* feed symbols of the configured tickers
  Contracts,     \* symbols of the option contracts in the chain
  Conns,         \* names of connections; a name is used again once forgotten
  None,
  MaxDrops       \* bound: connections the feed drops

ASSUME StreamerAssumption ==
  /\ Underlyings # {} /\ Underlyings \cap Contracts = {}
  /\ Conns \subseteq Int /\ None \notin Conns
  /\ MaxDrops \in Nat

Kinds == {"Quote", "Greeks"}   \* event types; each names its listener task
Tasks == Kinds \cup {"refresh"}
Symbols == Underlyings \cup Contracts

VARIABLES
  streamer,  \* TastyTradeSource._streamer
  alive,     \* connections that are up
  subs,      \* connection -> event type -> symbols the server sends
  wanted,    \* _quote_symbols and _greeks_symbols
  tracked,   \* ContractManager._tracked
  diff,      \* what the refresh under way added and removed
  started,   \* the first refresh has ended, so a failing one is survived
  at,        \* task -> the await it is suspended in
  on,        \* task -> the connection it uses there, or None
  batch,     \* task -> the symbols of its command there
  doing,     \* event type the refresh is at
  closing,   \* how far main() has come with the shutdown
  drops,     \* connections dropped so far
  unsent     \* history: symbols whose subscription raised in the refresh,
             \* by event type, since the connection was made

feed == <<alive, subs, drops>>
manager == <<tracked, diff, started, doing>>
vars == <<streamer, feed, wanted, manager, at, on, batch, closing, unsent>>

-----------------------------------------------------------------------------
Nothing == [k \in Kinds |-> {}]

Connecting(t) == at[t] \in {"connect", "reconnect"}

Reconnecting(t) == at[t] \in {"auth", "reensure", "reconnect", "Quote", "Greeks"}

(* Nobody waits for _streamer_lock either: a newcomer takes it at once. *)
StreamerLockIdle ==
  \A t \in Tasks : at[t] \notin {"ensure", "reensure", "connect", "reconnect"}

ReconnectLockIdle == \A t \in Kinds : ~Reconnecting(t) /\ at[t] # "queue"

Closed == closing \in {"quotes", "greeks", "streamer", "done"}

Init ==
  /\ streamer = None
  /\ alive = {} /\ subs = [c \in Conns |-> Nothing] /\ drops = 0
  /\ wanted = Nothing
  /\ tracked = {} /\ diff = [added |-> {}, removed |-> {}]
  /\ started = FALSE /\ doing = "Quote"
  /\ at = [t \in Tasks |-> IF t = "refresh" THEN "idle" ELSE "off"]
  /\ on = [t \in Tasks |-> None]
  /\ batch = [t \in Tasks |-> {}]
  /\ closing = "no"
  /\ unsent = Nothing

(* Task t is suspended in `await`, with connection c and symbols S in hand. *)
Suspend(t, await, c, S) ==
  /\ at' = [at EXCEPT ![t] = await]
  /\ on' = [on EXCEPT ![t] = c]
  /\ batch' = [batch EXCEPT ![t] = S]

-----------------------------------------------------------------------------
(* The listener loops and the reconnection. *)

(***************************************************************************)
(* The top of the loop: ends if the source is closed; otherwise goes       *)
(* through _ensure_streamer, which does not suspend when the lock is idle  *)
(* and there is a streamer.                                                *)
(***************************************************************************)
LoopTop(t) ==
  IF Closed THEN Suspend(t, "ended", None, {})
  ELSE IF StreamerLockIdle /\ streamer # None
  THEN Suspend(t, "listen", streamer, {})
  ELSE Suspend(t, "ensure", None, {})

(***************************************************************************)
(* _reconnect with its lock just taken: there is nothing to do when the    *)
(* streamer is there again.                                                *)
(***************************************************************************)
Reconnect(t) ==
  IF streamer # None \/ Closed THEN LoopTop(t)
  ELSE Suspend(t, "auth", None, {})

(* Mutant: both listeners may reconnect at once. *)
EnterReconnectUnlocked(t) == Reconnect(t)

EnterReconnect(t) ==
  IF ReconnectLockIdle THEN Reconnect(t) ELSE Suspend(t, "queue", None, {})

ListenerStarts(t) ==
  /\ at[t] = "starting"
  /\ LoopTop(t)
  /\ UNCHANGED <<streamer, feed, wanted, manager, closing, unsent>>

(***************************************************************************)
(* A listener finds its connection gone and tears down whatever streamer   *)
(* there is now; without one, it goes straight on to the reconnection.     *)
(***************************************************************************)
MarkDisconnected(t) ==
  /\ at[t] = "listen" /\ on[t] \notin alive
  /\ IF Closed THEN Suspend(t, "ended", None, {}) /\ UNCHANGED streamer
     ELSE IF streamer = None THEN EnterReconnect(t) /\ UNCHANGED streamer
     ELSE /\ Suspend(t, "closing", streamer, {})
          /\ streamer' = None
  /\ UNCHANGED <<feed, wanted, manager, closing, unsent>>

CloseEnds(t) ==
  /\ at[t] = "closing"
  /\ alive' = alive \ {on[t]}
  /\ subs' = [subs EXCEPT ![on[t]] = Nothing]
  /\ EnterReconnect(t)
  /\ UNCHANGED <<streamer, drops, wanted, manager, closing, unsent>>

ReconnectLockTaken(t) ==
  /\ at[t] = "queue" /\ \A u \in Kinds : ~Reconnecting(u)
  /\ Reconnect(t)
  /\ UNCHANGED <<streamer, feed, wanted, manager, closing, unsent>>

(* Quotes first: the underlyings are always among them. *)
Resubscribe(t, c) == Suspend(t, "Quote", c, wanted["Quote"])

Authenticated(t) ==
  /\ at[t] = "auth"
  /\ IF StreamerLockIdle /\ streamer # None THEN Resubscribe(t, streamer)
     ELSE Suspend(t, "reensure", None, {})
  /\ UNCHANGED <<streamer, feed, wanted, manager, closing, unsent>>

(* The next attempt, after a delay; none when the source is closed. *)
NextAttempt(t) == IF Closed THEN LoopTop(t) ELSE Suspend(t, "auth", None, {})

AuthenticationFails(t) ==
  /\ at[t] = "auth"
  /\ NextAttempt(t)
  /\ UNCHANGED <<streamer, feed, wanted, manager, closing, unsent>>

Resubscribed(t) ==
  /\ at[t] \in Kinds /\ on[t] \in alive
  /\ subs' = [subs EXCEPT ![on[t]][at[t]] = @ \cup batch[t]]
  /\ IF at[t] = "Quote" /\ wanted["Greeks"] # {}
     THEN Suspend(t, "Greeks", on[t], wanted["Greeks"])
     ELSE LoopTop(t)
  /\ UNCHANGED <<streamer, alive, drops, wanted, manager, closing, unsent>>

(* What a command that raised got through to the server: all, part or none. *)
PartlySent(t, k) ==
  IF on[t] \in alive
  THEN \E part \in SUBSET batch[t] :
         subs' = [subs EXCEPT ![on[t]][k] = @ \cup part]
  ELSE UNCHANGED subs

(* Mutant: what fails while resubscribing is logged and left at that. *)
ResubscribeFailsGivesUp(t) ==
  /\ at[t] \in Kinds
  /\ PartlySent(t, at[t])
  /\ LoopTop(t)
  /\ UNCHANGED <<streamer, alive, drops, wanted, manager, closing, unsent>>

ResubscribeFails(t) ==
  /\ at[t] \in Kinds
  /\ PartlySent(t, at[t])
  /\ NextAttempt(t)
  /\ UNCHANGED <<streamer, alive, drops, wanted, manager, closing, unsent>>

-----------------------------------------------------------------------------
(* _ensure_streamer where it suspends: the lock, then the connection. *)

(* What follows once the streamer c is returned to t. *)
Proceed(t, c) ==
  IF t = "refresh"
  THEN Suspend(t, IF batch[t] = {} THEN "subscribed" ELSE "send", c, batch[t])
  ELSE IF at[t] \in {"ensure", "connect"} THEN Suspend(t, "listen", c, {})
  ELSE Resubscribe(t, c)

(* Mutant: the lock holder connects without looking at the streamer again. *)
StreamerLockTakenNoCheck(t) ==
  /\ at[t] \in {"ensure", "reensure"} /\ \A u \in Tasks : ~Connecting(u)
  /\ Suspend(t, IF at[t] = "ensure" THEN "connect" ELSE "reconnect", None, batch[t])
  /\ UNCHANGED <<streamer, feed, wanted, manager, closing, unsent>>

StreamerLockTaken(t) ==
  /\ at[t] \in {"ensure", "reensure"} /\ \A u \in Tasks : ~Connecting(u)
  /\ IF streamer # None THEN Proceed(t, streamer)
     ELSE Suspend(t, IF at[t] = "ensure" THEN "connect" ELSE "reconnect", None, batch[t])
  /\ UNCHANGED <<streamer, feed, wanted, manager, closing, unsent>>

Unused(c) == c \notin alive \cup {streamer} \cup {on[t] : t \in Tasks}

Connected(t) ==
  /\ Connecting(t)
  /\ \E c \in Conns :
       /\ Unused(c) /\ \A d \in Conns : Unused(d) => c <= d
       /\ streamer' = c
       /\ alive' = alive \cup {c}
       /\ Proceed(t, c)
  /\ unsent' = Nothing
  /\ UNCHANGED <<subs, drops, wanted, manager, closing>>

(* The cycle raises; the first one ends the service, the others do not. *)
RefreshRaises ==
  /\ Suspend("refresh", IF started THEN "idle" ELSE "ended", None, {})
  /\ diff' = [added |-> {}, removed |-> {}]
  /\ doing' = "Quote"
  /\ unsent' = [unsent EXCEPT ![doing] = @ \cup batch["refresh"]]
  /\ UNCHANGED <<tracked, started>>

(***************************************************************************)
(* A listener whose connection attempt fails goes on as if it had lost a   *)
(* connection; there is no streamer to tear down.                          *)
(***************************************************************************)
ConnectFails(t) ==
  /\ Connecting(t)
  /\ IF t = "refresh" THEN RefreshRaises
     ELSE /\ IF at[t] = "reconnect" THEN NextAttempt(t)
             ELSE IF Closed THEN Suspend(t, "ended", None, {})
             ELSE EnterReconnect(t)
          /\ UNCHANGED <<manager, unsent>>
  /\ UNCHANGED <<streamer, feed, wanted, closing>>

-----------------------------------------------------------------------------
(* The refresh cycle: subscribe_quotes, subscribe_greeks, unsubscribe. *)

(***************************************************************************)
(* subscribe_quotes or subscribe_greeks up to its first await.  With       *)
(* nothing new to send it does not suspend after the streamer is there;    *)
(* "subscribed" is then no await, but what is left of the step only        *)
(* touches what the refresh owns, so the order of the others is the same.  *)
(***************************************************************************)
Subscribe(k, S) ==
  LET new == S \ wanted[k]
  IN /\ wanted' = [wanted EXCEPT ![k] = @ \cup S]
     /\ doing' = k
     /\ IF StreamerLockIdle /\ streamer # None
        THEN Suspend("refresh", IF new = {} THEN "subscribed" ELSE "send", streamer, new)
        ELSE Suspend("refresh", "ensure", None, new)

(* The contract manager has settled on the contracts in S. *)
Refresh(S) ==
  /\ at["refresh"] = "idle"
  /\ tracked' = S
  /\ diff' = [added |-> S \ tracked, removed |-> tracked \ S]
  /\ Subscribe("Quote", (S \ tracked) \cup Underlyings)
  /\ UNCHANGED <<streamer, feed, started, closing, unsent>>

Sent ==
  /\ at["refresh"] = "send" /\ on["refresh"] \in alive
  /\ subs' = [subs EXCEPT ![on["refresh"]][doing] = @ \cup batch["refresh"]]
  /\ Suspend("refresh", "subscribed", on["refresh"], {})
  /\ UNCHANGED <<streamer, alive, drops, wanted, manager, closing, unsent>>

SendFails ==
  /\ at["refresh"] = "send"
  /\ PartlySent("refresh", doing)
  /\ RefreshRaises
  /\ UNCHANGED <<streamer, alive, drops, wanted, closing>>

(* unsubscribe returns and the cycle is over. *)
RefreshEnds(await) ==
  /\ wanted' = [k \in Kinds |-> wanted[k] \ diff.removed]
  /\ at' = [await EXCEPT !["refresh"] = "idle"]
  /\ on' = [on EXCEPT !["refresh"] = None]
  /\ batch' = [batch EXCEPT !["refresh"] = {}]
  /\ diff' = [added |-> {}, removed |-> {}]
  /\ started' = TRUE
  /\ doing' = "Quote"

(* The unsubscribe command of kind k, on connection c. *)
SendUnsubscribe(await, c, k) ==
  /\ at' = [await EXCEPT !["refresh"] = "drop"]
  /\ on' = [on EXCEPT !["refresh"] = c]
  /\ batch' = [batch EXCEPT !["refresh"] = diff.removed \cap wanted[k]]
  /\ doing' = k
  /\ UNCHANGED <<wanted, diff, started>>

(* subscribe_* starts its listener, unless one is running. *)
WithListener(k) == [at EXCEPT ![k] = IF @ \in {"off", "ended"} THEN "starting" ELSE @]

Unsubscribe(await) ==
  IF streamer = None THEN RefreshEnds(await)
  ELSE IF diff.removed \cap wanted["Quote"] # {} THEN SendUnsubscribe(await, streamer, "Quote")
  ELSE IF diff.removed \cap wanted["Greeks"] # {} THEN SendUnsubscribe(await, streamer, "Greeks")
  ELSE RefreshEnds(await)

Subscribed ==
  /\ at["refresh"] = "subscribed"
  /\ IF doing = "Quote" /\ diff.added # {}
     THEN /\ wanted' = [wanted EXCEPT !["Greeks"] = @ \cup diff.added]
          /\ doing' = "Greeks"
          /\ LET new == diff.added \ wanted["Greeks"]
                 direct == StreamerLockIdle /\ streamer # None
             IN /\ at' = [WithListener("Quote") EXCEPT !["refresh"] =
                           IF ~direct THEN "ensure"
                           ELSE IF new = {} THEN "subscribed" ELSE "send"]
                /\ on' = [on EXCEPT !["refresh"] = IF direct THEN streamer ELSE None]
                /\ batch' = [batch EXCEPT !["refresh"] = new]
          /\ UNCHANGED <<tracked, diff, started>>
     ELSE Unsubscribe(WithListener(doing)) /\ UNCHANGED tracked
  /\ UNCHANGED <<streamer, feed, closing, unsent>>

(* Sent or not, the cycle goes on with the same streamer. *)
Unsubscribed ==
  LET c == on["refresh"]
  IN /\ at["refresh"] = "drop"
     /\ \/ c \in alive /\ subs' = [subs EXCEPT ![c][doing] = @ \ batch["refresh"]]
        \/ UNCHANGED subs
     /\ IF doing = "Quote" /\ diff.removed \cap wanted["Greeks"] # {}
        THEN SendUnsubscribe(at, c, "Greeks")
        ELSE RefreshEnds(at)
     /\ UNCHANGED <<streamer, alive, drops, tracked, closing, unsent>>

-----------------------------------------------------------------------------
(* The feed, and the shutdown. *)

Drop(c) ==
  /\ c \in alive /\ drops < MaxDrops
  /\ drops' = drops + 1
  /\ alive' = alive \ {c}
  /\ subs' = [subs EXCEPT ![c] = Nothing]
  /\ UNCHANGED <<streamer, wanted, manager, at, on, batch, closing, unsent>>

(* main() is stopped, or run() has raised: the run task ends. *)
Stop ==
  /\ closing = "no"
  /\ closing' = "stopping"
  /\ Suspend("refresh", "ended", None, {})
  /\ UNCHANGED <<streamer, feed, wanted, manager, unsent>>

(***************************************************************************)
(* TastyTradeSource.close().  A listener that is cancelled ends wherever   *)
(* it is suspended; the tear-down it may be awaiting is cut short.         *)
(***************************************************************************)
CancelListener(k) ==
  IF at[k] = "off" THEN UNCHANGED <<at, on, batch>> ELSE Suspend(k, "ended", None, {})

CloseBegins ==
  /\ closing = "stopping"
  /\ closing' = "quotes"
  /\ CancelListener("Quote")
  /\ UNCHANGED <<streamer, feed, wanted, manager, unsent>>

(* Mutant: the Greeks listener is left running. *)
CloseGoesOnQuoteOnly ==
  /\ closing = "quotes"
  /\ closing' = "greeks"
  /\ UNCHANGED <<streamer, feed, wanted, manager, at, on, batch, unsent>>

CloseGoesOn ==
  /\ closing = "quotes"
  /\ closing' = "greeks"
  /\ CancelListener("Greeks")
  /\ UNCHANGED <<streamer, feed, wanted, manager, unsent>>

CloseEndsAll ==
  /\ closing = "greeks"
  /\ closing' = "done"
  /\ streamer' = None
  /\ alive' = alive \ {streamer}
  /\ subs' = [c \in Conns |-> IF c = streamer THEN Nothing ELSE subs[c]]
  /\ UNCHANGED <<drops, wanted, manager, at, on, batch, unsent>>

-----------------------------------------------------------------------------
Listener(t) ==
  \/ ListenerStarts(t)
  \/ MarkDisconnected(t)
  \/ CloseEnds(t)
  \/ ReconnectLockTaken(t)
  \/ Authenticated(t)
  \/ AuthenticationFails(t)
  \/ Resubscribed(t)
  \/ ResubscribeFails(t)

EnsureStreamer(t) == StreamerLockTaken(t) \/ Connected(t) \/ ConnectFails(t)

Cycle ==
  \/ \E S \in SUBSET Contracts : Refresh(S)
  \/ Sent
  \/ SendFails
  \/ Subscribed
  \/ Unsubscribed

Shutdown == Stop \/ CloseBegins \/ CloseGoesOn \/ CloseEndsAll

Next ==
  \/ \E t \in Kinds : Listener(t)
  \/ \E t \in Tasks : EnsureStreamer(t)
  \/ Cycle
  \/ \E c \in Conns : Drop(c)
  \/ Shutdown

Spec == Init /\ [][Next]_vars

(***************************************************************************)
(* The event loop runs every task that can run, and what is tried again    *)
(* and again at a healthy feed works in the end: a login, a connection,    *)
(* and each of the two commands of a resubscription for itself.  A command *)
(* on a dead connection has no such promise.  The locks are first-come     *)
(* first-served.                                                           *)
(***************************************************************************)
FairSpec ==
  /\ Spec
  /\ \A t \in Kinds :
       /\ WF_vars(Listener(t))
       /\ SF_vars(ReconnectLockTaken(t))
       /\ SF_vars(Authenticated(t))
       /\ \A k \in Kinds : SF_vars(at[t] = k /\ Resubscribed(t))
  /\ \A t \in Tasks :
       /\ WF_vars(EnsureStreamer(t))
       /\ SF_vars(StreamerLockTaken(t))
       /\ SF_vars(Connected(t))
  /\ WF_vars(Sent \/ SendFails \/ Subscribed \/ Unsubscribed)
  /\ WF_vars(CloseBegins \/ CloseGoesOn \/ CloseEndsAll)

-----------------------------------------------------------------------------
(* Properties. *)

ListenerAwaits == {"off", "starting", "ensure", "connect", "listen", "closing", "queue",
                   "auth", "reensure", "reconnect", "Quote", "Greeks", "ended"}

RefreshAwaits == {"idle", "ensure", "connect", "send", "subscribed", "drop", "ended"}

(***************************************************************************)
(* The variables have their types, and each lock has one holder: one task  *)
(* at a time awaits a connection, and one listener reconnects.             *)
(***************************************************************************)
TypeOK ==
  /\ streamer \in Conns \cup {None}
  /\ alive \subseteq Conns
  /\ subs \in [Conns -> [Kinds -> SUBSET Symbols]]
  /\ wanted \in [Kinds -> SUBSET Symbols]
  /\ tracked \subseteq Contracts
  /\ diff \in [added : SUBSET Contracts, removed : SUBSET Contracts]
  /\ started \in BOOLEAN
  /\ at \in [Tasks -> ListenerAwaits \cup RefreshAwaits]
  /\ at["refresh"] \in RefreshAwaits /\ \A k \in Kinds : at[k] \in ListenerAwaits
  /\ on \in [Tasks -> Conns \cup {None}]
  /\ batch \in [Tasks -> SUBSET Symbols]
  /\ doing \in Kinds
  /\ closing \in {"no", "stopping", "quotes", "greeks", "done"}
  /\ drops \in 0..MaxDrops
  /\ unsent \in [Kinds -> SUBSET Symbols]
  /\ \A t, u \in Tasks : Connecting(t) /\ Connecting(u) => t = u
  /\ \A t, u \in Kinds : Reconnecting(t) /\ Reconnecting(u) => t = u

Running == closing \in {"no", "stopping"}

(***************************************************************************)
(* No connection is left open and forgotten: one that is up is the         *)
(* streamer, or a listener is tearing it down.  About the second look at   *)
(* self._streamer under _streamer_lock, with listeners that clear it at    *)
(* any time.                                                               *)
(***************************************************************************)
NoLeakedConnection ==
  Running => \A c \in alive : c = streamer \/ \E t \in Kinds : at[t] = "closing" /\ on[t] = c

(* Symbols of kind k the refresh has in hand: its command is under way. *)
InHand(k) ==
  IF at["refresh"] = "drop" THEN diff.removed
  ELSE IF doing = k THEN batch["refresh"] ELSE {}

ServedBy(c, k) == wanted[k] \ (InHand(k) \cup unsent[k]) \subseteq subs[c][k]

(***************************************************************************)
(* A listener that brings a connection back and ends its resubscription    *)
(* leaves nothing out: if that connection still is the streamer, every     *)
(* symbol tracked at that moment is subscribed on it, unless the refresh   *)
(* is just now sending or removing it, or was told that its own command    *)
(* failed.  About _resubscribe_all reading each symbol set when its turn   *)
(* comes while subscribe_* and unsubscribe change them.                    *)
(***************************************************************************)
ResubscriptionComplete ==
  [][\A t \in Kinds :
       closing = "no" /\ at[t] \in Kinds /\ at'[t] \in {"listen", "ensure"} =>
         \A c \in alive : on[t] = c /\ streamer = c => (\A k \in Kinds : ServedBy(c, k))']_vars

(***************************************************************************)
(* After close() there is no streamer and no task that could make one,     *)
(* whatever reconnection close() came upon.  About the order of            *)
(* TastyTradeSource.close.                                                 *)
(***************************************************************************)
ClosedForGood ==
  closing = "done" =>
    streamer = None /\ \A t \in Tasks : at[t] \in {"off", "ended"}

(***************************************************************************)
(* tastytrade.py, lines 21-22: a reconnection "resubscribes every          *)
(* currently-tracked symbol".  A listener that comes back from             *)
(* _reconnect goes on with a connection that serves them all.              *)
(***************************************************************************)
ReconnectResubscribes ==
  [][\A t \in Kinds :
       at[t] \in {"queue", "closing"} \cup Kinds /\ at'[t] = "listen" =>
         \A c \in alive : on'[t] = c => (\A k \in Kinds : ServedBy(c, k))']_vars

(***************************************************************************)
(* tastytrade.py, lines 64-67: "this is a long-lived, unattended service,  *)
(* so we never just give up".  A listener that waits for the other's       *)
(* reconnection gets its turn.                                             *)
(***************************************************************************)
NeverGivesUp ==
  \A t \in Kinds : at[t] = "queue" ~> at[t] # "queue"
=============================================================================
