--------------------------- MODULE StreamerProofs ---------------------------
(***************************************************************************)
(* Proofs about Streamer, for any number of symbols and connections.       *)
(*                                                                         *)
(* That no connection is forgotten rests on one fact about the locks: as   *)
(* long as a task awaits a connection there is no streamer, so the one it  *)
(* comes back with replaces nothing.  Listeners clear the streamer at any  *)
(* time, but only the holder of _streamer_lock sets it.                    *)
(*                                                                         *)
(* That a resubscription leaves nothing out rests on what the streamer     *)
(* should send and does not (Missing): all of it is in the hands of the    *)
(* listener that resubscribes, or of a kind whose turn is yet to come      *)
(* (Resumes), since no other step adds to it.  A command of the refresh    *)
(* only excuses what is missing as long as it is meant for this streamer.  *)
(***************************************************************************)
EXTENDS Streamer, TLAPS

Awaits(t) == IF t = "refresh" THEN RefreshAwaits ELSE ListenerAwaits

(* Task t goes on to an await of A; nobody else moves. *)
Moves(t, A) ==
  \E a \in A, c \in Conns \cup {None}, S \in SUBSET Symbols : Suspend(t, a, c, S)

TasksTyped ==
  /\ at \in [Tasks -> ListenerAwaits \cup RefreshAwaits]
  /\ at["refresh"] \in RefreshAwaits /\ \A k \in Kinds : at[k] \in ListenerAwaits
  /\ on \in [Tasks -> Conns \cup {None}]
  /\ batch \in [Tasks -> SUBSET Symbols]

DataTyped ==
  /\ streamer \in Conns \cup {None}
  /\ alive \subseteq Conns
  /\ subs \in [Conns -> [Kinds -> SUBSET Symbols]]
  /\ wanted \in [Kinds -> SUBSET Symbols]
  /\ tracked \subseteq Contracts
  /\ diff \in [added : SUBSET Contracts, removed : SUBSET Contracts]
  /\ started \in BOOLEAN
  /\ doing \in Kinds
  /\ closing \in {"no", "stopping", "quotes", "greeks", "done"}
  /\ drops \in 0..MaxDrops
  /\ unsent \in [Kinds -> SUBSET Symbols]

OneConnects == \A t, u \in Tasks : Connecting(t) /\ Connecting(u) => t = u

OneReconnects == \A t, u \in Kinds : Reconnecting(t) /\ Reconnecting(u) => t = u

(* Whoever connects does so because there is no streamer. *)
NoneWhileConnecting == \A t \in Tasks : Connecting(t) => streamer = None

(* What the shutdown has stopped stays stopped. *)
Over(t) == at[t] \in {"off", "ended"}

Stopped ==
  /\ closing # "no" => at["refresh"] = "ended"
  /\ closing \in {"quotes", "greeks", "done"} => Over("Quote")
  /\ closing \in {"greeks", "done"} => Over("Greeks")
  /\ closing = "done" => streamer = None

Inv == TypeOK /\ NoneWhileConnecting /\ NoLeakedConnection /\ Stopped

-----------------------------------------------------------------------------
(* Where a task can go from the composite steps. *)

LEMMA KindsAreTasks ==
  \A k \in Kinds : k \in Tasks /\ k # "refresh"
  BY DEF Kinds, Tasks

(* A task that moves to an await of its own keeps the tasks typed. *)
LEMMA MoveTyped ==
  ASSUME TasksTyped, NEW t \in Tasks, NEW A, A \subseteq Awaits(t), Moves(t, A)
  PROVE  TasksTyped'
  BY KindsAreTasks DEF TasksTyped, Moves, Suspend, Awaits, Tasks, Kinds

LEMMA LoopTopMoves ==
  ASSUME NEW t \in Kinds, streamer \in Conns \cup {None}, LoopTop(t)
  PROVE  Moves(t, {"ended", "listen", "ensure"})
  BY DEF LoopTop, Moves

LEMMA ReconnectMoves ==
  ASSUME NEW t \in Kinds, streamer \in Conns \cup {None}, Reconnect(t)
  PROVE  Moves(t, {"ended", "listen", "ensure", "auth"})
  <1>1. CASE streamer # None \/ Closed
    BY <1>1, LoopTopMoves DEF Reconnect, Moves
  <1>2. CASE ~(streamer # None \/ Closed)
    BY <1>2 DEF Reconnect, Moves
  <1> QED BY <1>1, <1>2

(* Only one that finds the reconnect lock idle begins a reconnection. *)
LEMMA EnterReconnectMoves ==
  ASSUME NEW t \in Kinds, streamer \in Conns \cup {None}, EnterReconnect(t)
  PROVE  \/ Moves(t, {"ended", "listen", "ensure", "queue"})
         \/ Moves(t, {"auth"}) /\ \A u \in Kinds : ~Reconnecting(u)
  <1>1. CASE ReconnectLockIdle /\ (streamer # None \/ Closed)
    BY <1>1, LoopTopMoves DEF EnterReconnect, Reconnect, Moves
  <1>2. CASE ReconnectLockIdle /\ ~(streamer # None \/ Closed)
    BY <1>2 DEF EnterReconnect, Reconnect, Moves, ReconnectLockIdle
  <1>3. CASE ~ReconnectLockIdle
    BY <1>3 DEF EnterReconnect, Moves
  <1> QED BY <1>1, <1>2, <1>3

LEMMA NextAttemptMoves ==
  ASSUME NEW t \in Kinds, streamer \in Conns \cup {None}, NextAttempt(t)
  PROVE  Moves(t, {"ended", "listen", "ensure", "auth"})
  <1>1. CASE Closed
    BY <1>1, LoopTopMoves DEF NextAttempt, Moves
  <1>2. CASE ~Closed
    BY <1>2 DEF NextAttempt, Moves
  <1> QED BY <1>1, <1>2

(* With the streamer in hand, a listener listens or resubscribes. *)
LEMMA ProceedMoves ==
  ASSUME TypeOK, NEW t \in Tasks, NEW c \in Conns, Proceed(t, c)
  PROVE  /\ t = "refresh" => Moves(t, {"subscribed", "send"})
         /\ t \in Kinds /\ at[t] \in {"ensure", "connect"} => Moves(t, {"listen"})
         /\ t \in Kinds /\ at[t] \notin {"ensure", "connect"} => Moves(t, {"Quote"})
  BY KindsAreTasks DEF Proceed, Resubscribe, Moves, TypeOK, Kinds

-----------------------------------------------------------------------------
(* Type correctness. *)

LEMMA TypeParts ==
  TypeOK <=> DataTyped /\ TasksTyped /\ OneConnects /\ OneReconnects
  BY DEF TypeOK, DataTyped, TasksTyped, OneConnects, OneReconnects

LEMMA TypePartsNext ==
  TypeOK' <=> DataTyped' /\ TasksTyped' /\ OneConnects' /\ OneReconnects'
  BY DEF TypeOK, DataTyped, TasksTyped, OneConnects, OneReconnects, Connecting, Reconnecting

(* Moving to where no lock is held keeps every lock with one holder. *)
LEMMA MoveOutside ==
  ASSUME TypeOK, NEW t \in Tasks, NEW A, A \subseteq Awaits(t), Moves(t, A),
         A \cap {"connect", "auth", "reensure", "reconnect", "Quote", "Greeks"} = {}
  PROVE  TasksTyped' /\ OneConnects' /\ OneReconnects'
  <1>1. TasksTyped'
    BY MoveTyped, TypeParts
  <1>2. PICK a \in A, c \in Conns \cup {None}, S \in SUBSET Symbols : Suspend(t, a, c, S)
    BY DEF Moves
  <1>3. at' = [at EXCEPT ![t] = a]
        /\ a \notin {"connect", "auth", "reensure", "reconnect", "Quote", "Greeks"}
    BY <1>2 DEF Suspend
  <1>4. OneConnects'
    BY <1>3, TypeParts DEF OneConnects, Connecting, TasksTyped
  <1>5. OneReconnects'
    BY <1>3, TypeParts, KindsAreTasks DEF OneReconnects, Reconnecting, TasksTyped
  <1> QED BY <1>1, <1>4, <1>5

(* Going on with a reconnection, or beginning one when nobody is at it. *)
LEMMA MoveReconnecting ==
  ASSUME TypeOK, NEW t \in Kinds, NEW A, A \subseteq ListenerAwaits, Moves(t, A),
         A \cap {"connect", "reconnect"} = {},
         Reconnecting(t) \/ \A u \in Kinds : ~Reconnecting(u)
  PROVE  TasksTyped' /\ OneConnects' /\ OneReconnects'
  <1>1. TasksTyped'
    BY MoveTyped, TypeParts, KindsAreTasks DEF Awaits
  <1>2. PICK a \in A, c \in Conns \cup {None}, S \in SUBSET Symbols : Suspend(t, a, c, S)
    BY DEF Moves
  <1>3. at' = [at EXCEPT ![t] = a] /\ a \notin {"connect", "reconnect"}
    BY <1>2 DEF Suspend
  <1>4. OneConnects'
    BY <1>3, TypeParts DEF OneConnects, Connecting, TasksTyped
  <1>5. OneReconnects'
    BY <1>3, TypeParts, KindsAreTasks DEF OneReconnects, Reconnecting, TasksTyped
  <1> QED BY <1>1, <1>4, <1>5

LEMMA EnterReconnectTyped ==
  ASSUME TypeOK, NEW t \in Kinds, EnterReconnect(t)
  PROVE  TasksTyped' /\ OneConnects' /\ OneReconnects'
  <1>0. streamer \in Conns \cup {None}
    BY TypeParts DEF DataTyped
  <1>1. CASE Moves(t, {"ended", "listen", "ensure", "queue"})
    BY <1>1, MoveOutside, KindsAreTasks DEF Awaits, ListenerAwaits
  <1>2. CASE Moves(t, {"auth"}) /\ \A u \in Kinds : ~Reconnecting(u)
    BY <1>2, MoveReconnecting DEF ListenerAwaits
  <1> QED BY <1>0, <1>1, <1>2, EnterReconnectMoves

LEMMA PartlySentTyped ==
  ASSUME DataTyped, NEW t \in Tasks, NEW k \in Kinds, batch[t] \in SUBSET Symbols,
         PartlySent(t, k)
  PROVE  subs' \in [Conns -> [Kinds -> SUBSET Symbols]]
  <1>1. CASE on[t] \in alive
    <2>1. PICK part \in SUBSET batch[t] : subs' = [subs EXCEPT ![on[t]][k] = @ \cup part]
      BY <1>1 DEF PartlySent
    <2>2. on[t] \in Conns /\ part \in SUBSET Symbols
      BY <1>1 DEF DataTyped
    <2> QED BY <2>1, <2>2 DEF DataTyped
  <1>2. CASE on[t] \notin alive
    BY <1>2 DEF PartlySent, DataTyped
  <1> QED BY <1>1, <1>2

LEMMA ListenerTyped ==
  ASSUME TypeOK, NEW t \in Kinds, Listener(t)
  PROVE  TypeOK'
  <1> USE DEF feed, manager
  <1>0. DataTyped /\ TasksTyped /\ streamer \in Conns \cup {None} /\ t \in Tasks
    BY TypeParts, KindsAreTasks DEF DataTyped
  <1>a. ASSUME Moves(t, {"ended", "listen", "ensure", "closing"})
        PROVE  TasksTyped' /\ OneConnects' /\ OneReconnects'
    BY <1>a, <1>0, MoveOutside, KindsAreTasks DEF Awaits, ListenerAwaits
  <1>b. ASSUME Moves(t, {"ended", "listen", "ensure", "auth", "reensure", "Quote", "Greeks"}),
               Reconnecting(t) \/ \A u \in Kinds : ~Reconnecting(u)
        PROVE  TasksTyped' /\ OneConnects' /\ OneReconnects'
    BY <1>b, <1>0, MoveReconnecting DEF ListenerAwaits
  <1>1. CASE ListenerStarts(t)
    <2>1. Moves(t, {"ended", "listen", "ensure", "closing"})
      BY <1>0, <1>1, LoopTopMoves DEF ListenerStarts, Moves
    <2>2. DataTyped'
      BY <1>0, <1>1 DEF ListenerStarts, DataTyped
    <2> QED BY <1>a, <2>1, <2>2, TypePartsNext
  <1>2. CASE MarkDisconnected(t)
    <2>1. DataTyped'
      BY <1>0, <1>2 DEF MarkDisconnected, DataTyped
    <2>2. CASE EnterReconnect(t)
      BY <2>1, <2>2, EnterReconnectTyped, TypePartsNext
    <2>3. CASE ~EnterReconnect(t)
      <3>1. Moves(t, {"ended", "listen", "ensure", "closing"})
        BY <1>0, <1>2, <2>3 DEF MarkDisconnected, Moves
      <3> QED BY <1>a, <2>1, <3>1, TypePartsNext
    <2> QED BY <2>2, <2>3
  <1>3. CASE CloseEnds(t)
    <2>1. DataTyped'
      BY <1>0, <1>3 DEF CloseEnds, DataTyped, Nothing
    <2> QED BY <1>3, <2>1, EnterReconnectTyped, TypePartsNext DEF CloseEnds
  <1>4. CASE ReconnectLockTaken(t)
    <2>1. Moves(t, {"ended", "listen", "ensure", "auth", "reensure", "Quote", "Greeks"})
      BY <1>0, <1>4, ReconnectMoves DEF ReconnectLockTaken, Moves
    <2>2. DataTyped'
      BY <1>0, <1>4 DEF ReconnectLockTaken, DataTyped
    <2> QED BY <1>b, <1>4, <2>1, <2>2, TypePartsNext DEF ReconnectLockTaken
  <1>5. CASE Authenticated(t)
    <2>1. Moves(t, {"ended", "listen", "ensure", "auth", "reensure", "Quote", "Greeks"})
      BY <1>0, <1>5 DEF Authenticated, Moves, Resubscribe, DataTyped, Kinds
    <2>2. DataTyped'
      BY <1>0, <1>5 DEF Authenticated, DataTyped
    <2>3. Reconnecting(t)
      BY <1>5 DEF Authenticated, Reconnecting
    <2> QED BY <1>b, <2>1, <2>2, <2>3, TypePartsNext
  <1>6. CASE AuthenticationFails(t)
    <2>1. Moves(t, {"ended", "listen", "ensure", "auth", "reensure", "Quote", "Greeks"})
      BY <1>0, <1>6, NextAttemptMoves DEF AuthenticationFails, Moves
    <2>2. DataTyped'
      BY <1>0, <1>6 DEF AuthenticationFails, DataTyped
    <2>3. Reconnecting(t)
      BY <1>6 DEF AuthenticationFails, Reconnecting
    <2> QED BY <1>b, <2>1, <2>2, <2>3, TypePartsNext
  <1>7. CASE Resubscribed(t)
    <2>1. Moves(t, {"ended", "listen", "ensure", "auth", "reensure", "Quote", "Greeks"})
      <3>1. CASE at[t] = "Quote" /\ wanted["Greeks"] # {}
        BY <1>0, <1>7, <3>1 DEF Resubscribed, Moves, DataTyped, Kinds
      <3>2. CASE ~(at[t] = "Quote" /\ wanted["Greeks"] # {})
        BY <1>0, <1>7, <3>2, LoopTopMoves DEF Resubscribed, Moves
      <3> QED BY <3>1, <3>2
    <2>2. DataTyped'
      <3>1. at[t] \in Kinds /\ on[t] \in Conns /\ batch[t] \in SUBSET Symbols
        BY <1>0, <1>7 DEF Resubscribed, DataTyped, TasksTyped
      <3>2. subs' \in [Conns -> [Kinds -> SUBSET Symbols]]
        BY <1>0, <1>7, <3>1 DEF Resubscribed, DataTyped
      <3> QED BY <1>0, <1>7, <3>2 DEF Resubscribed, DataTyped
    <2>3. Reconnecting(t)
      BY <1>7 DEF Resubscribed, Reconnecting, Kinds
    <2> QED BY <1>b, <2>1, <2>2, <2>3, TypePartsNext
  <1>8. CASE ResubscribeFails(t)
    <2>1. Moves(t, {"ended", "listen", "ensure", "auth", "reensure", "Quote", "Greeks"})
      BY <1>0, <1>8, NextAttemptMoves DEF ResubscribeFails, Moves
    <2>2. DataTyped'
      <3>1. at[t] \in Kinds /\ batch[t] \in SUBSET Symbols
        BY <1>0, <1>8 DEF ResubscribeFails, DataTyped, TasksTyped
      <3>2. subs' \in [Conns -> [Kinds -> SUBSET Symbols]]
        BY <1>0, <1>8, <3>1, PartlySentTyped DEF ResubscribeFails
      <3> QED BY <1>0, <1>8, <3>2 DEF ResubscribeFails, DataTyped
    <2>3. Reconnecting(t)
      BY <1>8 DEF ResubscribeFails, Reconnecting, Kinds
    <2> QED BY <1>b, <2>1, <2>2, <2>3, TypePartsNext
  <1> QED
    BY <1>1, <1>2, <1>3, <1>4, <1>5, <1>6, <1>7, <1>8 DEF Listener

LEMMA EnsureStreamerTyped ==
  ASSUME TypeOK, NEW t \in Tasks, EnsureStreamer(t)
  PROVE  TypeOK'
  <1> USE DEF feed, manager
  <1>0. DataTyped /\ TasksTyped /\ streamer \in Conns \cup {None}
        /\ (t # "refresh" => t \in Kinds) /\ batch[t] \in SUBSET Symbols
    BY TypeParts DEF DataTyped, TasksTyped, Tasks
  <1>a. ASSUME NEW c \in Conns, Proceed(t, c), at[t] \in {"ensure", "reensure"} \/ Connecting(t)
        PROVE  TasksTyped' /\ OneConnects' /\ OneReconnects'
    <2>1. CASE t = "refresh"
      <3>1. Moves(t, {"subscribed", "send"}) BY <1>a, <2>1, ProceedMoves
      <3> QED BY <2>1, <3>1, MoveOutside DEF Awaits, RefreshAwaits
    <2>2. CASE t \in Kinds /\ at[t] \in {"ensure", "connect"}
      <3>1. Moves(t, {"listen"}) BY <1>a, <2>2, ProceedMoves
      <3> QED BY <2>2, <3>1, MoveOutside, KindsAreTasks DEF Awaits, ListenerAwaits
    <2>3. CASE t \in Kinds /\ at[t] \notin {"ensure", "connect"}
      <3>1. Moves(t, {"Quote"}) BY <1>a, <2>3, ProceedMoves
      <3>2. Reconnecting(t) BY <1>a, <2>3 DEF Reconnecting, Connecting
      <3> QED BY <2>3, <3>1, <3>2, MoveReconnecting DEF ListenerAwaits
    <2> QED BY <1>0, <2>1, <2>2, <2>3
  <1>1. CASE StreamerLockTaken(t)
    <2>1. DataTyped'
      BY <1>0, <1>1 DEF StreamerLockTaken, DataTyped
    <2>2. CASE streamer # None
      BY <1>0, <1>1, <1>a, <2>1, <2>2, TypePartsNext DEF StreamerLockTaken
    <2>3. CASE streamer = None
      <3> DEFINE a == IF at[t] = "ensure" THEN "connect" ELSE "reconnect"
      <3>1. Suspend(t, a, None, batch[t]) /\ at[t] \in {"ensure", "reensure"}
        BY <1>1, <2>3 DEF StreamerLockTaken
      <3>2. a \in Awaits(t)
        BY <1>0, <3>1, KindsAreTasks DEF Awaits, ListenerAwaits, RefreshAwaits, TasksTyped
      <3>3. TasksTyped'
        <4>1. Moves(t, {a}) BY <1>0, <3>1 DEF Moves
        <4> QED BY <1>0, <3>2, <4>1, MoveTyped
      <3>4. at' = [at EXCEPT ![t] = a]
        BY <3>1 DEF Suspend
      <3>5. \A u \in Tasks : ~Connecting(u)
        BY <1>1 DEF StreamerLockTaken
      <3>6. OneConnects'
        BY <1>0, <3>4, <3>5 DEF OneConnects, Connecting, TasksTyped
      <3>7. OneReconnects'
        BY <1>0, <3>1, <3>4, TypeParts, KindsAreTasks
           DEF OneReconnects, Reconnecting, TasksTyped
      <3> QED BY <2>1, <3>3, <3>6, <3>7, TypePartsNext
    <2> QED BY <2>2, <2>3
  <1>2. CASE Connected(t)
    <2>1. PICK c \in Conns : streamer' = c /\ alive' = alive \cup {c} /\ Proceed(t, c)
      BY <1>2 DEF Connected
    <2>2. DataTyped'
      BY <1>0, <1>2, <2>1 DEF Connected, DataTyped, Nothing
    <2> QED BY <1>2, <1>a, <2>1, <2>2, TypePartsNext DEF Connected
  <1>3. CASE ConnectFails(t)
    <2>1. CASE t = "refresh"
      <3>1. RefreshRaises
        BY <1>3, <2>1 DEF ConnectFails
      <3>2. Moves(t, {"idle", "ended"})
        BY <2>1, <3>1 DEF RefreshRaises, Moves
      <3>3. DataTyped'
        BY <1>0, <1>3, <2>1, <3>1 DEF ConnectFails, RefreshRaises, DataTyped, Kinds
      <3> QED BY <2>1, <3>2, <3>3, MoveOutside, TypePartsNext DEF Awaits, RefreshAwaits
    <2>2. CASE t # "refresh"
      <3>0. t \in Kinds
        BY <1>0, <2>2
      <3>1. DataTyped'
        BY <1>0, <1>3, <2>2 DEF ConnectFails, DataTyped
      <3>2. CASE at[t] = "reconnect"
        <4>1. Moves(t, {"ended", "listen", "ensure", "auth"})
          BY <1>0, <1>3, <2>2, <3>0, <3>2, NextAttemptMoves DEF ConnectFails
        <4> QED BY <3>0, <3>1, <3>2, <4>1, MoveReconnecting, TypePartsNext
                DEF Reconnecting, ListenerAwaits
      <3>3. CASE at[t] # "reconnect" /\ Closed
        <4>1. Moves(t, {"ended"})
          BY <1>3, <2>2, <3>3 DEF ConnectFails, Moves
        <4> QED BY <3>0, <3>1, <4>1, MoveOutside, KindsAreTasks, TypePartsNext
                DEF Awaits, ListenerAwaits
      <3>4. CASE at[t] # "reconnect" /\ ~Closed
        BY <1>3, <2>2, <3>0, <3>1, <3>4, EnterReconnectTyped, TypePartsNext DEF ConnectFails
      <3> QED BY <3>2, <3>3, <3>4
    <2> QED BY <2>1, <2>2
  <1> QED BY <1>1, <1>2, <1>3 DEF EnsureStreamer

(* The refresh moves, perhaps after it has started a listener. *)
LEMMA RefreshMoved ==
  ASSUME TypeOK, NEW await,
         await = at \/ (\E k \in Kinds : await = WithListener(k)),
         NEW a \in RefreshAwaits \ {"connect"}, at' = [await EXCEPT !["refresh"] = a],
         on' \in [Tasks -> Conns \cup {None}], batch' \in [Tasks -> SUBSET Symbols]
  PROVE  TasksTyped' /\ OneConnects' /\ OneReconnects'
  <1>1. TasksTyped /\ OneConnects /\ OneReconnects
    BY TypeParts
  <1>2. /\ await \in [Tasks -> ListenerAwaits \cup RefreshAwaits]
        /\ \A k \in Kinds : await[k] \in ListenerAwaits
        /\ \A u \in Tasks : u # "refresh" => await[u] \in {at[u], "starting"}
    BY <1>1, KindsAreTasks DEF TasksTyped, WithListener, Tasks, ListenerAwaits
  <1>3. /\ at'["refresh"] = a
        /\ \A u \in Tasks : u # "refresh" => at'[u] \in {at[u], "starting"}
        /\ a # "connect" /\ a # "reconnect"
    BY <1>2 DEF Tasks, RefreshAwaits
  <1>4. TasksTyped'
    BY <1>2, <1>3, KindsAreTasks DEF TasksTyped, Tasks, RefreshAwaits
  <1>5. OneConnects'
    BY <1>1, <1>3 DEF OneConnects, Connecting
  <1>6. OneReconnects'
    BY <1>1, <1>3, KindsAreTasks DEF OneReconnects, Reconnecting
  <1> QED BY <1>4, <1>5, <1>6

LEMMA RefreshEndsTyped ==
  ASSUME TypeOK, NEW await,
         await = at \/ (\E k \in Kinds : await = WithListener(k)), RefreshEnds(await)
  PROVE  /\ TasksTyped' /\ OneConnects' /\ OneReconnects'
         /\ wanted' \in [Kinds -> SUBSET Symbols] /\ doing' \in Kinds /\ started' \in BOOLEAN
         /\ diff' \in [added : SUBSET Contracts, removed : SUBSET Contracts]
  <1>1. DataTyped /\ TasksTyped
    BY TypeParts
  <1>2. on' \in [Tasks -> Conns \cup {None}] /\ batch' \in [Tasks -> SUBSET Symbols]
    BY <1>1 DEF RefreshEnds, TasksTyped, Tasks
  <1>3. TasksTyped' /\ OneConnects' /\ OneReconnects'
    BY <1>2, RefreshMoved DEF RefreshEnds, RefreshAwaits
  <1> QED BY <1>1, <1>3 DEF RefreshEnds, DataTyped, Kinds

LEMMA SendUnsubscribeTyped ==
  ASSUME TypeOK, NEW await, NEW c \in Conns \cup {None}, NEW k \in Kinds,
         await = at \/ (\E j \in Kinds : await = WithListener(j)), SendUnsubscribe(await, c, k)
  PROVE  /\ TasksTyped' /\ OneConnects' /\ OneReconnects'
         /\ wanted' \in [Kinds -> SUBSET Symbols] /\ doing' \in Kinds /\ started' \in BOOLEAN
         /\ diff' \in [added : SUBSET Contracts, removed : SUBSET Contracts]
  <1>1. DataTyped /\ TasksTyped
    BY TypeParts
  <1>2. on' \in [Tasks -> Conns \cup {None}] /\ batch' \in [Tasks -> SUBSET Symbols]
    BY <1>1 DEF SendUnsubscribe, TasksTyped, DataTyped, Tasks, Symbols
  <1>3. TasksTyped' /\ OneConnects' /\ OneReconnects'
    BY <1>2, RefreshMoved DEF SendUnsubscribe, RefreshAwaits
  <1> QED BY <1>1, <1>3 DEF SendUnsubscribe, DataTyped

LEMMA CycleTyped ==
  ASSUME TypeOK, Cycle
  PROVE  TypeOK'
  <1> USE DEF feed, manager
  <1>0. DataTyped /\ TasksTyped /\ "refresh" \in Tasks /\ batch["refresh"] \in SUBSET Symbols
        /\ on["refresh"] \in Conns \cup {None} /\ streamer \in Conns \cup {None}
    BY TypeParts DEF DataTyped, TasksTyped, Tasks
  <1>a. ASSUME Moves("refresh", RefreshAwaits \ {"connect"})
        PROVE  TasksTyped' /\ OneConnects' /\ OneReconnects'
    BY <1>0, <1>a, MoveOutside DEF Awaits, RefreshAwaits
  <1>1. ASSUME NEW S \in SUBSET Contracts, Refresh(S) PROVE TypeOK'
    <2> DEFINE Q == (S \ tracked) \cup Underlyings
    <2>1. Q \in SUBSET Symbols /\ "Quote" \in Kinds
      BY <1>1 DEF Symbols, Kinds
    <2>2. Subscribe("Quote", Q)
      BY <1>1 DEF Refresh
    <2> HIDE DEF Q
    <2>3. Moves("refresh", RefreshAwaits \ {"connect"})
      BY <1>0, <2>1, <2>2 DEF Subscribe, Moves, RefreshAwaits
    <2>4. wanted' \in [Kinds -> SUBSET Symbols] /\ doing' \in Kinds
      BY <1>0, <2>1, <2>2 DEF Subscribe, DataTyped
    <2>5. DataTyped'
      BY <1>0, <1>1, <2>4 DEF Refresh, DataTyped
    <2> QED BY <1>a, <2>3, <2>5, TypePartsNext
  <1>2. CASE Sent
    <2>1. Moves("refresh", RefreshAwaits \ {"connect"})
      BY <1>0, <1>2 DEF Sent, Moves, RefreshAwaits
    <2>2. on["refresh"] \in Conns /\ doing \in Kinds
      BY <1>0, <1>2 DEF Sent, DataTyped
    <2>3. subs' \in [Conns -> [Kinds -> SUBSET Symbols]]
      BY <1>0, <1>2, <2>2 DEF Sent, DataTyped
    <2>4. DataTyped'
      BY <1>0, <1>2, <2>3 DEF Sent, DataTyped
    <2> QED BY <1>a, <2>1, <2>4, TypePartsNext
  <1>3. CASE SendFails
    <2>1. Moves("refresh", RefreshAwaits \ {"connect"})
      BY <1>3 DEF SendFails, RefreshRaises, Moves, RefreshAwaits
    <2>2. subs' \in [Conns -> [Kinds -> SUBSET Symbols]]
      BY <1>0, <1>3, PartlySentTyped DEF SendFails, DataTyped
    <2>3. DataTyped'
      BY <1>0, <1>3, <2>2 DEF SendFails, RefreshRaises, DataTyped, Kinds
    <2> QED BY <1>a, <2>1, <2>3, TypePartsNext
  <1>4. CASE Subscribed
    <2>1. CASE doing = "Quote" /\ diff.added # {}
      <3> DEFINE direct == StreamerLockIdle /\ streamer # None
                 a == IF ~direct THEN "ensure"
                      ELSE IF diff.added \ wanted["Greeks"] = {} THEN "subscribed" ELSE "send"
      <3>1. /\ at' = [WithListener("Quote") EXCEPT !["refresh"] = a]
            /\ on' = [on EXCEPT !["refresh"] = IF direct THEN streamer ELSE None]
            /\ batch' = [batch EXCEPT !["refresh"] = diff.added \ wanted["Greeks"]]
        BY <1>4, <2>1 DEF Subscribed
      <3>2. on' \in [Tasks -> Conns \cup {None}] /\ batch' \in [Tasks -> SUBSET Symbols]
        BY <1>0, <3>1 DEF TasksTyped, DataTyped, Symbols
      <3>3. a \in RefreshAwaits \ {"connect"} /\ "Quote" \in Kinds
        BY DEF RefreshAwaits, Kinds
      <3>4. TasksTyped' /\ OneConnects' /\ OneReconnects'
        <4> HIDE DEF a, direct
        <4> QED BY <3>1, <3>2, <3>3, RefreshMoved
      <3>5. DataTyped'
        BY <1>0, <1>4, <2>1 DEF Subscribed, DataTyped, Symbols, Kinds
      <3> QED BY <3>4, <3>5, TypePartsNext
    <2>2. CASE ~(doing = "Quote" /\ diff.added # {})
      <3> DEFINE await == WithListener(doing)
      <3>0. "Quote" \in Kinds /\ "Greeks" \in Kinds /\ doing \in Kinds
        BY <1>0 DEF Kinds, DataTyped
      <3>1. \/ RefreshEnds(await)
            \/ \E k \in Kinds : SendUnsubscribe(await, streamer, k)
        BY <1>4, <2>2, <3>0 DEF Subscribed, Unsubscribe
      <3>2. await = at \/ (\E k \in Kinds : await = WithListener(k))
        BY <3>0
      <3> HIDE DEF await
      <3>3. /\ TasksTyped' /\ OneConnects' /\ OneReconnects'
            /\ wanted' \in [Kinds -> SUBSET Symbols] /\ doing' \in Kinds /\ started' \in BOOLEAN
            /\ diff' \in [added : SUBSET Contracts, removed : SUBSET Contracts]
        BY <1>0, <3>1, <3>2, RefreshEndsTyped, SendUnsubscribeTyped
      <3>4. DataTyped'
        BY <1>0, <1>4, <2>2, <3>3 DEF Subscribed, DataTyped
      <3> QED BY <3>3, <3>4, TypePartsNext
    <2> QED BY <2>1, <2>2
  <1>5. CASE Unsubscribed
    <2>0. "Greeks" \in Kinds
      BY DEF Kinds
    <2>1. RefreshEnds(at) \/ SendUnsubscribe(at, on["refresh"], "Greeks")
      BY <1>5 DEF Unsubscribed
    <2>2. /\ TasksTyped' /\ OneConnects' /\ OneReconnects'
          /\ wanted' \in [Kinds -> SUBSET Symbols] /\ doing' \in Kinds /\ started' \in BOOLEAN
          /\ diff' \in [added : SUBSET Contracts, removed : SUBSET Contracts]
      <3>1. CASE RefreshEnds(at)
        BY <3>1, RefreshEndsTyped
      <3>2. CASE SendUnsubscribe(at, on["refresh"], "Greeks")
        BY <1>0, <2>0, <3>2, SendUnsubscribeTyped
      <3> QED BY <2>1, <3>1, <3>2
    <2>3. subs' \in [Conns -> [Kinds -> SUBSET Symbols]]
      <3>1. ASSUME NEW c \in Conns, NEW k \in Kinds, NEW S,
                   subs' = [subs EXCEPT ![c][k] = @ \ S]
            PROVE  subs' \in [Conns -> [Kinds -> SUBSET Symbols]]
        <4>1. subs[c][k] \ S \in SUBSET Symbols
          BY <1>0 DEF DataTyped
        <4> QED BY <1>0, <3>1, <4>1 DEF DataTyped
      <3>2. CASE UNCHANGED subs
        BY <1>0, <3>2 DEF DataTyped
      <3>3. CASE ~UNCHANGED subs
        <4>1. /\ on["refresh"] \in Conns /\ doing \in Kinds
              /\ subs' = [subs EXCEPT ![on["refresh"]][doing] = @ \ batch["refresh"]]
          BY <1>0, <1>5, <3>3 DEF Unsubscribed, DataTyped
        <4> QED BY <3>1, <4>1
      <3> QED BY <3>2, <3>3
    <2>4. DataTyped'
      BY <1>0, <1>5, <2>2, <2>3 DEF Unsubscribed, DataTyped
    <2> QED BY <2>2, <2>4, TypePartsNext
  <1> QED BY <1>1, <1>2, <1>3, <1>4, <1>5 DEF Cycle

LEMMA ShutdownTyped ==
  ASSUME TypeOK, Shutdown
  PROVE  TypeOK'
  <1> USE DEF feed, manager
  <1>0. DataTyped /\ TasksTyped /\ OneConnects /\ OneReconnects
    BY TypeParts
  <1>a. ASSUME NEW k \in Kinds, CancelListener(k)
        PROVE  TasksTyped' /\ OneConnects' /\ OneReconnects'
    <2>1. CASE at[k] = "off"
      BY <1>0, <1>a, <2>1
         DEF CancelListener, TasksTyped, OneConnects, OneReconnects, Connecting, Reconnecting
    <2>2. CASE at[k] # "off"
      <3>1. Moves(k, {"ended"}) BY <1>a, <2>2 DEF CancelListener, Moves
      <3> QED BY <3>1, MoveOutside, KindsAreTasks DEF Awaits, ListenerAwaits
    <2> QED BY <2>1, <2>2
  <1>1. CASE Stop
    <2>1. Moves("refresh", {"ended"})
      BY <1>1 DEF Stop, Moves
    <2>2. TasksTyped' /\ OneConnects' /\ OneReconnects'
      BY <2>1, MoveOutside DEF Awaits, RefreshAwaits, Tasks
    <2>3. DataTyped'
      BY <1>0, <1>1 DEF Stop, DataTyped
    <2> QED BY <2>2, <2>3, TypePartsNext
  <1>2. CASE CloseBegins
    <2>1. DataTyped'
      BY <1>0, <1>2 DEF CloseBegins, DataTyped
    <2> QED BY <1>2, <1>a, <2>1, TypePartsNext DEF CloseBegins, Kinds
  <1>3. CASE CloseGoesOn
    <2>1. DataTyped'
      BY <1>0, <1>3 DEF CloseGoesOn, DataTyped
    <2> QED BY <1>3, <1>a, <2>1, TypePartsNext DEF CloseGoesOn, Kinds
  <1>4. CASE CloseEndsAll
    <2>1. DataTyped'
      BY <1>0, <1>4 DEF CloseEndsAll, DataTyped, Nothing
    <2>2. TasksTyped' /\ OneConnects' /\ OneReconnects'
      BY <1>0, <1>4
         DEF CloseEndsAll, TasksTyped, OneConnects, OneReconnects, Connecting, Reconnecting
    <2> QED BY <2>1, <2>2, TypePartsNext
  <1> QED BY <1>1, <1>2, <1>3, <1>4 DEF Shutdown

LEMMA TypeStep ==
  ASSUME TypeOK, [Next]_vars
  PROVE  TypeOK'
  <1>1. ASSUME NEW c \in Conns, Drop(c) PROVE TypeOK'
    <2>1. DataTyped'
      BY <1>1, TypeParts, StreamerAssumption DEF Drop, DataTyped, manager, Nothing
    <2>2. TasksTyped' /\ OneConnects' /\ OneReconnects'
      BY <1>1, TypeParts
         DEF Drop, TasksTyped, OneConnects, OneReconnects, Connecting, Reconnecting
    <2> QED BY <2>1, <2>2, TypePartsNext
  <1>2. CASE UNCHANGED vars
    BY <1>2 DEF vars, feed, manager, TypeOK, Connecting, Reconnecting
  <1> QED
    BY <1>1, <1>2, ListenerTyped, EnsureStreamerTyped, CycleTyped, ShutdownTyped DEF Next

LEMMA TypeInit ==
  ASSUME Init
  PROVE  TypeOK
  <1>1. DataTyped
    <2>1. Nothing \in [Kinds -> SUBSET Symbols]
      BY DEF Nothing
    <2>2. 0 \in 0..MaxDrops /\ "Quote" \in Kinds
      BY StreamerAssumption DEF Kinds
    <2>3. diff \in [added : SUBSET Contracts, removed : SUBSET Contracts]
      BY DEF Init
    <2> HIDE DEF Nothing
    <2> QED BY <2>1, <2>2, <2>3 DEF Init, DataTyped
  <1>2. /\ at["refresh"] = "idle" /\ \A k \in Kinds : at[k] = "off"
        /\ "refresh" \in Tasks
    BY KindsAreTasks DEF Init, Tasks
  <1>3. TasksTyped
    BY <1>2 DEF Init, TasksTyped, ListenerAwaits, RefreshAwaits
  <1>4. OneConnects /\ OneReconnects
    BY <1>2 DEF OneConnects, OneReconnects, Connecting, Reconnecting, Tasks, Kinds
  <1> QED BY <1>1, <1>3, <1>4, TypeParts

-----------------------------------------------------------------------------
(* No connection is forgotten, and closed is closed. *)

Safe == NoneWhileConnecting /\ NoLeakedConnection /\ Stopped

(* A task moves on that neither tears down a connection nor will connect. *)
LEMMA QuietMove ==
  ASSUME Inv, NEW t \in Tasks, NEW A, Moves(t, A), A \cap {"connect", "reconnect"} = {},
         at[t] \notin {"closing", "off", "ended"},
         alive' \subseteq alive, streamer' = streamer, closing' = closing
  PROVE  Safe'
  <1>1. /\ \A u \in Tasks : u # t => at'[u] = at[u] /\ on'[u] = on[u]
        /\ at'[t] \notin {"connect", "reconnect"}
    BY TypeParts DEF Inv, Moves, Suspend, TasksTyped
  <1>2. NoneWhileConnecting'
    BY <1>1 DEF Inv, NoneWhileConnecting, Connecting
  <1>3. NoLeakedConnection'
    BY <1>1, KindsAreTasks DEF Inv, NoLeakedConnection, Running
  <1>4. Stopped'
    BY <1>1 DEF Inv, Stopped, Over, Tasks, Kinds
  <1> QED BY <1>2, <1>3, <1>4 DEF Safe

(* So does the refresh, which may start a listener on its way. *)
LEMMA QuietRefresh ==
  ASSUME Inv, NEW await, await = at \/ (\E k \in Kinds : await = WithListener(k)),
         NEW a \in RefreshAwaits \ {"connect"}, at' = [await EXCEPT !["refresh"] = a],
         at["refresh"] # "ended", \A k \in Kinds : on'[k] = on[k],
         alive' = alive, streamer' = streamer, closing' = closing
  PROVE  Safe'
  <1>1. /\ at \in [Tasks -> ListenerAwaits \cup RefreshAwaits]
        /\ closing = "no"
    BY TypeParts DEF Inv, TasksTyped, Stopped
  <1>2. /\ \A u \in Kinds : at'[u] \in {at[u], "starting"}
        /\ \A u \in Kinds : at[u] = "closing" => at'[u] = "closing"
    BY <1>1, KindsAreTasks DEF WithListener
  <1>3. at'["refresh"] \notin {"connect", "reconnect"}
    BY <1>1, KindsAreTasks DEF RefreshAwaits, WithListener, Tasks
  <1>4. NoneWhileConnecting'
    BY <1>2, <1>3 DEF Inv, NoneWhileConnecting, Connecting, Tasks
  <1>5. NoLeakedConnection'
    BY <1>2 DEF Inv, NoLeakedConnection, Running
  <1>6. Stopped'
    BY <1>1 DEF Stopped
  <1> QED BY <1>4, <1>5, <1>6 DEF Safe

LEMMA ListenerSafe ==
  ASSUME Inv, NEW t \in Kinds, Listener(t)
  PROVE  Safe'
  <1> USE DEF feed
  <1>0. /\ t \in Tasks /\ t # "refresh" /\ streamer \in Conns \cup {None}
        /\ at \in [Tasks -> ListenerAwaits \cup RefreshAwaits]
        /\ on \in [Tasks -> Conns \cup {None}]
    BY KindsAreTasks, TypeParts DEF Inv, DataTyped, TasksTyped
  <1>1. CASE ListenerStarts(t)
    BY <1>0, <1>1, LoopTopMoves, QuietMove DEF ListenerStarts
  <1>2. CASE MarkDisconnected(t)
    <2>1. CASE Closed
      <3>1. Moves(t, {"ended"}) BY <1>2, <2>1 DEF MarkDisconnected, Moves
      <3> QED BY <1>0, <1>2, <2>1, <3>1, QuietMove DEF MarkDisconnected
    <2>2. CASE ~Closed /\ streamer = None
      <3>1. \/ Moves(t, {"ended", "listen", "ensure", "queue"})
            \/ Moves(t, {"auth"})
        BY <1>0, <1>2, <2>2, EnterReconnectMoves DEF MarkDisconnected
      <3> QED BY <1>0, <1>2, <2>2, <3>1, QuietMove DEF MarkDisconnected
    <2>3. CASE ~Closed /\ streamer # None
      <3>1. /\ at'[t] = "closing" /\ on'[t] = streamer /\ streamer' = None
            /\ at[t] = "listen"
            /\ \A u \in Tasks : u # t => at'[u] = at[u] /\ on'[u] = on[u]
            /\ UNCHANGED <<alive, closing>>
        BY <1>0, <1>2, <2>3 DEF MarkDisconnected, Suspend
      <3>2. NoneWhileConnecting'
        BY <3>1 DEF NoneWhileConnecting
      <3>3. NoLeakedConnection'
        BY <1>0, <3>1, KindsAreTasks DEF Inv, NoLeakedConnection, Running
      <3>4. Stopped'
        BY <3>1 DEF Inv, Stopped, Over, Tasks, Kinds
      <3> QED BY <3>2, <3>3, <3>4 DEF Safe
    <2> QED BY <2>1, <2>2, <2>3
  <1>3. CASE CloseEnds(t)
    <2>1. \/ Moves(t, {"ended", "listen", "ensure", "queue"})
          \/ Moves(t, {"auth"})
      BY <1>0, <1>3, EnterReconnectMoves DEF CloseEnds
    <2>2. /\ \A u \in Tasks : u # t => at'[u] = at[u] /\ on'[u] = on[u]
          /\ at'[t] \notin {"connect", "reconnect"} /\ at[t] = "closing"
          /\ alive' = alive \ {on[t]}
          /\ UNCHANGED <<streamer, closing>>
      BY <1>0, <1>3, <2>1 DEF CloseEnds, Moves, Suspend
    <2>3. NoneWhileConnecting'
      BY <2>2 DEF Inv, NoneWhileConnecting, Connecting
    <2>4. NoLeakedConnection'
      BY <2>2, KindsAreTasks DEF Inv, NoLeakedConnection, Running
    <2>5. Stopped'
      BY <2>2 DEF Inv, Stopped, Over, Tasks, Kinds
    <2> QED BY <2>3, <2>4, <2>5 DEF Safe
  <1>4. CASE ReconnectLockTaken(t)
    BY <1>0, <1>4, ReconnectMoves, QuietMove DEF ReconnectLockTaken
  <1>5. CASE Authenticated(t)
    <2>1. Moves(t, {"Quote", "reensure"})
      BY <1>0, <1>5, TypeParts DEF Authenticated, Resubscribe, Moves, Inv, DataTyped, Kinds
    <2> QED BY <1>0, <1>5, <2>1, QuietMove DEF Authenticated
  <1>6. CASE AuthenticationFails(t)
    BY <1>0, <1>6, NextAttemptMoves, QuietMove DEF AuthenticationFails
  <1>7. CASE Resubscribed(t)
    <2>1. CASE at[t] = "Quote" /\ wanted["Greeks"] # {}
      <3>1. Moves(t, {"Greeks"})
        BY <1>0, <1>7, <2>1, TypeParts DEF Resubscribed, Moves, Inv, DataTyped, Kinds
      <3> QED BY <1>0, <1>7, <2>1, <3>1, QuietMove DEF Resubscribed
    <2>2. CASE ~(at[t] = "Quote" /\ wanted["Greeks"] # {})
      BY <1>0, <1>7, <2>2, LoopTopMoves, QuietMove DEF Resubscribed, Kinds
    <2> QED BY <2>1, <2>2
  <1>8. CASE ResubscribeFails(t)
    BY <1>0, <1>8, NextAttemptMoves, QuietMove DEF ResubscribeFails, Kinds
  <1> QED BY <1>1, <1>2, <1>3, <1>4, <1>5, <1>6, <1>7, <1>8 DEF Listener

(***************************************************************************)
(* Whoever takes _streamer_lock looks at the streamer again, and whoever   *)
(* connects is alone: nothing is overwritten.                              *)
(***************************************************************************)
LEMMA EnsureStreamerSafe ==
  ASSUME Inv, NEW t \in Tasks, EnsureStreamer(t)
  PROVE  Safe'
  <1> USE DEF feed, manager
  <1>0. /\ streamer \in Conns \cup {None} /\ TypeOK
        /\ at \in [Tasks -> ListenerAwaits \cup RefreshAwaits]
        /\ on \in [Tasks -> Conns \cup {None}]
    BY TypeParts DEF Inv, DataTyped, TasksTyped
  <1>1. CASE StreamerLockTaken(t)
    <2>1. CASE streamer # None
      <3>1. Proceed(t, streamer)
        BY <1>1, <2>1 DEF StreamerLockTaken
      <3>2. \/ Moves(t, {"subscribed", "send"})
            \/ Moves(t, {"listen"})
            \/ Moves(t, {"Quote"})
        BY <1>0, <2>1, <3>1, ProceedMoves DEF Tasks
      <3> QED BY <1>1, <3>2, QuietMove DEF StreamerLockTaken
    <2>2. CASE streamer = None
      <3>1. /\ \A u \in Tasks : u # t => at'[u] = at[u] /\ on'[u] = on[u]
            /\ at'[t] \notin {"closing", "off", "ended"}
            /\ at[t] \notin {"closing", "off", "ended"}
            /\ UNCHANGED <<streamer, alive, closing>>
        BY <1>0, <1>1, <2>2 DEF StreamerLockTaken, Suspend
      <3>2. NoneWhileConnecting'
        BY <2>2, <3>1 DEF NoneWhileConnecting
      <3>3. NoLeakedConnection'
        BY <3>1, KindsAreTasks DEF Inv, NoLeakedConnection, Running
      <3>4. Stopped'
        BY <3>1 DEF Inv, Stopped, Over, Tasks, Kinds
      <3> QED BY <3>2, <3>3, <3>4 DEF Safe
    <2> QED BY <2>1, <2>2
  <1>2. CASE Connected(t)
    <2>1. PICK c \in Conns : streamer' = c /\ alive' = alive \cup {c} /\ Proceed(t, c)
      BY <1>2 DEF Connected
    <2>2. \/ Moves(t, {"subscribed", "send"})
          \/ Moves(t, {"listen"})
          \/ Moves(t, {"Quote"})
      BY <1>0, <2>1, ProceedMoves DEF Tasks
    <2>3. /\ \A u \in Tasks : u # t => at'[u] = at[u] /\ on'[u] = on[u]
          /\ at'[t] \notin {"connect", "reconnect"}
          /\ Connecting(t) /\ streamer = None /\ closing' = closing
      BY <1>0, <1>2, <2>2
         DEF Connected, Moves, Suspend, Inv, NoneWhileConnecting
    <2>4. \A u \in Tasks : u # t => ~Connecting(u)
      BY <1>0, <2>3, TypeParts DEF OneConnects
    <2>5. NoneWhileConnecting'
      BY <2>3, <2>4 DEF NoneWhileConnecting, Connecting
    <2>6. NoLeakedConnection'
      <3>1. streamer \notin alive
        BY <1>0, <2>3, StreamerAssumption, TypeParts DEF DataTyped
      <3> QED BY <2>1, <2>3, <3>1, KindsAreTasks
              DEF Inv, NoLeakedConnection, Running, Connecting
    <2>7. Stopped'
      <3>1. closing # "done"
        BY <1>0, <2>3 DEF Inv, Stopped, Over, Connecting, Tasks, Kinds
      <3> QED BY <2>3, <3>1 DEF Inv, Stopped, Over, Connecting, Tasks, Kinds
    <2> QED BY <2>5, <2>6, <2>7 DEF Safe
  <1>3. CASE ConnectFails(t)
    <2>1. CASE t = "refresh"
      <3>1. Moves("refresh", {"idle", "ended"})
        BY <1>3, <2>1 DEF ConnectFails, RefreshRaises, Moves
      <3> QED BY <1>3, <2>1, <3>1, QuietMove DEF ConnectFails, Connecting
    <2>2. CASE t # "refresh"
      <3>0. t \in Kinds
        BY <2>2 DEF Tasks
      <3>1. \/ NextAttempt(t)
            \/ Suspend(t, "ended", None, {})
            \/ EnterReconnect(t)
        BY <1>3, <2>2 DEF ConnectFails
      <3>2. \/ Moves(t, {"ended", "listen", "ensure", "auth"})
            \/ Moves(t, {"ended"})
            \/ Moves(t, {"ended", "listen", "ensure", "queue"})
            \/ Moves(t, {"auth"})
        <4>1. Suspend(t, "ended", None, {}) => Moves(t, {"ended"})
          BY DEF Moves
        <4> QED BY <1>0, <3>0, <3>1, <4>1, NextAttemptMoves, EnterReconnectMoves
      <3> QED BY <1>3, <3>2, QuietMove DEF ConnectFails, Connecting
    <2> QED BY <2>1, <2>2
  <1> QED BY <1>1, <1>2, <1>3 DEF EnsureStreamer

LEMMA CycleSafe ==
  ASSUME Inv, Cycle
  PROVE  Safe'
  <1> USE DEF feed, manager
  <1>0. /\ TypeOK /\ "refresh" \in Tasks /\ streamer \in Conns \cup {None}
        /\ on \in [Tasks -> Conns \cup {None}] /\ "Greeks" \in Kinds /\ "Quote" \in Kinds
        /\ \A k \in Kinds : k # "refresh"
    BY TypeParts, KindsAreTasks DEF Inv, DataTyped, TasksTyped, Tasks, Kinds
  <1>a. ASSUME NEW a, NEW c, NEW S, Suspend("refresh", a, c, S)
        PROVE  at' = [at EXCEPT !["refresh"] = a] /\ \A k \in Kinds : on'[k] = on[k]
    BY <1>0, <1>a, KindsAreTasks DEF Suspend
  <1>1. ASSUME NEW S \in SUBSET Contracts, Refresh(S) PROVE Safe'
    <2>1. PICK a \in RefreshAwaits \ {"connect"}, c \in Conns \cup {None},
               T \in SUBSET Symbols : Suspend("refresh", a, c, T)
      BY <1>0, <1>1 DEF Refresh, Subscribe, RefreshAwaits, Symbols
    <2> QED BY <1>1, <1>a, <2>1, QuietRefresh DEF Refresh
  <1>2. CASE Sent
    BY <1>2, <1>a, QuietRefresh DEF Sent, RefreshAwaits
  <1>3. CASE SendFails
    <2>1. PICK a \in RefreshAwaits \ {"connect"} : Suspend("refresh", a, None, {})
      BY <1>3 DEF SendFails, RefreshRaises, RefreshAwaits
    <2> QED BY <1>3, <1>a, <2>1, QuietRefresh DEF SendFails
  <1>b. ASSUME NEW await, await = at \/ (\E k \in Kinds : await = WithListener(k)),
               at["refresh"] # "ended", UNCHANGED <<alive, streamer, closing>>,
               RefreshEnds(await) \/ \E c, k : SendUnsubscribe(await, c, k)
        PROVE  Safe'
    <2>1. PICK a \in RefreshAwaits \ {"connect"} : at' = [await EXCEPT !["refresh"] = a]
      BY <1>b DEF RefreshEnds, SendUnsubscribe, RefreshAwaits
    <2>2. \A k \in Kinds : on'[k] = on[k]
      BY <1>0, <1>b, KindsAreTasks DEF RefreshEnds, SendUnsubscribe
    <2> QED BY <1>b, <2>1, <2>2, QuietRefresh
  <1>4. CASE Subscribed
    <2>1. CASE doing = "Quote" /\ diff.added # {}
      <3>1. PICK a \in RefreshAwaits \ {"connect"} :
              at' = [WithListener("Quote") EXCEPT !["refresh"] = a]
        BY <1>4, <2>1 DEF Subscribed, RefreshAwaits
      <3>2. \A k \in Kinds : on'[k] = on[k]
        BY <1>0, <1>4, <2>1, KindsAreTasks DEF Subscribed
      <3> QED BY <1>0, <1>4, <3>1, <3>2, QuietRefresh DEF Subscribed
    <2>2. CASE ~(doing = "Quote" /\ diff.added # {})
      <3>1. Unsubscribe(WithListener(doing))
        BY <1>4, <2>2 DEF Subscribed
      <3>2. doing \in Kinds
        BY <1>0, TypeParts DEF DataTyped
      <3> QED BY <1>4, <1>b, <2>2, <3>1, <3>2 DEF Subscribed, Unsubscribe
    <2> QED BY <2>1, <2>2
  <1>5. CASE Unsubscribed
    BY <1>5, <1>b DEF Unsubscribed
  <1> QED BY <1>1, <1>2, <1>3, <1>4, <1>5 DEF Cycle

(* The order of the shutdown: the refresh, the listeners, the streamer. *)
LEMMA ShutdownSafe ==
  ASSUME Inv, Shutdown
  PROVE  Safe'
  <1>0. /\ at \in [Tasks -> ListenerAwaits \cup RefreshAwaits]
        /\ on \in [Tasks -> Conns \cup {None}] /\ "refresh" \in Tasks
        /\ \A k \in Kinds : k \in Tasks /\ k # "refresh"
    BY TypeParts, KindsAreTasks DEF Inv, TasksTyped, Tasks
  <1>a. ASSUME NEW k \in Kinds, CancelListener(k)
        PROVE  /\ Over(k)' /\ ~Connecting(k)'
               /\ \A u \in Tasks : u # k => at'[u] = at[u]
    BY <1>0, <1>a DEF CancelListener, Suspend, Over, Connecting
  <1>1. CASE Stop
    BY <1>0, <1>1
       DEF Stop, Suspend, Safe, Inv, NoneWhileConnecting, Connecting, NoLeakedConnection, Running,
           Stopped, Over, feed
  <1>2. CASE CloseBegins
    <2>1. /\ Over("Quote")' /\ ~Connecting("Quote")'
          /\ \A u \in Tasks : u # "Quote" => at'[u] = at[u]
      BY <1>2, <1>a DEF CloseBegins, Kinds
    <2>2. closing = "stopping" /\ closing' = "quotes" /\ streamer' = streamer
      BY <1>2 DEF CloseBegins
    <2> QED BY <1>0, <2>1, <2>2
         DEF Safe, Inv, NoneWhileConnecting, Connecting, NoLeakedConnection, Running, Stopped, Over
  <1>3. CASE CloseGoesOn
    <2>1. /\ Over("Greeks")' /\ ~Connecting("Greeks")'
          /\ \A u \in Tasks : u # "Greeks" => at'[u] = at[u]
      BY <1>3, <1>a DEF CloseGoesOn, Kinds
    <2>2. closing = "quotes" /\ closing' = "greeks" /\ streamer' = streamer
      BY <1>3 DEF CloseGoesOn
    <2>3. "Quote" \in Tasks /\ "refresh" \in Tasks
      BY DEF Tasks, Kinds
    <2> QED BY <2>1, <2>2, <2>3
         DEF Safe, Inv, NoneWhileConnecting, Connecting, NoLeakedConnection, Running, Stopped, Over
  <1>4. CASE CloseEndsAll
    BY <1>4
       DEF CloseEndsAll, Safe, Inv, NoneWhileConnecting, NoLeakedConnection, Running, Stopped, Over
  <1> QED BY <1>1, <1>2, <1>3, <1>4 DEF Shutdown

LEMMA StepSafe ==
  ASSUME Inv, [Next]_vars
  PROVE  Inv'
  <1>1. TypeOK'
    BY TypeStep DEF Inv
  <1>2. ASSUME NEW c \in Conns, Drop(c) PROVE Safe'
    BY <1>2 DEF Drop, Safe, Inv, NoneWhileConnecting, Connecting, NoLeakedConnection, Running,
                Stopped, Over
  <1>3. ASSUME UNCHANGED vars PROVE Safe'
    <2>1. UNCHANGED <<streamer, alive, at, on, closing>>
      BY <1>3 DEF vars, feed
    <2> QED BY <2>1 DEF Safe, Inv, NoneWhileConnecting, Connecting, NoLeakedConnection, Running,
                        Stopped, Over
  <1>4. Safe'
    BY <1>2, <1>3, ListenerSafe, EnsureStreamerSafe, CycleSafe, ShutdownSafe DEF Next
  <1> QED BY <1>1, <1>4 DEF Inv, Safe

LEMMA InitSafe ==
  ASSUME Init
  PROVE  Inv
  <1>1. TypeOK
    BY TypeInit
  <1>2. NoneWhileConnecting /\ NoLeakedConnection /\ Stopped
    BY DEF Init, NoneWhileConnecting, NoLeakedConnection, Stopped
  <1> QED BY <1>1, <1>2 DEF Inv

LEMMA Invariance == Spec => []Inv
  BY InitSafe, StepSafe, PTL DEF Spec

(***************************************************************************)
(* The variables keep their types, and each of the two locks has at most   *)
(* one holder (tastytrade.py, _ensure_streamer and _reconnect).            *)
(***************************************************************************)
THEOREM OneHolderPerLock == Spec => []TypeOK
  <1>1. Inv => TypeOK
    BY DEF Inv
  <1> QED BY <1>1, Invariance, PTL

(***************************************************************************)
(* Until close() begins, a connection that is up is the streamer or is     *)
(* being torn down: the source never opens a second one over the first.    *)
(***************************************************************************)
THEOREM NoConnectionForgotten == Spec => []NoLeakedConnection
  <1>1. Inv => NoLeakedConnection
    BY DEF Inv
  <1> QED BY <1>1, Invariance, PTL

(***************************************************************************)
(* Whatever close() comes upon, there is no streamer left after it, and    *)
(* nobody who could make one.                                              *)
(***************************************************************************)
THEOREM ClosedStaysClosed == Spec => []ClosedForGood
  <1>1. Inv => ClosedForGood
    BY DEF Inv, Stopped, Over, ClosedForGood, Tasks, Kinds
  <1> QED BY <1>1, Invariance, PTL

-----------------------------------------------------------------------------
(* The resubscription. *)

(***************************************************************************)
(* Symbols of kind k that the refresh still owes to the streamer: those of *)
(* a command it is about to send there, or has sent, and those it removes. *)
(***************************************************************************)
Pending(k) ==
  IF at["refresh"] = "drop" THEN diff.removed
  ELSE IF doing = k /\ (at["refresh"] = "send" => on["refresh"] = streamer)
  THEN batch["refresh"] ELSE {}

(* Symbols the streamer should send and does not. *)
Missing(k) == wanted[k] \ (Pending(k) \cup unsent[k] \cup subs[streamer][k])

(* A listener that resubscribes has all that is missing in hand, or turns to it later. *)
Resumes(t) ==
  /\ at[t] = "Quote" => Missing("Quote") \subseteq batch[t]
  /\ at[t] = "Greeks" => Missing("Quote") = {} /\ Missing("Greeks") \subseteq batch[t]

Resuming ==
  closing = "no" /\ streamer \in alive => \A t \in Kinds : on[t] = streamer => Resumes(t)

(* What the refresh has in hand between two commands, and while it unsubscribes. *)
RefreshHands ==
  /\ at["refresh"] \in {"idle", "subscribed", "ended"} => batch["refresh"] = {}
  /\ at["refresh"] = "drop" => batch["refresh"] \subseteq diff.removed

Course == RefreshHands /\ Resuming

(* The streamer stays, and nothing else goes missing. *)
Carries ==
  closing' = "no" /\ streamer' \in alive' =>
    /\ closing = "no" /\ streamer' = streamer /\ streamer \in alive
    /\ \A k \in Kinds : Missing(k)' \subseteq Missing(k)

LEMMA Kept ==
  ASSUME Resuming, Carries,
         \A t \in Kinds : \/ at'[t] \notin Kinds
                          \/ at'[t] = at[t] /\ on'[t] = on[t] /\ batch'[t] = batch[t]
  PROVE  Resuming'
  <1>1. "Quote" \in Kinds /\ "Greeks" \in Kinds
    BY DEF Kinds
  <1> SUFFICES ASSUME closing' = "no", streamer' \in alive', NEW t \in Kinds, on'[t] = streamer'
               PROVE  Resumes(t)'
    BY DEF Resuming
  <1>2. /\ closing = "no" /\ streamer' = streamer /\ streamer \in alive
        /\ \A k \in Kinds : Missing(k)' \subseteq Missing(k)
    BY DEF Carries
  <1>3. CASE at'[t] \notin Kinds
    BY <1>1, <1>3 DEF Resumes
  <1>4. CASE at'[t] = at[t] /\ on'[t] = on[t] /\ batch'[t] = batch[t]
    <2>1. Resumes(t)
      BY <1>2, <1>4 DEF Resuming
    <2> QED
      BY <1>1, <1>2, <1>4, <2>1 DEF Resumes
  <1> QED
    BY <1>3, <1>4

(* A listener moves; the refresh keeps what it has. *)
LEMMA ListenerMoves ==
  ASSUME TypeOK, NEW t \in Kinds, NEW A, Moves(t, A)
  PROVE  /\ at'[t] \in A
         /\ \A u \in Tasks : u # t => at'[u] = at[u] /\ on'[u] = on[u] /\ batch'[u] = batch[u]
         /\ at'["refresh"] = at["refresh"] /\ on'["refresh"] = on["refresh"]
         /\ batch'["refresh"] = batch["refresh"]
  <1>1. TasksTyped /\ t \in Tasks /\ t # "refresh" /\ "refresh" \in Tasks
    BY TypeParts, KindsAreTasks DEF Tasks
  <1> QED
    BY <1>1 DEF Moves, Suspend, TasksTyped

LEMMA QuietCarries ==
  ASSUME TypeOK, UNCHANGED <<wanted, diff, doing, unsent, closing>>,
         at'["refresh"] = at["refresh"], on'["refresh"] = on["refresh"],
         batch'["refresh"] = batch["refresh"], alive' \subseteq alive, streamer' \in {streamer, None},
         streamer \in alive' => \A k \in Kinds : subs[streamer][k] \subseteq subs'[streamer][k]
  PROVE  Carries
  <1> SUFFICES ASSUME closing' = "no", streamer' \in alive'
               PROVE  /\ closing = "no" /\ streamer' = streamer /\ streamer \in alive
                      /\ \A k \in Kinds : Missing(k)' \subseteq Missing(k)
    BY DEF Carries
  <1>1. streamer' = streamer /\ streamer \in alive /\ streamer \in alive'
    BY StreamerAssumption DEF StreamerAssumption, TypeOK
  <1>2. \A k \in Kinds : Pending(k)' = Pending(k)
    BY <1>1 DEF Pending
  <1> QED
    BY <1>1, <1>2 DEF Missing

(* A listener goes anywhere but to a resubscription. *)
LEMMA CourseAside ==
  ASSUME TypeOK, Course, NEW t \in Kinds, NEW A, A \cap Kinds = {}, Moves(t, A),
         UNCHANGED <<wanted, diff, doing, unsent, closing>>,
         alive' \subseteq alive, streamer' \in {streamer, None},
         streamer \in alive' => \A k \in Kinds : subs[streamer][k] \subseteq subs'[streamer][k]
  PROVE  Course'
  <1>1. Carries
    BY ListenerMoves, QuietCarries
  <1>2. \A u \in Kinds : \/ at'[u] \notin Kinds
                         \/ at'[u] = at[u] /\ on'[u] = on[u] /\ batch'[u] = batch[u]
    BY ListenerMoves, KindsAreTasks
  <1>3. Resuming'
    BY <1>1, <1>2, Kept DEF Course
  <1>4. RefreshHands'
    BY ListenerMoves DEF Course, RefreshHands
  <1> QED
    BY <1>3, <1>4 DEF Course

(* A listener begins to resubscribe, with every quote symbol in hand. *)
LEMMA CourseBegins ==
  ASSUME TypeOK, Course, NEW t \in Kinds, NEW c \in Conns \cup {None}, Resubscribe(t, c),
         UNCHANGED <<wanted, diff, doing, unsent, closing, alive, streamer, subs>>
  PROVE  Course'
  <1>1. Moves(t, {"Quote"}) /\ at'[t] = "Quote" /\ batch'[t] = wanted["Quote"]
    <2>1. wanted["Quote"] \in SUBSET Symbols /\ TasksTyped /\ t \in Tasks
      BY TypeParts, KindsAreTasks DEF DataTyped, Kinds
    <2> QED
      BY <2>1 DEF Resubscribe, Moves, Suspend, TasksTyped
  <1>2. Carries
    BY <1>1, ListenerMoves, QuietCarries
  <1>3. ASSUME closing' = "no", streamer' \in alive', NEW u \in Kinds, on'[u] = streamer'
        PROVE  Resumes(u)'
    <2>1. CASE u = t
      BY <1>1, <2>1 DEF Resumes, Missing
    <2>2. CASE u # t
      <3>1. at'[u] = at[u] /\ on'[u] = on[u] /\ batch'[u] = batch[u]
        BY <1>1, <2>2, ListenerMoves, KindsAreTasks
      <3>2. Resumes(u)
        BY <1>3, <3>1 DEF Course, Resuming
      <3>3. Missing("Quote")' \subseteq Missing("Quote") /\ Missing("Greeks")' \subseteq Missing("Greeks")
        BY <1>2, <1>3 DEF Carries, Kinds
      <3> QED
        BY <3>1, <3>2, <3>3 DEF Resumes
    <2> QED
      BY <2>1, <2>2
  <1>4. RefreshHands'
    BY <1>1, ListenerMoves DEF Course, RefreshHands
  <1> QED
    BY <1>3, <1>4 DEF Course, Resuming

(* What a command that raised got through only adds to what is sent. *)
LEMMA PartlyGrows ==
  ASSUME DataTyped, NEW t \in Tasks, NEW k \in Kinds, PartlySent(t, k)
  PROVE  \A c \in Conns, j \in Kinds : subs[c][j] \subseteq subs'[c][j]
  <1>1. CASE on[t] \in alive
    <2>1. PICK part \in SUBSET batch[t] : subs' = [subs EXCEPT ![on[t]][k] = @ \cup part]
      BY <1>1 DEF PartlySent
    <2> QED
      BY <2>1 DEF DataTyped
  <1>2. CASE on[t] \notin alive
    BY <1>2 DEF PartlySent
  <1> QED
    BY <1>1, <1>2

LEMMA CourseListener ==
  ASSUME TypeOK, Course, NEW t \in Kinds, Listener(t)
  PROVE  Course'
  <1> USE DEF feed, manager
  <1>0. /\ streamer \in Conns \cup {None} /\ t \in Tasks /\ TasksTyped /\ DataTyped
        /\ {"ended", "listen", "ensure"} \cap Kinds = {} /\ {"closing", "queue", "auth", "reensure"} \cap Kinds = {}
    BY TypeParts, KindsAreTasks DEF DataTyped, Kinds
  <1> DEFINE A == {"ended", "listen", "ensure", "closing", "queue", "auth", "reensure"}
  <1>a. ASSUME EnterReconnect(t) PROVE Moves(t, A)
    BY <1>0, <1>a, EnterReconnectMoves DEF Moves
  <1>b. ASSUME NextAttempt(t) PROVE Moves(t, A)
    BY <1>0, <1>b, NextAttemptMoves DEF Moves
  <1>c. ASSUME LoopTop(t) PROVE Moves(t, A)
    BY <1>0, <1>c, LoopTopMoves DEF Moves
  <1>d. ASSUME Reconnect(t) PROVE Moves(t, A)
    BY <1>0, <1>d, ReconnectMoves DEF Moves
  <1>e. A \cap Kinds = {}
    BY <1>0
  <1>1. CASE ListenerStarts(t)
    BY <1>1, <1>c, <1>e, CourseAside DEF ListenerStarts
  <1>2. CASE MarkDisconnected(t)
    <2>1. Moves(t, A)
      <3>1. CASE EnterReconnect(t)
        BY <1>a, <3>1
      <3>2. CASE ~ EnterReconnect(t)
        BY <1>0, <1>2, <3>2 DEF MarkDisconnected, Moves
      <3> QED
        BY <3>1, <3>2
    <2>2. streamer' \in {streamer, None} /\ UNCHANGED <<wanted, diff, doing, unsent, closing, alive, subs>>
      BY <1>2 DEF MarkDisconnected
    <2> QED
      BY <1>e, <2>1, <2>2, CourseAside
  <1>3. CASE CloseEnds(t)
    <2>1. streamer \in alive' => \A k \in Kinds : subs[streamer][k] \subseteq subs'[streamer][k]
      BY <1>0, <1>3 DEF CloseEnds, DataTyped
    <2> QED
      BY <1>3, <1>a, <1>e, <2>1, CourseAside DEF CloseEnds
  <1>4. CASE ReconnectLockTaken(t)
    BY <1>4, <1>d, <1>e, CourseAside DEF ReconnectLockTaken
  <1>5. CASE Authenticated(t)
    <2>1. CASE Resubscribe(t, streamer)
      BY <1>0, <1>5, <2>1, CourseBegins DEF Authenticated
    <2>2. CASE Suspend(t, "reensure", None, {})
      <3>1. Moves(t, A)
        BY <2>2 DEF Moves
      <3> QED
        BY <1>5, <1>e, <3>1, CourseAside DEF Authenticated
    <2> QED
      BY <1>5, <2>1, <2>2 DEF Authenticated
  <1>6. CASE AuthenticationFails(t)
    BY <1>6, <1>b, <1>e, CourseAside DEF AuthenticationFails
  <1>7. CASE Resubscribed(t)
    <2>1. /\ at[t] \in Kinds /\ on[t] \in alive /\ alive' = alive
          /\ subs' = [subs EXCEPT ![on[t]][at[t]] = @ \cup batch[t]]
          /\ UNCHANGED <<streamer, wanted, diff, doing, unsent, closing>>
      BY <1>7 DEF Resubscribed
    <2>2. /\ streamer \in alive => \A k \in Kinds : subs[streamer][k] \subseteq subs'[streamer][k]
          /\ on[t] = streamer => subs'[streamer][at[t]] = subs[streamer][at[t]] \cup batch[t]
      BY <1>0, <2>1 DEF DataTyped
    <2>3. CASE at[t] = "Quote" /\ wanted["Greeks"] # {}
      <3>1. Suspend(t, "Greeks", on[t], wanted["Greeks"])
        BY <1>7, <2>3 DEF Resubscribed
      <3>2. at'[t] = "Greeks" /\ on'[t] = on[t] /\ batch'[t] = wanted["Greeks"]
        BY <1>0, <3>1 DEF Suspend, TasksTyped
      <3>3. Moves(t, {"Greeks"})
        BY <1>0, <2>1, <3>1 DEF Moves, DataTyped, Kinds
      <3>4. Carries
        BY <2>1, <2>2, <3>3, ListenerMoves, QuietCarries
      <3>5. ASSUME closing' = "no", streamer' \in alive', NEW u \in Kinds, on'[u] = streamer'
            PROVE  Resumes(u)'
        <4>1. /\ Missing("Quote")' \subseteq Missing("Quote")
              /\ Missing("Greeks")' \subseteq Missing("Greeks")
          BY <3>4, <3>5 DEF Carries, Kinds
        <4>2. CASE u = t
          <5>1. Missing("Quote") \subseteq batch[t]
            BY <2>1, <2>3, <3>2, <3>5, <4>2 DEF Course, Resuming, Resumes
          <5>2. Missing("Quote")' \cap batch[t] = {}
            BY <2>1, <2>2, <2>3, <3>2, <3>5, <4>2 DEF Missing
          <5>3. Missing("Quote")' = {} /\ Missing("Greeks")' \subseteq wanted["Greeks"]
            <6>1. Missing("Greeks")' \subseteq wanted["Greeks"]
              BY <2>1 DEF Missing
            <6> QED
              BY <4>1, <5>1, <5>2, <6>1
          <5> QED
            BY <3>2, <4>2, <5>3 DEF Resumes
        <4>3. CASE u # t
          <5>1. at'[u] = at[u] /\ on'[u] = on[u] /\ batch'[u] = batch[u]
            BY <3>3, <4>3, ListenerMoves, KindsAreTasks
          <5>2. Resumes(u)
            BY <2>1, <3>5, <5>1 DEF Course, Resuming
          <5> QED
            BY <4>1, <5>1, <5>2 DEF Resumes
        <4> QED
          BY <4>2, <4>3
      <3>6. RefreshHands'
        BY <2>1, <3>3, ListenerMoves DEF Course, RefreshHands
      <3> QED
        BY <3>5, <3>6 DEF Course, Resuming
    <2>4. CASE ~(at[t] = "Quote" /\ wanted["Greeks"] # {})
      <3>1. LoopTop(t)
        BY <1>7, <2>4 DEF Resubscribed
      <3> QED
        BY <1>c, <1>e, <2>1, <2>2, <3>1, CourseAside
    <2> QED
      BY <2>3, <2>4
  <1>8. CASE ResubscribeFails(t)
    <2>1. \A c \in Conns, k \in Kinds : subs[c][k] \subseteq subs'[c][k]
      BY <1>0, <1>8, PartlyGrows, KindsAreTasks DEF ResubscribeFails
    <2>2. streamer \in alive => \A k \in Kinds : subs[streamer][k] \subseteq subs'[streamer][k]
      BY <1>0, <2>1 DEF DataTyped
    <2> QED
      BY <1>8, <1>b, <1>e, <2>2, CourseAside DEF ResubscribeFails
  <1> QED
    BY <1>1, <1>2, <1>3, <1>4, <1>5, <1>6, <1>7, <1>8 DEF Listener

(* What the refresh was sending is told to have failed. *)
LEMMA CourseRaises ==
  ASSUME TypeOK, Course, RefreshRaises, at["refresh"] # "drop",
         UNCHANGED <<streamer, alive, wanted, closing>>,
         streamer \in alive => \A k \in Kinds : subs[streamer][k] \subseteq subs'[streamer][k]
  PROVE  Course'
  <1>0. TasksTyped /\ DataTyped /\ "refresh" \in Tasks
    BY TypeParts DEF Tasks
  <1>1. /\ at'["refresh"] \in {"idle", "ended"} /\ batch'["refresh"] = {}
        /\ unsent' = [unsent EXCEPT ![doing] = @ \cup batch["refresh"]]
        /\ \A k \in Kinds : at'[k] = at[k] /\ on'[k] = on[k] /\ batch'[k] = batch[k]
    BY <1>0, KindsAreTasks DEF RefreshRaises, Suspend, TasksTyped
  <1>2. RefreshHands'
    BY <1>1 DEF RefreshHands
  <1>3. \A k \in Kinds : Pending(k) \cup unsent[k] \subseteq unsent'[k]
    BY <1>0, <1>1 DEF Pending, DataTyped
  <1>4. Carries
    BY <1>3 DEF Carries, Missing
  <1> QED
    BY <1>1, <1>2, <1>4, Kept DEF Course

LEMMA CourseEnsure ==
  ASSUME TypeOK, Course, NEW t \in Tasks, EnsureStreamer(t)
  PROVE  Course'
  <1> USE DEF feed, manager
  <1>0. /\ streamer \in Conns \cup {None} /\ TasksTyped /\ DataTyped /\ "refresh" \in Tasks
        /\ (t # "refresh" => t \in Kinds) /\ {"listen", "connect", "reconnect"} \cap Kinds = {}
    BY TypeParts DEF DataTyped, Tasks, Kinds
  <1>1. CASE StreamerLockTaken(t)
    <2>1. CASE t # "refresh"
      <3>1. CASE streamer # None /\ at[t] # "ensure"
        <4>1. Resubscribe(t, streamer)
          BY <1>1, <2>1, <3>1 DEF StreamerLockTaken, Proceed
        <4> QED
          BY <1>0, <1>1, <2>1, <4>1, CourseBegins DEF StreamerLockTaken
      <3>2. CASE ~(streamer # None /\ at[t] # "ensure")
        <4>1. Moves(t, {"listen", "connect", "reconnect"})
          BY <1>0, <1>1, <2>1, <3>2 DEF StreamerLockTaken, Proceed, Moves, TasksTyped
        <4> QED
          BY <1>0, <1>1, <2>1, <4>1, CourseAside DEF StreamerLockTaken
      <3> QED
        BY <3>1, <3>2
    <2>2. CASE t = "refresh"
      <3>1. /\ at["refresh"] = "ensure" /\ batch'["refresh"] = batch["refresh"]
            /\ \/ at'["refresh"] = "subscribed" /\ batch["refresh"] = {}
               \/ at'["refresh"] = "send" /\ on'["refresh"] = streamer
               \/ at'["refresh"] = "connect"
            /\ \A k \in Kinds : at'[k] = at[k] /\ on'[k] = on[k] /\ batch'[k] = batch[k]
            /\ UNCHANGED <<streamer, alive, subs, wanted, diff, doing, closing, unsent>>
        BY <1>0, <1>1, <2>2, KindsAreTasks
           DEF StreamerLockTaken, Proceed, Suspend, TasksTyped, RefreshAwaits
      <3>2. \A k \in Kinds : Pending(k)' = Pending(k)
        BY <3>1 DEF Pending
      <3>3. Carries
        BY <3>1, <3>2 DEF Carries, Missing
      <3> QED
        BY <3>1, <3>3, Kept DEF Course, RefreshHands
    <2> QED
      BY <2>1, <2>2
  <1>2. CASE Connected(t)
    <2>1. PICK c \in Conns : Unused(c) /\ streamer' = c /\ Proceed(t, c)
      BY <1>2 DEF Connected
    <2>2. \A u \in Kinds : u # t => on'[u] = on[u] /\ on[u] # c
      <3>1. \A u \in Kinds : on[u] # c
        BY <2>1, KindsAreTasks DEF Unused
      <3>2. PICK a, S : Suspend(t, a, c, S)
        BY <2>1 DEF Proceed, Resubscribe
      <3> QED
        BY <1>0, <3>1, <3>2, KindsAreTasks DEF Suspend, TasksTyped
    <2>3. UNCHANGED <<wanted, diff, doing, closing>>
      BY <1>2 DEF Connected
    <2>4. CASE t = "refresh"
      <3>1. /\ batch'["refresh"] = batch["refresh"]
            /\ \/ at'["refresh"] = "subscribed" /\ batch["refresh"] = {}
               \/ at'["refresh"] = "send"
        BY <1>0, <2>1, <2>4 DEF Proceed, Suspend, TasksTyped
      <3>2. RefreshHands'
        BY <3>1 DEF RefreshHands
      <3> QED
        BY <2>1, <2>2, <2>4, <3>2, KindsAreTasks DEF Course, Resuming
    <2>5. CASE t # "refresh"
      <3>1. /\ at'[t] \in {"listen", "Quote"} /\ (at'[t] = "Quote" => batch'[t] = wanted["Quote"])
            /\ at'["refresh"] = at["refresh"] /\ batch'["refresh"] = batch["refresh"]
        BY <1>0, <2>1, <2>5 DEF Proceed, Resubscribe, Suspend, TasksTyped
      <3>2. RefreshHands'
        BY <2>3, <3>1 DEF Course, RefreshHands
      <3>3. Resumes(t)'
        BY <2>3, <3>1 DEF Resumes, Missing
      <3> QED
        BY <2>1, <2>2, <3>2, <3>3 DEF Course, Resuming
    <2> QED
      BY <2>4, <2>5
  <1>3. CASE ConnectFails(t)
    <2>1. CASE t = "refresh"
      BY <1>3, <2>1, CourseRaises DEF ConnectFails, Connecting
    <2>2. CASE t # "refresh"
      <3>0. t \in Kinds
        BY <1>0, <2>2
      <3> DEFINE A == {"ended", "listen", "ensure", "queue", "auth"}
      <3>1. CASE NextAttempt(t)
        <4>1. Moves(t, A)
          BY <1>0, <3>0, <3>1, NextAttemptMoves DEF Moves
        <4> QED
          BY <1>3, <2>2, <3>0, <4>1, CourseAside DEF ConnectFails, Kinds
      <3>2. CASE EnterReconnect(t)
        <4>1. Moves(t, A)
          BY <1>0, <3>0, <3>2, EnterReconnectMoves DEF Moves
        <4> QED
          BY <1>3, <2>2, <3>0, <4>1, CourseAside DEF ConnectFails, Kinds
      <3>3. CASE Suspend(t, "ended", None, {})
        <4>1. Moves(t, A)
          BY <3>3 DEF Moves
        <4> QED
          BY <1>3, <2>2, <3>0, <4>1, CourseAside DEF ConnectFails, Kinds
      <3> QED
        BY <1>3, <2>2, <3>1, <3>2, <3>3 DEF ConnectFails
    <2> QED
      BY <2>1, <2>2
  <1> QED
    BY <1>1, <1>2, <1>3 DEF EnsureStreamer

(* The refresh goes on, or a listener that is no longer running is started. *)
LEMMA CourseRefresh ==
  ASSUME Course, RefreshHands', Carries,
         \A k \in Kinds : /\ at'[k] = at[k] \/ at'[k] = "starting"
                          /\ on'[k] = on[k] /\ batch'[k] = batch[k]
  PROVE  Course'
  BY Kept DEF Course, Kinds

LEMMA CourseSubscribes ==
  ASSUME TypeOK, Course, NEW k \in Kinds, NEW S, NEW new, new = S \ wanted[k],
         at["refresh"] \in {"idle", "subscribed"}, wanted' = [wanted EXCEPT ![k] = @ \cup S], doing' = k,
         batch'["refresh"] = new, UNCHANGED <<streamer, alive, subs, closing, unsent>>,
         \/ at'["refresh"] = "ensure"
         \/ at'["refresh"] = "subscribed" /\ new = {}
         \/ at'["refresh"] = "send" /\ on'["refresh"] = streamer
  PROVE  RefreshHands' /\ Carries
  <1>1. RefreshHands'
    BY DEF RefreshHands
  <1>2. \A j \in Kinds : Pending(j) = {}
    BY DEF Course, RefreshHands, Pending
  <1>3. Pending(k)' = new
    BY DEF Pending
  <1>4. ASSUME NEW j \in Kinds PROVE wanted'[j] \ Pending(j)' \subseteq wanted[j]
    BY <1>3 DEF TypeOK
  <1>5. \A j \in Kinds : Missing(j)' \subseteq Missing(j)
    BY <1>2, <1>4 DEF Missing
  <1> QED
    BY <1>1, <1>5 DEF Carries

(* The end of a cycle, or its unsubscribe commands. *)
LEMMA CourseUnsubscribes ==
  ASSUME TypeOK, Course, at["refresh"] \in {"subscribed", "drop"}, NEW await,
         await = at \/ (\E j \in Kinds : await = WithListener(j)),
         RefreshEnds(await) \/ (\E c, j : SendUnsubscribe(await, c, j)),
         UNCHANGED <<streamer, alive, closing, unsent>>,
         \A c \in Conns, k \in Kinds : subs[c][k] \subseteq subs'[c][k] \cup Pending(k)
  PROVE  Course'
  <1>0. TasksTyped /\ DataTyped /\ "refresh" \in Tasks /\ \A k \in Kinds : k \in Tasks /\ k # "refresh"
    BY TypeParts, KindsAreTasks DEF Tasks
  <1>1. \A k \in Kinds : /\ at'[k] = at[k] \/ at'[k] = "starting"
                         /\ on'[k] = on[k] /\ batch'[k] = batch[k]
    <2>1. /\ \E a : at' = [await EXCEPT !["refresh"] = a]
          /\ \E a : on' = [on EXCEPT !["refresh"] = a]
          /\ \E a : batch' = [batch EXCEPT !["refresh"] = a]
      BY DEF RefreshEnds, SendUnsubscribe
    <2>2. \A k \in Kinds : await[k] = at[k] \/ await[k] = "starting"
      BY <1>0 DEF WithListener, TasksTyped
    <2> QED
      BY <1>0, <2>1, <2>2 DEF TasksTyped
  <1>2. \A k \in Kinds : Pending(k) \subseteq diff.removed
    BY DEF Course, RefreshHands, Pending
  <1>3. DOMAIN await = Tasks
    BY <1>0 DEF WithListener, TasksTyped
  <1>4. ASSUME streamer \in alive PROVE \A k \in Kinds : subs[streamer][k] \subseteq subs'[streamer][k] \cup Pending(k)
    BY <1>0, <1>4 DEF DataTyped
  <1>5. CASE RefreshEnds(await)
    <2>1. /\ at'["refresh"] = "idle" /\ batch'["refresh"] = {}
          /\ \A k \in Kinds : wanted'[k] = wanted[k] \ diff.removed
      BY <1>0, <1>3, <1>5 DEF RefreshEnds, TasksTyped
    <2>2. Carries
      BY <1>2, <1>4, <2>1 DEF Carries, Missing
    <2>3. RefreshHands'
      BY <2>1 DEF RefreshHands
    <2> QED
      BY <1>1, <2>2, <2>3, CourseRefresh
  <1>6. ASSUME NEW c, NEW j, SendUnsubscribe(await, c, j) PROVE Course'
    <2>1. /\ at'["refresh"] = "drop" /\ batch'["refresh"] \subseteq diff.removed
          /\ UNCHANGED <<wanted, diff>>
      BY <1>0, <1>3, <1>6 DEF SendUnsubscribe, TasksTyped
    <2>2. \A k \in Kinds : Pending(k)' = diff.removed
      BY <2>1 DEF Pending
    <2>3. Carries
      BY <1>2, <1>4, <2>1, <2>2 DEF Carries, Missing
    <2>4. RefreshHands'
      BY <2>1 DEF RefreshHands
    <2> QED
      BY <1>1, <2>3, <2>4, CourseRefresh
  <1> QED
    BY <1>5, <1>6

LEMMA CourseCycle ==
  ASSUME TypeOK, Course, Cycle
  PROVE  Course'
  <1> USE DEF feed, manager
  <1>0. /\ TasksTyped /\ DataTyped /\ "refresh" \in Tasks /\ \A k \in Kinds : k \in Tasks /\ k # "refresh"
        /\ "Quote" \in Kinds /\ "Greeks" \in Kinds
    BY TypeParts, KindsAreTasks DEF Tasks, Kinds
  <1>1. ASSUME NEW S \in SUBSET Contracts, Refresh(S) PROVE Course'
    <2> DEFINE Q == (S \ tracked) \cup Underlyings
               new == Q \ wanted["Quote"]
    <2>1. Subscribe("Quote", Q) /\ at["refresh"] = "idle" /\ UNCHANGED <<streamer, alive, subs, closing, unsent>>
      BY <1>1 DEF Refresh
    <2> HIDE DEF Q
    <2>2. /\ wanted' = [wanted EXCEPT !["Quote"] = @ \cup Q] /\ doing' = "Quote"
          /\ batch'["refresh"] = new
          /\ \/ at'["refresh"] = "ensure"
             \/ at'["refresh"] = "subscribed" /\ new = {}
             \/ at'["refresh"] = "send" /\ on'["refresh"] = streamer
          /\ \A k \in Kinds : at'[k] = at[k] /\ on'[k] = on[k] /\ batch'[k] = batch[k]
      BY <1>0, <2>1 DEF Subscribe, Suspend, TasksTyped
    <2> HIDE DEF new
    <2>3. RefreshHands' /\ Carries
      BY <1>0, <2>1, <2>2, CourseSubscribes DEF new
    <2> QED
      BY <2>2, <2>3, CourseRefresh
  <1>2. CASE Sent
    <2>1. /\ at["refresh"] = "send" /\ at'["refresh"] = "subscribed" /\ batch'["refresh"] = {}
          /\ subs' = [subs EXCEPT ![on["refresh"]][doing] = @ \cup batch["refresh"]]
          /\ on["refresh"] \in alive
          /\ \A k \in Kinds : at'[k] = at[k] /\ on'[k] = on[k] /\ batch'[k] = batch[k]
          /\ UNCHANGED <<streamer, alive, wanted, diff, doing, closing, unsent>>
      BY <1>0, <1>2 DEF Sent, Suspend, TasksTyped
    <2>2. ASSUME streamer \in alive, NEW k \in Kinds
          PROVE  subs[streamer][k] \cup Pending(k) \subseteq subs'[streamer][k]
      <3>1. subs[streamer][k] \subseteq subs'[streamer][k]
        BY <1>0, <2>1, <2>2 DEF DataTyped
      <3>2. Pending(k) \subseteq subs'[streamer][k]
        BY <1>0, <2>1, <2>2 DEF Pending, DataTyped
      <3> QED
        BY <3>1, <3>2
    <2>3. Carries
      BY <2>1, <2>2 DEF Carries, Missing
    <2>4. RefreshHands'
      BY <2>1 DEF RefreshHands
    <2> QED
      BY <2>1, <2>3, <2>4, CourseRefresh
  <1>3. CASE SendFails
    <2>1. \A c \in Conns, k \in Kinds : subs[c][k] \subseteq subs'[c][k]
      BY <1>0, <1>3, PartlyGrows DEF SendFails, DataTyped
    <2>2. streamer \in alive => \A k \in Kinds : subs[streamer][k] \subseteq subs'[streamer][k]
      BY <1>0, <2>1 DEF DataTyped
    <2> QED
      BY <1>3, <2>2, CourseRaises DEF SendFails
  <1>4. CASE Subscribed
    <2>1. at["refresh"] = "subscribed" /\ UNCHANGED <<streamer, alive, subs, closing, unsent>>
      BY <1>4 DEF Subscribed
    <2>2. CASE doing = "Quote" /\ diff.added # {}
      <3> DEFINE S == diff.added
                 new == S \ wanted["Greeks"]
      <3>1. /\ wanted' = [wanted EXCEPT !["Greeks"] = @ \cup S] /\ doing' = "Greeks"
            /\ batch'["refresh"] = new
            /\ \/ at'["refresh"] = "ensure"
               \/ at'["refresh"] = "subscribed" /\ new = {}
               \/ at'["refresh"] = "send" /\ on'["refresh"] = streamer
            /\ \A k \in Kinds : /\ at'[k] = at[k] \/ at'[k] = "starting"
                                /\ on'[k] = on[k] /\ batch'[k] = batch[k]
        BY <1>0, <1>4, <2>2 DEF Subscribed, WithListener, TasksTyped
      <3> HIDE DEF S, new
      <3>2. RefreshHands' /\ Carries
        BY <1>0, <2>1, <3>1, CourseSubscribes DEF new
      <3> QED
        BY <3>1, <3>2, CourseRefresh
    <2>3. CASE ~(doing = "Quote" /\ diff.added # {})
      <3>1. Unsubscribe(WithListener(doing)) /\ doing \in Kinds
        BY <1>0, <1>4, <2>3 DEF Subscribed, DataTyped
      <3>2. RefreshEnds(WithListener(doing)) \/ \E c, j : SendUnsubscribe(WithListener(doing), c, j)
        BY <3>1 DEF Unsubscribe
      <3> QED
        BY <2>1, <3>1, <3>2, CourseUnsubscribes
    <2> QED
      BY <2>2, <2>3
  <1>5. CASE Unsubscribed
    <2>1. /\ at["refresh"] = "drop" /\ UNCHANGED <<streamer, alive, closing, unsent>>
          /\ RefreshEnds(at) \/ \E c, j : SendUnsubscribe(at, c, j)
      BY <1>5 DEF Unsubscribed
    <2>2. \A c \in Conns, k \in Kinds : subs[c][k] \subseteq subs'[c][k] \cup Pending(k)
      <3>1. \A k \in Kinds : batch["refresh"] \subseteq Pending(k)
        BY <2>1 DEF Course, RefreshHands, Pending
      <3>2. CASE subs' = subs
        BY <3>2
      <3>3. CASE on["refresh"] \in alive /\ subs' = [subs EXCEPT ![on["refresh"]][doing] = @ \ batch["refresh"]]
        BY <1>0, <3>1, <3>3 DEF DataTyped
      <3> QED
        BY <1>5, <3>2, <3>3 DEF Unsubscribed
    <2> QED
      BY <2>1, <2>2, CourseUnsubscribes
  <1> QED
    BY <1>1, <1>2, <1>3, <1>4, <1>5 DEF Cycle

LEMMA CourseStep ==
  ASSUME TypeOK, Course, [Next]_vars
  PROVE  Course'
  <1>0. TasksTyped /\ DataTyped /\ "refresh" \in Tasks /\ \A k \in Kinds : k \in Tasks /\ k # "refresh"
    BY TypeParts, KindsAreTasks DEF Tasks
  <1>1. ASSUME NEW c \in Conns, Drop(c) PROVE Course'
    <2>1. UNCHANGED <<wanted, diff, doing, unsent, closing, streamer, at, on, batch>> /\ alive' = alive \ {c}
          /\ subs' = [subs EXCEPT ![c] = Nothing]
      BY <1>1 DEF Drop, manager
    <2>2. streamer \in alive' => \A k \in Kinds : subs[streamer][k] \subseteq subs'[streamer][k]
      BY <1>0, <2>1 DEF DataTyped
    <2>3. Carries
      BY <2>1, <2>2, QuietCarries
    <2>4. RefreshHands'
      BY <2>1 DEF Course, RefreshHands
    <2> QED
      BY <2>1, <2>3, <2>4, Kept DEF Course
  <1>2. CASE Shutdown
    <2>1. closing' # "no"
      BY <1>2 DEF Shutdown, Stop, CloseBegins, CloseGoesOn, CloseEndsAll
    <2>2. RefreshHands'
      <3>1. CASE Stop
        BY <1>0, <3>1 DEF Stop, Suspend, RefreshHands, TasksTyped
      <3>2. CASE CloseBegins \/ CloseGoesOn \/ CloseEndsAll
        <4>1. /\ at'["refresh"] = at["refresh"] /\ batch'["refresh"] = batch["refresh"] /\ diff' = diff
          BY <1>0, <3>2
             DEF CloseBegins, CloseGoesOn, CloseEndsAll, CancelListener, Suspend, TasksTyped, manager, Kinds
        <4> QED
          BY <4>1 DEF Course, RefreshHands
      <3> QED
        BY <1>2, <3>1, <3>2 DEF Shutdown
    <2> QED
      BY <2>1, <2>2 DEF Course, Resuming
  <1>3. CASE UNCHANGED vars
    BY <1>3 DEF Course, RefreshHands, Resuming, Resumes, Missing, Pending, vars, feed, manager
  <1> QED
    BY <1>1, <1>2, <1>3, CourseListener, CourseEnsure, CourseCycle DEF Next

(* The one step that ends a resubscription while nobody shuts the source down. *)
LEMMA OnlyResubscribed ==
  ASSUME TypeOK, [Next]_vars, NEW t \in Kinds, closing = "no", at[t] \in Kinds,
         at'[t] \in {"listen", "ensure"}
  PROVE  Resubscribed(t)
  <1>0. /\ TasksTyped /\ DataTyped /\ "refresh" \in Tasks /\ \A k \in Kinds : k \in Tasks /\ k # "refresh"
        /\ at[t] \in {"Quote", "Greeks"} /\ at'[t] # at[t]
    BY TypeParts, KindsAreTasks DEF Tasks, Kinds
  <1>1. ASSUME NEW u \in Kinds, Listener(u) PROVE u = t
    <2>1. PICK a, c, S : Suspend(u, a, c, S)
      BY <1>1 DEF Listener, ListenerStarts, MarkDisconnected, CloseEnds, ReconnectLockTaken, Authenticated,
                  AuthenticationFails, Resubscribed, ResubscribeFails, LoopTop, Reconnect,
                  EnterReconnect, Resubscribe, NextAttempt
    <2> QED
      BY <1>0, <2>1 DEF Suspend, TasksTyped
  <1>2. ASSUME Listener(t) PROVE Resubscribed(t)
    <2>1. CASE ResubscribeFails(t)
      <3>1. at'[t] = "auth"
        BY <1>0, <2>1 DEF ResubscribeFails, NextAttempt, Closed, Suspend, TasksTyped
      <3> QED
        BY <3>1
    <2>2. CASE \/ ListenerStarts(t) \/ MarkDisconnected(t) \/ CloseEnds(t) \/ ReconnectLockTaken(t)
               \/ Authenticated(t) \/ AuthenticationFails(t)
      BY <1>0, <2>2 DEF ListenerStarts, MarkDisconnected, CloseEnds, ReconnectLockTaken, Authenticated,
                        AuthenticationFails
    <2> QED
      BY <1>2, <2>1, <2>2 DEF Listener
  <1>3. ASSUME NEW u \in Tasks, EnsureStreamer(u) PROVE FALSE
    <2>1. at[u] \in {"ensure", "reensure", "connect", "reconnect"}
      BY <1>3 DEF EnsureStreamer, StreamerLockTaken, Connected, ConnectFails, Connecting
    <2>2. PICK a, c, S : Suspend(u, a, c, S)
      BY <1>3 DEF EnsureStreamer, StreamerLockTaken, Connected, ConnectFails, Proceed, Resubscribe,
                  RefreshRaises, LoopTop, Reconnect, EnterReconnect, NextAttempt
    <2> QED
      BY <1>0, <2>1, <2>2 DEF Suspend, TasksTyped
  <1>4. ASSUME Cycle PROVE FALSE
    <2>1. \E a : \/ at' = [at EXCEPT !["refresh"] = a]
                 \/ \E k \in Kinds : at' = [WithListener(k) EXCEPT !["refresh"] = a]
      <3>1. CASE (\E S \in SUBSET Contracts : Refresh(S)) \/ Sent \/ SendFails
        BY <3>1 DEF Refresh, Subscribe, Sent, SendFails, RefreshRaises, Suspend
      <3>2. CASE Unsubscribed
        BY <3>2 DEF Unsubscribed, RefreshEnds, SendUnsubscribe
      <3>3. CASE Subscribed
        BY <1>0, <3>3 DEF Subscribed, Unsubscribe, RefreshEnds, SendUnsubscribe, DataTyped, Kinds
      <3> QED
        BY <1>4, <3>1, <3>2, <3>3 DEF Cycle
    <2>2. \A k \in Kinds : WithListener(k)[t] = at[t]
      BY <1>0 DEF WithListener, TasksTyped
    <2>3. t \in DOMAIN at /\ \A k \in Kinds : t \in DOMAIN WithListener(k)
      BY <1>0 DEF WithListener, TasksTyped
    <2> QED
      BY <1>0, <2>1, <2>2, <2>3
  <1>5. ASSUME Shutdown \/ (\E c \in Conns : Drop(c)) \/ UNCHANGED vars PROVE FALSE
    BY <1>0, <1>5 DEF Shutdown, Stop, CloseBegins, CloseGoesOn, CloseEndsAll, CancelListener, Suspend,
                      Drop, vars, TasksTyped
  <1> QED
    BY <1>1, <1>2, <1>3, <1>4, <1>5 DEF Next

LEMMA NothingLeftOut ==
  ASSUME TypeOK, Course, [Next]_vars, NEW t \in Kinds, closing = "no", at[t] \in Kinds,
         at'[t] \in {"listen", "ensure"}, NEW c \in alive, on[t] = c, streamer = c, NEW k \in Kinds
  PROVE  ServedBy(c, k)'
  <1>0. TasksTyped /\ DataTyped /\ "refresh" \in Tasks /\ t \in Tasks /\ t # "refresh"
        /\ at[t] \in {"Quote", "Greeks"}
    BY TypeParts, KindsAreTasks DEF Tasks, Kinds
  <1>1. Resubscribed(t)
    BY OnlyResubscribed
  <1>2. /\ subs' = [subs EXCEPT ![c][at[t]] = @ \cup batch[t]]
        /\ UNCHANGED <<wanted, diff, doing, unsent>>
        /\ at[t] = "Quote" => wanted["Greeks"] = {}
    <2>1. at[t] = "Quote" /\ wanted["Greeks"] # {} => at'[t] = "Greeks"
      BY <1>0, <1>1 DEF Resubscribed, Suspend, TasksTyped
    <2> QED
      BY <1>1, <2>1 DEF Resubscribed, manager
  <1>3. at'["refresh"] = at["refresh"] /\ batch'["refresh"] = batch["refresh"]
    <2>1. PICK a, d, S : Suspend(t, a, d, S)
      BY <1>1 DEF Resubscribed, LoopTop
    <2> QED
      BY <1>0, <2>1 DEF Suspend, TasksTyped
  <1>4. InHand(k)' = InHand(k) /\ Pending(k) \subseteq InHand(k)
    BY <1>2, <1>3 DEF InHand, Pending
  <1>5. Resumes(t)
    BY DEF Course, Resuming
  <1>6. Missing(k) \subseteq subs'[c][k]
    <2>1. CASE at[t] = "Quote"
      <3>1. CASE k = "Quote"
        BY <1>0, <1>2, <1>5, <2>1, <3>1 DEF Resumes, DataTyped
      <3>2. CASE k = "Greeks"
        BY <1>2, <2>1, <3>2 DEF Missing
      <3> QED
        BY <3>1, <3>2 DEF Kinds
    <2>2. CASE at[t] = "Greeks"
      <3>1. CASE k = "Quote"
        BY <1>5, <2>2, <3>1 DEF Resumes
      <3>2. CASE k = "Greeks"
        BY <1>0, <1>2, <1>5, <2>2, <3>2 DEF Resumes, DataTyped
      <3> QED
        BY <3>1, <3>2 DEF Kinds
    <2> QED
      BY <1>0, <2>1, <2>2
  <1>7. subs[c][k] \subseteq subs'[c][k]
    BY <1>0, <1>2 DEF DataTyped
  <1> QED
    BY <1>2, <1>4, <1>6, <1>7 DEF ServedBy, Missing

(***************************************************************************)
(* A listener that ends its resubscription leaves no tracked symbol out on *)
(* the streamer, whatever the refresh subscribes and removes meanwhile and *)
(* however often connections die (tastytrade.py, _resubscribe_all).        *)
(***************************************************************************)
THEOREM NoneLeftOut == Spec => ResubscriptionComplete
  <1>1. Init => Course
    BY DEF Init, Course, RefreshHands, Resuming, Tasks
  <1>2. TypeOK /\ Course /\ [Next]_vars =>
          [\A t \in Kinds :
             closing = "no" /\ at[t] \in Kinds /\ at'[t] \in {"listen", "ensure"} =>
               \A c \in alive : on[t] = c /\ streamer = c => (\A k \in Kinds : ServedBy(c, k))']_vars
    BY NothingLeftOut
  <1> QED
    BY <1>1, <1>2, CourseStep, OneHolderPerLock, PTL DEF Spec, ResubscriptionComplete
=============================================================================
