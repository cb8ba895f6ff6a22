----------------------------- MODULE LiveOptions -----------------------------
(***************************************************************************)
(* The live options poller, service/ingestion/live_options.py.             *)
(*                                                                         *)
(* Once a minute and ticker, a pass refreshes the contract manager, takes  *)
(* the contracts of the table that expire today, adds those of the chain   *)
(* near the last price, persists what is new, and requests the last        *)
(* minutes of each with a few requests at a time (Candles).  What comes is *)
(* written as the backfill does, and skipped where there is a row.         *)
(*                                                                         *)
(* All contracts of the model expire today and are in the chain.  The      *)
(* ingestion service and the backfill write to the same two tables.        *)
(***************************************************************************)
EXTENDS Candles

CONSTANTS
  Order,        \* the tickers, in the order in which they are polled
  Underlying,   \* contract -> its ticker
  Lookback,     \* --lookback-min
  Interval,     \* --interval, in minutes
  Concurrency,  \* --concurrency
  Window,       \* minutes of the polling window
  Others,       \* contract and minute of the rows other programs may write
  None

Contracts == Symbols
Tickers == {Order[i] : i \in 1..Len(Order)}

ASSUME LiveOptionsAssumption ==
  /\ Len(Order) \in Nat \ {0} /\ Underlying \in [Symbols -> Tickers]
  /\ Lookback \in Nat /\ Interval \in Nat \ {0} /\ Concurrency \in Nat \ {0}
  /\ Window \subseteq Minutes /\ None \notin Minutes /\ Others \subseteq Symbols \X Minutes

VARIABLES
  contracts,  \* the table: contracts that have a row
  rows,       \* option_bars_1m: contract -> minutes with a row
  phase,      \* the await at which the pass is, "idle" between two, "stopped"
  turn,       \* number of the ticker it is at
  asOf,       \* `now` of the pass, between two the time at which one ended;
              \* None before the first one
  chosen,     \* candidates
  fresh,      \* contracts _persist is to add
  absent      \* contract -> minutes found without a row

tables == <<contracts, rows>>
pass == <<phase, turn, asOf, chosen, fresh>>
candles == <<now, feed, queue, at, request>>
vars == <<candles, tables, pass, absent>>

-----------------------------------------------------------------------------
Init ==
  /\ CandlesInit
  /\ contracts = {} /\ rows = For({}) /\ absent = For({})
  /\ phase = "idle" /\ turn = 1 /\ asOf = None /\ chosen = {} /\ fresh = {}

Tick ==
  /\ now < MaxTime /\ now' = now + 1
  /\ UNCHANGED <<feed, queue, at, request, tables, pass, absent>>

(* The other programs. *)
Elsewhere ==
  /\ \/ \E c \in Symbols \ contracts : contracts' = contracts \cup {c} /\ UNCHANGED rows
     \/ \E r \in Others :
          /\ r[1] \in contracts /\ r[2] \in Quoted[r[1]] /\ r[2] <= now /\ r[2] \notin rows[r[1]]
          /\ rows' = [rows EXCEPT ![r[1]] = @ \cup {r[2]}]
          /\ UNCHANGED contracts
  /\ UNCHANGED <<candles, pass, absent>>

-----------------------------------------------------------------------------
(* run() and poll_ticker up to the requests. *)

OfTicker(S) == {c \in S : Underlying[c] = Order[turn]}

PassBegins ==
  /\ phase = "idle" /\ now \in Window
  /\ asOf # None => now >= asOf + Interval
  /\ phase' = "refresh" /\ turn' = 1 /\ asOf' = now
  /\ UNCHANGED <<candles, tables, chosen, fresh, absent>>

(* Mutant: the end of the list is seen one ticker too late. *)
NextTickerLate ==
  /\ phase' = IF turn <= Len(Order) THEN "refresh" ELSE "idle"
  /\ turn' = IF turn <= Len(Order) THEN turn + 1 ELSE 1
  /\ asOf' = IF turn < Len(Order) THEN asOf ELSE now
  /\ chosen' = {} /\ fresh' = {}

(* Whatever became of this ticker, the next one follows. *)
NextTicker ==
  /\ phase' = IF turn < Len(Order) THEN "refresh" ELSE "idle"
  /\ turn' = IF turn < Len(Order) THEN turn + 1 ELSE 1
  /\ asOf' = IF turn < Len(Order) THEN asOf ELSE now
  /\ chosen' = {} /\ fresh' = {}

(* ContractManager.refresh: what it resolves has its row. *)
Refreshed ==
  /\ phase = "refresh" /\ phase' = "candidates"
  /\ \E S \in SUBSET Symbols : contracts' = contracts \cup S
  /\ UNCHANGED <<candles, rows, turn, asOf, chosen, fresh, absent>>

(* _get_backfill_candidates, of this ticker only. *)
ReadCandidates ==
  /\ phase = "candidates" /\ phase' = "chain"
  /\ chosen' = OfTicker(contracts)
  /\ UNCHANGED <<candles, tables, turn, asOf, fresh, absent>>

(* The semaphore is free for all; nothing is asked for when there is none. *)
Gather(S) ==
  IF S = {} THEN NextTicker /\ UNCHANGED at
  ELSE /\ phase' = "gather" /\ chosen' = S /\ fresh' = {}
       /\ at' = [c \in Symbols |-> IF c \in S THEN "todo" ELSE "none"]
       /\ UNCHANGED <<turn, asOf>>

(* Mutant: what the fallback has found is not written to the table. *)
ReadChainOnly ==
  /\ phase = "chain"
  /\ \E S \in SUBSET OfTicker(Symbols) : Gather(chosen \cup S)
  /\ UNCHANGED <<now, feed, queue, request, tables, absent>>

(* filter_chain_for_today: those inside the strike window. *)
ReadChain ==
  /\ phase = "chain"
  /\ \E S \in SUBSET OfTicker(Symbols) :
       IF S \subseteq chosen THEN Gather(chosen)
       ELSE /\ phase' = "check" /\ chosen' = chosen \cup S /\ fresh' = S \ chosen
            /\ UNCHANGED <<turn, asOf, at>>
  /\ UNCHANGED <<now, feed, queue, request, tables, absent>>

(* _persist looks for each row ... *)
Check ==
  /\ phase = "check" /\ phase' = "persist"
  /\ fresh' = fresh \ contracts
  /\ UNCHANGED <<candles, tables, turn, asOf, chosen, absent>>

(* ... and adds those it missed, unless one has appeared since. *)
Persist ==
  /\ phase = "persist" /\ fresh \cap contracts = {}
  /\ contracts' = contracts \cup fresh
  /\ Gather(chosen)
  /\ UNCHANGED <<now, feed, queue, request, rows, absent>>

(* The database or the chain raises. *)
PollRaises ==
  /\ phase \in {"refresh", "candidates", "chain", "check", "persist"}
  /\ NextTicker
  /\ UNCHANGED <<candles, tables, absent>>

-----------------------------------------------------------------------------
(* The requests, and what becomes of their candles. *)

Ended == {c \in Symbols : at[c] \in {"none", "done", "failed"}}

(* These have the semaphore. *)
Busy == {c \in Symbols \ Ended : at[c] # "todo"}

Free == Cardinality(Busy) < Concurrency

First == IF asOf > Lookback THEN asOf - Lookback ELSE 0

Request(c) ==
  /\ at[c] = "todo" /\ Free
  /\ Begin(c, First)
  /\ UNCHANGED <<tables, pass, absent>>

(* Each minute is looked up in the table ... *)
Lookup(c) ==
  /\ at[c] = "returned"
  /\ IF got[c] = {} THEN Over(c, "done") /\ UNCHANGED absent
     ELSE /\ Goes(c, "commit")
          /\ absent' = [absent EXCEPT ![c] = got[c] \ rows[c]]
          /\ UNCHANGED request
  /\ UNCHANGED <<now, feed, queue, tables, pass>>

(* ... and those without a row are inserted, unless one has come since. *)
Insert(c) ==
  /\ at[c] = "commit" /\ c \in contracts /\ absent[c] \cap rows[c] = {}
  /\ rows' = [rows EXCEPT ![c] = @ \cup absent[c]]
  /\ absent' = [absent EXCEPT ![c] = {}]
  /\ Over(c, "done")
  /\ UNCHANGED <<now, feed, queue, contracts, pass>>

WriteFails(c) ==
  /\ at[c] \in {"returned", "commit"}
  /\ absent' = [absent EXCEPT ![c] = {}]
  /\ Over(c, "failed")
  /\ UNCHANGED <<now, feed, queue, tables, pass>>

Write(c) == Lookup(c) \/ Insert(c) \/ WriteFails(c)

Candle ==
  /\ RequestOrFeed
  /\ UNCHANGED <<tables, pass, absent>>

(* gather() is over. *)
Gathered ==
  /\ phase = "gather" /\ Ended = Symbols
  /\ NextTicker
  /\ at' = For("none")
  /\ UNCHANGED <<now, feed, queue, request, tables, absent>>

-----------------------------------------------------------------------------
(***************************************************************************)
(* SIGTERM.  stop_event is only looked at between two passes, so that is   *)
(* where the signal comes in the model; close() drops the connection.      *)
(***************************************************************************)
Stop ==
  /\ phase = "idle" /\ phase' = "stopped"
  /\ alive' = FALSE /\ subs' = For({}) /\ pending' = For({}) /\ queue' = <<>>
  /\ UNCHANGED <<now, at, request, faults, leftover, tables, turn, asOf, chosen, fresh, absent>>

Pass ==
  \/ PassBegins \/ Refreshed \/ ReadCandidates \/ ReadChain \/ Check \/ Persist \/ PollRaises
  \/ Gathered

Next ==
  \/ Tick \/ Elsewhere \/ Pass \/ Candle \/ Stop
  \/ \E c \in Symbols : Request(c) \/ Write(c)

(* What the poller does by itself, whatever the feed does or does not. *)
Own ==
  \/ Pass
  \/ \E c \in Symbols :
       Request(c) \/ Write(c) \/ (Advance(c) /\ UNCHANGED <<tables, pass, absent>>)

(***************************************************************************)
(* The poller goes on as long as there is something it can do: every await *)
(* has a time limit or is a statement of the database.  Nothing is assumed *)
(* of the feed, nor of the order in which the requests get on.             *)
(***************************************************************************)
Spec == Init /\ [][Next]_vars /\ WF_vars(Own)

-----------------------------------------------------------------------------
(* Properties. *)

(* The variables have their types, and the semaphore is not overdrawn. *)
TypeOK ==
  /\ CandlesTypeOK
  /\ at \in [Symbols -> {"none", "todo", "subscribe", "fallback", "listen", "unsubscribe",
                         "returned", "commit", "done", "failed"}]
  /\ contracts \subseteq Symbols /\ rows \in [Symbols -> SUBSET Minutes]
  /\ phase \in {"idle", "refresh", "candidates", "chain", "check", "persist", "gather", "stopped"}
  /\ turn \in 1..Len(Order) /\ asOf \in Minutes \cup {None}
  /\ chosen \subseteq Symbols /\ fresh \subseteq Symbols
  /\ absent \in [Symbols -> SUBSET Minutes]
  /\ Cardinality(Busy) <= Concurrency

(* What the request of c was to bring. *)
Owed(c) == {m \in Quoted[c] \cap Minutes : start[c] <= m /\ m <= began[c]}

(***************************************************************************)
(* A poll of a contract leaves no minute of its lookback without a row,    *)
(* once its request saw the candle in progress twice and nothing disturbed *)
(* it: it was alone with the queue, which held nothing of its symbol.      *)
(* About repeat_key_min_value, and the skip-if-exists write.               *)
(***************************************************************************)
WindowCovered ==
  [][\A c \in Symbols :
       at[c] \in {"returned", "commit"} /\ at'[c] = "done" /\ repeated[c] /\ trouble[c] = "none"
         => Owed(c) \subseteq rows'[c]]_vars

(***************************************************************************)
(* No candle is asked for before its contract has a row, so no insert can  *)
(* fail for want of it, however the refresh, the fallback and the other    *)
(* programs interleave.  About the _persist before the requests.           *)
(***************************************************************************)
KnownBeforeRequested == \A c \in Symbols : at[c] # "none" => c \in contracts

(***************************************************************************)
(* Every pass ends, whatever fails in it, also on a connection that is     *)
(* dead: the loop gets back to where it looks at stop_event.  About the    *)
(* time limits of the requests, the semaphore and the except clauses       *)
(* around each contract and each ticker.                                   *)
(***************************************************************************)
PassesEnd == phase # "idle" ~> phase \in {"idle", "stopped"}
=============================================================================
