----------------------------- MODULE GreeksFill -----------------------------
(***************************************************************************)
(* What the Greeks job of service/greeks/backfill_job.py promises the      *)
(* table option_bars_1m: it fills in the Greeks of rows that have none and *)
(* can have them, and does nothing else to any row.                        *)
(*                                                                         *)
(* Other programs insert option and underlying bars at any time and never  *)
(* change one (insert_ignore).  Numbers are abstracted to what the         *)
(* computation tells apart: absent, useless (not positive) or good.        *)
(***************************************************************************)
EXTENDS Integers

CONSTANTS
  Keys,      \* primary keys of option bars, numbered in the order of
             \* (time, contract_id)
  Tickers,
  Minutes,
  MinuteOf,  \* key -> its minute
  TickerOf,  \* key -> its underlying
  Expired,   \* keys of bars after 4:00 PM of the expiration date
  Arrivals,  \* key -> rows that other programs may insert there
  Closes,    \* closes of the underlying bars they insert
  None

Value == {"good", "bad"}

Row == [iv : Value \cup {"derived", None}, close : Value \cup {None},
        greeks : {"live", "computed", None}]

Spots == Tickers \X Minutes

ASSUME FillAssumption ==
  /\ Keys \subseteq Nat \ {0} /\ Minutes \subseteq Int
  /\ MinuteOf \in [Keys -> Minutes] /\ TickerOf \in [Keys -> Tickers]
  /\ Arrivals \in [Keys -> SUBSET {r \in Row : r.greeks # "computed"}]
  /\ Closes \subseteq Value \cup {"null"}
  /\ None \notin Row \cup Value \cup {"derived", "live", "computed"}

VARIABLES
  rows,   \* option_bars_1m: key -> row, or None
  spots   \* underlying_bars_1m: ticker and minute -> close, "null" for a bar
          \* without one, or None

table == <<rows, spots>>

SpotOf(k) == <<TickerOf[k], MinuteOf[k]>>

(* compute_greeks finds an implied volatility: the row's own, if it has one. *)
Solvable(r) == r.iv = "good" \/ (r.iv = None /\ r.close = "good")

(***************************************************************************)
(* A row read as r can be computed: it is not expired, there is a spot     *)
(* price for its very minute, and a volatility.                            *)
(***************************************************************************)
ComputableAs(k, r) ==
  k \notin Expired /\ spots[SpotOf(k)] = "good" /\ Solvable(r)

Gap(k) == rows[k] # None /\ rows[k].greeks = None

Computable(k) == Gap(k) /\ ComputableAs(k, rows[k])

(* The row once computed; a volatility it had is kept. *)
Computed(r) == [r EXCEPT !.greeks = "computed", !.iv = IF @ = None THEN "derived" ELSE @]

-----------------------------------------------------------------------------
TableInit ==
  /\ rows = [k \in Keys |-> None]
  /\ spots = [s \in Spots |-> None]

InsertOption(k) ==
  /\ rows[k] = None
  /\ \E r \in Arrivals[k] : rows' = [rows EXCEPT ![k] = r]
  /\ UNCHANGED spots

InsertUnderlying(s) ==
  /\ spots[s] = None
  /\ \E close \in Closes : spots' = [spots EXCEPT ![s] = close]
  /\ UNCHANGED rows

Insert == (\E k \in Keys : InsertOption(k)) \/ (\E s \in Spots : InsertUnderlying(s))

(* Some gaps that can be filled are filled, all at once. *)
Fill ==
  \E S \in SUBSET {k \in Keys : Computable(k)} :
    /\ rows' = [k \in Keys |-> IF k \in S THEN Computed(rows[k]) ELSE rows[k]]
    /\ UNCHANGED spots

FillSpec == TableInit /\ [][Insert \/ Fill]_table
=============================================================================
