-------------------------------- MODULE Bars --------------------------------
(***************************************************************************)
(* The one-minute bucket of service/ingestion/bar_aggregator.py and what   *)
(* the live feed does to it.                                               *)
(*                                                                         *)
(* Prices are integers.  A mark is the sum of the two sides of a quote, or *)
(* twice the only side, so it is the code's midpoint in units of half a    *)
(* price step and needs no fractions.  A Greeks snapshot is one opaque     *)
(* value: the code never looks inside it while it is in a bucket.          *)
(*                                                                         *)
(* `obs` is a history field the code does not have: the numbers of the     *)
(* observations that were folded into the bucket.                          *)
(***************************************************************************)
EXTENDS Integers

CONSTANT None   \* Python's None: an absent price, side, snapshot or bucket

ASSUME NoneAssumption == None \notin Int

Price == Int \cup {None}

(***************************************************************************)
(* What one feed event brings.  A Quote event has a mark and no snapshot,  *)
(* a Greeks event has a snapshot and no mark.                              *)
(***************************************************************************)
Mark(bid, ask) ==
  IF bid # None /\ ask # None THEN bid + ask
  ELSE IF bid # None THEN 2 * bid
  ELSE IF ask # None THEN 2 * ask
  ELSE None

EmptyBucket ==
  [open |-> None, high |-> None, low |-> None, close |-> None,
   bid |-> None, ask |-> None, greeks |-> None, obs |-> {}]

OrElse(x, y) == IF x # None THEN x ELSE y

Upper(x, y) == IF x = None THEN y ELSE IF y = None \/ y <= x THEN x ELSE y

Lower(x, y) == IF x = None THEN y ELSE IF y = None \/ x <= y THEN x ELSE y

UpdatePrice(b, mark, bid, ask, i) ==
  [b EXCEPT !.open  = OrElse(@, mark),
            !.high  = Upper(@, mark),
            !.low   = Lower(@, mark),
            !.close = mark,
            !.bid   = bid,
            !.ask   = ask,
            !.obs   = @ \cup {i}]

UpdateGreeks(b, greeks, i) ==
  [b EXCEPT !.greeks = greeks, !.obs = @ \cup {i}]

(* Mutant: the lower of the two opens. *)
MergeOlderMinOpen(b, older) ==
  [b EXCEPT !.open   = Lower(@, older.open),
            !.high   = Upper(@, older.high),
            !.low    = Lower(@, older.low),
            !.close  = OrElse(@, older.close),
            !.bid    = OrElse(@, older.bid),
            !.ask    = OrElse(@, older.ask),
            !.greeks = OrElse(@, older.greeks),
            !.obs    = @ \cup older.obs]

(***************************************************************************)
(* `older` holds earlier data for the same minute: its open wins, the      *)
(* extremes combine, and everything else falls back to it only where the   *)
(* newer bucket has nothing.                                               *)
(***************************************************************************)
MergeOlder(b, older) ==
  [b EXCEPT !.open   = OrElse(older.open, @),
            !.high   = Upper(@, older.high),
            !.low    = Lower(@, older.low),
            !.close  = OrElse(@, older.close),
            !.bid    = OrElse(@, older.bid),
            !.ask    = OrElse(@, older.ask),
            !.greeks = OrElse(@, older.greeks),
            !.obs    = @ \cup older.obs]
=============================================================================
