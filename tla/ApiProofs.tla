----------------------------- MODULE ApiProofs -----------------------------
(***************************************************************************)
(* For any rows, periods and limits: Api is type correct, a walk through   *)
(* the pages misses no row that has a place of its own, and none comes     *)
(* twice as long as the result does not change; for any calendar, a gap    *)
(* report is exact.                                                        *)
(*                                                                         *)
(* The argument is about the place of a row, the number of rows before it. *)
(* A result only grows, so the place only moves away from the pages that   *)
(* have been read: a row that is not delivered yet is still ahead (Ahead), *)
(* and at a page that comes back short there is nothing ahead.             *)
(*                                                                         *)
(* That of the report goes along the loop of find_gaps: after each minute  *)
(* the list has the long stretches of the minutes so far, in order, but    *)
(* for the one that may go on (Scanned).                                   *)
(***************************************************************************)
EXTENDS Api, FiniteSetTheorems, WellFoundedInduction, TLAPS

Current == Result(table, filter, agg)

Place(row, result) == Cardinality(Before(row, result))

(* The query was accepted, and what was there is still there. *)
Accepted ==
  phase \in {"reading", "done"} =>
    agg \in AggPeriods /\ limit = asked /\ limit \in 1..MaxLimit /\ first \subseteq Current

(* What is not delivered is still to come. *)
Ahead ==
  phase = "reading" =>
    \A row \in first :
      Alone(row, Current) => row \in delivered \/ Place(row, Current) >= offset

(* A client that has not begun has nothing. *)
Fresh ==
  phase \in {"idle", "refused"} => offset = 0 /\ returned = 0 /\ delivered = {}

Typed == TypeOK /\ Accepted /\ Fresh

AllAlone(result) == \A row \in result : Alone(row, result)

(* In a result at rest, what is delivered is what the offset has passed. *)
Counted ==
  phase \in {"reading", "done"} /\ Current = first /\ AllAlone(first) =>
    /\ returned = Cardinality(delivered) /\ delivered \subseteq first
    /\ \A row \in delivered : Place(row, first) < offset

Inv == Typed /\ Ahead /\ PageWalkComplete /\ Counted

-----------------------------------------------------------------------------
(* Lemmas about the statements. *)

(* A bucket begins with a time, and not after it. *)
LEMMA BucketType ==
  ASSUME NEW time \in Nat, NEW period \in AggPeriods
  PROVE  Bucket(time, period) \in Nat
  BY ApiAssumption DEF ApiAssumption, Bucket

(* The rows of a result are of the series asked for. *)
LEMMA ResultType ==
  ASSUME NEW rows \in SUBSET Rows, NEW series, NEW period \in AggPeriods
  PROVE  Result(rows, series, period) \subseteq series \X Nat
  <1>1. \A r \in rows : r[2] \in Nat
    BY ApiAssumption DEF ApiAssumption
  <1> QED
    BY <1>1, BucketType DEF Result

(* A result is finite. *)
LEMMA ResultFinite ==
  ASSUME NEW rows \in SUBSET Rows, NEW series, NEW period
  PROVE  IsFiniteSet(Result(rows, series, period))
  <1> DEFINE matching == {q \in rows : q[1] \in series}
             f == [q \in matching |-> <<q[1], Bucket(q[2], period)>>]
  <1>1. IsFiniteSet(matching)
    BY ApiAssumption, FS_Subset, matching \in SUBSET Rows DEF ApiAssumption
  <1>2. f \in Surjection(matching, Result(rows, series, period))
    BY DEF Result, Surjection
  <1> QED
    BY <1>1, <1>2, FS_Surjection

(* More rows in the table, more rows in the result. *)
LEMMA ResultGrows ==
  ASSUME NEW rows, NEW more, rows \subseteq more, NEW series, NEW period
  PROVE  Result(rows, series, period) \subseteq Result(more, series, period)
  BY DEF Result

(* A subset of a result is finite, and no larger. *)
LEMMA PartFinite ==
  ASSUME NEW result, IsFiniteSet(result), NEW part \in SUBSET result
  PROVE  IsFiniteSet(part) /\ Cardinality(part) \in Nat /\ Cardinality(part) <= Cardinality(result)
  BY FS_Subset, FS_CardinalityType

(* Places are numbers, they only move on, and there is a row at each. *)
LEMMA PlaceType ==
  ASSUME NEW result, IsFiniteSet(result), NEW row
  PROVE  Place(row, result) \in Nat /\ IsFiniteSet(Before(row, result))
  BY PartFinite, Before(row, result) \in SUBSET result DEF Place, Before

LEMMA PlaceMovesOn ==
  ASSUME NEW result, NEW more, IsFiniteSet(more), result \subseteq more, NEW row
  PROVE  Place(row, result) <= Place(row, more)
  BY PlaceType, FS_Subset, Before(row, result) \in SUBSET Before(row, more) DEF Place, Before

LEMMA PlaceInside ==
  ASSUME NEW S, NEW result \in SUBSET (S \X Nat), IsFiniteSet(result), NEW row \in result
  PROVE  Place(row, result) < Cardinality(result)
  <1>1. IsFiniteSet(result \ {row}) /\ Cardinality(result \ {row}) = Cardinality(result) - 1
    BY FS_RemoveElement
  <1>2. Before(row, result) \in SUBSET (result \ {row})
    BY DEF Before
  <1>3. Cardinality(result) \in Nat /\ Place(row, result) \in Nat
    BY FS_CardinalityType, PlaceType
  <1>4. Place(row, result) <= Cardinality(result \ {row})
    BY <1>1, <1>2, PartFinite DEF Place
  <1> QED
    BY <1>1, <1>3, <1>4

(* A row that has no ties in a result has none in less of it. *)
LEMMA AloneBefore ==
  ASSUME NEW result, NEW more, result \subseteq more, NEW row \in result, Alone(row, more)
  PROVE  Alone(row, result)
  BY DEF Alone, Ties

(* A row that is alone is on the page that its place is on, and on no other. *)
LEMMA OnItsPage ==
  ASSUME NEW result, IsFiniteSet(result), NEW n \in Nat, NEW o \in Nat,
         NEW page \in Pages(result, n, o), NEW row \in result, Alone(row, result)
  PROVE  row \in page <=> o <= Place(row, result) /\ Place(row, result) < o + n
  <1> DEFINE from == Place(row, result)
  <1>1. from \in Nat
    BY PlaceType
  <1>2. Ties(row, result) = {row} /\ Cardinality(Ties(row, result)) = 1
    BY FS_Singleton DEF Alone
  <1>3. page \subseteq result /\ Ties(row, page) = Ties(row, result) \cap page
    BY DEF Pages, Ties
  <1>4. Cardinality(Ties(row, page)) = Upto(EndOfPage(o, n), from, 1) - Upto(o, from, 1)
    BY <1>2 DEF Pages, Place
  <1>5. IF row \in page THEN Ties(row, page) = {row} ELSE Ties(row, page) = {}
    BY <1>2, <1>3
  <1>6. Cardinality(Ties(row, page)) = IF row \in page THEN 1 ELSE 0
    BY <1>5, FS_Singleton, FS_EmptySet
  <1> HIDE DEF from
  <1>7. Upto(EndOfPage(o, n), from, 1) - Upto(o, from, 1)
          = IF o <= from /\ from < o + n THEN 1 ELSE 0
    BY <1>1 DEF Upto, Within, EndOfPage
  <1> QED
    BY <1>4, <1>6, <1>7 DEF from

(* A page is finite, and it is full when there is a row behind it. *)
LEMMA PageSize ==
  ASSUME NEW result, IsFiniteSet(result), NEW n \in Nat, NEW o \in Nat,
         NEW page \in Pages(result, n, o)
  PROVE  /\ page \subseteq result /\ IsFiniteSet(page) /\ Cardinality(page) \in Nat
         /\ o + n <= Cardinality(result) => Cardinality(page) = n
  <1>1. page \in SUBSET result /\ IsFiniteSet(page) /\ Cardinality(page) \in Nat
    BY PartFinite DEF Pages
  <1>2. Cardinality(result) \in Nat
    BY FS_CardinalityType
  <1>3. Cardinality(page) =
          Upto(EndOfPage(o, n), 0, Cardinality(result)) - Upto(o, 0, Cardinality(result))
    BY DEF Pages
  <1>4. ASSUME o + n <= Cardinality(result) PROVE Cardinality(page) = n
    BY <1>2, <1>3, <1>4 DEF Upto, Within, EndOfPage
  <1> QED
    BY <1>1, <1>4

-----------------------------------------------------------------------------
(* Type correctness. *)

LEMMA ResultNow ==
  ASSUME TypeOK, agg \in AggPeriods
  PROVE  Current \subseteq filter \X Nat /\ IsFiniteSet(Current)
  BY ResultType, ResultFinite DEF TypeOK, Current

LEMMA ResultNext ==
  ASSUME TypeOK', agg' \in AggPeriods
  PROVE  Current' \subseteq filter' \X Nat /\ IsFiniteSet(Current')
  BY ResultType, ResultFinite DEF TypeOK, Current

(* While a client reads, the result can only have grown. *)
LEMMA CurrentGrows ==
  ASSUME Insert \/ NextPage \/ UNCHANGED vars
  PROVE  /\ UNCHANGED query /\ first' = first
         /\ Current \subseteq Current'
         /\ ~Insert => Current' = Current
  <1>1. UNCHANGED query /\ first' = first /\ table \subseteq table'
    BY DEF Insert, NextPage, vars, query, pages
  <1>2. Current \subseteq Current'
    BY <1>1, ResultGrows DEF Current, query
  <1> QED
    BY <1>1, <1>2 DEF NextPage, Current, query, vars

LEMMA TypedInit == Init => Typed
  BY ApiAssumption DEF ApiAssumption, Init, Typed, TypeOK, Accepted, Fresh

LEMMA TypedStep == ASSUME Typed, [Next]_vars PROVE Typed'
  <1> USE ApiAssumption DEF ApiAssumption
  <1>1. CASE Insert
    <2>1. Current \subseteq Current'
      BY <1>1, CurrentGrows
    <2>2. Accepted'
      BY <1>1, <2>1 DEF Typed, Accepted, Insert, query, pages
    <2> QED
      BY <1>1, <2>2 DEF Typed, TypeOK, Fresh, Insert, query, pages
  <1>2. CASE Ask
    <2>1. limit' \in 0..MaxLimit /\ (phase' = "reading" => agg' \in AggPeriods /\ limit' > 0)
      BY <1>2 DEF Ask, Limit
    <2>2. limit' > 0 => limit' = asked'
      BY <1>2 DEF Ask, Limit
    <2>3. first' \subseteq filter' \X Nat
      BY <1>2, <2>1, ResultType DEF Ask, Typed, TypeOK
    <2>4. first' \subseteq Current' \/ phase' # "reading"
      BY <1>2 DEF Ask, Current
    <2>5. TypeOK'
      BY <1>2, <2>1, <2>3 DEF Typed, TypeOK, Fresh, Ask
    <2> QED
      BY <1>2, <2>1, <2>2, <2>4, <2>5 DEF Typed, Accepted, Fresh, Ask
  <1>3. CASE NextPage
    <2>1. agg \in AggPeriods /\ limit = asked /\ limit \in Nat /\ offset \in Nat
      BY <1>3 DEF Typed, TypeOK, Accepted, NextPage
    <2>2. Current \subseteq filter \X Nat /\ IsFiniteSet(Current)
      BY <2>1, ResultNow DEF Typed
    <2>3. PICK page \in Pages(Current, limit, offset) :
            /\ delivered' = delivered \cup page
            /\ returned' = returned + Cardinality(page)
      BY <1>3 DEF NextPage, Current
    <2>4. page \subseteq Current /\ Cardinality(page) \in Nat
      BY <2>1, <2>2, PageSize
    <2>5. Current' = Current
      BY <1>3, CurrentGrows DEF Insert, NextPage, query, vars
    <2>6. phase' \in {"reading", "done"} /\ offset' = offset + asked /\ UNCHANGED <<table, query, first>>
      BY <1>3 DEF NextPage
    <2>7. TypeOK'
      BY <2>1, <2>2, <2>3, <2>4, <2>6 DEF Typed, TypeOK, query
    <2> QED
      BY <1>3, <2>5, <2>6, <2>7 DEF Typed, Accepted, Fresh, NextPage, query
  <1>4. CASE Leave
    BY <1>4 DEF Typed, TypeOK, Accepted, Fresh, Leave
  <1>5. CASE UNCHANGED vars
    BY <1>5 DEF Typed, TypeOK, Accepted, Fresh, Current, vars, query, pages
  <1> QED
    BY <1>1, <1>2, <1>3, <1>4, <1>5 DEF Next

(***************************************************************************)
(* The variables keep their types, and no row is delivered that was not    *)
(* asked for: routes.py with any limits, and tables of any content.        *)
(***************************************************************************)
THEOREM TypeCorrect == Spec => []TypeOK
  <1>1. Typed => TypeOK
    BY DEF Typed
  <1> QED
    BY TypedInit, TypedStep, <1>1, PTL DEF Spec

-----------------------------------------------------------------------------
(* The walk. *)

LEMMA AheadStep == ASSUME Inv, Typed', [Next]_vars PROVE Ahead' /\ PageWalkComplete'
  <1> USE DEF Inv
  <1>1. CASE Insert \/ UNCHANGED vars
    <2>1. /\ Current \subseteq Current' /\ first' = first /\ delivered' = delivered
          /\ phase' = phase /\ offset' = offset
      BY <1>1, CurrentGrows DEF Insert, vars, pages
    <2>2. ASSUME phase \in {"reading", "done"}, NEW row \in first, Alone(row, Current')
          PROVE  /\ Alone(row, Current)
                 /\ Place(row, Current) \in Nat /\ Place(row, Current') \in Nat
                 /\ Place(row, Current) <= Place(row, Current')
      <3>1. agg \in AggPeriods /\ agg' \in AggPeriods /\ row \in Current
        BY <2>1, <2>2 DEF Typed, Accepted
      <3>2. IsFiniteSet(Current) /\ IsFiniteSet(Current')
        BY <3>1, ResultNow, ResultNext DEF Typed
      <3>3. Alone(row, Current)
        BY <2>1, <2>2, <3>1, AloneBefore
      <3>4. Place(row, Current) \in Nat /\ Place(row, Current') \in Nat
        BY <3>2, PlaceType
      <3> QED
        BY <2>1, <3>2, <3>3, <3>4, PlaceMovesOn
    <2>3. offset \in Nat
      BY DEF Typed, TypeOK
    <2>4. ASSUME phase = "reading", NEW row \in first, Alone(row, Current')
          PROVE  row \in delivered \/ Place(row, Current') >= offset
      BY <2>2, <2>3, <2>4 DEF Ahead
    <2>5. ASSUME phase = "done", NEW row \in first, Alone(row, Current')
          PROVE  row \in delivered
      BY <2>2, <2>5 DEF PageWalkComplete, Current
    <2>6. Ahead'
      BY <2>1, <2>4 DEF Ahead, Place, Before, Alone, Ties
    <2>7. PageWalkComplete'
      BY <2>1, <2>5 DEF PageWalkComplete, Current, Alone, Ties
    <2> QED
      BY <2>6, <2>7
  <1>2. CASE Ask
    <2>1. offset' = 0 /\ phase' # "done"
      BY <1>2 DEF Ask, Typed, Fresh
    <2>2. ASSUME phase' = "reading", NEW row \in first' PROVE Place(row, Current') >= offset'
      <3>1. agg' \in AggPeriods
        BY <2>2 DEF Typed, Accepted
      <3>2. IsFiniteSet(Current')
        BY <3>1, ResultNext DEF Typed
      <3> QED
        BY <2>1, <3>2, PlaceType
    <2> QED
      BY <2>1, <2>2 DEF Ahead, PageWalkComplete, Place, Before
  <1>3. CASE NextPage
    <2>1. /\ phase = "reading" /\ agg \in AggPeriods /\ limit = asked /\ limit \in Nat
          /\ offset \in Nat /\ first \subseteq Current
      BY <1>3 DEF Typed, TypeOK, Accepted, NextPage
    <2>2. Current \subseteq filter \X Nat /\ IsFiniteSet(Current)
      BY <2>1, ResultNow DEF Typed
    <2>3. PICK page \in Pages(Current, limit, offset) :
            /\ delivered' = delivered \cup page
            /\ phase' = IF Cardinality(page) < asked THEN "done" ELSE "reading"
      BY <1>3 DEF NextPage, Current
    <2>4. offset' = offset + limit /\ first' = first /\ Current' = Current
      BY <1>3, <2>1 DEF NextPage, Current, query
    <2>5. ASSUME NEW row \in first, Alone(row, Current), row \notin delivered'
          PROVE  Place(row, Current) >= offset + limit /\ phase' # "done"
      <3>1. row \in Current /\ Place(row, Current) \in Nat /\ Place(row, Current) >= offset
        BY <2>1, <2>2, <2>3, <2>5, PlaceType DEF Ahead
      <3>2. ~(offset <= Place(row, Current) /\ Place(row, Current) < offset + limit)
        BY <2>1, <2>2, <2>3, <2>5, <3>1, OnItsPage
      <3>3. Place(row, Current) >= offset + limit
        BY <2>1, <3>1, <3>2
      <3>4. Place(row, Current) < Cardinality(Current) /\ Cardinality(Current) \in Nat
        BY <2>2, <3>1, PlaceInside, FS_CardinalityType
      <3>5. offset + limit <= Cardinality(Current)
        BY <2>1, <3>1, <3>3, <3>4
      <3>6. Cardinality(page) = limit
        BY <2>1, <2>2, <3>5, PageSize
      <3> QED
        BY <2>1, <2>3, <3>3, <3>6
    <2>6. Ahead'
      BY <2>4, <2>5 DEF Ahead, Place, Before, Alone, Ties
    <2>7. PageWalkComplete'
      BY <2>4, <2>5 DEF PageWalkComplete, Current, Alone, Ties
    <2> QED
      BY <2>6, <2>7
  <1>4. CASE Leave
    BY <1>4 DEF Leave, Ahead, PageWalkComplete
  <1> QED
    BY <1>1, <1>2, <1>3, <1>4 DEF Next

(* Nothing is counted twice: the rows of a page are behind all that was delivered. *)
LEMMA CountedStep == ASSUME Inv, Typed', [Next]_vars PROVE Counted'
  <1> USE DEF Inv
  <1>1. CASE Insert \/ UNCHANGED vars
    <2>1. Current \subseteq Current' /\ UNCHANGED <<first, delivered, phase, offset, returned>>
      BY <1>1, CurrentGrows DEF Insert, vars, pages
    <2>2. phase \in {"reading", "done"} /\ Current' = first => Current = first
      BY <2>1 DEF Typed, Accepted
    <2> QED
      BY <2>1, <2>2 DEF Counted, AllAlone, Place, Before, Alone, Ties
  <1>2. CASE Ask
    BY <1>2, FS_EmptySet DEF Ask, Typed, Fresh, Counted
  <1>3. CASE NextPage
    <2>1. /\ phase = "reading" /\ agg \in AggPeriods /\ limit = asked /\ limit \in Nat
          /\ offset \in Nat
      BY <1>3 DEF Typed, TypeOK, Accepted, NextPage
    <2>2. IsFiniteSet(Current)
      BY <2>1, ResultNow DEF Typed
    <2>3. PICK page \in Pages(Current, limit, offset) :
            /\ delivered' = delivered \cup page
            /\ returned' = returned + Cardinality(page)
      BY <1>3 DEF NextPage, Current
    <2>4. offset' = offset + limit /\ first' = first /\ Current' = Current
      BY <1>3, <2>1 DEF NextPage, Current, query
    <2>5. page \subseteq Current /\ IsFiniteSet(page) /\ Cardinality(page) \in Nat
      BY <2>1, <2>2, PageSize
    <2>6. ASSUME Current = first, AllAlone(first)
          PROVE  /\ returned' = Cardinality(delivered') /\ delivered' \subseteq first
                 /\ \A row \in delivered' : Place(row, first) < offset'
      <3>1. /\ returned = Cardinality(delivered) /\ delivered \subseteq first
            /\ \A row \in delivered : Place(row, first) < offset
        BY <2>1, <2>6 DEF Counted
      <3>2. \A row \in page : offset <= Place(row, first) /\ Place(row, first) < offset + limit
        BY <2>1, <2>2, <2>5, <2>6, OnItsPage DEF AllAlone
      <3>3. \A row \in first : Place(row, first) \in Nat
        BY <2>2, <2>6, PlaceType
      <3>4. delivered \cap page = {}
        BY <2>1, <2>5, <2>6, <3>1, <3>2, <3>3
      <3>5. IsFiniteSet(delivered) /\ Cardinality(delivered) \in Nat
        BY <2>2, <2>6, <3>1, PartFinite
      <3>6. Cardinality(delivered \cup page)
              = Cardinality(delivered) + Cardinality(page) - Cardinality(delivered \cap page)
        BY <2>5, <3>5, FS_Union
      <3>7. returned' = Cardinality(delivered')
        BY <2>3, <2>5, <3>1, <3>4, <3>5, <3>6, FS_EmptySet
      <3>8. \A row \in delivered' : Place(row, first) < offset + limit
        BY <2>1, <2>3, <2>5, <2>6, <3>1, <3>2, <3>3
      <3> QED
        BY <2>3, <2>4, <2>5, <2>6, <3>1, <3>7, <3>8
    <2> QED
      BY <2>4, <2>6 DEF Counted, AllAlone, Place, Before, Alone, Ties
  <1>4. CASE Leave
    BY <1>4 DEF Leave, Counted
  <1> QED
    BY <1>1, <1>2, <1>3, <1>4 DEF Next

LEMMA InvInit == Init => Inv
  BY TypedInit DEF Init, Inv, Ahead, PageWalkComplete, Counted

LEMMA InvStep == Inv /\ [Next]_vars => Inv'
  <1>1. ASSUME Inv, [Next]_vars PROVE Typed'
    BY <1>1, TypedStep DEF Inv
  <1> QED
    BY <1>1, AheadStep, CountedStep DEF Inv

LEMMA Invariance == Spec => []Inv
  BY InvInit, InvStep, PTL DEF Spec

(***************************************************************************)
(* A client that reads to the short page has every row that was there when *)
(* it began and has a place of its own, whatever is inserted meanwhile:    *)
(* ORDER BY with OFFSET over tables that only grow.                        *)
(***************************************************************************)
THEOREM WalkMissesNothing == Spec => []PageWalkComplete
  <1>1. Inv => PageWalkComplete
    BY DEF Inv
  <1> QED
    BY Invariance, <1>1, PTL

(***************************************************************************)
(* In a result at rest whose rows have places of their own no row is on    *)
(* two pages: the offset passes each place once.                           *)
(***************************************************************************)
THEOREM NoneTwice == Spec => []NothingTwice
  <1>1. Inv => NothingTwice
    BY DEF Inv, Counted, NothingTwice, Current, AllAlone
  <1> QED
    BY Invariance, <1>1, PTL
-----------------------------------------------------------------------------
(* The gap report: arithmetic with the ticks of a minute. *)

LEMMA Division ==
  ASSUME NEW x \in Int
  PROVE  /\ x \div MinuteTicks \in Int /\ x % MinuteTicks \in Int
         /\ x = MinuteTicks * (x \div MinuteTicks) + (x % MinuteTicks)
         /\ 0 <= x % MinuteTicks /\ x % MinuteTicks < MinuteTicks
  BY GapsAssumption DEF GapsAssumption

(* No multiple of a minute lies strictly between two that follow each other. *)
LEMMA Multiples ==
  ASSUME NEW a \in Int, NEW b \in Int, a < b
  PROVE  MinuteTicks * a + MinuteTicks <= MinuteTicks * b
  <1>1. PICK d \in Nat : b = a + 1 + d
    <2>1. b - a - 1 \in Nat /\ b = a + 1 + (b - a - 1)
      OBVIOUS
    <2> QED
      BY <2>1
  <1>2. MinuteTicks * d >= 0 /\ MinuteTicks * b = MinuteTicks * a + MinuteTicks + MinuteTicks * d
    BY <1>1, GapsAssumption DEF GapsAssumption
  <1> QED
    BY <1>2, GapsAssumption DEF GapsAssumption

(* Minutes counted from a full minute are full minutes. *)
LEMMA FullMinutes ==
  ASSUME NEW a \in Int, NEW t \in Int, a % MinuteTicks = 0
  PROVE  (t - a) % MinuteTicks = 0 <=> t % MinuteTicks = 0
  <1> DEFINE q == a \div MinuteTicks
             r == (t - a) \div MinuteTicks
             p == t \div MinuteTicks
  <1>1. q \in Int /\ r \in Int /\ p \in Int /\ MinuteTicks \in Nat \ {0}
    BY Division, GapsAssumption DEF GapsAssumption
  <1>2. a = MinuteTicks * q
    <2>1. a = MinuteTicks * q + (a % MinuteTicks) /\ MinuteTicks * q \in Int
      BY <1>1, Division
    <2> HIDE DEF q
    <2> QED
      BY <2>1
  <1>3. t - a = MinuteTicks * r + ((t - a) % MinuteTicks) /\ t = MinuteTicks * p + (t % MinuteTicks)
    BY Division
  <1>4. 0 <= (t - a) % MinuteTicks /\ (t - a) % MinuteTicks < MinuteTicks /\ (t - a) % MinuteTicks \in Int
    BY Division
  <1>5. 0 <= t % MinuteTicks /\ t % MinuteTicks < MinuteTicks /\ t % MinuteTicks \in Int
    BY Division
  <1>6. MinuteTicks * (r + q) = MinuteTicks * r + MinuteTicks * q /\ r + q \in Int
    BY <1>1
  <1> DEFINE x == (t - a) % MinuteTicks
             y == t % MinuteTicks
             s == r + q
  <1>7. MinuteTicks * s + x = MinuteTicks * p + y
    <2>1. MinuteTicks * r \in Int /\ MinuteTicks * q \in Int /\ MinuteTicks * p \in Int
      BY <1>1
    <2> HIDE DEF q, r, p, x, y
    <2> QED
      BY <1>2, <1>3, <1>4, <1>5, <1>6, <2>1 DEF x, y
  <1>8. MinuteTicks * s \in Int /\ MinuteTicks * p \in Int
    BY <1>1, <1>6
  <1>9. s = p
    <2>1. s < p => MinuteTicks * s + MinuteTicks <= MinuteTicks * p
      BY <1>1, <1>6, Multiples
    <2>2. p < s => MinuteTicks * p + MinuteTicks <= MinuteTicks * s
      BY <1>1, <1>6, Multiples
    <2>3. /\ s \in Int /\ p \in Int /\ x \in Int /\ y \in Int
          /\ 0 <= x /\ x < MinuteTicks /\ 0 <= y /\ y < MinuteTicks
      BY <1>1, <1>4, <1>5, <1>6
    <2> HIDE DEF s, p, x, y
    <2> QED
      BY <1>1, <1>7, <1>8, <2>1, <2>2, <2>3
  <1> HIDE DEF s, p, x, y
  <1>10. x = y
    BY <1>4, <1>5, <1>7, <1>8, <1>9 DEF x, y
  <1> QED
    BY <1>10 DEF x, y

(* A gap's minutes, as they are compared. *)
LEMMA GapLength ==
  ASSUME NEW gap \in Int \X Int, NEW minutes \in Nat
  PROVE  GapMinutes(gap) >= minutes <=> LongEnough(gap, minutes)
  <1> DEFINE x == gap[2] - gap[1]
             d == x \div MinuteTicks
             k == minutes - 1
  <1>1. x \in Int /\ k \in Int
    OBVIOUS
  <1> HIDE DEF x, k
  <1>2. d \in Int /\ x % MinuteTicks \in Int /\ x = MinuteTicks * d + (x % MinuteTicks)
        /\ 0 <= x % MinuteTicks /\ x % MinuteTicks < MinuteTicks
    BY <1>1, Division
  <1> HIDE DEF d
  <1>3. MinuteTicks * d \in Int /\ MinuteTicks * k \in Int /\ MinuteTicks * k = k * MinuteTicks /\ MinuteTicks \in Nat
    BY <1>1, <1>2, GapsAssumption DEF GapsAssumption
  <1>4. d >= k <=> x >= MinuteTicks * k
    <2>1. k < d => MinuteTicks * k + MinuteTicks <= MinuteTicks * d
      BY <1>1, <1>2, Multiples
    <2>2. d < k => MinuteTicks * d + MinuteTicks <= MinuteTicks * k
      BY <1>1, <1>2, Multiples
    <2> DEFINE K == MinuteTicks * k
               D == MinuteTicks * d
    <2>3. K \in Int /\ D \in Int /\ (k < d => K + MinuteTicks <= D) /\ (d < k => D + MinuteTicks <= K)
          /\ (k = d => K = D) /\ x = D + (x % MinuteTicks)
      BY <1>2, <1>3, <2>1, <2>2
    <2> HIDE DEF K, D
    <2>4. d >= k <=> x >= K
      BY <1>1, <1>2, <1>3, <2>3
    <2> QED
      BY <2>4 DEF K
  <1>5. GapMinutes(gap) = d + 1
    BY DEF GapMinutes, d, x
  <1>6. LongEnough(gap, minutes) <=> x >= MinuteTicks * k
    BY <1>3 DEF LongEnough, x, k
  <1>7. d + 1 >= minutes <=> d >= k
    BY <1>2 DEF k
  <1> QED
    BY <1>4, <1>5, <1>6, <1>7

(* What is expected is the session minutes, when the range does not begin inside one. *)
LEMMA ExpectedRegular ==
  ASSUME NEW from \in Nat, NEW to \in Nat, Aligned(from)
  PROVE  ExpectedBarMinutes(from, to) = RegularMinutes(from, to)
  <1>1. ASSUME NEW s \in Sessions, NEW t \in from..to, s[1] <= t, t <= s[2]
        PROVE  t \in SessionMinutes(s, from, to) <=> t % MinuteTicks = 0
    <2>1. s[1] \in Nat /\ s[2] \in Nat /\ s[1] % MinuteTicks = 0 /\ s[2] % MinuteTicks = 0
      BY GapsAssumption DEF GapsAssumption
    <2> DEFINE f == Later(s[1], from)
    <2>2. f \in Int /\ t \in f..Earlier(s[2], to)
      BY <1>1, <2>1 DEF Later, Earlier
    <2>3. f % MinuteTicks = 0
      <3>1. CASE from <= s[1]
        <4>1. f = s[1]
          BY <2>1, <3>1 DEF Later
        <4> QED
          BY <2>1, <4>1
      <3>2. CASE s[1] < from
        <4>1. f = from
          BY <2>1, <3>2 DEF Later
        <4>2. CASE from % MinuteTicks = 0
          BY <4>1, <4>2
        <4>3. CASE ~ (s[1] < from /\ from < s[2])
          <5>1. from = s[2]
            BY <1>1, <2>1, <3>2, <4>3
          <5> QED
            BY <2>1, <4>1, <5>1
        <4> QED
          BY <4>2, <4>3 DEF Aligned
      <3> QED
        BY <2>1, <3>1, <3>2
    <2>4. t \in SessionMinutes(s, from, to) <=> (t - f) % MinuteTicks = 0
      BY <2>2 DEF SessionMinutes
    <2>5. f \in Int /\ t \in Int
      BY <2>2
    <2> HIDE DEF f
    <2>6. (t - f) % MinuteTicks = 0 <=> t % MinuteTicks = 0
      BY <2>3, <2>5, FullMinutes
    <2> QED
      BY <2>4, <2>6
  <1>2. ASSUME NEW s \in Sessions, NEW t \in SessionMinutes(s, from, to)
        PROVE  t \in from..to /\ s[1] <= t /\ t <= s[2]
    <2>1. s[1] \in Nat /\ s[2] \in Nat
      BY GapsAssumption DEF GapsAssumption
    <2>2. t \in Later(s[1], from)..Earlier(s[2], to)
      BY DEF SessionMinutes
    <2> QED
      BY <2>1, <2>2 DEF Later, Earlier
  <1>3. ASSUME NEW t \in ExpectedBarMinutes(from, to) PROVE t \in RegularMinutes(from, to)
    <2>1. PICK s \in Sessions : t \in SessionMinutes(s, from, to)
      BY DEF ExpectedBarMinutes
    <2> QED
      BY <1>1, <1>2, <2>1 DEF RegularMinutes
  <1>4. ASSUME NEW t \in RegularMinutes(from, to) PROVE t \in ExpectedBarMinutes(from, to)
    <2>1. t \in from..to /\ t % MinuteTicks = 0
      BY DEF RegularMinutes
    <2>2. PICK s \in Sessions : s[1] <= t /\ t <= s[2]
      BY DEF RegularMinutes
    <2> QED
      BY <1>1, <2>1, <2>2 DEF ExpectedBarMinutes
  <1> QED
    BY <1>3, <1>4

-----------------------------------------------------------------------------
(* The stretches of missing minutes, as the minutes come one after the other. *)

LEMMA PairOfMinutes ==
  ASSUME NEW S \in SUBSET Nat, NEW gap \in S \X S
  PROVE  gap[1] \in Nat /\ gap[2] \in Nat /\ gap = <<gap[1], gap[2]>>
  <1>1. gap[1] \in S /\ gap[2] \in S
    OBVIOUS
  <1>2. gap = <<gap[1], gap[2]>>
    OBVIOUS
  <1> QED
    BY <1>1, <1>2

(* The minute that comes next has a row. *)
LEMMA StretchesKept ==
  ASSUME NEW E \in SUBSET Nat, NEW missing \in SUBSET E, NEW m \in Nat, \A e \in E : e < m
  PROVE  Stretches(E \cup {m}, missing) = Stretches(E, missing)
  <1>1. \A t, u \in missing : Apart(t, u, E \cup {m}, missing) <=> Apart(t, u, E, missing)
    BY DEF Apart
  <1>2. \A gap \in missing \X missing :
          (\A t \in E \cup {m} : gap[1] <= t /\ t <= gap[2] => t \in missing)
            <=> (\A t \in E : gap[1] <= t /\ t <= gap[2] => t \in missing)
    <2> TAKE gap \in missing \X missing
    <2>1. gap[2] \in Nat /\ gap[2] < m
      <3>1. gap[2] \in missing
        OBVIOUS
      <3> QED
        BY <3>1
    <2>2. ~ (m <= gap[2])
      BY <2>1
    <2> QED
      BY <2>2
  <1>3. \A gap \in missing \X missing : gap[1] \in missing /\ gap[2] \in missing
    OBVIOUS
  <1> HIDE DEF Apart
  <1> QED
    BY <1>1, <1>2, <1>3, ZenonT(60) DEF Stretches

(* It has none, and the one before has: a stretch of its own. *)
LEMMA StretchBegins ==
  ASSUME NEW E \in SUBSET Nat, NEW missing \in SUBSET E, NEW m \in Nat, NEW prev \in Int,
         \A e \in E : e < m /\ e <= prev, E # {} => prev \in E, prev \notin missing
  PROVE  Stretches(E \cup {m}, missing \cup {m}) = Stretches(E, missing) \cup {<<m, m>>}
  <1> DEFINE F == E \cup {m}
             more == missing \cup {m}
  <1>1. F \ more = E \ missing
    OBVIOUS
  <1>2. \A t, u : Apart(t, u, F, more) <=> Apart(t, u, E, missing)
    BY <1>1 DEF Apart
  <1>3. \A t \in missing : Apart(t, m, E, missing)
    <2> TAKE t \in missing
    <2>1. prev \in E /\ prev \notin missing /\ t <= prev /\ t # prev /\ prev < m /\ t \in Nat /\ prev \in Nat
      OBVIOUS
    <2> QED
      BY <2>1 DEF Apart
  <1>4. ASSUME NEW gap \in Stretches(F, more) PROVE gap \in Stretches(E, missing) \cup {<<m, m>>}
    <2>1. /\ gap \in more \X more /\ gap[1] <= gap[2]
          /\ \A t \in F : gap[1] <= t /\ t <= gap[2] => t \in more
          /\ \A t \in more : /\ t < gap[1] => Apart(t, gap[1], F, more)
                             /\ gap[2] < t => Apart(gap[2], t, F, more)
      BY DEF Stretches
    <2>2. gap[1] \in Nat /\ gap[2] \in Nat /\ gap = <<gap[1], gap[2]>>
      <3>1. more \subseteq Nat
        OBVIOUS
      <3>2. gap \in more \X more
        BY <2>1
      <3> QED
        BY <3>1, <3>2, PairOfMinutes
    <2>3. CASE gap[2] = m
      <3>1. gap[1] \notin missing
        <4> SUFFICES ASSUME gap[1] \in missing PROVE FALSE
          OBVIOUS
        <4>1. gap[1] \in E
          OBVIOUS
        <4>2. prev \in E /\ gap[1] <= prev /\ prev < m
          BY <4>1
        <4>3. prev \notin more /\ prev <= gap[2]
          BY <2>3, <4>2
        <4> QED
          BY <2>1, <4>2, <4>3
      <3>2. gap[1] = m
        BY <2>1, <3>1
      <3> QED
        BY <2>2, <2>3, <3>2
    <2>4. CASE gap[2] # m
      <3>1. gap[2] \in missing
        BY <2>1, <2>4
      <3>2. gap[1] \in missing
        BY <2>1, <2>2, <3>1
      <3>3. \A t \in E : gap[1] <= t /\ t <= gap[2] => t \in missing
        BY <2>1
      <3>4. \A t \in missing : /\ t < gap[1] => Apart(t, gap[1], E, missing)
                               /\ gap[2] < t => Apart(gap[2], t, E, missing)
        BY <1>2, <2>1
      <3>5. gap \in missing \X missing
        BY <2>2, <3>1, <3>2
      <3> QED
        BY <2>1, <3>3, <3>4, <3>5 DEF Stretches
    <2> QED
      BY <2>3, <2>4
  <1>5. ASSUME NEW gap \in Stretches(E, missing) PROVE gap \in Stretches(F, more)
    <2>1. /\ gap \in missing \X missing /\ gap[1] <= gap[2]
          /\ \A t \in E : gap[1] <= t /\ t <= gap[2] => t \in missing
          /\ \A t \in missing : /\ t < gap[1] => Apart(t, gap[1], E, missing)
                                /\ gap[2] < t => Apart(gap[2], t, E, missing)
      BY DEF Stretches
    <2>2. gap[1] \in missing /\ gap[2] \in missing /\ gap[1] < m /\ gap[2] < m /\ gap[1] \in Nat /\ gap[2] \in Nat
      BY <2>1
    <2>3. \A t \in more : /\ t < gap[1] => Apart(t, gap[1], E, missing)
                          /\ gap[2] < t => Apart(gap[2], t, E, missing)
      BY <1>3, <2>1, <2>2
    <2>4. \A t \in F : gap[1] <= t /\ t <= gap[2] => t \in more
      BY <2>1, <2>2
    <2>5. gap \in more \X more
      BY <2>1
    <2>6. \A t \in more : /\ t < gap[1] => Apart(t, gap[1], F, more)
                          /\ gap[2] < t => Apart(gap[2], t, F, more)
      BY <1>2, <2>3
    <2> QED
      BY <2>1, <2>4, <2>5, <2>6 DEF Stretches
  <1>6. <<m, m>> \in Stretches(F, more)
    <2> DEFINE gap == <<m, m>>
    <2>1. gap \in more \X more /\ gap[1] = m /\ gap[2] = m /\ gap[1] <= gap[2]
      OBVIOUS
    <2>2. \A t \in F : m <= t /\ t <= m => t \in more
      OBVIOUS
    <2>3. \A t \in more : (t < m => Apart(t, m, F, more)) /\ ~ (m < t)
      BY <1>2, <1>3
    <2> HIDE DEF gap, F, more
    <2> QED
      BY <2>1, <2>2, <2>3 DEF Stretches, gap
  <1> QED
    BY <1>4, <1>5, <1>6

(* It has none, nor has the one before: the last stretch grows. *)
LEMMA StretchGrows ==
  ASSUME NEW E \in SUBSET Nat, NEW missing \in SUBSET E, NEW m \in Nat, NEW begin \in Int, NEW prev \in Int,
         \A e \in E : e < m /\ e <= prev, <<begin, prev>> \in Stretches(E, missing)
  PROVE  Stretches(E \cup {m}, missing \cup {m})
           = (Stretches(E, missing) \ {<<begin, prev>>}) \cup {<<begin, m>>}
  <1> DEFINE F == E \cup {m}
             more == missing \cup {m}
  <1>1. F \ more = E \ missing
    OBVIOUS
  <1>2. \A t, u : Apart(t, u, F, more) <=> Apart(t, u, E, missing)
    BY <1>1 DEF Apart
  <1>3. /\ begin \in missing /\ prev \in missing /\ begin <= prev /\ begin \in Nat /\ prev \in Nat /\ prev < m
        /\ \A t \in E : begin <= t /\ t <= prev => t \in missing
        /\ \A t \in missing : t < begin => Apart(t, begin, E, missing)
    BY DEF Stretches
  <1>4. \A t \in Nat : begin <= t => ~ Apart(t, m, E, missing)
    BY <1>3 DEF Apart
  <1>5. \A t \in missing, u \in Nat : t < begin /\ begin <= u => Apart(t, u, E, missing)
    BY <1>3 DEF Apart
  <1>6. ASSUME NEW a \in missing,
               \A t \in missing : t < a => Apart(t, a, E, missing),
               \A t \in E : a <= t => t \in missing
        PROVE  a = begin
    <2>1. a \in Nat
      OBVIOUS
    <2>2. CASE a < begin
      <3>1. PICK x \in E \ missing : a < x /\ x < begin
        BY <1>3, <2>2 DEF Apart
      <3> QED
        BY <1>6, <2>1, <3>1
    <2>3. CASE begin < a
      <3>1. PICK x \in E \ missing : begin < x /\ x < a
        BY <1>3, <1>6, <2>3 DEF Apart
      <3>2. x <= prev /\ begin <= x
        BY <1>3, <3>1
      <3> QED
        BY <1>3, <3>1, <3>2
    <2> QED
      BY <1>3, <2>1, <2>2, <2>3
  <1>7. ASSUME NEW gap \in Stretches(F, more)
        PROVE  gap \in (Stretches(E, missing) \ {<<begin, prev>>}) \cup {<<begin, m>>}
    <2>1. /\ gap \in more \X more /\ gap[1] <= gap[2]
          /\ \A t \in F : gap[1] <= t /\ t <= gap[2] => t \in more
          /\ \A t \in more : /\ t < gap[1] => Apart(t, gap[1], E, missing)
                             /\ gap[2] < t => Apart(gap[2], t, E, missing)
      BY <1>2 DEF Stretches
    <2>2. gap[1] \in Nat /\ gap[2] \in Nat /\ gap = <<gap[1], gap[2]>>
      <3>1. more \subseteq Nat
        OBVIOUS
      <3>2. gap \in more \X more
        BY <2>1
      <3> QED
        BY <3>1, <3>2, PairOfMinutes
    <2>3. CASE gap[2] = m
      <3>1. gap[1] # m
        <4> SUFFICES ASSUME gap[1] = m PROVE FALSE
          OBVIOUS
        <4>1. prev \in more /\ prev < gap[1]
          BY <1>3
        <4>2. Apart(prev, m, E, missing)
          BY <2>1, <4>1
        <4> QED
          BY <1>3, <1>4, <4>2
      <3>2. gap[1] \in missing
        BY <2>1, <3>1
      <3>3. \A t \in E : gap[1] <= t => t \in missing
        <4> TAKE t \in E
        <4>1. t \in F /\ t < m /\ t # m
          OBVIOUS
        <4> QED
          BY <2>1, <2>3, <4>1
      <3>4. gap[1] = begin
        <4>1. \A t \in missing : t < gap[1] => Apart(t, gap[1], E, missing)
          BY <2>1
        <4> QED
          BY <1>6, <3>2, <3>3, <4>1
      <3> QED
        BY <2>2, <2>3, <3>4
    <2>4. CASE gap[2] # m
      <3>1. gap[2] \in missing
        BY <2>1, <2>4
      <3>2. gap[1] \in missing
        BY <2>1, <2>2, <3>1
      <3>3. \A t \in E : gap[1] <= t /\ t <= gap[2] => t \in missing
        BY <2>1, <3>1
      <3>4. \A t \in missing : /\ t < gap[1] => Apart(t, gap[1], E, missing)
                               /\ gap[2] < t => Apart(gap[2], t, E, missing)
        BY <2>1
      <3>5. gap \in missing \X missing
        BY <2>2, <3>1, <3>2
      <3>6. gap \in Stretches(E, missing)
        BY <2>1, <3>3, <3>4, <3>5 DEF Stretches
      <3>7. gap[2] # prev
        <4> SUFFICES ASSUME gap[2] = prev PROVE FALSE
          OBVIOUS
        <4>1. Apart(prev, m, E, missing)
          BY <1>3, <2>1
        <4> QED
          BY <1>3, <1>4, <4>1
      <3> QED
        BY <3>6, <3>7
    <2> QED
      BY <2>3, <2>4
  <1>8. ASSUME NEW gap \in Stretches(E, missing), gap # <<begin, prev>> PROVE gap \in Stretches(F, more)
    <2>1. /\ gap \in missing \X missing /\ gap[1] <= gap[2]
          /\ \A t \in E : gap[1] <= t /\ t <= gap[2] => t \in missing
          /\ \A t \in missing : /\ t < gap[1] => Apart(t, gap[1], E, missing)
                                /\ gap[2] < t => Apart(gap[2], t, E, missing)
      BY DEF Stretches
    <2>2. gap[1] \in missing /\ gap[2] \in missing /\ gap[1] \in Nat /\ gap[2] \in Nat /\ gap[2] < m
      BY <2>1
    <2>3. gap[2] < begin
      <3>1. gap[2] # prev
        <4> SUFFICES ASSUME gap[2] = prev PROVE FALSE
          OBVIOUS
        <4>1. \A t \in E : gap[1] <= t => t \in missing
          BY <2>1
        <4>2. gap[1] = begin
          <5>1. \A t \in missing : t < gap[1] => Apart(t, gap[1], E, missing)
            BY <2>1
          <5> QED
            BY <1>6, <2>2, <4>1, <5>1
        <4>3. gap = <<gap[1], gap[2]>>
          BY <2>1
        <4> QED
          BY <1>8, <4>2, <4>3
      <3>2. gap[2] < prev
        BY <1>3, <2>2, <3>1
      <3>3. PICK x \in E \ missing : gap[2] < x /\ x < prev
        BY <1>3, <2>1, <3>2 DEF Apart
      <3>4. ~ (begin <= x)
        BY <1>3, <3>3
      <3> QED
        BY <1>3, <2>2, <3>3, <3>4
    <2>4. Apart(gap[2], m, E, missing)
      BY <1>3, <1>5, <2>2, <2>3
    <2>5. \A t \in more : /\ t < gap[1] => Apart(t, gap[1], E, missing)
                          /\ gap[2] < t => Apart(gap[2], t, E, missing)
      <3> TAKE t \in more
      <3>1. CASE t = m
        BY <2>1, <2>2, <2>4, <3>1
      <3>2. CASE t \in missing
        BY <2>1, <3>2
      <3> QED
        BY <3>1, <3>2
    <2>6. \A t \in F : gap[1] <= t /\ t <= gap[2] => t \in more
      BY <2>1, <2>2
    <2>7. gap \in more \X more
      BY <2>1
    <2>8. \A t \in more : /\ t < gap[1] => Apart(t, gap[1], F, more)
                          /\ gap[2] < t => Apart(gap[2], t, F, more)
      BY <1>2, <2>5
    <2> QED
      BY <2>1, <2>6, <2>7, <2>8 DEF Stretches
  <1>9. <<begin, m>> \in Stretches(F, more)
    <2> DEFINE gap == <<begin, m>>
    <2>1. gap \in more \X more /\ gap[1] = begin /\ gap[2] = m /\ gap[1] <= gap[2]
      BY <1>3
    <2>2. \A t \in F : begin <= t /\ t <= m => t \in more
      BY <1>3
    <2>3. \A t \in more : (t < begin => Apart(t, begin, E, missing)) /\ ~ (m < t)
      <3> TAKE t \in more
      <3>1. t \in missing \/ t = m
        OBVIOUS
      <3> QED
        BY <1>3, <3>1
    <2>4. \A t \in more : (t < begin => Apart(t, begin, F, more)) /\ ~ (m < t)
      BY <1>2, <2>3
    <2> HIDE DEF gap, F, more
    <2> QED
      BY <2>1, <2>2, <2>4 DEF Stretches, gap
  <1>10. <<begin, prev>> \notin Stretches(F, more)
    <2> SUFFICES ASSUME <<begin, prev>> \in Stretches(F, more) PROVE FALSE
      OBVIOUS
    <2>1. Apart(prev, m, E, missing)
      <3>1. m \in more /\ prev < m
        BY <1>3
      <3>2. Apart(prev, m, F, more)
        BY <3>1 DEF Stretches
      <3> QED
        BY <1>2, <3>2
    <2> QED
      BY <1>3, <1>4, <2>1
  <1> QED
    BY <1>7, <1>8, <1>9

-----------------------------------------------------------------------------
(* Numbers: induction, and functions that are defined by it. *)

(* Every set of numbers has a least one. *)
LEMMA LeastNumber ==
  ASSUME NEW T \in SUBSET Nat, T # {} PROVE \E n \in T : \A m \in T : n <= m
  <1> DEFINE Smaller == {p \in Nat \X Nat : p[1] < p[2]}
  <1>1. IsWellFoundedOn(Smaller, Nat)
    BY NatLessThanWellFounded DEF OpToRel
  <1>2. \E n \in T : \A m \in T : ~ (<<m, n>> \in Smaller)
    <2> HIDE DEF Smaller
    <2> QED
      BY <1>1, WFMin
  <1>3. PICK n \in T : \A m \in T : ~ (<<m, n>> \in Smaller)
    BY <1>2
  <1>4. ASSUME NEW m \in T PROVE n <= m
    <2>1. <<m, n>> \notin Smaller /\ m \in Nat /\ n \in Nat
      BY <1>3
    <2>2. ~ (m < n)
      BY <2>1
    <2> QED
      BY <2>1, <2>2
  <1> QED
    BY <1>4

(* A set of numbers that has 0, and with each number the next, has them all. *)
LEMMA AllNumbers ==
  ASSUME NEW T \in SUBSET Nat, 0 \in T, \A n \in T : n + 1 \in T PROVE T = Nat
  <1> SUFFICES ASSUME Nat \ T # {} PROVE FALSE
    OBVIOUS
  <1>1. PICK n \in Nat \ T : \A m \in Nat \ T : n <= m
    BY LeastNumber
  <1>2. n # 0 /\ n - 1 \in Nat
    OBVIOUS
  <1>3. n - 1 \in T
    BY <1>1, <1>2
  <1> QED
    BY <1>1, <1>2, <1>3

(* f goes from init in steps. *)
Iterates(f, S, init, step) ==
  f \in [Nat -> S] /\ f[0] = init /\ \A n \in Nat : f[n + 1] = step[n][f[n]]

(* There is a function with a given first value and given steps. *)
LEMMA Iterated ==
  ASSUME NEW S, NEW init \in S, NEW step, step \in [Nat -> [S -> S]]
  PROVE  \E f : Iterates(f, S, init, step)
  <1> DEFINE Run(n) == {g \in [0..n -> S] : g[0] = init /\ \A i \in 0..(n - 1) : g[i + 1] = step[i][g[i]]}
             Agree(i) == \A n, m \in Nat : \A g, h : i <= n /\ i <= m /\ g \in Run(n) /\ h \in Run(m)
                           => g[i] = h[i]
             Common == {i \in Nat : Agree(i)}
             Reached == {n \in Nat : Run(n) # {}}
  <1>1. \A i \in Nat : Agree(i)
    <2>1. Agree(0)
      OBVIOUS
    <2>2. ASSUME NEW i \in Nat, Agree(i) PROVE Agree(i + 1)
      <3> SUFFICES ASSUME NEW n \in Nat, NEW m \in Nat, NEW g, NEW h, i + 1 <= n, i + 1 <= m,
                          g \in Run(n), h \in Run(m)
                   PROVE  g[i + 1] = h[i + 1]
        <4> HIDE DEF Run
        <4> QED
          OBVIOUS
      <3>1. i <= n /\ i <= m /\ i \in 0..(n - 1) /\ i \in 0..(m - 1)
        OBVIOUS
      <3>2. g[i] = h[i]
        <4> HIDE DEF Run
        <4> QED
          BY <2>2, <3>1
      <3> QED
        BY <3>1, <3>2
    <2> HIDE DEF Agree
    <2>3. Common \in SUBSET Nat /\ 0 \in Common /\ \A i \in Common : i + 1 \in Common
      BY <2>1, <2>2
    <2>4. Common = Nat
      <3> HIDE DEF Common
      <3> QED
        BY <2>3, AllNumbers
    <2> QED
      BY <2>4
  <1>2. Reached = Nat
    <2>1. 0 \in Reached
      <3>1. [i \in 0..0 |-> init] \in Run(0)
        OBVIOUS
      <3> QED
        BY <3>1
    <2>2. ASSUME NEW n \in Reached PROVE n + 1 \in Reached
      <3>1. PICK g \in Run(n) : TRUE
        OBVIOUS
      <3> DEFINE h == [i \in 0..(n + 1) |-> IF i <= n THEN g[i] ELSE step[n][g[n]]]
      <3>2. g[n] \in S /\ step[n][g[n]] \in S
        OBVIOUS
      <3>3. h \in [0..(n + 1) -> S] /\ h[0] = init
        BY <3>2
      <3>4. ASSUME NEW i \in 0..n PROVE h[i + 1] = step[i][h[i]]
        <4>1. CASE i = n
          BY <4>1
        <4>2. CASE i # n
          <5>1. i \in 0..(n - 1) /\ i + 1 \in 0..n /\ i \in 0..n
            BY <4>2
          <5>2. h[i + 1] = g[i + 1] /\ h[i] = g[i]
            BY <5>1
          <5> QED
            BY <5>1, <5>2
        <4> QED
          BY <4>1, <4>2
      <3>5. h \in Run(n + 1) /\ n + 1 \in Nat
        <4> HIDE DEF h
        <4>1. (n + 1) - 1 = n
          OBVIOUS
        <4> QED
          BY <3>3, <3>4, <4>1
      <3> HIDE DEF Run
      <3> QED
        BY <3>5
    <2> HIDE DEF Reached
    <2>3. Reached \in SUBSET Nat
      BY DEF Reached
    <2> QED
      BY <2>1, <2>2, <2>3, AllNumbers
  <1> DEFINE one == [n \in Nat |-> CHOOSE g \in Run(n) : TRUE]
             f == [n \in Nat |-> one[n][n]]
  <1>3. \A n \in Nat : one[n] \in Run(n)
    BY <1>2
  <1>4. f \in [Nat -> S] /\ f[0] = init
    <2> HIDE DEF one
    <2>1. \A n \in Nat : one[n][n] \in S
      BY <1>3
    <2>2. one[0][0] = init
      BY <1>3
    <2> QED
      BY <2>1, <2>2
  <1>5. ASSUME NEW n \in Nat PROVE f[n + 1] = step[n][f[n]]
    <2> HIDE DEF one
    <2>1. one[n + 1] \in Run(n + 1) /\ one[n] \in Run(n) /\ n \in 0..n
      BY <1>3
    <2>2. one[n + 1][n + 1] = step[n][one[n + 1][n]]
      BY <2>1
    <2>3. one[n + 1][n] = one[n][n]
      <3>1. Agree(n) /\ n <= n + 1 /\ n <= n /\ n + 1 \in Nat
        <4> HIDE DEF Agree
        <4> QED
          BY <1>1
      <3> HIDE DEF Run
      <3> QED
        BY <2>1, <3>1
    <2> QED
      BY <2>2, <2>3
  <1> QED
    BY <1>4, <1>5 DEF Iterates

-----------------------------------------------------------------------------
(* The loop of find_gaps. *)

ScanState == [gaps : Seq(Int \X Int), first : Int, prev : Int]

(* What it begins with. *)
Nothing == [gaps |-> <<>>, first |-> -1, prev |-> -1]

(* What it makes of the n-th tick. *)
Round(existing, from, to, minutes, n, scan) ==
  IF from + n - 1 \in ExpectedBarMinutes(from, to)
  THEN Look(existing, scan, from + n - 1, minutes) ELSE scan

(* A round keeps the types. *)
LEMMA LookType ==
  ASSUME NEW existing, NEW minute \in Int, NEW minutes \in Nat, NEW scan \in ScanState
  PROVE  Look(existing, scan, minute, minutes) \in ScanState
  <1>1. CloseGap(scan, minute, minutes) \in Seq(Int \X Int)
    BY DEF CloseGap, GapBefore, ScanState
  <1>2. scan.gaps \in Seq(Int \X Int) /\ scan.first \in Int /\ scan.prev \in Int
    BY DEF ScanState
  <1>3. CASE minute \in existing
    BY <1>1, <1>2, <1>3 DEF Look, ScanState
  <1>4. CASE minute \notin existing
    BY <1>2, <1>4 DEF Look, ScanState
  <1> QED
    BY <1>3, <1>4

(* scan[n] is what the loop has after n ticks. *)
Scans(scan, existing, from, to, minutes) ==
  /\ scan \in [Nat -> ScanState] /\ scan[0] = Nothing
  /\ \A n \in Nat : scan[n + 1] = Round(existing, from, to, minutes, n + 1, scan[n])

(* The recursive function is what its equations say. *)
LEMMA ScanSteps ==
  ASSUME NEW existing, NEW from \in Nat, NEW to \in Nat, NEW minutes \in Nat
  PROVE  Scans(ScanOf(existing, from, to, minutes), existing, from, to, minutes)
  <1> DEFINE scan == ScanOf(existing, from, to, minutes)
  <1> DEFINE step == [n \in Nat |-> [s \in ScanState |-> Round(existing, from, to, minutes, n + 1, s)]]
  <1>1. \A n \in Nat, s \in ScanState : Round(existing, from, to, minutes, n, s) \in ScanState
    BY LookType DEF Round
  <1>2. step \in [Nat -> [ScanState -> ScanState]]
    BY <1>1
  <1>3. Nothing \in ScanState
    BY DEF Nothing, ScanState
  <1>4. PICK f \in [Nat -> ScanState] : f[0] = Nothing /\ \A n \in Nat : f[n + 1] = step[n][f[n]]
    <2> HIDE DEF step
    <2>1. PICK f : Iterates(f, ScanState, Nothing, step)
      BY <1>2, <1>3, Iterated
    <2> QED
      BY <2>1 DEF Iterates
  <1> DEFINE Body(g) == [n \in Nat |-> IF n = 0 THEN Nothing ELSE Round(existing, from, to, minutes, n, g[n - 1])]
  <1>5. \A n \in Nat : f[n + 1] = Round(existing, from, to, minutes, n + 1, f[n])
    BY <1>4
  <1>6. f = Body(f)
    <2>1. ASSUME NEW n \in Nat PROVE f[n] = Body(f)[n]
      <3>1. CASE n = 0
        BY <1>4, <3>1
      <3>2. CASE n # 0
        <4>1. n - 1 \in Nat /\ (n - 1) + 1 = n
          BY <3>2
        <4> QED
          BY <1>5, <3>2, <4>1
      <3> QED
        BY <3>1, <3>2
    <2> QED
      BY <2>1
  <1>7. scan = CHOOSE g : g = Body(g)
    BY DEF ScanOf, Round, Nothing
  <1> HIDE DEF scan
  <1>8. scan = Body(scan)
    <2> HIDE DEF Body
    <2> QED
      BY <1>6, <1>7
  <1>9. scan[0] = Nothing /\ \A n \in Nat : scan[n + 1] = Round(existing, from, to, minutes, n + 1, scan[n])
    <2>1. \A n \in Nat : n + 1 \in Nat /\ n + 1 # 0 /\ (n + 1) - 1 = n
      OBVIOUS
    <2> QED
      BY <1>8, <2>1
  <1>10. \A n \in Nat : scan[n] \in ScanState
    <2> DEFINE T == {n \in Nat : scan[n] \in ScanState}
    <2>1. 0 \in T /\ \A n \in T : n + 1 \in T
      BY <1>1, <1>3, <1>9
    <2>2. T \in SUBSET Nat
      OBVIOUS
    <2>3. T = Nat
      <3> HIDE DEF T
      <3> QED
        BY <2>1, <2>2, AllNumbers
    <2> QED
      BY <2>3
  <1>11. scan = [n \in Nat |-> scan[n]]
    BY <1>8
  <1>12. scan \in [Nat -> ScanState]
    BY <1>10, <1>11
  <1> QED
    BY <1>9, <1>12 DEF Scans, scan

-----------------------------------------------------------------------------
(* The report of the loop. *)

Listed(gaps) == {gaps[i] : i \in 1..Len(gaps)}

InOrder(gaps) == \A i \in 1..(Len(gaps) - 1) : gaps[i][2] < gaps[i + 1][1]

(***************************************************************************)
(* After the minutes E, without the rows of `missing`: the long stretches  *)
(* are listed, but for the one that may go on.                             *)
(***************************************************************************)
Scanned(scan, E, missing, minutes) ==
  /\ \A e \in E : e <= scan.prev
  /\ E # {} => scan.prev \in E
  /\ scan.first = -1 => scan.prev \notin missing
  /\ scan.first # -1 => /\ <<scan.first, scan.prev>> \in Stretches(E, missing)
                        /\ \A gap \in Listed(scan.gaps) : gap[2] < scan.first
  /\ Listed(scan.gaps) = {gap \in Stretches(E, missing) :
                            /\ LongEnough(gap, minutes)
                            /\ scan.first # -1 => gap # <<scan.first, scan.prev>>}
  /\ InOrder(scan.gaps)

(* A gap at the end of the list. *)
LEMMA OneMoreGap ==
  ASSUME NEW gaps \in Seq(Int \X Int), NEW gap \in Int \X Int
  PROVE  /\ Listed(Append(gaps, gap)) = Listed(gaps) \cup {gap}
         /\ InOrder(gaps) /\ (\A g \in Listed(gaps) : g[2] < gap[1]) => InOrder(Append(gaps, gap))
  <1> DEFINE n == Len(gaps)
             more == Append(gaps, gap)
  <1>1. n \in Nat /\ Len(more) = n + 1 /\ more[n + 1] = gap /\ \A i \in 1..n : more[i] = gaps[i]
    OBVIOUS
  <1> HIDE DEF n, more
  <1>2. Listed(more) = Listed(gaps) \cup {gap}
    <2>1. ASSUME NEW g \in Listed(more) PROVE g \in Listed(gaps) \cup {gap}
      <3>1. PICK i \in 1..(n + 1) : g = more[i]
        BY <1>1 DEF Listed
      <3>2. CASE i = n + 1
        BY <1>1, <3>1, <3>2
      <3>3. CASE i # n + 1
        <4>1. i \in 1..n
          BY <1>1, <3>3
        <4> QED
          BY <1>1, <3>1, <4>1 DEF Listed, n
      <3> QED
        BY <3>2, <3>3
    <2>2. ASSUME NEW g \in Listed(gaps) PROVE g \in Listed(more)
      <3>1. PICK i \in 1..n : g = gaps[i]
        BY DEF Listed, n
      <3>2. i \in 1..(n + 1) /\ g = more[i]
        BY <1>1, <3>1
      <3> QED
        BY <1>1, <3>2 DEF Listed
    <2>3. gap \in Listed(more)
      <3>1. n + 1 \in 1..Len(more)
        BY <1>1
      <3> QED
        BY <1>1, <3>1 DEF Listed
    <2> QED
      BY <2>1, <2>2, <2>3
  <1>3. ASSUME InOrder(gaps), \A g \in Listed(gaps) : g[2] < gap[1] PROVE InOrder(more)
    <2> SUFFICES ASSUME NEW i \in 1..n PROVE more[i][2] < more[i + 1][1]
      BY <1>1 DEF InOrder
    <2>1. more[i] = gaps[i]
      BY <1>1
    <2>2. CASE i = n
      <3>1. gaps[i] \in Listed(gaps)
        BY DEF Listed, n
      <3>2. more[i + 1] = gap
        BY <1>1, <2>2
      <3> QED
        BY <1>3, <2>1, <3>1, <3>2
    <2>3. CASE i # n
      <3>1. i \in 1..(n - 1) /\ i + 1 \in 1..n
        BY <1>1, <2>3
      <3>2. more[i + 1] = gaps[i + 1]
        BY <1>1, <3>1
      <3>3. gaps[i][2] < gaps[i + 1][1]
        BY <1>3, <3>1 DEF InOrder, n
      <3> QED
        BY <2>1, <3>2, <3>3
    <2> QED
      BY <2>2, <2>3
  <1> QED
    BY <1>2, <1>3 DEF more

(* The list with the gap that is open, when it is long enough. *)
LEMMA ClosedList ==
  ASSUME NEW E \in SUBSET Nat, NEW missing \in SUBSET E, NEW minutes \in Nat, NEW minute,
         NEW scan \in ScanState, scan.first # -1, Scanned(scan, E, missing, minutes)
  PROVE  /\ Listed(CloseGap(scan, minute, minutes)) = {gap \in Stretches(E, missing) : LongEnough(gap, minutes)}
         /\ InOrder(CloseGap(scan, minute, minutes))
  <1> DEFINE gap == <<scan.first, scan.prev>>
             gaps == scan.gaps
  <1>1. gaps \in Seq(Int \X Int) /\ gap \in Int \X Int /\ gap[1] = scan.first
    BY DEF ScanState
  <1>2. /\ gap \in Stretches(E, missing) /\ \A g \in Listed(gaps) : g[2] < gap[1]
        /\ Listed(gaps) = {g \in Stretches(E, missing) : LongEnough(g, minutes) /\ g # gap}
        /\ InOrder(gaps)
    BY DEF Scanned
  <1>3. CloseGap(scan, minute, minutes) = IF LongEnough(gap, minutes) THEN Append(gaps, gap) ELSE gaps
    <2>1. GapBefore(scan, minute) = gap
      BY DEF GapBefore
    <2> HIDE DEF gap
    <2> QED
      BY <1>1, <2>1, GapLength DEF CloseGap
  <1> HIDE DEF gap, gaps
  <1>4. CASE LongEnough(gap, minutes)
    BY <1>1, <1>2, <1>3, <1>4, OneMoreGap
  <1>5. CASE ~ LongEnough(gap, minutes)
    BY <1>2, <1>3, <1>5
  <1> QED
    BY <1>4, <1>5

(* A stretch begins and ends with a missing minute. *)
LEMMA StretchEnds ==
  ASSUME NEW E, NEW missing, NEW gap \in Stretches(E, missing)
  PROVE  gap[1] \in missing /\ gap[2] \in missing
  BY DEF Stretches

(* Another minute. *)
LEMMA ScannedStep ==
  ASSUME NEW existing, NEW E \in SUBSET Nat, NEW m \in Nat, \A e \in E : e < m, NEW minutes \in Nat,
         NEW scan \in ScanState, Scanned(scan, E, E \ existing, minutes)
  PROVE  Scanned(Look(existing, scan, m, minutes), E \cup {m}, (E \cup {m}) \ existing, minutes)
  <1> DEFINE missing == E \ existing
             F == E \cup {m}
             more == F \ existing
             next == Look(existing, scan, m, minutes)
  <1>1. scan.gaps \in Seq(Int \X Int) /\ scan.first \in Int /\ scan.prev \in Int
    BY DEF ScanState
  <1>2. (\A e \in F : e <= m) /\ m \in F /\ missing \in SUBSET E
    OBVIOUS
  <1>3. CASE m \in existing
    <2>1. more = missing /\ m \notin missing
      BY <1>3
    <2>2. next.first = -1 /\ next.prev = m
          /\ next.gaps = IF scan.first = -1 THEN scan.gaps ELSE CloseGap(scan, m, minutes)
      BY <1>3 DEF Look
    <2>3. Stretches(F, missing) = Stretches(E, missing)
      BY StretchesKept
    <2>4. /\ Listed(next.gaps) = {gap \in Stretches(E, missing) : LongEnough(gap, minutes)}
          /\ InOrder(next.gaps)
      <3>1. Scanned(scan, E, missing, minutes) /\ missing \in SUBSET E
        OBVIOUS
      <3> HIDE DEF next, missing
      <3>2. CASE scan.first = -1
        <4>1. /\ Listed(scan.gaps) = {gap \in Stretches(E, missing) : LongEnough(gap, minutes)}
              /\ InOrder(scan.gaps)
          BY <3>1, <3>2 DEF Scanned
        <4> QED
          BY <2>2, <3>2, <4>1
      <3>3. CASE scan.first # -1
        <4>1. /\ Listed(CloseGap(scan, m, minutes)) = {gap \in Stretches(E, missing) : LongEnough(gap, minutes)}
              /\ InOrder(CloseGap(scan, m, minutes))
          BY <3>1, <3>3, ClosedList
        <4>2. next.gaps = CloseGap(scan, m, minutes)
          BY <2>2, <3>3
        <4> QED
          BY <4>1, <4>2
      <3> QED
        BY <3>2, <3>3
    <2> HIDE DEF next, F, more, missing
    <2> QED
      BY <1>2, <2>1, <2>2, <2>3, <2>4 DEF Scanned, next, F, more, missing
  <1>4. CASE m \notin existing /\ scan.first = -1
    <2>1. more = missing \cup {m}
      BY <1>4
    <2>2. next.first = m /\ next.prev = m /\ next.gaps = scan.gaps
      BY <1>4 DEF Look, ScanState
    <2>3. /\ \A e \in E : e < m /\ e <= scan.prev
          /\ E # {} => scan.prev \in E
          /\ scan.prev \notin missing
          /\ Listed(scan.gaps) = {gap \in Stretches(E, missing) : LongEnough(gap, minutes)}
          /\ InOrder(scan.gaps)
      BY <1>4 DEF Scanned
    <2>4. Stretches(F, missing \cup {m}) = Stretches(E, missing) \cup {<<m, m>>}
      <3> DEFINE prev == scan.prev
                 begin == scan.first
      <3>1. prev \in Int /\ begin \in Int
        BY <1>1
      <3>2. missing \in SUBSET E
        OBVIOUS
      <3> HIDE DEF missing, prev, begin
      <3> QED
        BY <2>3, <3>1, <3>2, StretchBegins DEF prev, begin
    <2>5. \A gap \in Stretches(E, missing) : gap[2] < m /\ gap # <<m, m>>
      <3> TAKE gap \in Stretches(E, missing)
      <3>1. gap[2] \in missing
        BY StretchEnds
      <3>2. gap[2] < m /\ gap[2] \in Nat
        BY <3>1
      <3> QED
        BY <3>2
    <2> HIDE DEF next, F, more, missing
    <2>6. Listed(next.gaps) = {gap \in Stretches(F, more) :
                                 LongEnough(gap, minutes) /\ (next.first # -1 => gap # <<next.first, next.prev>>)}
      <3> DEFINE S == Stretches(E, missing)
                 T == Stretches(F, more)
      <3>1. T = S \cup {<<m, m>>} /\ <<m, m>> \notin S
        BY <2>1, <2>4, <2>5
      <3>2. Listed(next.gaps) = {gap \in S : LongEnough(gap, minutes)}
        BY <2>2, <2>3
      <3>3. next.first # -1 /\ <<next.first, next.prev>> = <<m, m>>
        BY <2>2
      <3> HIDE DEF S, T
      <3>4. {gap \in S : LongEnough(gap, minutes)} = {gap \in T : LongEnough(gap, minutes) /\ gap # <<m, m>>}
        BY <3>1
      <3> QED
        BY <3>2, <3>3, <3>4 DEF T
    <2>7. <<m, m>> \in Stretches(F, more)
      BY <2>1, <2>4
    <2>8. next.first # -1 /\ \A gap \in Listed(next.gaps) : gap[2] < next.first
      BY <2>2, <2>3, <2>5
    <2>9. InOrder(next.gaps)
      BY <2>2, <2>3
    <2> QED
      BY <1>2, <2>2, <2>6, <2>7, <2>8, <2>9 DEF Scanned, next, F, more, missing
  <1>5. CASE m \notin existing /\ scan.first # -1
    <2>1. more = missing \cup {m}
      BY <1>5
    <2>2. next.first = scan.first /\ next.prev = m /\ next.gaps = scan.gaps
      BY <1>5 DEF Look, ScanState
    <2>3. /\ \A e \in E : e < m /\ e <= scan.prev
          /\ <<scan.first, scan.prev>> \in Stretches(E, missing)
          /\ \A gap \in Listed(scan.gaps) : gap[2] < scan.first
          /\ Listed(scan.gaps) = {gap \in Stretches(E, missing) :
                                    LongEnough(gap, minutes) /\ gap # <<scan.first, scan.prev>>}
          /\ InOrder(scan.gaps)
      BY <1>5 DEF Scanned
    <2>4. Stretches(F, missing \cup {m})
            = (Stretches(E, missing) \ {<<scan.first, scan.prev>>}) \cup {<<scan.first, m>>}
      <3> DEFINE prev == scan.prev
                 begin == scan.first
      <3>1. prev \in Int /\ begin \in Int
        BY <1>1
      <3>2. missing \in SUBSET E
        OBVIOUS
      <3> HIDE DEF missing, prev, begin
      <3> QED
        BY <2>3, <3>1, <3>2, StretchGrows DEF prev, begin
    <2>5. \A gap \in Stretches(E, missing) : gap # <<scan.first, m>>
      <3> TAKE gap \in Stretches(E, missing)
      <3>1. gap[2] \in missing
        BY StretchEnds
      <3>2. gap[2] # m
        BY <3>1
      <3> QED
        BY <3>2
    <2> HIDE DEF next, F, more, missing
    <2>6. Listed(next.gaps) = {gap \in Stretches(F, more) :
                                 LongEnough(gap, minutes) /\ (next.first # -1 => gap # <<next.first, next.prev>>)}
      <3> DEFINE S == Stretches(E, missing)
                 T == Stretches(F, more)
                 a == <<scan.first, scan.prev>>
                 b == <<scan.first, m>>
      <3>1. T = (S \ {a}) \cup {b} /\ b \notin S
        BY <2>1, <2>4, <2>5
      <3>2. Listed(next.gaps) = {gap \in S : LongEnough(gap, minutes) /\ gap # a}
        BY <2>2, <2>3
      <3>3. next.first # -1 /\ <<next.first, next.prev>> = b
        BY <1>5, <2>2
      <3> HIDE DEF S, T, a, b
      <3>4. {gap \in S : LongEnough(gap, minutes) /\ gap # a} = {gap \in T : LongEnough(gap, minutes) /\ gap # b}
        BY <3>1
      <3> QED
        BY <3>2, <3>3, <3>4 DEF T
    <2>7. <<scan.first, m>> \in Stretches(F, more)
      BY <2>1, <2>4
    <2>8. next.first # -1
      BY <1>5, <2>2
    <2> QED
      BY <1>2, <2>2, <2>3, <2>6, <2>7, <2>8 DEF Scanned, next, F, more, missing
  <1> QED
    BY <1>3, <1>4, <1>5

(* FindGaps lists the long stretches of the expected minutes. *)
LEMMA FindsGaps ==
  ASSUME NEW existing, NEW from \in Nat, NEW to \in Nat, NEW minutes \in Nat
  PROVE  LET expected == ExpectedBarMinutes(from, to)
             gaps == FindGaps(existing, from, to, minutes)
         IN /\ Listed(gaps) = {gap \in Stretches(expected, expected \ existing) : LongEnough(gap, minutes)}
            /\ InOrder(gaps)
  <1> DEFINE expected == ExpectedBarMinutes(from, to)
             gaps == FindGaps(existing, from, to, minutes)
             Past(n) == {m \in expected : m < from + n}
  <1>1. PICK scan : scan = ScanOf(existing, from, to, minutes) /\ Scans(scan, existing, from, to, minutes)
    BY ScanSteps
  <1>2. /\ scan \in [Nat -> ScanState] /\ scan[0] = Nothing
        /\ \A n \in Nat : scan[n + 1] = Round(existing, from, to, minutes, n + 1, scan[n])
    BY <1>1 DEF Scans
  <1>3. \A m \in expected : m \in Nat /\ from <= m /\ m <= to
    BY GapsAssumption DEF GapsAssumption, ExpectedBarMinutes, SessionMinutes, Later, Earlier
  <1>4. Listed(<<>>) = {} /\ InOrder(<<>>)
    BY DEF Listed, InOrder
  <1>5. \A missing : missing = {} => \A E : Stretches(E, missing) = {}
    BY DEF Stretches
  <1> HIDE DEF expected
  <1>6. \A n \in Nat : Scanned(scan[n], Past(n), Past(n) \ existing, minutes)
    <2>1. Scanned(scan[0], Past(0), Past(0) \ existing, minutes)
      <3>1. Past(0) = {}
        BY <1>3
      <3>2. scan[0].first = -1 /\ scan[0].gaps = <<>>
        BY <1>2 DEF Nothing
      <3> HIDE DEF Past
      <3> QED
        BY <1>4, <1>5, <3>1, <3>2 DEF Scanned
    <2>2. ASSUME NEW n \in Nat, Scanned(scan[n], Past(n), Past(n) \ existing, minutes)
          PROVE  Scanned(scan[n + 1], Past(n + 1), Past(n + 1) \ existing, minutes)
      <3>1. from + (n + 1) - 1 = from + n /\ from + n \in Nat /\ scan[n] \in ScanState
        BY <1>2
      <3>2. CASE from + n \in expected
        <4>1. scan[n + 1] = Look(existing, scan[n], from + n, minutes)
          BY <1>2, <3>1, <3>2 DEF Round, expected
        <4>2. Past(n + 1) = Past(n) \cup {from + n}
          BY <1>3, <3>2
        <4>3. Past(n) \in SUBSET Nat /\ \A m \in Past(n) : m < from + n
          BY <1>3
        <4> HIDE DEF Past
        <4> QED
          BY <2>2, <3>1, <4>1, <4>2, <4>3, ScannedStep
      <3>3. CASE from + n \notin expected
        <4>1. scan[n + 1] = scan[n]
          BY <1>2, <3>1, <3>3 DEF Round, expected
        <4>2. Past(n + 1) = Past(n)
          BY <1>3, <3>3
        <4> HIDE DEF Past
        <4> QED
          BY <2>2, <4>1, <4>2
      <3> QED
        BY <3>2, <3>3
    <2> DEFINE T == {n \in Nat : Scanned(scan[n], Past(n), Past(n) \ existing, minutes)}
    <2> HIDE DEF Past
    <2>3. T \in SUBSET Nat /\ 0 \in T /\ \A n \in T : n + 1 \in T
      BY <2>1, <2>2
    <2>4. T = Nat
      <3> HIDE DEF T
      <3> QED
        BY <2>3, AllNumbers
    <2> QED
      BY <2>4
  <1>7. CASE expected = {}
    <2>1. gaps = <<>>
      BY <1>7 DEF FindGaps, expected
    <2>2. Stretches(expected, expected \ existing) = {}
      BY <1>5, <1>7
    <2> HIDE DEF gaps
    <2> QED
      BY <1>4, <2>1, <2>2 DEF gaps, expected
  <1>8. CASE expected # {}
    <2> DEFINE n == to - from + 1
    <2>1. n \in Nat
      BY <1>3, <1>8
    <2>2. Past(n) = expected
      BY <1>3, <2>1
    <2>3. gaps = IF scan[n].first = -1 THEN scan[n].gaps ELSE CloseGap(scan[n], scan[n].prev, minutes)
      BY <1>1, <1>8 DEF expected, FindGaps
    <2>4. Scanned(scan[n], expected, expected \ existing, minutes) /\ scan[n] \in ScanState
      BY <1>2, <1>6, <2>1, <2>2
    <2> HIDE DEF gaps, n
    <2>5. /\ Listed(gaps) = {gap \in Stretches(expected, expected \ existing) : LongEnough(gap, minutes)}
          /\ InOrder(gaps)
      <3>1. CASE scan[n].first = -1
        BY <2>3, <2>4, <3>1 DEF Scanned
      <3>2. CASE scan[n].first # -1
        <4> DEFINE missing == expected \ existing
        <4>1. expected \in SUBSET Nat /\ missing \in SUBSET expected
          BY <1>3
        <4> HIDE DEF missing
        <4>2. Scanned(scan[n], expected, missing, minutes)
          BY <2>4 DEF missing
        <4>3. /\ Listed(gaps) = {gap \in Stretches(expected, missing) : LongEnough(gap, minutes)}
              /\ InOrder(gaps)
          BY <2>3, <2>4, <3>2, <4>1, <4>2, ClosedList
        <4> QED
          BY <4>3 DEF missing
      <3> QED
        BY <3>1, <3>2
    <2> QED
      BY <2>5 DEF gaps, expected
  <1> QED
    BY <1>7, <1>8

(***************************************************************************)
(* A gap report lists the stretches of session minutes without a row that  *)
(* are as long as was asked for, in order, and nothing else: for every     *)
(* table, every calendar and every range that does not begin inside a      *)
(* minute of a session.                                                    *)
(***************************************************************************)
THEOREM ReportExact == Spec => []GapsExact
  <1>1. GapsExact
    <2> SUFFICES ASSUME NEW s \in Series, NEW start \in Ticks, NEW end \in Ticks, NEW minutes \in AskedMinutes,
                        Aligned(start)
                 PROVE  LET regular == RegularMinutes(start, end)
                            missing == regular \ TimesOf(s, start, end)
                            gaps == Report(s, start, end, minutes)
                        IN /\ {gaps[i] : i \in 1..Len(gaps)} =
                                {gap \in Stretches(regular, missing) : LongEnough(gap, minutes)}
                           /\ \A i \in 1..(Len(gaps) - 1) : gaps[i][2] < gaps[i + 1][1]
      BY DEF GapsExact
    <2>1. start \in Nat /\ end \in Nat /\ minutes \in Nat
      BY ApiAssumption DEF ApiAssumption
    <2>2. ExpectedBarMinutes(start, end) = RegularMinutes(start, end)
      BY <2>1, ExpectedRegular
    <2> DEFINE existing == TimesOf(s, start, end)
    <2>3. LET expected == ExpectedBarMinutes(start, end)
              gaps == FindGaps(existing, start, end, minutes)
          IN /\ Listed(gaps) = {gap \in Stretches(expected, expected \ existing) : LongEnough(gap, minutes)}
             /\ InOrder(gaps)
      BY <2>1, FindsGaps
    <2> QED
      BY <2>2, <2>3 DEF Report, Listed, InOrder
  <1> QED
    BY <1>1, PTL
=============================================================================
