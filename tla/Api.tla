-------------------------------- MODULE Api --------------------------------
(***************************************************************************)
(* The query API, service/api/routes.py, with the statements of            *)
(* service/db/aggregations.py: a client that reads a result page by page,  *)
(* and the gap report, while the other programs write to the tables.       *)
(*                                                                         *)
(* A row is a series and its time.  /options/bars and /underlying/bars     *)
(* sort by the time, of the bucket when they aggregate; /contracts sorts   *)
(* by expiration and strike, so that there the time stands for the two and *)
(* the series for the right.  No writer deletes or moves a row: a result   *)
(* only grows, also under a filter on delta, which is set only where it    *)
(* was NULL.  The values in a row are left out.                            *)
(***************************************************************************)
EXTENDS Gaps, FiniteSets

CONSTANTS
  Rows,         \* rows that may come to be: series and time
  AggPeriods,   \* AGG_PERIODS, in ticks
  AskedPeriods, \* what a client may ask for
  AskedLimits,
  MaxLimit,     \* _MAX_LIMIT
  AskedMinutes, \* min_gap_minutes, at least 1
  Ticks         \* ticks at which a range of the gap report may begin or end

Series == {r[1] : r \in Rows}
Times == {r[2] : r \in Rows}

ASSUME ApiAssumption ==
  /\ Rows \subseteq (Series \X Nat) /\ IsFiniteSet(Rows)
  /\ AggPeriods \subseteq Nat \ {0} /\ AskedLimits \subseteq Int /\ MaxLimit \in Nat
  /\ AskedMinutes \subseteq Nat \ {0} /\ Ticks \subseteq Nat

VARIABLES
  table,
  phase,      \* of the client: "idle", "reading", "done", "refused"
  filter,     \* the series its query matches
  agg,        \* the period
  asked,      \* the limit it asks for
  limit,      \* the limit of the statement
  offset,
  returned,   \* sum of the sizes of the pages
  delivered,  \* the rows in them
  first       \* history: the rows of the result when it began

query == <<filter, agg, asked, limit>>
pages == <<phase, offset, returned, delivered>>
vars == <<table, query, pages, first>>

-----------------------------------------------------------------------------
(* The statements. *)

(* time_bucket; with "1m" it is the table that is selected. *)
Bucket(time, period) == time - (time % period)

(* Mutant: the conditions are not in the statement. *)
ResultOfAll(rows, series, period) == {<<r[1], Bucket(r[2], period)>> : r \in rows}

(* WHERE and GROUP BY. *)
Result(rows, series, period) ==
  {<<r[1], Bucket(r[2], period)>> : r \in {q \in rows : q[1] \in series}}

Before(row, result) == {r \in result : r[2] < row[2]}
Ties(row, result) == {r \in result : r[2] = row[2]}

Within(n, bound) == IF n < 0 THEN 0 ELSE IF n > bound THEN bound ELSE n

(* Of `count` rows from position `from`, those before position `to`. *)
Upto(to, from, count) == Within(to - from, count)

(* Mutant: one row more, to see whether there is another page. *)
EndOfPageAfter(o, n) == o + n + 1

EndOfPage(o, n) == o + n

(***************************************************************************)
(* ORDER BY time, LIMIT n, OFFSET o.  Rows of the same time come in any    *)
(* order, which may be another one for the next page.                      *)
(***************************************************************************)
Pages(result, n, o) ==
  {page \in SUBSET result :
     /\ Cardinality(page) = Upto(EndOfPage(o, n), 0, Cardinality(result)) - Upto(o, 0, Cardinality(result))
     /\ \A row \in result :
          LET from == Cardinality(Before(row, result))
              count == Cardinality(Ties(row, result))
          IN Cardinality(Ties(row, page)) = Upto(EndOfPage(o, n), from, count) - Upto(o, from, count)}

-----------------------------------------------------------------------------
Init ==
  /\ table = {} /\ phase = "idle"
  /\ filter = {} /\ agg = 0 /\ asked = 0 /\ limit = 0
  /\ offset = 0 /\ returned = 0 /\ delivered = {} /\ first = {}

(* The ingestion, the backfill, or the Greeks job for a filter on delta. *)
Insert ==
  /\ \E r \in Rows \ table : table' = table \cup {r}
  /\ UNCHANGED <<query, pages, first>>

(* Mutant: a limit beyond the maximum is cut down to it. *)
LimitCut(n) == Earlier(n, MaxLimit)

(* Query(ge=1, le=_MAX_LIMIT): anything else is refused (0). *)
Limit(n) == IF n \in 1..MaxLimit THEN n ELSE 0

(* The first request of a client; what is wrong with it shows at once. *)
Ask ==
  /\ phase = "idle"
  /\ filter' \in SUBSET Series /\ agg' \in AskedPeriods /\ asked' \in AskedLimits
  /\ limit' = Limit(asked')
  /\ phase' = IF agg' \in AggPeriods /\ limit' > 0 THEN "reading" ELSE "refused"
  /\ first' = IF phase' = "reading" THEN Result(table, filter', agg') ELSE {}
  /\ UNCHANGED <<table, offset, returned, delivered>>

(* returned < limit tells the client that it has reached the end. *)
NextPage ==
  /\ phase = "reading"
  /\ \E page \in Pages(Result(table, filter, agg), limit, offset) :
       /\ delivered' = delivered \cup page
       /\ returned' = returned + Cardinality(page)
       /\ phase' = IF Cardinality(page) < asked THEN "done" ELSE "reading"
  /\ offset' = offset + asked
  /\ UNCHANGED <<table, query, first>>

(* The next client. *)
Leave ==
  /\ phase \in {"done", "refused"} /\ phase' = "idle"
  /\ filter' = {} /\ agg' = 0 /\ asked' = 0 /\ limit' = 0
  /\ offset' = 0 /\ returned' = 0 /\ delivered' = {} /\ first' = {}
  /\ UNCHANGED table

Next == Insert \/ Ask \/ NextPage \/ Leave

Spec == Init /\ [][Next]_vars

-----------------------------------------------------------------------------
(* Properties. *)

(* The variables have their types; what is delivered is what was asked for. *)
TypeOK ==
  /\ table \subseteq Rows
  /\ phase \in {"idle", "reading", "done", "refused"}
  /\ filter \subseteq Series /\ agg \in AskedPeriods \cup {0} /\ asked \in AskedLimits \cup {0}
  /\ limit \in 0..MaxLimit
  /\ offset \in Nat /\ returned \in Nat
  /\ delivered \subseteq filter \X Nat /\ first \subseteq filter \X Nat

(* No other row of the result has the time of this one. *)
Alone(row, result) == Ties(row, result) = {row}

(***************************************************************************)
(* A client that reads until a page comes back short has every row that    *)
(* was there when it began, whatever is written in the meantime.  Rows     *)
(* that share their time are excepted: the statements do not order them.   *)
(* About the limit that is refused and never cut, and the ORDER BY with    *)
(* OFFSET in tables that only grow.                                        *)
(***************************************************************************)
PageWalkComplete ==
  phase = "done" =>
    \A row \in first : Alone(row, Result(table, filter, agg)) => row \in delivered

(***************************************************************************)
(* No row is on two pages, as long as nothing new comes into a result      *)
(* whose rows all have times of their own.  About LIMIT and OFFSET.        *)
(***************************************************************************)
NothingTwice ==
  phase \in {"reading", "done"} /\ Result(table, filter, agg) = first
  /\ (\A row \in first : Alone(row, first))
    => returned = Cardinality(delivered)

-----------------------------------------------------------------------------
(* The gap report. *)

TimesOf(s, start, end) == {r[2] : r \in {q \in table : q[1] = s /\ start <= q[2] /\ q[2] <= end}}

Report(s, start, end, minGapMinutes) == FindGaps(TimesOf(s, start, end), start, end, minGapMinutes)

(* The session minutes of the range. *)
RegularMinutes(start, end) ==
  {t \in start..end : t % MinuteTicks = 0 /\ \E s \in Sessions : s[1] <= t /\ t <= s[2]}

(* The range does not begin inside a minute of a session. *)
Aligned(start) == start % MinuteTicks = 0 \/ \A s \in Sessions : ~(s[1] < start /\ start < s[2])

(* A minute that has a row lies between the two. *)
Apart(t, u, regular, missing) == \E m \in regular \ missing : t < m /\ m < u

(* From one missing minute to another with none but missing ones between, as far as can be. *)
Stretches(regular, missing) ==
  {gap \in missing \X missing :
     /\ gap[1] <= gap[2]
     /\ \A t \in regular : gap[1] <= t /\ t <= gap[2] => t \in missing
     /\ \A t \in missing : /\ t < gap[1] => Apart(t, gap[1], regular, missing)
                           /\ gap[2] < t => Apart(gap[2], t, regular, missing)}

LongEnough(gap, minutes) == gap[2] - gap[1] >= (minutes - 1) * MinuteTicks

(***************************************************************************)
(* The report is exact, for any range that does not begin inside a minute  *)
(* of a session: it lists, in order, the stretches of session minutes that *)
(* have no row and are as long as was asked for, and nothing else.  About  *)
(* the loop of find_gaps: the gap that is open at the end, the one over    *)
(* the close, and the first and last minute of each.  (A report has        *)
(* nothing to do with the pages; it is looked at between two clients.)     *)
(***************************************************************************)
GapsExact ==
  phase = "idle" =>
    \A s \in Series, start, end \in Ticks, minutes \in AskedMinutes :
      start <= end /\ Aligned(start) =>
        LET regular == RegularMinutes(start, end)
            missing == regular \ TimesOf(s, start, end)
            gaps == Report(s, start, end, minutes)
        IN /\ {gaps[i] : i \in 1..Len(gaps)} =
                {gap \in Stretches(regular, missing) : LongEnough(gap, minutes)}
           /\ \A i \in 1..(Len(gaps) - 1) : gaps[i][2] < gaps[i + 1][1]
=============================================================================
