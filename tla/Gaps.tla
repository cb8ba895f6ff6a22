-------------------------------- MODULE Gaps --------------------------------
(***************************************************************************)
(* service/ingestion/gap_detection.py: the minutes of a range that have no *)
(* bar, for a series that is quoted all through every session.             *)
(*                                                                         *)
(* Time is counted in ticks that are finer than the minute, since a range  *)
(* may begin and end inside one.  A gap is <<first, last>> missing minute. *)
(***************************************************************************)
EXTENDS Integers, Sequences

CONSTANTS
  MinuteTicks,  \* ticks in a minute
  Sessions      \* <<open, close>> of every weekday's session

ASSUME GapsAssumption ==
  /\ MinuteTicks \in Nat \ {0}
  /\ Sessions \subseteq Nat \X Nat
  /\ \A s \in Sessions : s[1] % MinuteTicks = 0 /\ s[2] % MinuteTicks = 0

Later(t, u) == IF t < u THEN u ELSE t
Earlier(t, u) == IF t < u THEN t ELSE u

(* The minutes of a session are counted from the start of the range. *)
SessionMinutes(session, start, end) ==
  LET first == Later(session[1], start)
  IN {t \in first..Earlier(session[2], end) : (t - first) % MinuteTicks = 0}

ExpectedBarMinutes(start, end) == UNION {SessionMinutes(s, start, end) : s \in Sessions}

(* Length by the clock, what lies between two sessions included. *)
GapMinutes(gap) == (gap[2] - gap[1]) \div MinuteTicks + 1

(* Mutant: a gap ends with the minute that is there again. *)
GapBeforeIncluded(scan, minute) == <<scan.first, minute>>

GapBefore(scan, minute) == <<scan.first, scan.prev>>

(* A gap that is too short is dropped. *)
CloseGap(scan, minute, minGapMinutes) ==
  IF GapMinutes(GapBefore(scan, minute)) >= minGapMinutes
  THEN Append(scan.gaps, GapBefore(scan, minute)) ELSE scan.gaps

(* One round of the loop of find_gaps; `first` is -1 outside a gap. *)
Look(existing, scan, minute, minGapMinutes) ==
  IF minute \in existing
  THEN [gaps |-> IF scan.first = -1 THEN scan.gaps ELSE CloseGap(scan, minute, minGapMinutes),
        first |-> -1, prev |-> minute]
  ELSE [scan EXCEPT !.first = IF @ = -1 THEN minute ELSE @, !.prev = minute]

(* What the loop has after the expected minutes among the first n ticks of the range. *)
ScanOf(existing, start, end, minGapMinutes) ==
  LET expected == ExpectedBarMinutes(start, end)
      scan[n \in Nat] ==
        IF n = 0 THEN [gaps |-> <<>>, first |-> -1, prev |-> -1]
        ELSE IF start + n - 1 \in expected
             THEN Look(existing, scan[n - 1], start + n - 1, minGapMinutes)
             ELSE scan[n - 1]
  IN scan

FindGaps(existing, start, end, minGapMinutes) ==
  IF ExpectedBarMinutes(start, end) = {} THEN <<>>
  ELSE LET scan == ScanOf(existing, start, end, minGapMinutes)[end - start + 1]
       IN IF scan.first = -1 THEN scan.gaps ELSE CloseGap(scan, scan.prev, minGapMinutes)
=============================================================================
