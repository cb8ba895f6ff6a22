------------------------------ MODULE GreeksJob ------------------------------
(***************************************************************************)
(* GreeksBackfillJob.run of service/greeks/backfill_job.py.  Runs may      *)
(* overlap: the scheduler starts one after each backfill and an operator   *)
(* starts others by hand.  Each works through the table in batches, one    *)
(* transaction a batch, while other programs insert rows.                  *)
(*                                                                         *)
(* One action per statement: in a READ COMMITTED transaction every         *)
(* statement sees what is committed when it begins.  An UPDATE locks its   *)
(* rows one after the other until the commit; what it writes is seen by    *)
(* others then.                                                            *)
(***************************************************************************)
EXTENDS GreeksFill, FiniteSets

CONSTANTS
  Jobs,        \* runs that may overlap
  Scheduled,   \* the one the scheduler starts, without --max-rows
  BatchSize,
  Limits,      \* values of --max-rows, or None, of the runs started by hand
  MaxCrashes   \* bound: runs that are killed or fail

ASSUME JobAssumption ==
  /\ IsFiniteSet(Keys) /\ Scheduled \in Jobs
  /\ BatchSize \in Nat \ {0} /\ Limits \subseteq Nat \cup {None}
  /\ MaxCrashes \in Nat /\ None \notin Nat

VARIABLES
  at,         \* the statement the run is at; "done" after a run that came to
              \* the end of the table, "idle" after one that did not
  coverage,   \* ticker and minute of each underlying bar when it began
  cutoff,     \* first minute that is inside the retention
  limit,      \* --max-rows
  cursor,     \* last key examined, 0 at the beginning
  processed,  \* rows examined
  batch,      \* key -> row as the SELECT saw it
  staged,     \* key -> row to be written
  held,       \* keys whose row lock the run holds
  crashes,    \* runs that ended early so far
  examined,   \* history: keys of the batches that are done
  due         \* history: keys that were computable when the run began

scan == <<coverage, cutoff, limit>>
history == <<examined, due>>
vars == <<table, at, scan, cursor, processed, batch, staged, held, crashes, history>>

Nothing == [k \in {} |-> None]

Init ==
  /\ TableInit
  /\ at = [j \in Jobs |-> "idle"]
  /\ coverage = [j \in Jobs |-> {}] /\ cutoff = [j \in Jobs |-> 0]
  /\ limit = [j \in Jobs |-> None]
  /\ cursor = [j \in Jobs |-> 0] /\ processed = [j \in Jobs |-> 0]
  /\ batch = [j \in Jobs |-> Nothing] /\ staged = [j \in Jobs |-> Nothing]
  /\ held = [j \in Jobs |-> {}]
  /\ crashes = 0
  /\ examined = [j \in Jobs |-> {}] /\ due = [j \in Jobs |-> {}]

Ended == {"idle", "done"}

(* A run is over; what it kept in its locals is gone. *)
End(j, how) ==
  /\ at' = [at EXCEPT ![j] = how]
  /\ coverage' = [coverage EXCEPT ![j] = {}]
  /\ cutoff' = [cutoff EXCEPT ![j] = 0]
  /\ limit' = [limit EXCEPT ![j] = None]
  /\ cursor' = [cursor EXCEPT ![j] = 0]
  /\ processed' = [processed EXCEPT ![j] = 0]
  /\ batch' = [batch EXCEPT ![j] = Nothing]
  /\ staged' = [staged EXCEPT ![j] = Nothing]
  /\ held' = [held EXCEPT ![j] = {}]
  /\ examined' = [examined EXCEPT ![j] = {}]
  /\ due' = [due EXCEPT ![j] = {}]

-----------------------------------------------------------------------------
Start(j) ==
  /\ at[j] \in Ended
  /\ at' = [at EXCEPT ![j] = "select"]
  /\ coverage' = [coverage EXCEPT ![j] = {s \in Spots : spots[s] # None}]
  /\ \E m \in Minutes : cutoff' = [cutoff EXCEPT ![j] = m]
  /\ \E n \in IF j = Scheduled THEN {None} ELSE Limits : limit' = [limit EXCEPT ![j] = n]
  /\ due' = [due EXCEPT ![j] = {k \in Keys : Computable(k)}]
  /\ UNCHANGED <<table, cursor, processed, batch, staged, held, crashes, examined>>

(* Minutes in which the ticker of k has an underlying bar. *)
Covered(j, k) == {m \in Minutes : <<TickerOf[k], m>> \in coverage[j]}

(* Mutant: the window is taken without its ends. *)
WorthExaminingInside(j, k) ==
  \/ MinuteOf[k] >= cutoff[j]
  \/ \E lo, hi \in Covered(j, k) : lo < MinuteOf[k] /\ MinuteOf[k] < hi

(* Recent, or in the window from the ticker's first bar to its last. *)
WorthExamining(j, k) ==
  \/ MinuteOf[k] >= cutoff[j]
  \/ \E lo, hi \in Covered(j, k) : lo <= MinuteOf[k] /\ MinuteOf[k] <= hi

Eligible(j) == {k \in Keys : Gap(k) /\ WorthExamining(j, k) /\ k > cursor[j]}

Smaller(m, n) == IF m <= n THEN m ELSE n

(* Mutant: --max-rows is only looked at between batches. *)
BatchLimitWhole(j) == BatchSize

BatchLimit(j) ==
  IF limit[j] = None THEN BatchSize ELSE Smaller(BatchSize, limit[j] - processed[j])

(* S holds the first n of the keys in E, or all of them. *)
IsFirst(S, n, E) ==
  /\ Cardinality(S) = Smaller(n, Cardinality(E))
  /\ \A k \in S, l \in E \ S : k < l

CapReached(j) == limit[j] # None /\ processed[j] >= limit[j]

Select(j) ==
  /\ at[j] = "select"
  /\ IF CapReached(j) THEN End(j, "idle")
     ELSE \E S \in SUBSET Eligible(j) :
            /\ IsFirst(S, BatchLimit(j), Eligible(j))
            /\ IF S = {} THEN End(j, "done")
               ELSE /\ batch' = [batch EXCEPT ![j] = [k \in S |-> rows[k]]]
                    /\ at' = [at EXCEPT ![j] = "fetch"]
                    /\ UNCHANGED <<scan, cursor, processed, staged, held, history>>
  /\ UNCHANGED <<table, crashes>>

(* _fetch_underlyings, and _compute_for_row on each row of the batch. *)
Fetch(j) ==
  /\ at[j] = "fetch"
  /\ at' = [at EXCEPT ![j] = "update"]
  /\ staged' = [staged EXCEPT ![j] =
       [k \in {l \in DOMAIN batch[j] : ComputableAs(l, batch[j][l])} |-> Computed(batch[j][k])]]
  /\ UNCHANGED <<table, scan, cursor, processed, batch, held, crashes, history>>

(* Mutant: the rows are updated in no particular order. *)
UpdateAnyOrder(j) ==
  /\ at[j] = "update"
  /\ \E k \in DOMAIN staged[j] \ held[j] :
       /\ \A i \in Jobs : k \notin held[i]
       /\ held' = [held EXCEPT ![j] = @ \cup {k}]
  /\ UNCHANGED <<table, at, scan, cursor, processed, batch, staged, crashes, history>>

(***************************************************************************)
(* The next row of the UPDATE.  It waits for a run that holds the row.     *)
(***************************************************************************)
Update(j) ==
  /\ at[j] = "update"
  /\ \E k \in DOMAIN staged[j] \ held[j] :
       /\ \A l \in DOMAIN staged[j] \ held[j] : k <= l
       /\ \A i \in Jobs : k \notin held[i]
       /\ held' = [held EXCEPT ![j] = @ \cup {k}]
  /\ UNCHANGED <<table, at, scan, cursor, processed, batch, staged, crashes, history>>

(* Mutant: the cursor only passes what was computed. *)
CursorAfterComputed(j) ==
  {k \in DOMAIN staged[j] \cup {cursor[j]} : \A l \in DOMAIN staged[j] : l <= k}

(* The key of the last row of the batch. *)
CursorAfter(j) == {k \in DOMAIN batch[j] : \A l \in DOMAIN batch[j] : l <= k}

(* Mutant: the rows that were skipped are written too. *)
WrittenSkippedToo(j) ==
  [k \in Keys |-> IF k \in DOMAIN staged[j] THEN staged[j][k]
                  ELSE IF k \in DOMAIN batch[j] THEN [rows[k] EXCEPT !.iv = "derived"]
                  ELSE rows[k]]

(* The UPDATE sets the Greeks, iv and greeks_source, whatever is there now. *)
Written(j) ==
  [k \in Keys |-> IF k \in DOMAIN staged[j]
                  THEN [rows[k] EXCEPT !.greeks = staged[j][k].greeks, !.iv = staged[j][k].iv]
                  ELSE rows[k]]

Commit(j) ==
  /\ at[j] = "update" /\ DOMAIN staged[j] \subseteq held[j]
  /\ at' = [at EXCEPT ![j] = "select"]
  /\ rows' = Written(j)
  /\ held' = [held EXCEPT ![j] = {}]
  /\ \E k \in CursorAfter(j) : cursor' = [cursor EXCEPT ![j] = k]
  /\ processed' = [processed EXCEPT ![j] = @ + Cardinality(DOMAIN batch[j])]
  /\ batch' = [batch EXCEPT ![j] = Nothing]
  /\ staged' = [staged EXCEPT ![j] = Nothing]
  /\ examined' = [examined EXCEPT ![j] = @ \cup DOMAIN batch[j]]
  /\ UNCHANGED <<spots, scan, crashes, due>>

(* The run is killed or raises: its transaction is rolled back. *)
Crash(j) ==
  /\ at[j] \notin Ended /\ crashes < MaxCrashes
  /\ crashes' = crashes + 1
  /\ End(j, "idle")
  /\ UNCHANGED table

Others == Insert /\ UNCHANGED <<at, scan, cursor, processed, batch, staged, held, crashes, history>>

Step(j) == Select(j) \/ Fetch(j) \/ Update(j) \/ Commit(j)

Next ==
  \/ \E j \in Jobs : Start(j) \/ Step(j) \/ Crash(j)
  \/ Others

Spec == Init /\ [][Next]_vars

(* A run that has begun goes on, and the scheduler starts another some day. *)
FairSpec == Spec /\ (\A j \in Jobs : WF_vars(Step(j))) /\ WF_vars(Start(Scheduled))

-----------------------------------------------------------------------------
(* Properties. *)

(***************************************************************************)
(* The variables have their types, no row is locked twice, and a run       *)
(* examines no more rows than it was asked to.                             *)
(***************************************************************************)
TypeOK ==
  /\ rows \in [Keys -> Row \cup {None}]
  /\ spots \in [Spots -> Value \cup {"null", None}]
  /\ at \in [Jobs -> Ended \cup {"select", "fetch", "update"}]
  /\ coverage \in [Jobs -> SUBSET Spots]
  /\ cutoff \in [Jobs -> Int] /\ limit \in [Jobs -> Limits \cup {None}]
  /\ cursor \in [Jobs -> Keys \cup {0}] /\ processed \in [Jobs -> Nat]
  /\ DOMAIN batch = Jobs /\ DOMAIN staged = Jobs /\ held \in [Jobs -> SUBSET Keys]
  /\ \A j \in Jobs :
       /\ DOMAIN batch[j] \subseteq Keys /\ \A k \in DOMAIN batch[j] : batch[j][k] \in Row
       /\ DOMAIN staged[j] \subseteq DOMAIN batch[j]
       /\ \A k \in DOMAIN staged[j] : staged[j][k] \in Row
       /\ held[j] \subseteq DOMAIN staged[j]
       /\ limit[j] # None => processed[j] + Cardinality(DOMAIN batch[j]) <= limit[j]
  /\ \A i, j \in Jobs : i # j => held[i] \cap held[j] = {}
  /\ crashes \in 0..MaxCrashes
  /\ examined \in [Jobs -> SUBSET Keys] /\ due \in [Jobs -> SUBSET Keys]

(***************************************************************************)
(* No run examines a row twice, so that a run over finitely many rows      *)
(* ends.  About the cursor of run(), which passes rows that are skipped.   *)
(***************************************************************************)
ExaminedOnce == \A j \in Jobs : DOMAIN batch[j] \cap examined[j] = {}

(***************************************************************************)
(* A run that comes to the end of the table has left none of the rows that *)
(* could be computed when it began.  About the prefilter of                *)
(* _build_batch_query, whose windows are as old as the run, and its        *)
(* cursor, while rows appear before and behind it and other runs fill some.*)
(***************************************************************************)
NothingOverlooked ==
  [][\A j \in Jobs :
       at[j] # "done" /\ at'[j] = "done" => \A k \in due[j] : rows[k].greeks = "computed"]_vars

(***************************************************************************)
(* A run ends, also when runs that overlap wait for each other's row       *)
(* locks.  About the UPDATE of a batch going in the order of the keys.     *)
(***************************************************************************)
RunsEnd == \A j \in Jobs : at[j] \notin Ended ~> at[j] \in Ended

(***************************************************************************)
(* A row that can be computed, be it because its underlying bar came after *)
(* a run had skipped it, is computed by some run in the end.  About what   *)
(* run() leaves for a later run.                                           *)
(***************************************************************************)
ComputedInTheEnd == \A k \in Keys : Computable(k) ~> rows[k] # None /\ rows[k].greeks = "computed"
=============================================================================
