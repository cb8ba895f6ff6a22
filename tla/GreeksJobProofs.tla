--------------------------- MODULE GreeksJobProofs ---------------------------
(***************************************************************************)
(* Proofs about GreeksJob, for any table, any number of overlapping runs   *)
(* and any batch size.                                                     *)
(*                                                                         *)
(* A run's promise survives the others because a row can change in one way *)
(* only: from the row the run has read to the same row computed.  What the *)
(* cursor has passed is therefore settled for good: it was in a batch, or  *)
(* it was no gap when a batch with a later key was read.                   *)
(***************************************************************************)
EXTENDS GreeksJob, FiniteSetTheorems, TLAPS

(* What any step may do to the tables. *)
RowsSettle ==
  /\ \A k \in Keys :
       \/ rows'[k] = rows[k]
       \/ rows[k] = None
       \/ Computable(k) /\ rows'[k] = Computed(rows[k])
  /\ \A s \in Spots : spots[s] # None => spots'[s] = spots[s]

Settled(k) == rows[k] # None /\ rows[k].greeks = "computed"

(* Between batches a run has nothing in hand; it stages what is due. *)
InHand(j) ==
  /\ at[j] \in Ended \cup {"select"} => DOMAIN batch[j] = {}
  /\ at[j] # "update" => DOMAIN staged[j] = {}
  /\ at[j] = "update" =>
       \A k \in due[j] \cap DOMAIN batch[j] : Settled(k) \/ k \in DOMAIN staged[j]

(* A row of the batch was a gap and is still that row, or it is computed. *)
BatchCurrent(j) ==
  \A k \in DOMAIN batch[j] :
    /\ batch[j][k].greeks = None
    /\ rows[k] = batch[j][k] \/ rows[k] = Computed(batch[j][k])

StagedRight(j) ==
  \A k \in DOMAIN staged[j] :
    ComputableAs(k, batch[j][k]) /\ staged[j][k] = Computed(batch[j][k])

(* What was due is still due, or settled; the prefilter lets it through. *)
DueLasts(j) ==
  /\ at[j] \in Ended => due[j] = {}
  /\ \A k \in due[j] : (Computable(k) \/ Settled(k)) /\ WorthExamining(j, k)

(* What is due is settled behind the cursor, and between it and the end of
   the batch unless it is in the batch. *)
Passed(j) ==
  \A k \in due[j] :
    /\ k <= cursor[j] => Settled(k)
    /\ (\E l \in DOMAIN batch[j] : k <= l) /\ k \notin DOMAIN batch[j] => Settled(k)

Ahead(j) ==
  /\ \A k \in DOMAIN batch[j] : k > cursor[j]
  /\ \A k \in examined[j] : k <= cursor[j]

Fresh(j) == at[j] \in Ended => cursor[j] = 0 /\ processed[j] = 0 /\ examined[j] = {}

Scan(j) ==
  /\ Fresh(j) /\ InHand(j) /\ BatchCurrent(j) /\ StagedRight(j)
  /\ DueLasts(j) /\ Passed(j) /\ Ahead(j)

Inv == TypeOK /\ \A j \in Jobs : Scan(j)

-----------------------------------------------------------------------------
(* Rows, and the first keys of a set. *)

LEMMA ComputedRow ==
  ASSUME NEW r \in Row
  PROVE  /\ Computed(r) \in Row /\ Computed(r).greeks = "computed"
         /\ Computed(r).close = r.close /\ Computed(r) # None
  BY FillAssumption DEF Computed, Row

(* Writing the computed columns gives the computed row, however late. *)
LEMMA WrittenRow ==
  ASSUME NEW r \in Row, NEW q, q = r \/ q = Computed(r)
  PROVE  [q EXCEPT !.greeks = Computed(r).greeks, !.iv = Computed(r).iv] = Computed(r)
  BY DEF Computed, Row

LEMMA SpotIsSpot == \A k \in Keys : SpotOf(k) \in Spots
  BY FillAssumption DEF SpotOf, Spots

LEMMA CursorIsNat == \A c \in Keys \cup {0} : c \in Nat
  BY FillAssumption

LEMMA KeysFinite ==
  ASSUME NEW S \in SUBSET Keys
  PROVE  IsFiniteSet(S) /\ Cardinality(S) \in Nat /\ (Cardinality(S) = 0 <=> S = {})
  BY JobAssumption, FS_Subset, FS_CardinalityType, FS_EmptySet

LEMMA EligibleKeys == \A j : Eligible(j) \in SUBSET Keys
  BY DEF Eligible

(* As long as the cap is not reached a batch is only empty at the end. *)
LEMMA FirstKeys ==
  ASSUME TypeOK, NEW j \in Jobs, ~CapReached(j), NEW S \in SUBSET Eligible(j),
         IsFirst(S, BatchLimit(j), Eligible(j))
  PROVE  /\ S = {} => Eligible(j) = {}
         /\ limit[j] # None => processed[j] + Cardinality(S) <= limit[j]
         /\ \A k \in Eligible(j) \ S, l \in S : l < k
  <1>1. Eligible(j) \in SUBSET Keys /\ S \in SUBSET Keys
    BY EligibleKeys
  <1>2. processed[j] \in Nat /\ (limit[j] # None => limit[j] \in Nat) /\ BatchSize \in Nat \ {0}
    BY JobAssumption DEF TypeOK
  <1>3. /\ BatchLimit(j) \in Nat \ {0}
        /\ limit[j] # None => processed[j] + BatchLimit(j) <= limit[j]
    BY <1>2 DEF BatchLimit, CapReached, Smaller
  <1>4. Cardinality(S) = Smaller(BatchLimit(j), Cardinality(Eligible(j)))
    BY DEF IsFirst
  <1>5. Cardinality(S) \in Nat /\ Cardinality(Eligible(j)) \in Nat
    BY <1>1, KeysFinite
  <1>6. S = {} => Eligible(j) = {}
    <2>1. S = {} => Cardinality(S) = 0
      BY <1>1, KeysFinite
    <2>2. Cardinality(S) = 0 => Cardinality(Eligible(j)) = 0
      BY <1>3, <1>4, <1>5 DEF Smaller
    <2> QED BY <1>1, <2>1, <2>2, KeysFinite
  <1>7. Cardinality(S) <= BatchLimit(j)
    BY <1>3, <1>4, <1>5 DEF Smaller
  <1> QED BY <1>2, <1>3, <1>5, <1>6, <1>7 DEF IsFirst

-----------------------------------------------------------------------------
(* Every step settles rows and nothing else. *)

LEMMA CommitSettles ==
  ASSUME Inv, NEW j \in Jobs, Commit(j)
  PROVE  /\ RowsSettle /\ Fill
         /\ \A k \in Keys : rows'[k] = IF k \in DOMAIN staged[j] THEN Computed(batch[j][k])
                                       ELSE rows[k]
  <1>1. /\ DOMAIN staged[j] \subseteq DOMAIN batch[j] /\ DOMAIN batch[j] \subseteq Keys
        /\ \A k \in DOMAIN batch[j] : batch[j][k] \in Row
        /\ BatchCurrent(j) /\ StagedRight(j)
    BY DEF Inv, TypeOK, Scan
  <1>2. rows' = Written(j) /\ spots' = spots
    BY DEF Commit
  <1>3. ASSUME NEW k \in DOMAIN staged[j]
        PROVE  [rows[k] EXCEPT !.greeks = staged[j][k].greeks, !.iv = staged[j][k].iv]
                 = Computed(batch[j][k])
    <2>1. /\ batch[j][k] \in Row /\ staged[j][k] = Computed(batch[j][k])
          /\ rows[k] = batch[j][k] \/ rows[k] = Computed(batch[j][k])
      BY <1>1 DEF BatchCurrent, StagedRight
    <2> QED BY <2>1, WrittenRow
  <1>4. \A k \in Keys : rows'[k] = IF k \in DOMAIN staged[j] THEN Computed(batch[j][k]) ELSE rows[k]
    BY <1>2, <1>3 DEF Written
  <1>5. ASSUME NEW k \in DOMAIN staged[j]
        PROVE  \/ rows[k] = Computed(batch[j][k])
               \/ rows[k] = batch[j][k] /\ Computable(k)
    <2>1. batch[j][k] # None
      BY <1>1, FillAssumption
    <2> QED BY <1>1, <2>1 DEF BatchCurrent, StagedRight, Computable, Gap
  <1>6. RowsSettle
    BY <1>1, <1>2, <1>4, <1>5 DEF RowsSettle
  <1>7. Fill
    <2> DEFINE S == {k \in DOMAIN staged[j] : rows[k] = batch[j][k] /\ Computable(k)}
    <2>1. S \in SUBSET {k \in Keys : Computable(k)}
      BY <1>1
    <2>2. rows' = [k \in Keys |-> IF k \in S THEN Computed(rows[k]) ELSE rows[k]]
      <3>1. \A k \in Keys : rows'[k] = IF k \in S THEN Computed(rows[k]) ELSE rows[k]
        BY <1>4, <1>5
      <3>2. rows' = [k \in Keys |-> rows'[k]]
        BY <1>2 DEF Written
      <3> QED BY <3>1, <3>2
    <2> QED BY <1>2, <2>1, <2>2 DEF Fill
  <1> QED BY <1>4, <1>6, <1>7

LEMMA InsertSettles ==
  ASSUME TypeOK, Insert
  PROVE  RowsSettle
  BY DEF TypeOK, Insert, InsertOption, InsertUnderlying, RowsSettle


(* A due row stays due until it is settled, and settled for good. *)
LEMMA DueOrSettled ==
  ASSUME TypeOK, RowsSettle, NEW k \in Keys
  PROVE  /\ Settled(k) => Settled(k)'
         /\ Computable(k) => Computable(k)' \/ Settled(k)'
  <1>1. SpotOf(k) \in Spots /\ (rows[k] # None => rows[k] \in Row)
    BY FillAssumption DEF SpotOf, Spots, TypeOK
  <1>2. spots[SpotOf(k)] = "good" => spots'[SpotOf(k)] = "good"
    BY <1>1, FillAssumption DEF RowsSettle, TypeOK, Value
  <1>3. Settled(k) => rows'[k] = rows[k]
    BY FillAssumption DEF RowsSettle, Settled, Computable, Gap
  <1>4. Computable(k) => rows'[k] = rows[k] \/ rows'[k] = Computed(rows[k])
    BY DEF RowsSettle, Computable, Gap
  <1>5. rows[k] # None => Computed(rows[k]) # None /\ Computed(rows[k]).greeks = "computed"
    BY <1>1, ComputedRow
  <1>6. Settled(k) => Settled(k)'
    BY <1>3 DEF Settled
  <1>7. ASSUME Computable(k) PROVE Computable(k)' \/ Settled(k)'
    <2>1. CASE rows'[k] = rows[k]
      <3>1. ComputableAs(k, rows[k])'
        BY <1>2, <1>7, <2>1 DEF Computable, ComputableAs, SpotOf
      <3> QED BY <1>7, <2>1, <3>1 DEF Computable, Gap
    <2>2. CASE rows'[k] = Computed(rows[k])
      BY <1>5, <1>7, <2>2 DEF Computable, Gap, Settled
    <2> QED BY <1>4, <1>7, <2>1, <2>2
  <1> QED BY <1>6, <1>7

(* A run that does not move keeps its promises through the steps of others. *)
LEMMA ScanLasts ==
  ASSUME Inv, NEW j \in Jobs, RowsSettle,
         at'[j] = at[j], coverage'[j] = coverage[j], cutoff'[j] = cutoff[j],
         cursor'[j] = cursor[j], processed'[j] = processed[j],
         batch'[j] = batch[j], staged'[j] = staged[j],
         examined'[j] = examined[j], due'[j] = due[j]
  PROVE  Scan(j)'
  <1>0. /\ TypeOK /\ Scan(j) /\ due[j] \subseteq Keys /\ DOMAIN batch[j] \subseteq Keys
        /\ DOMAIN staged[j] \subseteq DOMAIN batch[j]
        /\ \A k \in DOMAIN batch[j] : batch[j][k] \in Row
    BY DEF Inv, TypeOK
  <1>1. \A k \in Keys : /\ Settled(k) => Settled(k)'
                        /\ Computable(k) => Computable(k)' \/ Settled(k)'
    BY <1>0, DueOrSettled
  <1>2. BatchCurrent(j)'
    <2>1. ASSUME NEW k \in DOMAIN batch[j]
          PROVE  rows'[k] = batch[j][k] \/ rows'[k] = Computed(batch[j][k])
      <3>1. /\ batch[j][k] \in Row /\ batch[j][k] # None /\ Computed(batch[j][k]) # None
            /\ Computed(batch[j][k]).greeks # None
            /\ rows[k] = batch[j][k] \/ rows[k] = Computed(batch[j][k])
        BY <1>0, ComputedRow, FillAssumption DEF Scan, BatchCurrent
      <3> QED BY <1>0, <3>1 DEF RowsSettle, Computable, Gap
    <2> QED BY <1>0, <2>1 DEF Scan, BatchCurrent
  <1>3. \A k \in DOMAIN staged[j] : ComputableAs(k, batch[j][k])'
    <2>1. ASSUME NEW k \in DOMAIN staged[j] PROVE spots'[SpotOf(k)] = "good"
      <3>1. SpotOf(k) \in Spots /\ spots[SpotOf(k)] = "good"
        <4>1. StagedRight(j) /\ k \in Keys
          BY <1>0 DEF Scan
        <4>2. SpotOf(k) \in Spots
          BY <4>1, SpotIsSpot
        <4>3. spots[SpotOf(k)] = "good"
          BY <4>1 DEF StagedRight, ComputableAs
        <4> QED BY <4>2, <4>3
      <3> QED BY <3>1, FillAssumption DEF RowsSettle, Value
    <2> QED BY <1>0, <2>1 DEF Scan, StagedRight, ComputableAs, SpotOf
  <1>4. StagedRight(j)'
    BY <1>0, <1>3 DEF Scan, StagedRight
  <1>5. InHand(j)'
    BY <1>0, <1>1 DEF Scan, InHand
  <1>6. DueLasts(j)'
    BY <1>0, <1>1 DEF Scan, DueLasts, WorthExamining, Covered
  <1>7. Passed(j)'
    BY <1>0, <1>1 DEF Scan, Passed
  <1>8. Ahead(j)'
    BY <1>0 DEF Scan, Ahead
  <1>9. Fresh(j)'
    BY <1>0 DEF Scan, Fresh
  <1> QED BY <1>2, <1>4, <1>5, <1>6, <1>7, <1>8, <1>9 DEF Scan

-----------------------------------------------------------------------------
(* The steps of a run. *)

TableTyped ==
  /\ rows \in [Keys -> Row \cup {None}]
  /\ spots \in [Spots -> Value \cup {"null", None}]
  /\ crashes \in 0..MaxCrashes

VectorsTyped ==
  /\ at \in [Jobs -> Ended \cup {"select", "fetch", "update"}]
  /\ coverage \in [Jobs -> SUBSET Spots]
  /\ cutoff \in [Jobs -> Int] /\ limit \in [Jobs -> Limits \cup {None}]
  /\ cursor \in [Jobs -> Keys \cup {0}] /\ processed \in [Jobs -> Nat]
  /\ DOMAIN batch = Jobs /\ DOMAIN staged = Jobs /\ held \in [Jobs -> SUBSET Keys]
  /\ examined \in [Jobs -> SUBSET Keys] /\ due \in [Jobs -> SUBSET Keys]

JobTyped(j) ==
  /\ DOMAIN batch[j] \subseteq Keys /\ \A k \in DOMAIN batch[j] : batch[j][k] \in Row
  /\ DOMAIN staged[j] \subseteq DOMAIN batch[j]
  /\ \A k \in DOMAIN staged[j] : staged[j][k] \in Row
  /\ held[j] \subseteq DOMAIN staged[j]
  /\ limit[j] # None => processed[j] + Cardinality(DOMAIN batch[j]) <= limit[j]

LockedOnce == \A i, j \in Jobs : i # j => held[i] \cap held[j] = {}

LEMMA TypeParts ==
  TypeOK <=> TableTyped /\ VectorsTyped /\ LockedOnce /\ \A j \in Jobs : JobTyped(j)
  BY DEF TypeOK, TableTyped, VectorsTyped, JobTyped, LockedOnce

LEMMA TypePartsNext ==
  TypeOK' <=> TableTyped' /\ VectorsTyped' /\ LockedOnce' /\ \A j \in Jobs : JobTyped(j)'
  BY DEF TypeOK, TableTyped, VectorsTyped, JobTyped, LockedOnce

(* All but run j stays as it is. *)
OthersKeep(j) ==
  \A i \in Jobs \ {j} :
    /\ at'[i] = at[i] /\ coverage'[i] = coverage[i] /\ cutoff'[i] = cutoff[i]
    /\ limit'[i] = limit[i] /\ cursor'[i] = cursor[i] /\ processed'[i] = processed[i]
    /\ batch'[i] = batch[i] /\ staged'[i] = staged[i] /\ held'[i] = held[i]
    /\ examined'[i] = examined[i] /\ due'[i] = due[i]

(* A step of run j is right if its own parts are and it settles rows only. *)
LEMMA OwnStep ==
  ASSUME Inv, NEW j \in Jobs, OthersKeep(j), RowsSettle, TableTyped', VectorsTyped',
         JobTyped(j)', Scan(j)', \A i \in Jobs \ {j} : held[i] \cap held'[j] = {}
  PROVE  Inv'
  <1>1. TypeOK /\ TableTyped /\ VectorsTyped /\ LockedOnce /\ \A i \in Jobs : JobTyped(i)
    BY TypeParts DEF Inv
  <1>2. ASSUME NEW i \in Jobs \ {j} PROVE JobTyped(i)' /\ Scan(i)'
    <2>1. JobTyped(i)'
      BY <1>1 DEF JobTyped, OthersKeep
    <2>2. Scan(i)'
      BY ScanLasts DEF OthersKeep
    <2> QED BY <2>1, <2>2
  <1>3. LockedOnce'
    BY <1>1 DEF LockedOnce, OthersKeep
  <1> QED BY <1>2, <1>3, TypePartsNext DEF Inv

LEMMA EmptyBatch ==
  /\ DOMAIN Nothing = {} /\ Cardinality({}) = 0
  BY FS_EmptySet DEF Nothing

(* With nothing in hand and nothing due a run has kept every promise. *)
LEMMA EndIsRight ==
  ASSUME Inv, NEW j \in Jobs, NEW how \in Ended, End(j, how), UNCHANGED table,
         crashes' \in 0..MaxCrashes
  PROVE  Inv'
  <1>1. TableTyped /\ VectorsTyped
    BY TypeParts DEF Inv
  <1>2. OthersKeep(j)
    BY <1>1 DEF OthersKeep, End
  <1>3. RowsSettle /\ TableTyped'
    BY <1>1 DEF RowsSettle, TableTyped, table
  <1>4. VectorsTyped'
    BY <1>1 DEF End, VectorsTyped
  <1>5. /\ at'[j] = how /\ due'[j] = {} /\ examined'[j] = {} /\ held'[j] = {}
        /\ cursor'[j] = 0 /\ processed'[j] = 0 /\ limit'[j] = None /\ DOMAIN batch'[j] = {} /\ DOMAIN staged'[j] = {}
    BY <1>1, EmptyBatch DEF End, VectorsTyped
  <1>6. JobTyped(j)'
    BY <1>5 DEF JobTyped
  <1>7. Scan(j)'
    BY <1>5 DEF Scan, Fresh, InHand, BatchCurrent, StagedRight, DueLasts, Passed, Ahead, Ended
  <1> QED BY <1>2, <1>3, <1>4, <1>5, <1>6, <1>7, OwnStep

(* A row whose spot price is there when the run begins passes the prefilter. *)
LEMMA StartIsRight ==
  ASSUME Inv, NEW j \in Jobs, Start(j)
  PROVE  Inv'
  <1>1. /\ TableTyped /\ VectorsTyped /\ JobTyped(j) /\ Scan(j) /\ LockedOnce
    BY TypeParts DEF Inv
  <1>2. OthersKeep(j)
    BY <1>1 DEF OthersKeep, Start
  <1>3. RowsSettle /\ TableTyped' /\ UNCHANGED <<rows, spots>>
    BY <1>1 DEF Start, RowsSettle, TableTyped, table
  <1>4. VectorsTyped'
    <2>1. coverage' \in [Jobs -> SUBSET Spots] /\ due' \in [Jobs -> SUBSET Keys]
      BY <1>1 DEF Start, VectorsTyped
    <2>2. limit' \in [Jobs -> Limits \cup {None}] /\ cutoff' \in [Jobs -> Int]
      BY <1>1, FillAssumption DEF Start, VectorsTyped
    <2> QED BY <1>1, <2>1, <2>2 DEF Start, VectorsTyped
  <1>5. /\ at[j] \in Ended /\ at'[j] = "select" /\ due'[j] = {k \in Keys : Computable(k)}
        /\ coverage'[j] = {s \in Spots : spots[s] # None}
        /\ UNCHANGED <<cursor, processed, batch, staged, held, examined>>
    BY <1>1 DEF Start, VectorsTyped
  <1>6. DOMAIN batch[j] = {} /\ DOMAIN staged[j] = {} /\ held[j] = {}
    BY <1>1, <1>5 DEF Scan, InHand, JobTyped
  <1>7. cursor[j] = 0 /\ processed[j] = 0 /\ examined[j] = {}
    BY <1>1, <1>5 DEF Scan, Fresh
  <1>8. DueLasts(j)'
    <2>1. ASSUME NEW k \in Keys, Computable(k)
          PROVE  Computable(k)' /\ WorthExamining(j, k)'
      <3>1. SpotOf(k) \in Spots /\ spots[SpotOf(k)] # None /\ MinuteOf[k] \in Minutes
        BY <2>1, FillAssumption DEF Computable, ComputableAs, SpotOf, Spots, Value
      <3>2. MinuteOf[k] \in Covered(j, k)' /\ MinuteOf[k] \in Int
        BY <1>5, <3>1, FillAssumption DEF Covered, SpotOf
      <3> QED BY <1>3, <2>1, <3>2 DEF WorthExamining, Computable, ComputableAs, Gap, SpotOf
    <2> QED BY <1>5, <2>1 DEF DueLasts, Ended
  <1>9. Scan(j)'
    <2>1. ASSUME NEW k \in Keys PROVE ~(k <= 0)
      BY FillAssumption
    <2>2. Passed(j)'
      BY <1>5, <1>6, <1>7, <2>1 DEF Passed
    <2> QED BY <1>5, <1>6, <1>7, <1>8, <2>2
         DEF Scan, Fresh, InHand, BatchCurrent, StagedRight, Ahead, Ended
  <1>10. JobTyped(j)'
    <2>1. limit'[j] # None => limit'[j] \in Nat
      BY <1>4, JobAssumption DEF VectorsTyped
    <2> QED BY <1>5, <1>6, <1>7, <2>1, EmptyBatch DEF JobTyped
  <1> QED BY <1>2, <1>3, <1>4, <1>6, <1>5, <1>9, <1>10, OwnStep

(* The first keys of what is eligible; at the end there are none. *)
LEMMA SelectIsRight ==
  ASSUME Inv, NEW j \in Jobs, Select(j)
  PROVE  /\ Inv'
         /\ at'[j] = "done" => \A k \in due[j] : Settled(k)
  <1>1. /\ TypeOK /\ TableTyped /\ VectorsTyped /\ JobTyped(j) /\ Scan(j) /\ LockedOnce
    BY TypeParts DEF Inv
  <1>2. /\ at[j] = "select" /\ UNCHANGED table /\ crashes' = crashes
        /\ DOMAIN batch[j] = {} /\ DOMAIN staged[j] = {} /\ held[j] = {}
    BY <1>1 DEF Select, Scan, InHand, JobTyped
  <1>3. CASE CapReached(j)
    <2>1. End(j, "idle") /\ "idle" \in Ended /\ at'[j] = "idle"
      BY <1>1, <1>3 DEF Select, Ended, End, VectorsTyped
    <2> QED BY <1>1, <1>2, <2>1, EndIsRight DEF TableTyped
  <1>4. ASSUME ~CapReached(j), NEW S \in SUBSET Eligible(j),
               IsFirst(S, BatchLimit(j), Eligible(j)), S = {}, End(j, "done")
        PROVE  Inv' /\ \A k \in due[j] : Settled(k)
    <2>1. Inv'
      BY <1>1, <1>2, <1>4, EndIsRight DEF TableTyped, Ended
    <2>2. Eligible(j) = {}
      BY <1>1, <1>4, FirstKeys
    <2>3. ASSUME NEW k \in due[j] PROVE Settled(k)
      <3>1. /\ k \in Keys /\ WorthExamining(j, k) /\ (Computable(k) \/ Settled(k))
            /\ k <= cursor[j] => Settled(k)
        BY <1>1 DEF Scan, DueLasts, Passed, VectorsTyped
      <3>2. k \in Nat /\ cursor[j] \in Nat
        BY <1>1, <3>1, FillAssumption DEF VectorsTyped
      <3> QED BY <2>2, <3>1, <3>2 DEF Eligible, Computable
    <2> QED BY <2>1, <2>3
  <1>5. ASSUME ~CapReached(j), NEW S \in SUBSET Eligible(j),
               IsFirst(S, BatchLimit(j), Eligible(j)), S # {},
               batch' = [batch EXCEPT ![j] = [k \in S |-> rows[k]]],
               at' = [at EXCEPT ![j] = "fetch"],
               UNCHANGED <<scan, cursor, processed, staged, held, history>>
        PROVE  Inv' /\ at'[j] = "fetch"
    <2>1. /\ S \in SUBSET Keys /\ \A k \in S : Gap(k) /\ k > cursor[j]
          /\ limit[j] # None => processed[j] + Cardinality(S) <= limit[j]
          /\ \A k \in Eligible(j) \ S, l \in S : l < k
      BY <1>1, <1>5, FirstKeys DEF Eligible
    <2>2. /\ at'[j] = "fetch" /\ DOMAIN batch'[j] = S /\ \A k \in S : batch'[j][k] = rows[k]
          /\ UNCHANGED <<coverage, cutoff, limit, cursor, processed, staged, held, examined, due>>
          /\ UNCHANGED <<rows, spots>>
      BY <1>1, <1>2, <1>5 DEF VectorsTyped, scan, history, table
    <2>3. OthersKeep(j)
      BY <1>1, <1>5, <2>2 DEF OthersKeep, VectorsTyped
    <2>4. RowsSettle /\ TableTyped'
      BY <1>1, <1>2, <2>2 DEF RowsSettle, TableTyped
    <2>5. VectorsTyped'
      BY <1>1, <1>5, <2>2 DEF VectorsTyped
    <2>6. JobTyped(j)'
      BY <1>1, <1>2, <2>1, <2>2 DEF JobTyped, TableTyped, Gap
    <2>7. Fresh(j)' /\ InHand(j)' /\ BatchCurrent(j)' /\ StagedRight(j)'
      BY <1>2, <2>1, <2>2 DEF Fresh, InHand, BatchCurrent, StagedRight, Gap, Ended
    <2>8. DueLasts(j)'
      BY <1>1, <1>2, <2>2
         DEF Scan, DueLasts, WorthExamining, Covered, Computable, ComputableAs, Gap, SpotOf,
             Settled, Ended
    <2>9. Passed(j)'
      <3>1. ASSUME NEW k \in due[j], NEW l \in S, k <= l, k \notin S
            PROVE  Settled(k)
        <4>1. /\ k \in Keys /\ WorthExamining(j, k) /\ (Computable(k) \/ Settled(k))
              /\ k <= cursor[j] => Settled(k)
          BY <1>1 DEF Scan, DueLasts, Passed, VectorsTyped
        <4>2. k \in Nat /\ l \in Nat /\ cursor[j] \in Nat
          BY <1>1, <2>1, <4>1, FillAssumption DEF VectorsTyped
        <4>3. k \notin Eligible(j)
          BY <2>1, <3>1, <4>2
        <4> QED BY <4>1, <4>2, <4>3 DEF Eligible, Computable
      <3> QED BY <1>1, <2>2, <3>1 DEF Scan, Passed, Settled
    <2>10. Ahead(j)'
      BY <1>1, <2>1, <2>2 DEF Scan, Ahead
    <2>11. Scan(j)'
      BY <2>7, <2>8, <2>9, <2>10 DEF Scan
    <2> QED BY <1>2, <2>2, <2>3, <2>4, <2>5, <2>6, <2>11, OwnStep
  <1> QED BY <1>2, <1>3, <1>4, <1>5 DEF Select, End

(* What is due in the batch is staged, unless another run was first. *)
LEMMA FetchIsRight ==
  ASSUME Inv, NEW j \in Jobs, Fetch(j)
  PROVE  Inv'
  <1>1. /\ TypeOK /\ TableTyped /\ VectorsTyped /\ JobTyped(j) /\ LockedOnce
        /\ InHand(j) /\ BatchCurrent(j) /\ DueLasts(j) /\ Passed(j) /\ Ahead(j)
    BY TypeParts DEF Inv, Scan
  <1> DEFINE D == {l \in DOMAIN batch[j] : ComputableAs(l, batch[j][l])}
  <1>2. /\ at[j] = "fetch" /\ at'[j] = "update"
        /\ DOMAIN staged'[j] = D /\ \A k \in D : staged'[j][k] = Computed(batch[j][k])
        /\ UNCHANGED <<rows, spots, crashes>>
        /\ UNCHANGED <<coverage, cutoff, limit, cursor, processed, batch, held, examined, due>>
    BY <1>1 DEF Fetch, VectorsTyped, scan, history, table
  <1>3. OthersKeep(j)
    BY <1>1, <1>2 DEF OthersKeep, Fetch, VectorsTyped
  <1>4. RowsSettle /\ TableTyped'
    BY <1>1, <1>2 DEF RowsSettle, TableTyped
  <1>5. VectorsTyped'
    BY <1>1, <1>2 DEF Fetch, VectorsTyped
  <1>6. held[j] = {}
    BY <1>1, <1>2 DEF InHand, JobTyped
  <1>7. JobTyped(j)'
    <2>1. \A k \in D : staged'[j][k] \in Row
      BY <1>1, <1>2, ComputedRow DEF JobTyped
    <2> QED BY <1>1, <1>2, <1>6, <2>1 DEF JobTyped
  <1>8. StagedRight(j)'
    BY <1>2 DEF StagedRight, ComputableAs, SpotOf
  <1>9. InHand(j)'
    <2>1. ASSUME NEW k \in due[j] \cap DOMAIN batch[j] PROVE Settled(k) \/ k \in D
      <3>1. CASE Settled(k)
        BY <3>1
      <3>2. CASE Computable(k) /\ ~Settled(k)
        <4>1. batch[j][k] \in Row /\ (rows[k] = batch[j][k] \/ rows[k] = Computed(batch[j][k]))
          BY <1>1 DEF BatchCurrent, JobTyped
        <4>2. rows[k] = batch[j][k]
          BY <3>2, <4>1, ComputedRow DEF Settled
        <4> QED BY <3>2, <4>2 DEF Computable
      <3> QED BY <1>1, <3>1, <3>2 DEF DueLasts
    <2> QED BY <1>2, <2>1 DEF InHand, Settled, Ended
  <1>10. /\ Fresh(j)' /\ BatchCurrent(j)' /\ Passed(j)' /\ Ahead(j)'
    BY <1>1, <1>2 DEF Fresh, BatchCurrent, Passed, Ahead, Settled, Ended
  <1>11. DueLasts(j)'
    BY <1>1, <1>2 DEF DueLasts, WorthExamining, Covered, Computable, ComputableAs, Gap, SpotOf,
                      Settled, Ended
  <1>12. Scan(j)'
    BY <1>8, <1>9, <1>10, <1>11 DEF Scan
  <1> QED BY <1>3, <1>4, <1>5, <1>6, <1>2, <1>7, <1>12, OwnStep

LEMMA UpdateIsRight ==
  ASSUME Inv, NEW j \in Jobs, Update(j)
  PROVE  Inv'
  <1>1. TypeOK /\ TableTyped /\ VectorsTyped /\ JobTyped(j) /\ LockedOnce /\ Scan(j)
    BY TypeParts DEF Inv
  <1>2. PICK k \in DOMAIN staged[j] :
          /\ \A i \in Jobs : k \notin held[i]
          /\ held' = [held EXCEPT ![j] = @ \cup {k}]
    BY DEF Update
  <1>3. /\ UNCHANGED <<rows, spots, crashes, at, coverage, cutoff, limit, cursor, processed>>
        /\ UNCHANGED <<batch, staged, examined, due>>
    BY DEF Update, table, scan, history
  <1>4. OthersKeep(j)
    BY <1>1, <1>2, <1>3 DEF OthersKeep, VectorsTyped
  <1>5. RowsSettle /\ TableTyped'
    BY <1>1, <1>3 DEF RowsSettle, TableTyped
  <1>6. VectorsTyped' /\ JobTyped(j)'
    BY <1>1, <1>2, <1>3 DEF VectorsTyped, JobTyped
  <1>7. Scan(j)'
    <2>1. RowsSettle
      BY <1>5
    <2> QED BY <1>3, <2>1, ScanLasts
  <1>8. \A i \in Jobs \ {j} : held[i] \cap held'[j] = {}
    BY <1>1, <1>2 DEF LockedOnce, VectorsTyped
  <1> QED BY <1>4, <1>5, <1>6, <1>7, <1>8, OwnStep

(* Up to the new cursor everything that was due is settled. *)
LEMMA CommitIsRight ==
  ASSUME Inv, NEW j \in Jobs, Commit(j)
  PROVE  Inv'
  <1>1. /\ TypeOK /\ TableTyped /\ VectorsTyped /\ JobTyped(j) /\ LockedOnce
        /\ InHand(j) /\ BatchCurrent(j) /\ DueLasts(j) /\ Passed(j) /\ Ahead(j) /\ Scan(j)
    BY TypeParts DEF Inv, Scan
  <1>2. PICK c \in CursorAfter(j) : cursor' = [cursor EXCEPT ![j] = c]
    BY DEF Commit
  <1>3. /\ c \in DOMAIN batch[j] /\ c \in Keys /\ \A l \in DOMAIN batch[j] : l <= c
    BY <1>1, <1>2 DEF CursorAfter, JobTyped
  <1>4. /\ at[j] = "update" /\ at'[j] = "select" /\ cursor'[j] = c /\ held'[j] = {}
        /\ DOMAIN batch'[j] = {} /\ DOMAIN staged'[j] = {}
        /\ examined'[j] = examined[j] \cup DOMAIN batch[j]
        /\ processed'[j] = processed[j] + Cardinality(DOMAIN batch[j])
        /\ UNCHANGED <<spots, crashes, coverage, cutoff, limit, due>>
    BY <1>1, <1>2, EmptyBatch DEF Commit, VectorsTyped, scan
  <1>5. /\ RowsSettle
        /\ \A k \in Keys : rows'[k] = IF k \in DOMAIN staged[j] THEN Computed(batch[j][k])
                                      ELSE rows[k]
    BY CommitSettles
  <1>6. OthersKeep(j)
    BY <1>1, <1>2, <1>4 DEF OthersKeep, Commit, VectorsTyped
  <1>7. TableTyped'
    <2>1. \A k \in Keys : rows'[k] \in Row \cup {None}
      BY <1>1, <1>5, ComputedRow DEF TableTyped, JobTyped
    <2>2. rows' = [k \in Keys |-> rows'[k]]
      BY DEF Commit, Written
    <2>3. rows' \in [Keys -> Row \cup {None}]
      BY <2>1, <2>2
    <2> QED BY <1>1, <1>4, <2>3 DEF TableTyped
  <1>8. Cardinality(DOMAIN batch[j]) \in Nat
    BY <1>1, KeysFinite DEF JobTyped
  <1>9. VectorsTyped'
    BY <1>1, <1>2, <1>3, <1>8 DEF Commit, VectorsTyped, JobTyped, scan
  <1>10. JobTyped(j)'
    <2>1. processed'[j] + Cardinality({}) = processed[j] + Cardinality(DOMAIN batch[j])
      BY <1>1, <1>4, <1>8, EmptyBatch DEF VectorsTyped
    <2> QED BY <1>1, <1>4, <2>1 DEF JobTyped
  <1>11. ASSUME NEW k \in Keys
         PROVE  /\ Settled(k) => Settled(k)'
                /\ Computable(k) => Computable(k)' \/ Settled(k)'
    BY <1>1, <1>5, DueOrSettled
  <1>12. Passed(j)'
    <2>1. ASSUME NEW k \in due[j], k <= c PROVE Settled(k)'
      <3>1. k \in Keys
        BY <1>1 DEF VectorsTyped
      <3>2. CASE k \in DOMAIN staged[j]
        <4>1. batch[j][k] \in Row
          BY <1>1, <3>2 DEF JobTyped
        <4> QED BY <1>5, <3>1, <3>2, <4>1, ComputedRow DEF Settled
      <3>3. CASE k \notin DOMAIN staged[j]
        <4>1. Settled(k)
          BY <1>1, <1>3, <1>4, <2>1, <3>3 DEF Passed, InHand
        <4> QED BY <1>11, <3>1, <4>1
      <3> QED BY <3>2, <3>3
    <2> QED BY <1>4, <2>1 DEF Passed
  <1>13. DueLasts(j)'
    <2>1. ASSUME NEW k \in due[j]
          PROVE  (Computable(k)' \/ Settled(k)') /\ WorthExamining(j, k)'
      <3>1. k \in Keys /\ (Computable(k) \/ Settled(k)) /\ WorthExamining(j, k)
        BY <1>1 DEF VectorsTyped, DueLasts
      <3> QED BY <1>4, <1>11, <3>1 DEF WorthExamining, Covered
    <2> QED BY <1>4, <2>1 DEF DueLasts, Ended
  <1>14. Ahead(j)'
    <2>1. Keys \subseteq Nat /\ cursor[j] \in Keys \cup {0} /\ examined[j] \subseteq Keys
      BY <1>1, FillAssumption DEF VectorsTyped
    <2>2. c > cursor[j]
      BY <1>1, <1>3 DEF Ahead
    <2>3. ASSUME NEW k \in examined[j] PROVE k <= c
      <3>1. k <= cursor[j]
        BY <1>1 DEF Ahead
      <3>2. k \in Keys /\ c \in Keys
        BY <1>3, <2>1
      <3>3. k \in Nat /\ c \in Nat
        BY <2>1, <3>2
      <3>4. cursor[j] \in Nat
        BY <2>1, CursorIsNat
      <3> QED BY <2>2, <3>1, <3>3, <3>4
    <2> QED BY <1>3, <1>4, <2>3 DEF Ahead
  <1>15. Scan(j)'
    <2>1. Fresh(j)' /\ InHand(j)' /\ BatchCurrent(j)' /\ StagedRight(j)'
      BY <1>4 DEF Fresh, InHand, BatchCurrent, StagedRight, Ended
    <2> QED BY <1>12, <1>13, <1>14, <2>1 DEF Scan
  <1> QED BY <1>4, <1>5, <1>6, <1>7, <1>9, <1>10, <1>15, OwnStep

LEMMA CrashIsRight ==
  ASSUME Inv, NEW j \in Jobs, Crash(j)
  PROVE  Inv'
  <1>1. TableTyped
    BY TypeParts DEF Inv
  <1>2. crashes' \in 0..MaxCrashes
    BY <1>1, JobAssumption DEF TableTyped, Crash
  <1> QED BY <1>2, EndIsRight DEF Crash, Ended

(* What other programs insert settles no gap and moves no run. *)
LEMMA OthersRight ==
  ASSUME Inv, Others
  PROVE  Inv'
  <1>1. TypeOK /\ TableTyped /\ VectorsTyped /\ LockedOnce /\ \A j \in Jobs : JobTyped(j)
    BY TypeParts DEF Inv
  <1>2. /\ UNCHANGED <<at, coverage, cutoff, limit, cursor, processed, batch, staged, held>>
        /\ UNCHANGED <<crashes, examined, due>>
    BY DEF Others, scan, history
  <1>3. RowsSettle
    BY <1>1, InsertSettles DEF Others
  <1>4. TableTyped'
    <2>1. ASSUME NEW k \in Keys, InsertOption(k) PROVE TableTyped'
      <3>1. Arrivals[k] \subseteq Row
        BY FillAssumption
      <3> QED BY <1>1, <1>2, <2>1, <3>1 DEF InsertOption, TableTyped
    <2>2. ASSUME NEW s \in Spots, InsertUnderlying(s) PROVE TableTyped'
      BY <1>1, <1>2, <2>2, FillAssumption DEF InsertUnderlying, TableTyped
    <2> QED BY <2>1, <2>2 DEF Others, Insert
  <1>5. VectorsTyped' /\ LockedOnce' /\ \A j \in Jobs : JobTyped(j)'
    BY <1>1, <1>2 DEF VectorsTyped, LockedOnce, JobTyped
  <1>6. ASSUME NEW j \in Jobs PROVE Scan(j)'
    BY <1>2, <1>3, ScanLasts
  <1> QED BY <1>4, <1>5, <1>6, TypePartsNext DEF Inv

LEMMA StutterRight ==
  ASSUME Inv, UNCHANGED vars
  PROVE  Inv'
  <1>1. TypeOK /\ TableTyped /\ VectorsTyped /\ LockedOnce /\ \A j \in Jobs : JobTyped(j)
    BY TypeParts DEF Inv
  <1>2. /\ UNCHANGED <<at, coverage, cutoff, limit, cursor, processed, batch, staged, held>>
        /\ UNCHANGED <<crashes, examined, due, rows, spots>>
    BY DEF vars, scan, history, table
  <1>3. RowsSettle
    BY <1>2 DEF RowsSettle
  <1>4. TableTyped' /\ VectorsTyped' /\ LockedOnce' /\ \A j \in Jobs : JobTyped(j)'
    BY <1>1, <1>2 DEF TableTyped, VectorsTyped, LockedOnce, JobTyped
  <1>5. ASSUME NEW j \in Jobs PROVE Scan(j)'
    BY <1>2, <1>3, ScanLasts
  <1> QED BY <1>4, <1>5, TypePartsNext DEF Inv

LEMMA StepInv == Inv /\ [Next]_vars => Inv'
  <1> SUFFICES ASSUME Inv, [Next]_vars PROVE Inv'
    OBVIOUS
  <1>1. ASSUME NEW j \in Jobs, Start(j) PROVE Inv'
    BY <1>1, StartIsRight
  <1>2. ASSUME NEW j \in Jobs, Select(j) PROVE Inv'
    BY <1>2, SelectIsRight
  <1>3. ASSUME NEW j \in Jobs, Fetch(j) PROVE Inv'
    BY <1>3, FetchIsRight
  <1>4. ASSUME NEW j \in Jobs, Update(j) PROVE Inv'
    BY <1>4, UpdateIsRight
  <1>5. ASSUME NEW j \in Jobs, Commit(j) PROVE Inv'
    BY <1>5, CommitIsRight
  <1>6. ASSUME NEW j \in Jobs, Crash(j) PROVE Inv'
    BY <1>6, CrashIsRight
  <1>7. CASE Others
    BY <1>7, OthersRight
  <1>8. CASE UNCHANGED vars
    BY <1>8, StutterRight
  <1> QED BY <1>1, <1>2, <1>3, <1>4, <1>5, <1>6, <1>7, <1>8 DEF Next, Step

LEMMA InitInv == Init => Inv
  <1> SUFFICES ASSUME Init PROVE Inv
    OBVIOUS
  <1>1. TableTyped
    BY JobAssumption DEF Init, TableInit, TableTyped
  <1>2. VectorsTyped /\ LockedOnce
    BY DEF Init, VectorsTyped, LockedOnce, Ended
  <1>3. ASSUME NEW j \in Jobs PROVE JobTyped(j) /\ Scan(j)
    <2>1. /\ at[j] = "idle" /\ limit[j] = None /\ cursor[j] = 0 /\ processed[j] = 0
          /\ DOMAIN batch[j] = {} /\ DOMAIN staged[j] = {} /\ held[j] = {}
          /\ examined[j] = {} /\ due[j] = {}
      BY EmptyBatch DEF Init
    <2> QED BY <2>1 DEF JobTyped, Scan, Fresh, InHand, BatchCurrent, StagedRight, DueLasts,
                        Passed, Ahead, Ended
  <1> QED BY <1>1, <1>2, <1>3, TypeParts DEF Inv

LEMMA Invariance == Spec => []Inv
  BY InitInv, StepInv, PTL DEF Spec

-----------------------------------------------------------------------------
(* The theorems. *)

(* The variables have their types, no row is locked by two runs, and a run
   examines no more rows than --max-rows, whatever the batches. *)
THEOREM TypeCorrect == Spec => []TypeOK
  <1>1. Inv => TypeOK
    BY DEF Inv
  <1> QED BY <1>1, Invariance, PTL

(* No run examines a row twice: a batch is ahead of the cursor, and what has
   been examined is not. *)
THEOREM NoneTwice == Spec => []ExaminedOnce
  <1>1. Inv => ExaminedOnce
    <2> SUFFICES ASSUME Inv, NEW j \in Jobs, NEW k \in DOMAIN batch[j] \cap examined[j]
                 PROVE  FALSE
      BY DEF ExaminedOnce
    <2>1. VectorsTyped /\ Ahead(j)
      BY TypeParts DEF Inv, Scan
    <2>2. k \in Nat /\ cursor[j] \in Nat
      <3>1. k \in Keys /\ cursor[j] \in Keys \cup {0}
        BY <2>1 DEF VectorsTyped
      <3> QED BY <3>1, FillAssumption
    <2> QED BY <2>1, <2>2 DEF Ahead
  <1> QED BY <1>1, Invariance, PTL

(* Only a SELECT that finds nothing brings a run to the end of the table. *)
LEMMA OnlySelectEnds ==
  ASSUME Inv, [Next]_vars, NEW j \in Jobs, at[j] # "done", at'[j] = "done"
  PROVE  Select(j)
  <1>1. VectorsTyped
    BY TypeParts DEF Inv
  <1>2. ASSUME NEW i \in Jobs, Start(i) \/ Fetch(i) \/ Update(i) \/ Commit(i) \/ Crash(i)
        PROVE  FALSE
    BY <1>1, <1>2 DEF VectorsTyped, Start, Fetch, Update, Commit, Crash, End
  <1>3. ASSUME NEW i \in Jobs \ {j}, Select(i) PROVE FALSE
    BY <1>1, <1>3 DEF VectorsTyped, Select, End
  <1>4. CASE Others
    BY <1>4 DEF Others
  <1>5. CASE UNCHANGED vars
    BY <1>5 DEF vars
  <1> QED BY <1>2, <1>3, <1>4, <1>5 DEF Next, Step

(* A run that comes to the end of the table leaves none of the rows that
   could be computed when it began, however many rows other programs insert
   meanwhile and however many other runs fill rows at the same time. *)
THEOREM NoneOverlooked == Spec => NothingOverlooked
  <1> DEFINE A == \A j \in Jobs : at[j] # "done" /\ at'[j] = "done" =>
                    \A k \in due[j] : rows[k].greeks = "computed"
  <1>1. Inv /\ [Next]_vars => A
    <2> SUFFICES ASSUME Inv, [Next]_vars, NEW j \in Jobs, at[j] # "done", at'[j] = "done"
                 PROVE  \A k \in due[j] : rows[k].greeks = "computed"
      OBVIOUS
    <2>1. Select(j)
      BY OnlySelectEnds
    <2> QED BY <2>1, SelectIsRight DEF Settled
  <1>2. Inv /\ [Next]_vars => [A]_vars
    BY <1>1
  <1> QED BY <1>2, Invariance, PTL DEF Spec, NothingOverlooked

(* The job only fills in the Greeks of rows that have none and can have
   them: a late UPDATE of one run does not undo what another has written. *)
THEOREM ImplementsFill == Spec => FillSpec
  <1>1. Init => TableInit
    BY DEF Init
  <1>2. Inv /\ [Next]_vars => [Insert \/ Fill]_table
    <2> SUFFICES ASSUME Inv, [Next]_vars PROVE [Insert \/ Fill]_table
      OBVIOUS
    <2>1. ASSUME NEW j \in Jobs, Commit(j) PROVE Fill
      BY <2>1, CommitSettles
    <2>2. ASSUME NEW j \in Jobs, Start(j) \/ Select(j) \/ Fetch(j) \/ Update(j) \/ Crash(j)
          PROVE  UNCHANGED table
      BY <2>2 DEF Start, Select, Fetch, Update, Crash
    <2>3. CASE Others
      BY <2>3 DEF Others
    <2>4. CASE UNCHANGED vars
      BY <2>4 DEF vars
    <2> QED BY <2>1, <2>2, <2>3, <2>4 DEF Next, Step
  <1> QED BY <1>1, <1>2, Invariance, PTL DEF Spec, FillSpec
=============================================================================
