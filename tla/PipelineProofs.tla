--------------------------- MODULE PipelineProofs ---------------------------
(***************************************************************************)
(* What holds of the ingestion pipeline for every set of contracts and     *)
(* tickers, every feed, every length of the minute and of the grace        *)
(* period, and every bound.                                                *)
(***************************************************************************)
EXTENDS Pipeline, TLAPS

-----------------------------------------------------------------------------
(* The inductive invariant. *)

(* What each stage of a flush, and each phase, still has in hand. *)
Stages ==
  /\ phase \in {"cancelled", "down"} => stage = "idle"
  /\ phase = "down" => bars = NoBars
  /\ stage = "option" => writing \subseteq SlotsOf(OptionIds)
  /\ stage = "underlying" =>
       Present(popped) \subseteq SlotsOf(Tickers) /\ writing = Present(popped)

(* The observations of a slot that are in its bucket, in the bucket popped *)
(* for it, and in its row.                                                 *)
InBars(s) == IF bars[s] = None THEN {} ELSE bars[s].obs

InPopped(s) == IF popped[s] = None THEN {} ELSE popped[s].obs

InRow(s) == IF rows[s] = None THEN {} ELSE rows[s].bar.obs

InHands(s) == InBars(s) \cup InPopped(s)

(* What is in a slot was accepted, for that slot. *)
OfSlot(S, s) == S \subseteq 1..Len(log) /\ \A i \in S : log[i].slot = s

SlotsRight ==
  /\ \A s \in Slots : OfSlot(InBars(s), s) /\ OfSlot(InPopped(s), s) /\ OfSlot(InRow(s), s)
  /\ Gone \subseteq 1..Len(log)

(* A bucket that was popped is older than the one in its place. *)
PoppedOlder ==
  \A s \in Slots : \A i \in InPopped(s), j \in InBars(s) : i < j

Elapsed(s) == s[2] + MinuteTicks <= now

LogLives == \A i \in 1..Len(log) : log[i].life <= life

(* Until close(), a bucket has all that this life observed for its slot. *)
WholeBuckets ==
  \A s \in Slots :
    phase \in {"running", "cancelled"} =>
      /\ bars[s] # None => popped[s] = None /\ bars[s].obs = ObservedIn(s, life)
      /\ popped[s] # None => Elapsed(s) /\ popped[s].obs = ObservedIn(s, life)
      /\ bars[s] = None /\ ~Elapsed(s) => ObservedIn(s, life) = {}

(* When the row of a slot was written, and by whom. *)
RowLives ==
  \A s \in Slots :
    rows[s] # None =>
      /\ rows[s].life <= life
      /\ rows[s].by = "flush" => Elapsed(s)
      /\ rows[s].by = "backfill" => rows[s].life = 0
      /\ rows[s].by = "close" /\ rows[s].life = life => phase \in {"closing", "down"}

Minutely == LogLives /\ WholeBuckets /\ RowLives

(* The parts that speak of minutes, and what they come to. *)
Whole == Minutely /\ WholeMinute /\ RetryHarmless

(* Every bucket and every row reports what it was made from. *)
Faithful ==
  \A s \in Slots :
    /\ bars[s] # None => Reports(log, bars[s])
    /\ popped[s] # None => Reports(log, popped[s])
    /\ rows[s] # None => Reports(log, rows[s].bar)

Inv ==
  /\ TypeOK /\ Stages
  /\ SlotsRight /\ PoppedOlder /\ Accounted
  /\ Whole
  /\ Faithful

-----------------------------------------------------------------------------
(* Operators. *)

(* A tick belongs to the minute that began last. *)
LEMMA MinuteOfBounds ==
  ASSUME NEW t \in Nat
  PROVE  /\ MinuteOf(t) \in Int
         /\ MinuteOf(t) <= t
         /\ t < MinuteOf(t) + MinuteTicks
  BY PipelineAssumption DEF MinuteOf

(* The time of a slot is an integer. *)
LEMMA SlotTypes ==
  ASSUME NEW s \in Slots
  PROVE  s[1] \in Keys /\ s[2] \in Int /\ s = <<s[1], s[2]>>
  <1>1. s[1] \in Keys /\ s[2] \in Minutes /\ s = <<s[1], s[2]>>
    BY DEF Slots
  <1>2. PICK t \in 0..MaxTime : s[2] = MinuteOf(t)
    BY <1>1 DEF Minutes
  <1>3. t \in Nat
    BY PipelineAssumption
  <1> QED
    BY <1>1, <1>2, <1>3, MinuteOfBounds

(* What the buckets of a function of slots were made from. *)
LEMMA InObs ==
  ASSUME NEW f, NEW i
  PROVE  i \in Obs(f) <=> \E s \in Slots : f[s] # None /\ i \in f[s].obs
  BY DEF Obs, Present

(* What the rows report. *)
LEMMA InStored ==
  ASSUME NEW i
  PROVE  i \in Stored <=> \E s \in Slots : rows[s] # None /\ i \in rows[s].bar.obs
  BY DEF Stored, Present

LEMMA EmptyBucketType == EmptyBucket \in Bucket
  BY DEF EmptyBucket, Bucket, Price

LEMMA MarkType ==
  ASSUME NEW bid \in Price, NEW ask \in Price
  PROVE  Mark(bid, ask) \in Price
  BY DEF Mark, Price

(* Folding an event into a bucket, or an older bucket, makes a bucket. *)
LEMMA UpdatePriceType ==
  ASSUME NEW b \in Bucket, NEW mark \in Price, NEW bid \in Price,
         NEW ask \in Price, NEW i \in Nat
  PROVE  UpdatePrice(b, mark, bid, ask, i) \in Bucket
  <1>1. OrElse(b.open, mark) \in Price
    BY DEF Bucket, OrElse
  <1>2. Upper(b.high, mark) \in Price
    BY DEF Bucket, Upper
  <1>3. Lower(b.low, mark) \in Price
    BY DEF Bucket, Lower
  <1> QED
    BY <1>1, <1>2, <1>3 DEF UpdatePrice, Bucket

LEMMA UpdatePriceObs ==
  ASSUME NEW b \in Bucket, NEW mark, NEW bid, NEW ask, NEW i
  PROVE  UpdatePrice(b, mark, bid, ask, i).obs = b.obs \cup {i}
  BY DEF UpdatePrice, Bucket

LEMMA UpdateGreeksType ==
  ASSUME NEW b \in Bucket, NEW g \in Greeks, NEW i \in Nat
  PROVE  /\ UpdateGreeks(b, g, i) \in Bucket
         /\ UpdateGreeks(b, g, i).obs = b.obs \cup {i}
  BY DEF UpdateGreeks, Bucket

LEMMA MergeOlderType ==
  ASSUME NEW b \in Bucket, NEW older \in Bucket
  PROVE  /\ MergeOlder(b, older) \in Bucket
         /\ MergeOlder(b, older).obs = b.obs \cup older.obs
  <1>1. /\ OrElse(older.open, b.open) \in Price
        /\ OrElse(b.close, older.close) \in Price
        /\ OrElse(b.bid, older.bid) \in Price
        /\ OrElse(b.ask, older.ask) \in Price
        /\ OrElse(b.greeks, older.greeks) \in Greeks \cup {None}
    BY DEF Bucket, OrElse
  <1>2. Upper(b.high, older.high) \in Price
    BY DEF Bucket, Upper
  <1>3. Lower(b.low, older.low) \in Price
    BY DEF Bucket, Lower
  <1> QED
    BY <1>1, <1>2, <1>3 DEF MergeOlder, Bucket

-----------------------------------------------------------------------------
(* Type correctness. *)

LEMMA InPresent ==
  ASSUME NEW f, NEW s
  PROVE  s \in Present(f) <=> s \in Slots /\ f[s] # None
  BY DEF Present

LEMMA InSlotsOf ==
  ASSUME NEW keys, NEW s
  PROVE  s \in SlotsOf(keys) <=> s \in Slots /\ s[1] \in keys
  BY DEF SlotsOf

(* A slot is an option's or a ticker's, and not both. *)
LEMMA SlotKinds ==
  /\ Slots = SlotsOf(OptionIds) \cup SlotsOf(Tickers)
  /\ SlotsOf(OptionIds) \cap SlotsOf(Tickers) = {}
  <1>1. \A s \in Slots : s[1] \in OptionIds \cup Tickers
    BY SlotTypes DEF Keys
  <1> QED
    BY <1>1, PipelineAssumption DEF SlotsOf

(* A function of slots with nothing in it is NoBars. *)
LEMMA NothingPresent ==
  ASSUME NEW f \in [Slots -> Bucket \cup {None}], Present(f) = {}
  PROVE  f = NoBars
  BY DEF Present, NoBars

(* What a flush has in hand at each stage. *)
InHand(st, f, w) ==
  /\ st \in {"idle", "option", "underlying"}
  /\ f \in [Slots -> Bucket \cup {None}]
  /\ w \subseteq Present(f)
  /\ st = "idle" => f = NoBars
  /\ st = "option" => w \subseteq SlotsOf(OptionIds)
  /\ st = "underlying" => Present(f) \subseteq SlotsOf(Tickers) /\ w = Present(f)

LEMMA TypeInHand ==
  ASSUME TypeOK, Stages
  PROVE  InHand(stage, popped, writing)
  BY DEF TypeOK, Stages, InHand

LEMMA NothingInHand == InHand("idle", NoBars, {})
  BY DEF InHand, NoBars

LEMMA PopInHand ==
  ASSUME TypeOK, NEW due \in SUBSET Slots, Pop(due)
  PROVE  /\ InHand(stage, popped, writing)'
         /\ bars' \in [Slots -> Bucket \cup {None}]
  <1> DEFINE f == [s \in Slots |-> IF s \in due THEN bars[s] ELSE None]
             st == StageAfterPop(f)
  <1>1. /\ popped' = f /\ stage' = st /\ writing' = RowsFor(st, f)
        /\ bars' = [s \in Slots |-> IF s \in due THEN None ELSE bars[s]]
    BY DEF Pop
  <1>2. bars \in [Slots -> Bucket \cup {None}] /\ tracked \subseteq OptionIds
    BY DEF TypeOK
  <1>3. f \in [Slots -> Bucket \cup {None}] /\ bars' \in [Slots -> Bucket \cup {None}]
    BY <1>1, <1>2
  <1>4. Present(f) \subseteq Slots
    BY InPresent
  <1> HIDE DEF f
  <1>5. CASE Present(f) \cap SlotsOf(OptionIds) # {}
    <2>1. st = "option"
      BY <1>5 DEF StageAfterPop
    <2>2. RowsFor(st, f) = {s \in Present(f) : s[1] \in tracked}
      BY <2>1 DEF RowsFor
    <2>3. RowsFor(st, f) \subseteq SlotsOf(OptionIds)
      BY <2>2, <1>2, <1>4, InSlotsOf
    <2> QED
      BY <1>1, <1>3, <2>1, <2>2, <2>3 DEF InHand
  <1>6. CASE Present(f) \cap SlotsOf(OptionIds) = {} /\ Present(f) \cap SlotsOf(Tickers) # {}
    <2>1. st = "underlying"
      BY <1>6 DEF StageAfterPop
    <2>2. Present(f) \subseteq SlotsOf(Tickers)
      BY <1>4, <1>6, SlotKinds
    <2>3. RowsFor(st, f) = Present(f)
      BY <2>1, <2>2 DEF RowsFor
    <2> QED
      BY <1>1, <1>3, <2>1, <2>2, <2>3 DEF InHand
  <1>7. CASE Present(f) \cap SlotsOf(OptionIds) = {} /\ Present(f) \cap SlotsOf(Tickers) = {}
    <2>1. st = "idle"
      BY <1>7 DEF StageAfterPop
    <2>2. f = NoBars
      BY <1>3, <1>4, <1>7, SlotKinds, NothingPresent
    <2>3. RowsFor(st, f) = {}
      BY <2>1 DEF RowsFor
    <2> QED
      BY <1>1, <1>3, <2>1, <2>2, <2>3 DEF InHand
  <1> QED
    BY <1>5, <1>6, <1>7

LEMMA NextStageInHand ==
  ASSUME TypeOK, Stages, stage # "idle", NextStage
  PROVE  InHand(stage, popped, writing)'
  <1> DEFINE f == [s \in Slots |-> IF s \in Batch THEN None ELSE popped[s]]
             st == IF stage = "option" /\ Present(f) # {} THEN "underlying" ELSE "idle"
  <1>1. popped' = f /\ stage' = st /\ writing' = RowsFor(st, f)
    BY DEF NextStage
  <1>2. f \in [Slots -> Bucket \cup {None}]
    BY DEF TypeOK
  <1>3. Present(f) = Present(popped) \ Batch
    BY DEF Present
  <1>4. Present(popped) \subseteq Slots
    BY InPresent
  <1> HIDE DEF f
  <1>5. CASE st = "underlying"
    <2>1. stage = "option"
      BY <1>5
    <2>2. Present(f) \subseteq SlotsOf(Tickers)
      BY <1>3, <1>4, <2>1, SlotKinds DEF Batch
    <2>3. RowsFor(st, f) = Present(f)
      BY <1>5, <2>2 DEF RowsFor
    <2> QED
      BY <1>1, <1>2, <1>5, <2>2, <2>3 DEF InHand
  <1>6. CASE st = "idle"
    <2>1. Present(f) = {}
      <3>1. CASE stage = "option"
        BY <1>6, <3>1
      <3>2. CASE stage = "underlying"
        BY <1>3, <3>2 DEF Batch, Stages
      <3> QED
        BY <3>1, <3>2 DEF TypeOK
    <2>2. RowsFor(st, f) = {}
      BY <1>6 DEF RowsFor
    <2> QED
      BY <1>1, <1>2, <1>6, <2>1, <2>2, NothingPresent DEF InHand
  <1> QED
    BY <1>5, <1>6

(* The type invariant without what a flush has in hand. *)
Rest ==
  /\ now \in 0..MaxTime
  /\ phase \in {"running", "cancelled", "closing", "down"}
  /\ life \in Nat \ {0}
  /\ tracked \in SUBSET OptionIds
  /\ bars \in [Slots -> Bucket \cup {None}]
  /\ rows \in [Slots -> Row \cup {None}]
  /\ log \in Seq(Observation)
  /\ gone \in [dropped : SUBSET Nat, skipped : SUBSET Nat, lost : SUBSET Nat]
  /\ phase \in {"cancelled", "down"} => stage = "idle"
  /\ phase = "down" => bars = NoBars

LEMMA TypeParts ==
  TypeOK /\ Stages <=> Rest /\ InHand(stage, popped, writing)
  <1>1. TypeOK /\ Stages => Rest
    BY DEF TypeOK, Stages, Rest
  <1>2. Rest /\ InHand(stage, popped, writing) => TypeOK /\ Stages
    BY DEF TypeOK, Stages, Rest, InHand
  <1> QED
    BY <1>1, <1>2, TypeInHand

LEMMA TypePartsNext ==
  ASSUME Rest', InHand(stage, popped, writing)'
  PROVE  TypeOK' /\ Stages'
  BY DEF TypeOK, Stages, Rest, InHand

LEMMA RowTypes ==
  ASSUME TypeOK
  PROVE  /\ BackfilledRow \in Row
         /\ \A b \in Bucket : RowOf(b) \in Row
  BY EmptyBucketType DEF BackfilledRow, RowOf, Row, TypeOK

LEMMA RowsInsertedType ==
  ASSUME TypeOK
  PROVE  RowsInserted \in [Slots -> Row \cup {None}]
  <1>1. \A s \in writing : popped[s] \in Bucket
    BY InPresent DEF TypeOK
  <1>2. \A s \in writing : RowOf(popped[s]) \in Row
    BY <1>1, RowTypes
  <1> QED
    BY <1>2 DEF RowsInserted, TypeOK

(* Every observation number is a natural number. *)
LEMMA ObsTypes ==
  ASSUME TypeOK
  PROVE  /\ \A s \in Present(bars) : bars[s] \in Bucket /\ bars[s].obs \subseteq Nat
         /\ \A s \in Present(popped) : popped[s] \in Bucket /\ popped[s].obs \subseteq Nat
         /\ \A s \in Present(rows) : rows[s] \in Row /\ rows[s].bar \in Bucket
         /\ \A s \in Present(rows) : rows[s].bar.obs \subseteq Nat
         /\ Obs(bars) \subseteq Nat
         /\ Obs(popped) \subseteq Nat
  <1>1. \A s \in Present(bars) : bars[s] \in Bucket
    BY InPresent DEF TypeOK
  <1>2. \A s \in Present(popped) : popped[s] \in Bucket
    BY InPresent DEF TypeOK
  <1>3. \A s \in Present(rows) : rows[s] \in Row
    BY InPresent DEF TypeOK
  <1>4. \A b \in Bucket : b.obs \subseteq Nat
    BY DEF Bucket
  <1>5. \A r \in Row : r.bar \in Bucket
    BY DEF Row
  <1>6. Obs(bars) \subseteq Nat
    BY <1>1, <1>4, InObs, InPresent
  <1>7. Obs(popped) \subseteq Nat
    BY <1>2, <1>4, InObs, InPresent
  <1> QED
    BY <1>1, <1>2, <1>3, <1>4, <1>5, <1>6, <1>7

LEMMA BatchPresent == Batch \subseteq Present(popped)
  BY DEF Batch

(* What a committed batch does with its observations is of the right type. *)
LEMMA CommittedType ==
  ASSUME TypeOK, NEW lost \in SUBSET Nat
  PROVE  Committed(lost) \in [dropped : SUBSET Nat, skipped : SUBSET Nat, lost : SUBSET Nat]
  <1>1. ObsIn(Batch \ writing) \subseteq Nat
    BY ObsTypes, BatchPresent DEF ObsIn
  <1>2. UNION {popped[s].obs \ rows[s].bar.obs : s \in {x \in writing : rows[x] # None}}
          \subseteq Nat
    BY ObsTypes DEF TypeOK
  <1> QED
    BY <1>1, <1>2 DEF Committed, TypeOK

LEMMA AbandonType ==
  ASSUME TypeOK, NEW landed \in BOOLEAN, NEW alsoLost \in SUBSET Nat,
         Abandon(landed, alsoLost)
  PROVE  /\ InHand(stage, popped, writing)'
         /\ stage' = "idle"
         /\ rows' \in [Slots -> Row \cup {None}]
         /\ gone' \in [dropped : SUBSET Nat, skipped : SUBSET Nat, lost : SUBSET Nat]
  <1>1. InHand(stage, popped, writing)'
    BY NothingInHand DEF Abandon
  <1>2. rows' \in [Slots -> Row \cup {None}]
    BY RowsInsertedType DEF Abandon, TypeOK
  <1>3. CASE landed
    <2>1. ObsIn(Present(popped) \ Batch) \subseteq Nat
      BY ObsTypes DEF ObsIn
    <2> QED
      BY <1>1, <1>2, <1>3, <2>1, CommittedType DEF Abandon
  <1>4. CASE ~landed
    BY <1>1, <1>2, <1>4, ObsTypes DEF Abandon, TypeOK
  <1> QED
    BY <1>3, <1>4

(* An accepted observation. *)
LEMMA AcceptType ==
  ASSUME TypeOK, Stages, phase # "down",
         NEW s \in Slots, NEW mark \in Price, NEW bid \in Price, NEW ask \in Price,
         NEW greeks \in Greeks \cup {None}, NEW bucket \in Bucket,
         Accept(s, mark, bid, ask, greeks, bucket)
  PROVE  TypeOK' /\ Stages'
  <1>1. [slot |-> s, life |-> life, mark |-> mark,
         bid |-> bid, ask |-> ask, greeks |-> greeks] \in Observation
    BY DEF TypeOK, Observation
  <1>2. log' \in Seq(Observation)
    BY <1>1 DEF Accept, TypeOK
  <1>3. bars' \in [Slots -> Bucket \cup {None}]
    BY DEF Accept, TypeOK
  <1>4. Rest'
    BY <1>2, <1>3, TypeParts DEF Accept, Rest
  <1>5. InHand(stage, popped, writing)'
    BY TypeInHand DEF Accept, InHand
  <1> QED
    BY <1>4, <1>5, TypePartsNext

(* The slot of a feed event, and the bucket it is folded into. *)
LEMMA FeedTypes ==
  ASSUME TypeOK, FeedOpen, NEW key \in Keys
  PROVE  /\ <<key, MinuteOf(now)>> \in Slots
         /\ BucketAt(<<key, MinuteOf(now)>>) \in Bucket
         /\ Len(log) + 1 \in Nat
  <1>1. <<key, MinuteOf(now)>> \in Slots
    BY DEF FeedOpen, Slots
  <1> QED
    BY <1>1, EmptyBucketType DEF BucketAt, TypeOK

LEMMA OnQuoteType ==
  ASSUME TypeOK, Stages, NEW key \in Keys, NEW q \in Quotes, OnQuote(key, q[1], q[2])
  PROVE  TypeOK' /\ Stages'
  <1> DEFINE s == <<key, MinuteOf(now)>>
             mark == Mark(q[1], q[2])
             bucket == UpdatePrice(BucketAt(s), mark, q[1], q[2], Len(log) + 1)
  <1>1. FeedOpen /\ Accept(s, mark, q[1], q[2], None, bucket)
    BY DEF OnQuote
  <1>2. q[1] \in Price /\ q[2] \in Price
    BY PipelineAssumption
  <1>3. mark \in Price
    BY <1>2, MarkType
  <1>4. s \in Slots /\ BucketAt(s) \in Bucket /\ Len(log) + 1 \in Nat
    BY <1>1, FeedTypes
  <1>5. bucket \in Bucket
    BY <1>2, <1>3, <1>4, UpdatePriceType
  <1>6. phase # "down"
    BY <1>1 DEF FeedOpen
  <1> HIDE DEF s, mark, bucket
  <1> QED
    BY <1>1, <1>2, <1>3, <1>4, <1>5, <1>6, AcceptType

LEMMA OnOptionGreeksType ==
  ASSUME TypeOK, Stages, NEW key \in OptionIds, NEW g \in Greeks, OnOptionGreeks(key, g)
  PROVE  TypeOK' /\ Stages'
  <1> DEFINE s == <<key, MinuteOf(now)>>
             bucket == UpdateGreeks(BucketAt(s), g, Len(log) + 1)
  <1>1. FeedOpen /\ Accept(s, None, None, None, g, bucket)
    BY DEF OnOptionGreeks
  <1>2. s \in Slots /\ BucketAt(s) \in Bucket /\ Len(log) + 1 \in Nat
    BY <1>1, FeedTypes DEF Keys
  <1>3. bucket \in Bucket
    BY <1>2, UpdateGreeksType
  <1>4. phase # "down" /\ None \in Price
    BY <1>1 DEF FeedOpen, Price
  <1> HIDE DEF s, bucket
  <1> QED
    BY <1>1, <1>2, <1>3, <1>4, AcceptType

LEMMA RestoredType ==
  ASSUME TypeOK
  PROVE  [s \in Slots |-> IF s \notin Batch THEN bars[s]
                         ELSE IF bars[s] = None THEN popped[s]
                         ELSE MergeOlder(bars[s], popped[s])]
           \in [Slots -> Bucket \cup {None}]
  <1>1. \A s \in Slots : bars[s] \in Bucket \cup {None}
    BY DEF TypeOK
  <1>2. \A s \in Batch : popped[s] \in Bucket
    BY BatchPresent, ObsTypes
  <1>3. \A s \in Batch : bars[s] # None => MergeOlder(bars[s], popped[s]) \in Bucket
    BY <1>1, <1>2, BatchPresent, InPresent, MergeOlderType
  <1> QED
    BY <1>1, <1>2, <1>3

LEMMA TypeStep ==
  ASSUME TypeOK, Stages, [Next]_vars
  PROVE  TypeOK' /\ Stages'
  <1>1. CASE Tick
    <2>1. now' \in 0..MaxTime
      BY <1>1, PipelineAssumption DEF Tick, TypeOK
    <2>2. Rest'
      BY <1>1, <2>1, TypeParts DEF Tick, Rest
    <2>3. InHand(stage, popped, writing)'
      BY <1>1, TypeInHand DEF Tick, InHand
    <2> QED
      BY <2>2, <2>3, TypePartsNext
  <1>2. CASE Feed
    BY <1>2, OnQuoteType, OnOptionGreeksType DEF Feed
  <1>3. CASE Refresh
    <2>1. Rest'
      BY <1>3, TypeParts DEF Refresh, Rest
    <2>2. InHand(stage, popped, writing)'
      BY <1>3, TypeInHand DEF Refresh, InHand
    <2> QED
      BY <2>1, <2>2, TypePartsNext
  <1>4. ASSUME NEW s \in Slots, BackfillInserts(s) PROVE TypeOK' /\ Stages'
    <2>1. rows' \in [Slots -> Row \cup {None}]
      BY <1>4, RowTypes DEF BackfillInserts, TypeOK
    <2>2. Rest'
      BY <1>4, <2>1, TypeParts DEF BackfillInserts, Rest
    <2>3. InHand(stage, popped, writing)'
      BY <1>4, TypeInHand DEF BackfillInserts, InHand
    <2> QED
      BY <2>2, <2>3, TypePartsNext
  <1>5. CASE FlushReadyBars
    <2>1. Pop(Due(now)) /\ Due(now) \in SUBSET Slots /\ phase' = phase
      BY <1>5 DEF FlushReadyBars, Due, Present
    <2>2. InHand(stage, popped, writing)' /\ bars' \in [Slots -> Bucket \cup {None}]
      BY <2>1, PopInHand
    <2>3. Rest'
      BY <1>5, <2>1, <2>2, TypeParts DEF Pop, Rest, FlushReadyBars
    <2> QED
      BY <2>2, <2>3, TypePartsNext
  <1>6. CASE WriteCommits
    <2>1. InHand(stage, popped, writing)'
      BY <1>6, NextStageInHand DEF WriteCommits
    <2>2. rows' \in [Slots -> Row \cup {None}]
      BY <1>6, RowsInsertedType DEF WriteCommits
    <2>3. gone' \in [dropped : SUBSET Nat, skipped : SUBSET Nat, lost : SUBSET Nat]
      BY <1>6, CommittedType DEF WriteCommits
    <2>4. Rest'
      BY <1>6, <2>2, <2>3, TypeParts DEF WriteCommits, Rest
    <2> QED
      BY <2>1, <2>4, TypePartsNext
  <1>7. ASSUME NEW landed \in BOOLEAN, WriteRaises(landed) PROVE TypeOK' /\ Stages'
    <2>1. InHand(stage, popped, writing)'
      BY <1>7, NextStageInHand DEF WriteRaises
    <2>2. rows' \in [Slots -> Row \cup {None}]
      BY <1>7, RowsInsertedType DEF WriteRaises, TypeOK
    <2>3. bars' \in [Slots -> Bucket \cup {None}]
      BY <1>7, RestoredType DEF WriteRaises
    <2>4. Rest'
      BY <1>7, <2>2, <2>3, TypeParts DEF WriteRaises, Rest
    <2> QED
      BY <2>1, <2>4, TypePartsNext
  <1>8. ASSUME NEW landed \in BOOLEAN, Cancel(landed) PROVE TypeOK' /\ Stages'
    <2>1. /\ InHand(stage, popped, writing)'
          /\ stage' = "idle"
          /\ rows' \in [Slots -> Row \cup {None}]
          /\ gone' \in [dropped : SUBSET Nat, skipped : SUBSET Nat, lost : SUBSET Nat]
      BY <1>8, AbandonType DEF Cancel
    <2>2. Rest'
      BY <1>8, <2>1, TypeParts DEF Cancel, Abandon, Rest
    <2> QED
      BY <2>1, <2>2, TypePartsNext
  <1>9. CASE Close
    <2>1. Pop(Present(bars)) /\ Present(bars) \in SUBSET Slots /\ phase' = "closing"
      BY <1>9 DEF Close, Present
    <2>2. InHand(stage, popped, writing)' /\ bars' \in [Slots -> Bucket \cup {None}]
      BY <2>1, PopInHand
    <2>3. Rest'
      BY <2>1, <2>2, TypeParts DEF Pop, Rest
    <2> QED
      BY <2>2, <2>3, TypePartsNext
  <1>10. CASE Exit
    <2>1. gone' \in [dropped : SUBSET Nat, skipped : SUBSET Nat, lost : SUBSET Nat]
      BY <1>10, ObsTypes DEF Exit, TypeOK
    <2>2. bars' \in [Slots -> Bucket \cup {None}]
      BY <1>10 DEF Exit, NoBars
    <2>3. Rest'
      BY <1>10, <2>1, <2>2, TypeParts DEF Exit, Rest
    <2>4. InHand(stage, popped, writing)'
      BY <1>10, TypeInHand DEF Exit, InHand
    <2> QED
      BY <2>3, <2>4, TypePartsNext
  <1>11. ASSUME NEW landed \in BOOLEAN, Crash(landed) PROVE TypeOK' /\ Stages'
    <2>1. /\ InHand(stage, popped, writing)'
          /\ stage' = "idle"
          /\ rows' \in [Slots -> Row \cup {None}]
          /\ gone' \in [dropped : SUBSET Nat, skipped : SUBSET Nat, lost : SUBSET Nat]
      BY <1>11, ObsTypes, AbandonType DEF Crash
    <2>2. bars' \in [Slots -> Bucket \cup {None}]
      BY <1>11 DEF Crash, NoBars
    <2>3. Rest'
      BY <1>11, <2>1, <2>2, TypeParts DEF Crash, Abandon, Rest
    <2> QED
      BY <2>1, <2>3, TypePartsNext
  <1>12. CASE Restart
    <2>1. Rest'
      BY <1>12, TypeParts DEF Restart, Rest
    <2>2. InHand(stage, popped, writing)'
      BY <1>12, TypeInHand DEF Restart, InHand
    <2> QED
      BY <2>1, <2>2, TypePartsNext
  <1>13. CASE UNCHANGED vars
    <2>1. Rest'
      BY <1>13, TypeParts DEF vars, Rest
    <2>2. InHand(stage, popped, writing)'
      BY <1>13, TypeInHand DEF vars, InHand
    <2> QED
      BY <2>1, <2>2, TypePartsNext
  <1> QED
    BY <1>1, <1>2, <1>3, <1>4, <1>5, <1>6, <1>7, <1>8, <1>9, <1>10, <1>11, <1>12, <1>13
       DEF Next

LEMMA TypeInit ==
  ASSUME Init
  PROVE  TypeOK /\ Stages
  <1>1. Rest
    BY PipelineAssumption DEF Init, Rest, NoBars
  <1>2. InHand(stage, popped, writing)
    BY NothingInHand DEF Init
  <1> QED
    BY <1>1, <1>2, TypeParts

-----------------------------------------------------------------------------
(* Where observations go. *)

LEMMA HeldBySlot ==
  ASSUME NEW i
  PROVE  /\ i \in Obs(bars) <=> \E s \in Slots : i \in InBars(s)
         /\ i \in Obs(popped) <=> \E s \in Slots : i \in InPopped(s)
         /\ i \in Held <=> \E s \in Slots : i \in InHands(s)
         /\ i \in Stored <=> \E s \in Slots : i \in InRow(s)
  <1>1. i \in Obs(bars) <=> \E s \in Slots : i \in InBars(s)
    BY InObs DEF InBars
  <1>2. i \in Obs(popped) <=> \E s \in Slots : i \in InPopped(s)
    BY InObs DEF InPopped
  <1>3. i \in Stored <=> \E s \in Slots : i \in InRow(s)
    BY InStored DEF InRow
  <1> QED
    BY <1>1, <1>2, <1>3 DEF Held, InHands

(* The same of the next state. *)
LEMMA HeldBySlotNext ==
  ASSUME NEW i
  PROVE  /\ i \in Obs(bars)' <=> \E s \in Slots : i \in InBars(s)'
         /\ i \in Obs(popped)' <=> \E s \in Slots : i \in InPopped(s)'
         /\ i \in Held' <=> \E s \in Slots : i \in InHands(s)'
         /\ i \in Stored' <=> \E s \in Slots : i \in InRow(s)'
  <1>1. i \in Obs(bars') <=> \E s \in Slots : i \in InBars(s)'
    BY InObs DEF InBars
  <1>2. i \in Obs(popped') <=> \E s \in Slots : i \in InPopped(s)'
    BY InObs DEF InPopped
  <1>3. i \in Stored' <=> \E s \in Slots : i \in InRow(s)'
    BY DEF Stored, Present, InRow
  <1> QED
    BY <1>1, <1>2, <1>3 DEF Held, InHands

(* An observation is in one slot only. *)
LEMMA OneSlot ==
  ASSUME SlotsRight, NEW s \in Slots, NEW t \in Slots, NEW i,
         i \in InHands(s) \cup InRow(s), i \in InHands(t) \cup InRow(t)
  PROVE  s = t /\ i \in 1..Len(log) /\ log[i].slot = s
  BY DEF SlotsRight, OfSlot, InHands

(***************************************************************************)
(* A step that accepts nothing may move what a slot has in hand, to its    *)
(* row or out of the account, and does nothing else.                       *)
(***************************************************************************)
Settles ==
  /\ log' = log
  /\ \A s \in Slots :
       /\ InHands(s)' \subseteq InHands(s)
       /\ InRow(s)' = InRow(s) \/ (rows[s] = None /\ InRow(s)' = InPopped(s))
       /\ \A i \in InPopped(s)', j \in InBars(s)' : i < j
  /\ \A i : i \in Gone' <=>
            \/ i \in Gone
            \/ \E s \in Slots : i \in InHands(s) \ (InHands(s)' \cup InRow(s)')

LEMMA SettlesKeeps ==
  ASSUME SlotsRight, Settles
  PROVE  SlotsRight' /\ PoppedOlder'
  <1>1. PoppedOlder'
    BY DEF Settles, PoppedOlder
  <1>2. Gone' \subseteq 1..Len(log)
    BY DEF Settles, SlotsRight, OfSlot, InHands
  <1>3. ASSUME NEW s \in Slots
        PROVE  OfSlot(InHands(s)' \cup InRow(s)', s)
    BY <1>3 DEF Settles, SlotsRight, OfSlot, InHands
  <1> QED
    BY <1>1, <1>2, <1>3 DEF SlotsRight, OfSlot, InHands, Settles

LEMMA SettlesAccounts ==
  ASSUME TypeOK, SlotsRight, Accounted, Settles,
         \A s \in Slots : InBars(s)' \cap InPopped(s)' = {}
  PROVE  Accounted'
  <1>1. SlotsRight'
    BY SettlesKeeps
  <1>2. \A i : /\ i \in Held <=> \E s \in Slots : i \in InHands(s)
               /\ i \in Stored <=> \E s \in Slots : i \in InRow(s)
    BY HeldBySlot
  <1>3. \A i : /\ i \in Obs(bars)' <=> \E s \in Slots : i \in InBars(s)'
               /\ i \in Obs(popped)' <=> \E s \in Slots : i \in InPopped(s)'
               /\ i \in Held' <=> \E s \in Slots : i \in InHands(s)'
               /\ i \in Stored' <=> \E s \in Slots : i \in InRow(s)'
    BY HeldBySlotNext
  <1>4. DOMAIN log = 1..Len(log) /\ log' = log
    BY DEF TypeOK, Settles
  <1>5. \A s \in Slots : InRow(s) \subseteq InRow(s)'
    BY DEF Settles, InRow
  <1>6. ASSUME NEW i, i \in DOMAIN log
        PROVE  i \in Held' \/ i \in Stored' \/ i \in Gone'
    <2>1. CASE i \in Gone
      BY <2>1 DEF Settles
    <2>2. ASSUME NEW s \in Slots, i \in InRow(s)
          PROVE  i \in Stored'
      BY <2>2, <1>3, <1>5
    <2>3. ASSUME NEW s \in Slots, i \in InHands(s)
          PROVE  i \in Held' \/ i \in Stored' \/ i \in Gone'
      BY <2>3, <1>3 DEF Settles
    <2> QED
      BY <1>2, <1>6, <2>1, <2>2, <2>3 DEF Accounted
  <1>7. ASSUME NEW i, i \in Held' \/ i \in Stored', i \in Gone'
        PROVE  FALSE
    <2>1. PICK s \in Slots : i \in InHands(s)' \cup InRow(s)'
      BY <1>3, <1>7
    <2>2. i \in InHands(s) \cup InRow(s)
      BY <2>1 DEF Settles, InHands
    <2>3. i \notin Gone
      BY <2>2, <1>2 DEF Accounted
    <2>4. PICK t \in Slots : i \in InHands(t) \ (InHands(t)' \cup InRow(t)')
      BY <1>7, <2>3 DEF Settles
    <2>5. s = t
      BY <2>2, <2>4, OneSlot
    <2> QED
      BY <2>1, <2>4, <2>5
  <1>8. ASSUME NEW i, i \in Held' \/ i \in Stored' \/ i \in Gone'
        PROVE  i \in DOMAIN log
    <2>1. ASSUME NEW s \in Slots, i \in InHands(s)' \cup InRow(s)'
          PROVE  i \in 1..Len(log)
      BY <2>1, <1>1, <1>4 DEF SlotsRight, OfSlot, InHands
    <2>2. ASSUME i \in Gone'
          PROVE  i \in 1..Len(log)
      BY <2>2, <1>1, <1>4 DEF SlotsRight
    <2> QED
      BY <1>3, <1>4, <1>8, <2>1, <2>2
  <1>9. ASSUME NEW i, i \in Obs(bars)', i \in Obs(popped)'
        PROVE  FALSE
    <2>1. PICK s \in Slots : i \in InBars(s)'
      BY <1>3, <1>9
    <2>2. PICK t \in Slots : i \in InPopped(t)'
      BY <1>3, <1>9
    <2>3. i \in InHands(s) /\ i \in InHands(t)
      BY <2>1, <2>2 DEF Settles, InHands
    <2> QED
      BY <2>1, <2>2, <2>3, OneSlot
  <1> QED
    BY <1>4, <1>6, <1>7, <1>8, <1>9 DEF Accounted

LEMMA NothingMoves ==
  ASSUME PoppedOlder, UNCHANGED <<bars, popped, log, gone>>,
         \A s \in Slots : InRow(s)' = InRow(s)
  PROVE  Settles
  <1>1. \A s \in Slots : InBars(s)' = InBars(s) /\ InPopped(s)' = InPopped(s)
    BY DEF InBars, InPopped
  <1>2. Gone' = Gone
    BY DEF Gone
  <1> QED
    BY <1>1, <1>2 DEF Settles, InHands, PoppedOlder

LEMMA PopSettles ==
  ASSUME TypeOK, stage = "idle", NEW due \in SUBSET Slots, Pop(due)
  PROVE  Settles
  <1>1. \A s \in Slots : InPopped(s) = {}
    BY DEF TypeOK, NoBars, InPopped
  <1>2. ASSUME NEW s \in due
        PROVE  InBars(s)' = {} /\ InPopped(s)' = InBars(s)
    BY DEF Pop, InBars, InPopped
  <1>3. ASSUME NEW s \in Slots \ due
        PROVE  InBars(s)' = InBars(s) /\ InPopped(s)' = {}
    BY DEF Pop, InBars, InPopped
  <1>4. \A s \in Slots : InHands(s)' = InHands(s)
    BY <1>1, <1>2, <1>3 DEF InHands
  <1>5. \A s \in Slots : InRow(s)' = InRow(s)
    BY DEF Pop, InRow
  <1>6. Gone' = Gone
    BY DEF Pop, Gone
  <1>7. \A s \in Slots : InBars(s)' = {} \/ InPopped(s)' = {}
    BY <1>2, <1>3
  <1> QED
    BY <1>4, <1>5, <1>6, <1>7 DEF Settles, Pop

(* The insert moves what was popped for a slot without a row to its row. *)
LEMMA InsertMoves ==
  ASSUME TypeOK, rows' = RowsInserted, NEW s \in Slots
  PROVE  InRow(s)' = IF s \in writing /\ rows[s] = None THEN InPopped(s) ELSE InRow(s)
  <1>1. CASE s \in writing /\ rows[s] = None
    <2>1. popped[s] # None /\ popped[s] \in Bucket
      BY <1>1, ObsTypes, InPresent DEF TypeOK
    <2>2. rows'[s] = RowOf(popped[s]) /\ RowOf(popped[s]) \in Row
      BY <1>1, <2>1, RowTypes DEF RowsInserted
    <2>3. rows'[s] # None /\ rows'[s].bar = popped[s]
      BY <2>2, PipelineAssumption DEF RowOf
    <2> QED
      BY <1>1, <2>1, <2>3 DEF InRow, InPopped
  <1>2. CASE ~(s \in writing /\ rows[s] = None)
    BY <1>2 DEF RowsInserted, InRow
  <1> QED
    BY <1>1, <1>2

(* What a committed batch lets go of: what it held and no row reports. *)
LEMMA CommittedBySlot ==
  ASSUME TypeOK, Stages, SlotsRight, stage # "idle", rows' = RowsInserted,
         NEW lost, gone' = Committed(lost), NEW i
  PROVE  i \in Gone' <=>
           \/ i \in Gone
           \/ \E s \in Batch : i \in InPopped(s) \ InRow(s)'
           \/ i \in lost \ Stored
  <1>1. writing \subseteq Batch
    BY BatchPresent, InPresent, InSlotsOf DEF Batch, TypeOK, Stages
  <1>2. \A s \in Batch : s \in Slots /\ popped[s] # None /\ InPopped(s) = popped[s].obs
    BY BatchPresent, InPresent DEF InPopped
  <1>3. i \in ObsIn(Batch \ writing) \ Stored <=>
          \E s \in Batch \ writing : i \in InPopped(s) \ InRow(s)'
    <2>1. i \in ObsIn(Batch \ writing) <=> \E s \in Batch \ writing : i \in InPopped(s)
      BY <1>2 DEF ObsIn
    <2>2. \A s \in Batch \ writing : InRow(s)' = InRow(s)
      BY <1>2, InsertMoves
    <2>3. \A s \in Batch : i \in InPopped(s) => (i \in Stored <=> i \in InRow(s))
      BY <1>2, HeldBySlot, OneSlot DEF InHands
    <2> QED
      BY <2>1, <2>2, <2>3
  <1>4. i \in UNION {popped[s].obs \ rows[s].bar.obs : s \in {x \in writing : rows[x] # None}}
          <=> \E s \in writing : i \in InPopped(s) \ InRow(s)'
    <2>1. i \in UNION {popped[s].obs \ rows[s].bar.obs : s \in {x \in writing : rows[x] # None}}
            <=> \E s \in writing : rows[s] # None /\ i \in popped[s].obs \ rows[s].bar.obs
      OBVIOUS
    <2>2. \A s \in writing : rows[s] # None => InRow(s)' = rows[s].bar.obs
      BY <1>1, <1>2, InsertMoves DEF InRow
    <2>3. \A s \in writing : rows[s] = None => InRow(s)' = InPopped(s)
      BY <1>1, <1>2, InsertMoves
    <2> QED
      BY <1>1, <1>2, <2>1, <2>2, <2>3
  <1>5. Gone' = gone'.dropped \cup gone'.skipped \cup gone'.lost
    BY DEF Gone
  <1>6. /\ gone'.dropped = gone.dropped \cup (ObsIn(Batch \ writing) \ Stored)
        /\ gone'.skipped = gone.skipped \cup
              UNION {popped[s].obs \ rows[s].bar.obs : s \in {x \in writing : rows[x] # None}}
        /\ gone'.lost = gone.lost \cup (lost \ Stored)
    BY DEF Committed
  <1> QED
    BY <1>1, <1>3, <1>4, <1>5, <1>6 DEF Gone

LEMMA NextStageMoves ==
  ASSUME NextStage, NEW s \in Slots
  PROVE  InPopped(s)' = IF s \in Batch THEN {} ELSE InPopped(s)
  BY DEF NextStage, InPopped

LEMMA WriteCommitsSettles ==
  ASSUME TypeOK, Stages, SlotsRight, PoppedOlder, WriteCommits
  PROVE  Settles
  <1>1. \A s \in Slots : InBars(s)' = InBars(s)
    BY DEF WriteCommits, InBars
  <1>2. \A s \in Slots : InPopped(s)' = IF s \in Batch THEN {} ELSE InPopped(s)
    BY NextStageMoves DEF WriteCommits
  <1>3. \A s \in Slots :
          InRow(s)' = IF s \in writing /\ rows[s] = None THEN InPopped(s) ELSE InRow(s)
    BY InsertMoves DEF WriteCommits
  <1>4. \A s \in Slots : InHands(s)' \subseteq InHands(s)
    BY <1>1, <1>2 DEF InHands
  <1>5. \A s \in Slots : \A i \in InPopped(s)', j \in InBars(s)' : i < j
    BY <1>1, <1>2 DEF PoppedOlder
  <1>6. ASSUME NEW i
        PROVE  i \in Gone' <=>
                 \/ i \in Gone
                 \/ \E s \in Slots : i \in InHands(s) \ (InHands(s)' \cup InRow(s)')
    <2>1. i \in Gone' <=> i \in Gone \/ \E s \in Batch : i \in InPopped(s) \ InRow(s)'
      BY CommittedBySlot DEF WriteCommits
    <2>2. \A s \in Slots : i \in InHands(s) \ InHands(s)' <=> s \in Batch /\ i \in InPopped(s)
      <3>1. \A s \in Slots : i \notin InPopped(s) \/ i \notin InBars(s)
        BY DEF PoppedOlder, SlotsRight, OfSlot
      <3> QED
        BY <1>1, <1>2, <3>1 DEF InHands
    <2>3. Batch \subseteq Slots
      BY BatchPresent, InPresent
    <2> QED
      BY <2>1, <2>2, <2>3
  <1> QED
    BY <1>3, <1>4, <1>5, <1>6 DEF Settles, WriteCommits

LEMMA RestoreMoves ==
  ASSUME TypeOK, NEW landed, WriteRaises(landed), NEW s \in Slots
  PROVE  InBars(s)' = IF s \in Batch THEN InHands(s) ELSE InBars(s)
  <1>1. bars'[s] = IF s \notin Batch THEN bars[s]
                   ELSE IF bars[s] = None THEN popped[s]
                   ELSE MergeOlder(bars[s], popped[s])
    BY DEF WriteRaises
  <1>2. s \in Batch => popped[s] # None /\ popped[s] \in Bucket
    BY BatchPresent, InPresent, ObsTypes
  <1>3. CASE s \notin Batch
    BY <1>1, <1>3 DEF InBars
  <1>4. CASE s \in Batch /\ bars[s] = None
    BY <1>1, <1>2, <1>4 DEF InBars, InPopped, InHands
  <1>5. CASE s \in Batch /\ bars[s] # None
    <2>1. bars[s] \in Bucket
      BY <1>5 DEF TypeOK
    <2>2. /\ MergeOlder(bars[s], popped[s]) \in Bucket
          /\ MergeOlder(bars[s], popped[s]).obs = bars[s].obs \cup popped[s].obs
      BY <1>2, <1>5, <2>1, MergeOlderType
    <2>3. bars'[s] # None /\ bars'[s].obs = bars[s].obs \cup popped[s].obs
      BY <1>1, <1>5, <2>2, PipelineAssumption
    <2> QED
      BY <1>2, <1>5, <2>3 DEF InBars, InPopped, InHands
  <1> QED
    BY <1>3, <1>4, <1>5

LEMMA WriteRaisesSettles ==
  ASSUME TypeOK, Stages, SlotsRight, PoppedOlder, NEW landed, WriteRaises(landed)
  PROVE  Settles
  <1>1. \A s \in Slots : InBars(s)' = IF s \in Batch THEN InHands(s) ELSE InBars(s)
    BY RestoreMoves
  <1>2. \A s \in Slots : InPopped(s)' = IF s \in Batch THEN {} ELSE InPopped(s)
    BY NextStageMoves DEF WriteRaises
  <1>3. \A s \in Slots :
          InRow(s)' = InRow(s) \/ (rows[s] = None /\ InRow(s)' = InPopped(s))
    <2>1. CASE landed
      BY <2>1, InsertMoves DEF WriteRaises
    <2>2. CASE ~landed
      BY <2>2 DEF WriteRaises, InRow
    <2> QED
      BY <2>1, <2>2
  <1>4. \A s \in Slots : InHands(s)' = InHands(s)
    BY <1>1, <1>2 DEF InHands
  <1>5. \A s \in Slots : \A i \in InPopped(s)', j \in InBars(s)' : i < j
    BY <1>1, <1>2 DEF PoppedOlder
  <1>6. Gone' = Gone
    BY DEF WriteRaises, Gone
  <1> QED
    BY <1>3, <1>4, <1>5, <1>6 DEF Settles, WriteRaises

(* An abandoned write, when nothing stays in hand except what is kept. *)
LEMMA AbandonSettles ==
  ASSUME TypeOK, Stages, SlotsRight, PoppedOlder, NEW landed \in BOOLEAN,
         landed => writing # {},
         NEW alsoLost, Abandon(landed, alsoLost),
         \/ bars' = bars /\ alsoLost = {}
         \/ bars' = NoBars /\ alsoLost = Obs(bars)
  PROVE  Settles
  <1>1. \A s \in Slots : InPopped(s)' = {}
    BY DEF Abandon, NoBars, InPopped
  <1>2. \A s \in Slots :
          InRow(s)' = IF landed /\ s \in writing /\ rows[s] = None
                      THEN InPopped(s) ELSE InRow(s)
    <2>1. CASE landed
      BY <2>1, InsertMoves DEF Abandon
    <2>2. CASE ~landed
      BY <2>2 DEF Abandon, InRow
    <2> QED
      BY <2>1, <2>2
  <1>3. \/ alsoLost = {} /\ \A s \in Slots : InBars(s)' = InBars(s)
        \/ alsoLost = Obs(bars) /\ \A s \in Slots : InBars(s)' = {}
    BY DEF InBars, NoBars
  <1>4. \A s \in Slots : InHands(s)' \subseteq InHands(s)
    BY <1>1, <1>3 DEF InHands
  <1>5. ASSUME NEW i
        PROVE  i \in Gone' <=>
                 \/ i \in Gone
                 \/ \E s \in Slots : i \in InHands(s) \ (InHands(s)' \cup InRow(s)')
    <2>1. \A s \in Slots : /\ i \in InHands(s) => (i \in Stored <=> i \in InRow(s))
                           /\ i \notin InPopped(s) \/ i \notin InBars(s)
      <3>1. \A s \in Slots : i \in InHands(s) => (i \in Stored <=> i \in InRow(s))
        BY HeldBySlot, OneSlot
      <3>2. \A s \in Slots : i \notin InPopped(s) \/ i \notin InBars(s)
        BY DEF PoppedOlder, SlotsRight, OfSlot
      <3> QED
        BY <3>1, <3>2
    <2>2. i \in alsoLost <=> \E s \in Slots : i \in InBars(s) \ InBars(s)'
      BY <1>3, HeldBySlot
    <2>3. \A s \in Slots : i \in InHands(s) \ (InHands(s)' \cup InRow(s)') <=>
             \/ i \in InPopped(s) \ InRow(s)'
             \/ i \in (InBars(s) \ InBars(s)') \ Stored
      <3>1. \A s \in Slots : i \in InBars(s) => (i \in InRow(s)' <=> i \in Stored)
        BY <1>2, <2>1 DEF InHands, InRow
      <3>2. \A s \in Slots : i \in InPopped(s) => i \notin InBars(s)'
        BY <1>3, <2>1
      <3> QED
        BY <1>1, <3>1, <3>2 DEF InHands
    <2>4. (\E s \in Slots : i \in InHands(s) \ (InHands(s)' \cup InRow(s)')) <=>
             \/ \E s \in Slots : i \in InPopped(s) \ InRow(s)'
             \/ i \in alsoLost \ Stored
      BY <2>2, <2>3
    <2>5. CASE landed
      <3> DEFINE rest == ObsIn(Present(popped) \ Batch)
                 letGo == rest \cup alsoLost
                 FromBatch == \E s \in Batch : i \in InPopped(s) \ InRow(s)'
                 FromRest == \E s \in Slots \ Batch : i \in InPopped(s) \ InRow(s)'
      <3>1. stage # "idle"
        BY <2>5, InPresent DEF TypeOK, NoBars
      <3>2. i \in Gone' <=> i \in Gone \/ FromBatch \/ i \in letGo \ Stored
        <4>1. rows' = RowsInserted /\ gone' = Committed(letGo)
          BY <2>5 DEF Abandon
        <4> HIDE DEF letGo
        <4> QED
          BY <3>1, <4>1, CommittedBySlot
      <3>3. i \in rest \ Stored <=> FromRest
        <4>1. i \in rest <=> \E s \in Slots \ Batch : i \in InPopped(s)
          BY InPresent DEF ObsIn, InPopped
        <4>2. \A s \in Slots \ Batch : InRow(s)' = InRow(s)
          <5>1. writing \subseteq Batch
            BY <3>1, BatchPresent, InPresent, InSlotsOf DEF Batch, TypeOK, Stages
          <5> QED
            BY <1>2, <5>1
        <4> QED
          BY <2>1, <4>1, <4>2 DEF InHands
      <3>4. (\E s \in Slots : i \in InPopped(s) \ InRow(s)') <=> FromBatch \/ FromRest
        BY BatchPresent, InPresent
      <3>5. i \in letGo \ Stored <=> i \in rest \ Stored \/ i \in alsoLost \ Stored
        OBVIOUS
      <3> HIDE DEF rest, letGo, FromBatch, FromRest
      <3> QED
        BY <2>4, <3>2, <3>3, <3>4, <3>5
    <2>6. CASE ~landed
      <3>1. i \in Gone' <=> i \in Gone \/ i \in (Obs(popped) \cup alsoLost) \ Stored
        BY <2>6 DEF Abandon, Gone, TypeOK
      <3>2. i \in Obs(popped) \ Stored <=> \E s \in Slots : i \in InPopped(s) \ InRow(s)'
        BY <1>2, <2>1, <2>6, HeldBySlot DEF InHands
      <3> QED
        BY <2>4, <3>1, <3>2
    <2> QED
      BY <2>5, <2>6
  <1> QED
    BY <1>1, <1>2, <1>4, <1>5 DEF Settles, Abandon

LEMMA ExitSettles ==
  ASSUME TypeOK, SlotsRight, Exit
  PROVE  Settles
  <1>1. \A s \in Slots : InPopped(s) = {} /\ InPopped(s)' = {}
    BY DEF Exit, TypeOK, NoBars, InPopped
  <1>2. \A s \in Slots : InBars(s)' = {} /\ InRow(s)' = InRow(s)
    BY DEF Exit, NoBars, InBars, InRow
  <1>3. ASSUME NEW i
        PROVE  i \in Gone' <=>
                 \/ i \in Gone
                 \/ \E s \in Slots : i \in InHands(s) \ (InHands(s)' \cup InRow(s)')
    <2>1. i \in Gone' <=> i \in Gone \/ i \in Obs(bars) \ Stored
      BY DEF Exit, Gone, TypeOK
    <2>2. \A s \in Slots : i \in InBars(s) => (i \in Stored <=> i \in InRow(s))
      BY HeldBySlot, OneSlot DEF InHands
    <2> QED
      BY <1>1, <1>2, <2>1, <2>2, HeldBySlot DEF InHands
  <1> QED
    BY <1>1, <1>2, <1>3 DEF Settles, InHands, Exit

(* Every step accepts an observation or settles. *)
LEMMA StepSettles ==
  ASSUME TypeOK, Stages, SlotsRight, PoppedOlder, [Next]_vars, ~Feed
  PROVE  Settles
  <1>1. ASSUME UNCHANGED <<bars, popped, rows, log, gone>>
        PROVE  Settles
    BY <1>1, NothingMoves DEF InRow
  <1>2. CASE Tick \/ Refresh \/ Restart \/ UNCHANGED vars
    BY <1>1, <1>2 DEF Tick, Refresh, Restart, vars
  <1>3. ASSUME NEW s \in Slots, BackfillInserts(s)
        PROVE  Settles
    <2>1. \A t \in Slots : InRow(t)' = InRow(t)
      BY <1>3, RowTypes, PipelineAssumption
         DEF BackfillInserts, InRow, TypeOK, BackfilledRow, EmptyBucket
    <2> QED
      BY <1>3, <2>1, NothingMoves DEF BackfillInserts
  <1>4. CASE FlushReadyBars
    BY <1>4, PopSettles DEF FlushReadyBars, Due, Present
  <1>5. CASE WriteCommits
    BY <1>5, WriteCommitsSettles
  <1>6. ASSUME NEW landed \in BOOLEAN, WriteRaises(landed)
        PROVE  Settles
    BY <1>6, WriteRaisesSettles
  <1>7. ASSUME NEW landed \in BOOLEAN, Cancel(landed)
        PROVE  Settles
    BY <1>7, AbandonSettles DEF Cancel
  <1>8. CASE Close
    BY <1>8, PopSettles DEF Close, Stages, Present
  <1>9. CASE Exit
    BY <1>9, ExitSettles
  <1>10. ASSUME NEW landed \in BOOLEAN, Crash(landed)
         PROVE  Settles
    BY <1>10, AbandonSettles DEF Crash
  <1> QED
    BY <1>2, <1>3, <1>4, <1>5, <1>6, <1>7, <1>8, <1>9, <1>10 DEF Next

(***************************************************************************)
(* An event adds one observation to the bucket of a minute that is not     *)
(* over, and does nothing else.                                            *)
(***************************************************************************)
Observes(t, o) ==
  /\ o \in Observation /\ o.slot = t /\ o.life = life
  /\ log' = Append(log, o)
  /\ ~Elapsed(t)
  /\ InBars(t)' = InBars(t) \cup {Len(log) + 1}
  /\ \A s \in Slots \ {t} : InBars(s)' = InBars(s)
  /\ bars'[t] # None /\ \A s \in Slots \ {t} : bars'[s] = bars[s]
  /\ UNCHANGED <<now, phase, life, tracked, stage, popped, writing, rows, gone>>

LEMMA AcceptObserves ==
  ASSUME TypeOK, NEW t \in Slots, NEW mark \in Price, NEW bid \in Price,
         NEW ask \in Price, NEW greeks \in Greeks \cup {None}, NEW bucket \in Bucket,
         Accept(t, mark, bid, ask, greeks, bucket), ~Elapsed(t),
         bucket.obs = BucketAt(t).obs \cup {Len(log) + 1}
  PROVE  \E o : Observes(t, o)
  <1> DEFINE o == [slot |-> t, life |-> life, mark |-> mark,
                   bid |-> bid, ask |-> ask, greeks |-> greeks]
  <1>1. o \in Observation /\ o.slot = t /\ o.life = life
    BY DEF TypeOK, Observation
  <1>2. log' = Append(log, o)
    BY DEF Accept
  <1>3. bars' = [bars EXCEPT ![t] = bucket] /\ bars \in [Slots -> Bucket \cup {None}]
    BY DEF Accept, TypeOK
  <1>4. bucket # None
    BY PipelineAssumption
  <1>5. BucketAt(t).obs = InBars(t)
    BY DEF BucketAt, InBars, EmptyBucket
  <1>6. bars'[t] = bucket /\ \A s \in Slots \ {t} : bars'[s] = bars[s]
    BY <1>3
  <1>7. InBars(t)' = InBars(t) \cup {Len(log) + 1}
    BY <1>4, <1>5, <1>6 DEF InBars
  <1>8. \A s \in Slots \ {t} : InBars(s)' = InBars(s)
    BY <1>6 DEF InBars
  <1> HIDE DEF o
  <1> QED
    BY <1>1, <1>2, <1>4, <1>6, <1>7, <1>8 DEF Observes, Accept

LEMMA NotElapsed ==
  ASSUME TypeOK, NEW key
  PROVE  ~Elapsed(<<key, MinuteOf(now)>>)
  <1>1. now \in Nat /\ MinuteTicks \in Nat
    BY PipelineAssumption DEF TypeOK
  <1>2. MinuteOf(now) \in Int /\ now < MinuteOf(now) + MinuteTicks
    BY <1>1, MinuteOfBounds
  <1> QED
    BY <1>1, <1>2 DEF Elapsed

LEMMA FeedObserves ==
  ASSUME TypeOK, Feed
  PROVE  phase # "down" /\ \E t \in Slots : \E o : Observes(t, o)
  <1>1. ASSUME NEW key \in Keys, NEW q \in Quotes, OnQuote(key, q[1], q[2])
        PROVE  phase # "down" /\ \E t \in Slots : \E o : Observes(t, o)
    <2> DEFINE t == <<key, MinuteOf(now)>>
               mark == Mark(q[1], q[2])
               bucket == UpdatePrice(BucketAt(t), mark, q[1], q[2], Len(log) + 1)
    <2>1. FeedOpen /\ Accept(t, mark, q[1], q[2], None, bucket)
      BY <1>1 DEF OnQuote
    <2>2. q[1] \in Price /\ q[2] \in Price
      BY PipelineAssumption
    <2>3. mark \in Price
      BY <2>2, MarkType
    <2>4. t \in Slots /\ BucketAt(t) \in Bucket /\ Len(log) + 1 \in Nat
      BY <2>1, FeedTypes
    <2>5. bucket \in Bucket /\ bucket.obs = BucketAt(t).obs \cup {Len(log) + 1}
      <3>1. bucket \in Bucket
        BY <2>2, <2>3, <2>4, UpdatePriceType
      <3>2. bucket.obs = BucketAt(t).obs \cup {Len(log) + 1}
        BY <2>4, UpdatePriceObs
      <3> QED
        BY <3>1, <3>2
    <2>6. ~Elapsed(t)
      BY NotElapsed
    <2>7. phase # "down"
      BY <2>1 DEF FeedOpen
    <2> HIDE DEF t, mark, bucket
    <2> QED
      BY <2>1, <2>2, <2>3, <2>4, <2>5, <2>6, <2>7, AcceptObserves
  <1>2. ASSUME NEW key \in OptionIds, NEW g \in Greeks, OnOptionGreeks(key, g)
        PROVE  phase # "down" /\ \E t \in Slots : \E o : Observes(t, o)
    <2> DEFINE t == <<key, MinuteOf(now)>>
               bucket == UpdateGreeks(BucketAt(t), g, Len(log) + 1)
    <2>1. FeedOpen /\ Accept(t, None, None, None, g, bucket)
      BY <1>2 DEF OnOptionGreeks
    <2>2. t \in Slots /\ BucketAt(t) \in Bucket /\ Len(log) + 1 \in Nat
      BY <2>1, FeedTypes DEF Keys
    <2>3. bucket \in Bucket /\ bucket.obs = BucketAt(t).obs \cup {Len(log) + 1}
      BY <2>2, UpdateGreeksType
    <2>4. ~Elapsed(t)
      BY NotElapsed
    <2>5. phase # "down" /\ None \in Price
      BY <2>1 DEF FeedOpen, Price
    <2> HIDE DEF t, bucket
    <2> QED
      BY <2>1, <2>2, <2>3, <2>4, <2>5, AcceptObserves
  <1> QED
    BY <1>1, <1>2 DEF Feed

LEMMA ObservesKeeps ==
  ASSUME TypeOK, SlotsRight, PoppedOlder, Accounted,
         NEW t \in Slots, NEW o, Observes(t, o)
  PROVE  SlotsRight' /\ PoppedOlder' /\ Accounted'
  <1> DEFINE n == Len(log) + 1
  <1>1. /\ Len(log) \in Nat /\ Len(log') = n
        /\ DOMAIN log = 1..Len(log) /\ DOMAIN log' = 1..n
        /\ \A i \in 1..Len(log) : log'[i] = log[i]
        /\ log'[n] = o
    BY DEF TypeOK, Observes
  <1>2. /\ \A s \in Slots : InPopped(s)' = InPopped(s) /\ InRow(s)' = InRow(s)
        /\ Gone' = Gone
    BY DEF Observes, InPopped, InRow, Gone
  <1>3. \A s \in Slots : InBars(s)' = IF s = t THEN InBars(s) \cup {n} ELSE InBars(s)
    BY DEF Observes
  <1>4. SlotsRight'
    <2>1. ASSUME NEW s \in Slots
          PROVE  OfSlot(InBars(s), s)'
      BY <1>1, <1>3 DEF SlotsRight, OfSlot, Observes
    <2>2. ASSUME NEW s \in Slots
          PROVE  OfSlot(InPopped(s), s)' /\ OfSlot(InRow(s), s)'
      BY <1>1, <1>2 DEF SlotsRight, OfSlot
    <2>3. Gone' \subseteq 1..Len(log')
      BY <1>1, <1>2 DEF SlotsRight
    <2> QED
      BY <2>1, <2>2, <2>3 DEF SlotsRight
  <1>5. PoppedOlder'
    BY <1>1, <1>2, <1>3 DEF SlotsRight, OfSlot, PoppedOlder
  <1>6. Accounted'
    <2>1. \A i : /\ i \in Obs(bars)' <=> i \in Obs(bars) \/ i = n
                 /\ i \in Obs(popped)' <=> i \in Obs(popped)
                 /\ i \in Held' <=> i \in Held \/ i = n
                 /\ i \in Stored' <=> i \in Stored
      BY <1>2, <1>3, HeldBySlot, HeldBySlotNext DEF InHands
    <2>2. n \notin Obs(popped) /\ n \notin Gone
      BY <1>1, HeldBySlot DEF SlotsRight, OfSlot
    <2>3. \A i : i \in 1..n <=> i \in 1..Len(log) \/ i = n
      BY <1>1
    <2> HIDE DEF n
    <2> QED
      BY <1>1, <1>2, <2>1, <2>2, <2>3 DEF Accounted
  <1> QED
    BY <1>4, <1>5, <1>6

LEMMA AccountedStep ==
  ASSUME TypeOK, Stages, SlotsRight, PoppedOlder, Accounted, [Next]_vars
  PROVE  SlotsRight' /\ PoppedOlder' /\ Accounted'
  <1>1. CASE Feed
    BY <1>1, FeedObserves, ObservesKeeps
  <1>2. CASE ~Feed
    <2>1. Settles
      BY <1>2, StepSettles
    <2>2. SlotsRight' /\ PoppedOlder'
      BY <2>1, SettlesKeeps
    <2>3. \A s \in Slots : InBars(s)' \cap InPopped(s)' = {}
      BY <2>2 DEF SlotsRight, PoppedOlder, OfSlot
    <2> QED
      BY <2>1, <2>2, <2>3, SettlesAccounts
  <1> QED
    BY <1>1, <1>2

LEMMA AccountedInit ==
  ASSUME Init
  PROVE  SlotsRight /\ PoppedOlder /\ Accounted
  <1>1. \A s \in Slots : InBars(s) = {} /\ InPopped(s) = {} /\ InRow(s) = {}
    BY DEF Init, NoBars, InBars, InPopped, InRow
  <1>2. Gone = {} /\ DOMAIN log = {}
    BY DEF Init, Gone
  <1>3. Held = {} /\ Stored = {} /\ Obs(bars) = {}
    BY <1>1, HeldBySlot DEF InHands
  <1> QED
    BY <1>1, <1>2, <1>3 DEF SlotsRight, OfSlot, PoppedOlder, Accounted

-----------------------------------------------------------------------------
(* Whole minutes. *)

LEMMA ObservesObserved ==
  ASSUME TypeOK, NEW t \in Slots, NEW o, Observes(t, o), NEW s, NEW l
  PROVE  ObservedIn(s, l)' = IF s = t /\ l = life THEN ObservedIn(s, l) \cup {Len(log) + 1}
                             ELSE ObservedIn(s, l)
  <1> DEFINE n == Len(log) + 1
  <1>1. /\ Len(log) \in Nat
        /\ DOMAIN log = 1..Len(log) /\ DOMAIN log' = 1..n
        /\ \A i \in 1..Len(log) : log'[i] = log[i]
        /\ log'[n] = o /\ o.slot = t /\ o.life = life
    BY DEF TypeOK, Observes
  <1>2. \A i : i \in DOMAIN log' <=> i \in DOMAIN log \/ i = n
    BY <1>1
  <1>3. ObservedIn(s, l)' = {i \in DOMAIN log' : log'[i].slot = s /\ log'[i].life = l}
    BY DEF ObservedIn
  <1> HIDE DEF n
  <1> QED
    BY <1>1, <1>2, <1>3 DEF ObservedIn, n

(* The slot an event belongs to has nothing popped and no row of a flush. *)
LEMMA WholeFeed ==
  ASSUME TypeOK, SlotsRight, Whole, NEW t \in Slots, NEW o, Observes(t, o)
  PROVE  Whole'
  <1> DEFINE n == Len(log) + 1
  <1>1. /\ Len(log) \in Nat /\ Len(log') = n
        /\ \A i \in 1..Len(log) : log'[i] = log[i]
        /\ log'[n] = o /\ o.life = life
        /\ life \in Nat
    BY DEF TypeOK, Observes
  <1>2. \A s, l : ObservedIn(s, l)' = IF s = t /\ l = life THEN ObservedIn(s, l) \cup {n}
                                    ELSE ObservedIn(s, l)
    BY ObservesObserved
  <1>3. /\ ~Elapsed(t) /\ \A s \in Slots : Elapsed(s)' <=> Elapsed(s)
        /\ bars'[t] # None /\ bars'[t].obs = InBars(t) \cup {n}
        /\ \A s \in Slots \ {t} : bars'[s] = bars[s]
        /\ UNCHANGED <<phase, life, popped, rows>>
    BY DEF Observes, Elapsed, InBars
  <1> HIDE DEF n
  <1>4. LogLives'
    BY <1>1, <1>3 DEF Whole, Minutely, LogLives, n
  <1>5. WholeBuckets'
    <2> SUFFICES ASSUME NEW s \in Slots, phase \in {"running", "cancelled"}
                 PROVE  /\ bars'[s] # None =>
                             popped[s] = None /\ bars'[s].obs = ObservedIn(s, life)'
                        /\ popped[s] # None =>
                             Elapsed(s) /\ popped[s].obs = ObservedIn(s, life)'
                        /\ bars'[s] = None /\ ~Elapsed(s) => ObservedIn(s, life)' = {}
      BY <1>3 DEF WholeBuckets
    <2>1. /\ bars[s] # None => popped[s] = None /\ bars[s].obs = ObservedIn(s, life)
          /\ popped[s] # None => Elapsed(s) /\ popped[s].obs = ObservedIn(s, life)
          /\ bars[s] = None /\ ~Elapsed(s) => ObservedIn(s, life) = {}
      BY DEF Whole, Minutely, WholeBuckets
    <2>2. ObservedIn(s, life)' = IF s = t THEN ObservedIn(s, life) \cup {n}
                                 ELSE ObservedIn(s, life)
      BY <1>2, <1>3
    <2>3. CASE s = t
      BY <1>3, <2>1, <2>2, <2>3 DEF InBars
    <2>4. CASE s # t
      BY <1>3, <2>1, <2>2, <2>4
    <2> QED
      BY <2>3, <2>4
  <1>6. RowLives'
    BY <1>3 DEF RowLives, Whole, Minutely
  <1>7. WholeMinute'
    <2>1. \A s \in Slots : rows[s] # None /\ rows[s].by = "flush" => s # t
      BY <1>3 DEF Whole, Minutely, RowLives
    <2> QED
      BY <1>2, <1>3, <2>1 DEF Whole, WholeMinute, Present
  <1>8. RetryHarmless'
    <2>1. \A s \in Slots : phase = "running" /\ rows[s] # None /\ rows[s].life = life => s # t
      BY <1>3, InPresent DEF Whole, Minutely, RowLives, TypeOK, Row
    <2> QED
      BY <1>3, <2>1 DEF Whole, RetryHarmless, Present
  <1> QED
    BY <1>4, <1>5, <1>6, <1>7, <1>8 DEF Whole, Minutely

LEMMA QuietObserved ==
  ASSUME log' = log, NEW s, NEW l
  PROVE  ObservedIn(s, l)' = ObservedIn(s, l)
  BY DEF ObservedIn

LEMMA QuietElapsed ==
  ASSUME TypeOK, now' = now \/ now' = now + 1, NEW s \in Slots, Elapsed(s)
  PROVE  Elapsed(s)'
  BY SlotTypes, PipelineAssumption DEF Elapsed, TypeOK

(***************************************************************************)
(* The rows after a step: those before, and perhaps rows of the bars being *)
(* written.                                                                *)
(***************************************************************************)
RowsGrow ==
  \A s \in Slots :
    \/ rows'[s] = rows[s]
    \/ /\ rows[s] = None /\ s \in writing
       /\ rows'[s] = [by |-> IF phase = "closing" THEN "close" ELSE "flush",
                      life |-> life, bar |-> popped[s]]

LEMMA InsertGrows ==
  ASSUME TypeOK, rows' = RowsInserted
  PROVE  RowsGrow
  BY DEF RowsInserted, RowOf, RowsGrow

(* Writing happens while running or closing, and closing is for good. *)
LEMMA WholeRows ==
  ASSUME TypeOK, Stages, Whole, RowsGrow,
         UNCHANGED <<log, life>>, now' = now \/ now' = now + 1,
         phase \in {"closing", "down"} => phase' \in {"closing", "down"}
  PROVE  LogLives' /\ RowLives' /\ WholeMinute'
  <1>1. LogLives'
    BY DEF Whole, Minutely, LogLives
  <1>2. ASSUME NEW s \in Slots, rows'[s] # rows[s]
        PROVE  /\ rows'[s].by = IF phase = "closing" THEN "close" ELSE "flush"
               /\ rows'[s].life = life /\ rows'[s].bar = popped[s]
               /\ popped[s] # None
               /\ phase \in {"running", "closing"}
    <2>1. s \in writing
      BY <1>2 DEF RowsGrow
    <2>2. popped[s] # None
      BY <2>1, InPresent DEF TypeOK
    <2>3. stage # "idle"
      BY <2>2 DEF TypeOK, NoBars
    <2>4. phase \in {"running", "closing"}
      BY <2>3 DEF TypeOK, Stages
    <2>5. rows'[s] = [by |-> IF phase = "closing" THEN "close" ELSE "flush",
                      life |-> life, bar |-> popped[s]]
      BY <1>2 DEF RowsGrow
    <2>6. /\ rows'[s].by = IF phase = "closing" THEN "close" ELSE "flush"
          /\ rows'[s].life = life /\ rows'[s].bar = popped[s]
      BY <2>5
    <2> QED
      BY <2>2, <2>4, <2>6
  <1>3. ASSUME NEW s \in Slots, rows'[s] # rows[s], phase = "running"
        PROVE  Elapsed(s) /\ popped[s].obs = ObservedIn(s, life)
    BY <1>2, <1>3 DEF Whole, Minutely, WholeBuckets
  <1>4. \A s \in Slots : Elapsed(s) => Elapsed(s)'
    BY QuietElapsed
  <1>5. life \in Nat
    BY DEF TypeOK
  <1>6. RowLives'
    <2> SUFFICES ASSUME NEW s \in Slots, rows'[s] # None
                 PROVE  /\ rows'[s].life <= life
                        /\ rows'[s].by = "flush" => Elapsed(s)'
                        /\ rows'[s].by = "backfill" => rows'[s].life = 0
                        /\ rows'[s].by = "close" /\ rows'[s].life = life =>
                             phase' \in {"closing", "down"}
      BY DEF RowLives
    <2>1. CASE rows'[s] = rows[s]
      BY <1>4, <2>1 DEF Whole, Minutely, RowLives
    <2>2. CASE rows'[s] # rows[s] /\ phase = "closing"
      BY <1>2, <1>5, <2>2
    <2>3. CASE rows'[s] # rows[s] /\ phase = "running"
      BY <1>2, <1>3, <1>4, <1>5, <2>3
    <2> QED
      BY <1>2, <2>1, <2>2, <2>3
  <1>7. WholeMinute'
    <2> SUFFICES ASSUME NEW s \in Slots, rows'[s] # None, rows'[s].by = "flush"
                 PROVE  rows'[s].bar.obs = ObservedIn(s, rows'[s].life)
      BY QuietObserved, InPresent DEF WholeMinute
    <2>1. CASE rows'[s] = rows[s]
      BY <2>1, InPresent DEF Whole, WholeMinute
    <2>2. CASE rows'[s] # rows[s]
      BY <1>2, <1>3, <2>2
    <2> QED
      BY <2>1, <2>2
  <1> QED
    BY <1>1, <1>6, <1>7

(* The slots of a batch, while running, have no bucket. *)
LEMMA BatchOld ==
  ASSUME TypeOK, Whole, phase = "running", NEW s \in Batch
  PROVE  /\ s \in Slots /\ bars[s] = None /\ popped[s] # None
         /\ Elapsed(s) /\ popped[s].obs = ObservedIn(s, life)
  BY BatchPresent, InPresent DEF Whole, Minutely, WholeBuckets

LEMMA WholeQuiet ==
  ASSUME TypeOK, Stages, Whole, UNCHANGED <<log, life, phase, bars, popped, rows>>,
         now' = now \/ now' = now + 1
  PROVE  Whole'
  <1>1. LogLives' /\ RowLives' /\ WholeMinute'
    <2>1. RowsGrow
      BY DEF RowsGrow
    <2> QED
      BY <2>1, WholeRows
  <1>2. WholeBuckets'
    BY QuietObserved, QuietElapsed DEF Whole, Minutely, WholeBuckets
  <1>3. RetryHarmless'
    BY DEF Whole, RetryHarmless, Present
  <1> QED
    BY <1>1, <1>2, <1>3 DEF Whole, Minutely

LEMMA WholeBackfill ==
  ASSUME TypeOK, Stages, Whole, NEW s \in Slots, BackfillInserts(s)
  PROVE  Whole'
  <1>1. /\ rows'[s] = BackfilledRow /\ \A u \in Slots \ {s} : rows'[u] = rows[u]
        /\ UNCHANGED <<now, phase, life, bars, popped, log>>
        /\ life \in Nat \ {0}
    BY DEF BackfillInserts, TypeOK
  <1>2. BackfilledRow.by = "backfill" /\ BackfilledRow.life = 0
    BY DEF BackfilledRow
  <1>3. \A u \in Slots : Elapsed(u)' <=> Elapsed(u)
    BY <1>1 DEF Elapsed
  <1>4. LogLives' /\ WholeBuckets'
    BY <1>1, <1>3, QuietObserved DEF Whole, Minutely, LogLives, WholeBuckets
  <1>5. RowLives'
    BY <1>1, <1>2, <1>3 DEF Whole, Minutely, RowLives
  <1>6. WholeMinute'
    BY <1>1, <1>2, InPresent, QuietObserved DEF Whole, WholeMinute
  <1>7. RetryHarmless'
    BY <1>1, <1>2, InPresent DEF Whole, RetryHarmless
  <1> QED
    BY <1>4, <1>5, <1>6, <1>7 DEF Whole, Minutely

LEMMA WholeFlush ==
  ASSUME TypeOK, Stages, Whole, FlushReadyBars
  PROVE  Whole'
  <1>1. /\ phase = "running" /\ Pop(Due(now))
        /\ UNCHANGED <<now, phase, life, rows, log>>
    BY DEF FlushReadyBars, Pop
  <1>2. LogLives' /\ RowLives' /\ WholeMinute'
    <2>1. RowsGrow
      BY <1>1 DEF RowsGrow
    <2> QED
      BY <1>1, <2>1, WholeRows
  <1>3. \A s \in Slots : popped[s] = None
    BY DEF FlushReadyBars, TypeOK, NoBars
  <1>4. /\ \A s \in Due(now) : bars'[s] = None /\ popped'[s] = bars[s]
        /\ \A s \in Slots \ Due(now) : bars'[s] = bars[s] /\ popped'[s] = None
        /\ Due(now) \subseteq Present(bars)
    BY <1>1 DEF Pop, Due, Present
  <1>5. ASSUME NEW s \in Due(now)
        PROVE  s \in Slots /\ bars[s] # None /\ Elapsed(s) /\ Elapsed(s)'
    <2>1. s \in Slots /\ bars[s] # None /\ now >= s[2] + MinuteTicks + GraceTicks
      BY InPresent DEF Due
    <2>2. Elapsed(s)
      BY <2>1, SlotTypes, PipelineAssumption DEF Elapsed, TypeOK
    <2> QED
      BY <1>1, <2>1, <2>2 DEF Elapsed
  <1>6. WholeBuckets'
    <2> SUFFICES ASSUME NEW s \in Slots
                 PROVE  /\ bars'[s] # None =>
                             popped'[s] = None /\ bars'[s].obs = ObservedIn(s, life)
                        /\ popped'[s] # None =>
                             Elapsed(s)' /\ popped'[s].obs = ObservedIn(s, life)
                        /\ bars'[s] = None /\ ~Elapsed(s)' => ObservedIn(s, life) = {}
      BY <1>1, QuietObserved DEF WholeBuckets
    <2>1. /\ bars[s] # None => bars[s].obs = ObservedIn(s, life)
          /\ bars[s] = None /\ ~Elapsed(s) => ObservedIn(s, life) = {}
      BY <1>1 DEF Whole, Minutely, WholeBuckets
    <2>2. CASE s \in Due(now)
      BY <1>4, <1>5, <2>1, <2>2
    <2>3. CASE s \notin Due(now)
      <3>1. Elapsed(s)' <=> Elapsed(s)
        BY <1>1 DEF Elapsed
      <3> QED
        BY <1>4, <2>1, <2>3, <3>1
    <2> QED
      BY <2>2, <2>3
  <1>7. RetryHarmless'
    BY <1>1, <1>3, <1>4, <1>5, InPresent DEF Whole, RetryHarmless
  <1> QED
    BY <1>2, <1>6, <1>7 DEF Whole, Minutely

LEMMA WholeCommit ==
  ASSUME TypeOK, Stages, Whole, WriteCommits
  PROVE  Whole'
  <1>1. /\ UNCHANGED <<now, phase, life, bars, log>> /\ rows' = RowsInserted
        /\ phase \in {"running", "closing"}
        /\ \A s \in Slots : popped'[s] = IF s \in Batch THEN None ELSE popped[s]
    BY DEF WriteCommits, NextStage, Stages, TypeOK
  <1>2. RowsGrow
    BY <1>1, InsertGrows
  <1>3. LogLives' /\ RowLives' /\ WholeMinute'
    BY <1>1, <1>2, WholeRows
  <1>4. WholeBuckets'
    <2> SUFFICES ASSUME NEW s \in Slots, phase = "running"
                 PROVE  /\ bars[s] # None =>
                             popped'[s] = None /\ bars[s].obs = ObservedIn(s, life)
                        /\ popped'[s] # None =>
                             Elapsed(s)' /\ popped'[s].obs = ObservedIn(s, life)
                        /\ bars[s] = None /\ ~Elapsed(s)' => ObservedIn(s, life) = {}
      BY <1>1, QuietObserved DEF WholeBuckets
    <2>1. Elapsed(s)' <=> Elapsed(s)
      BY <1>1 DEF Elapsed
    <2> QED
      BY <1>1, <2>1 DEF Whole, Minutely, WholeBuckets
  <1>5. RetryHarmless'
    <2> SUFFICES ASSUME NEW s \in Slots, phase = "running", rows'[s] # None,
                        rows'[s].life = life, NEW b \in {bars[s], popped'[s]}, b # None
                 PROVE  rows'[s].bar = b
      BY <1>1, InPresent DEF RetryHarmless
    <2>1. b \in {bars[s], popped[s]}
      BY <1>1
    <2>2. CASE rows'[s] = rows[s]
      BY <2>1, <2>2, InPresent DEF Whole, RetryHarmless
    <2>3. CASE rows'[s] # rows[s]
      <3>1. s \in writing
        BY <1>2, <2>3 DEF RowsGrow
      <3>2. s \in Batch
        BY <3>1, BatchPresent, InPresent, InSlotsOf DEF Batch, TypeOK, Stages, WriteCommits
      <3> QED
        BY <1>1, <3>2, BatchOld
    <2> QED
      BY <2>2, <2>3
  <1> QED
    BY <1>3, <1>4, <1>5 DEF Whole, Minutely

LEMMA WholeRaise ==
  ASSUME TypeOK, Stages, Whole, NEW landed \in BOOLEAN, WriteRaises(landed)
  PROVE  Whole'
  <1>1. /\ UNCHANGED <<now, phase, life, log>> /\ (rows' = RowsInserted \/ rows' = rows)
        /\ phase \in {"running", "closing"}
        /\ \A s \in Slots : popped'[s] = IF s \in Batch THEN None ELSE popped[s]
        /\ \A s \in Slots \ Batch : bars'[s] = bars[s]
        /\ \A s \in Slots \cap Batch : bars[s] = None => bars'[s] = popped[s]
    BY DEF WriteRaises, NextStage, Stages, TypeOK
  <1>2. RowsGrow
    BY <1>1, InsertGrows DEF RowsGrow
  <1>3. LogLives' /\ RowLives' /\ WholeMinute'
    BY <1>1, <1>2, WholeRows
  <1>4. WholeBuckets'
    <2> SUFFICES ASSUME NEW s \in Slots, phase = "running"
                 PROVE  /\ bars'[s] # None =>
                             popped'[s] = None /\ bars'[s].obs = ObservedIn(s, life)
                        /\ popped'[s] # None =>
                             Elapsed(s)' /\ popped'[s].obs = ObservedIn(s, life)
                        /\ bars'[s] = None /\ ~Elapsed(s)' => ObservedIn(s, life) = {}
      BY <1>1, QuietObserved DEF WholeBuckets
    <2>1. Elapsed(s)' <=> Elapsed(s)
      BY <1>1 DEF Elapsed
    <2>2. CASE s \in Batch
      BY <1>1, <2>1, <2>2, BatchOld
    <2>3. CASE s \notin Batch
      BY <1>1, <2>1, <2>3 DEF Whole, Minutely, WholeBuckets
    <2> QED
      BY <2>2, <2>3
  <1>5. RetryHarmless'
    <2> SUFFICES ASSUME NEW s \in Slots, phase = "running", rows'[s] # None,
                        rows'[s].life = life, NEW b \in {bars'[s], popped'[s]}, b # None
                 PROVE  rows'[s].bar = b
      BY <1>1, InPresent DEF RetryHarmless
    <2>1. s \in Batch => b = popped[s]
      BY <1>1, BatchOld
    <2>2. b \in {bars[s], popped[s]}
      BY <1>1, <2>1
    <2>3. CASE rows'[s] = rows[s]
      BY <2>2, <2>3, InPresent DEF Whole, RetryHarmless
    <2>4. CASE rows'[s] # rows[s]
      <3>1. s \in writing
        BY <1>2, <2>4 DEF RowsGrow
      <3>2. s \in Batch
        BY <3>1, BatchPresent, InPresent, InSlotsOf DEF Batch, TypeOK, Stages, WriteRaises
      <3>3. rows'[s] = [by |-> IF phase = "closing" THEN "close" ELSE "flush",
                        life |-> life, bar |-> popped[s]]
        BY <1>2, <2>4 DEF RowsGrow
      <3>4. rows'[s].bar = popped[s]
        BY <3>3
      <3> QED
        BY <2>1, <3>2, <3>4
    <2> QED
      BY <2>3, <2>4
  <1> QED
    BY <1>3, <1>4, <1>5 DEF Whole, Minutely

(* The steps that stop the service. *)
LEMMA WholeStop ==
  ASSUME TypeOK, Stages, Whole, [Next]_vars, phase' # phase, life' = life
  PROVE  Whole'
  <1>1. CASE Close
    <2>1. RowsGrow /\ UNCHANGED <<now, life, log>> /\ phase' = "closing"
      BY <1>1 DEF Close, Pop, RowsGrow
    <2> QED
      BY <2>1, WholeRows DEF Whole, Minutely, WholeBuckets, RetryHarmless
  <1>2. CASE Exit
    <2>1. RowsGrow /\ UNCHANGED <<now, life, log>> /\ phase' = "down"
      BY <1>2 DEF Exit, RowsGrow
    <2> QED
      BY <2>1, WholeRows DEF Whole, Minutely, WholeBuckets, RetryHarmless
  <1>3. ASSUME NEW landed \in BOOLEAN, Crash(landed)
        PROVE  Whole'
    <2>1. RowsGrow /\ UNCHANGED <<now, life, log>> /\ phase' = "down"
      BY <1>3, InsertGrows DEF Crash, Abandon, RowsGrow
    <2> QED
      BY <2>1, WholeRows DEF Whole, Minutely, WholeBuckets, RetryHarmless
  <1>4. ASSUME NEW landed \in BOOLEAN, Cancel(landed)
        PROVE  Whole'
    <2>1. RowsGrow /\ UNCHANGED <<now, life, log, bars>> /\ phase' = "cancelled"
      BY <1>4, InsertGrows DEF Cancel, Abandon, RowsGrow
    <2>2. phase = "running" /\ \A s \in Slots : popped'[s] = None
      BY <1>4 DEF Cancel, Abandon, NoBars
    <2>3. LogLives' /\ RowLives' /\ WholeMinute'
      BY <2>1, <2>2, WholeRows
    <2>4. \A s \in Slots : Elapsed(s)' <=> Elapsed(s)
      BY <2>1 DEF Elapsed
    <2>5. WholeBuckets'
      BY <2>1, <2>2, <2>4, QuietObserved DEF Whole, Minutely, WholeBuckets
    <2>6. RetryHarmless'
      BY <2>1 DEF RetryHarmless
    <2> QED
      BY <2>3, <2>5, <2>6 DEF Whole, Minutely
  <1>5. ~Restart
    BY DEF Restart, TypeOK
  <1> QED
    BY <1>1, <1>2, <1>3, <1>4, <1>5
       DEF Next, vars, Tick, Feed, OnQuote, OnOptionGreeks, Accept, Refresh,
           BackfillInserts, FlushReadyBars, WriteCommits, WriteRaises

LEMMA WholeRestart ==
  ASSUME TypeOK, Stages, Whole, Restart
  PROVE  Whole'
  <1>1. /\ phase = "down" /\ phase' = "running" /\ life' = life + 1 /\ life \in Nat \ {0}
        /\ UNCHANGED <<now, rows, log>>
        /\ \A s \in Slots : bars'[s] = None /\ popped'[s] = None
        /\ Len(log) \in Nat
    BY DEF Restart, TypeOK, Stages, NoBars
  <1>2. \A i \in 1..Len(log) : log[i].life \in Nat /\ log[i].life <= life
    <2>1. \A i \in 1..Len(log) : log[i] \in Observation
      BY DEF TypeOK
    <2> QED
      BY <2>1 DEF Whole, Minutely, LogLives, Observation
  <1>3. LogLives'
    BY <1>1, <1>2 DEF LogLives
  <1>4. \A s \in Slots : ObservedIn(s, life + 1) = {}
    <2>1. DOMAIN log = 1..Len(log)
      BY DEF TypeOK
    <2> QED
      BY <1>1, <1>2, <2>1 DEF ObservedIn
  <1>5. WholeBuckets'
    BY <1>1, <1>4, QuietObserved DEF WholeBuckets
  <1>6. \A s \in Slots : rows[s] # None => rows[s].life \in Nat /\ rows[s].life <= life
    BY InPresent, ObsTypes DEF Whole, Minutely, RowLives, Row
  <1>7. RowLives'
    BY <1>1, <1>6 DEF Whole, Minutely, RowLives, Elapsed
  <1>8. WholeMinute'
    BY <1>1, QuietObserved DEF Whole, WholeMinute, Present
  <1>9. RetryHarmless'
    BY <1>1, <1>6 DEF RetryHarmless, Present
  <1> QED
    BY <1>3, <1>5, <1>7, <1>8, <1>9 DEF Whole, Minutely

LEMMA WholeStep ==
  ASSUME TypeOK, Stages, SlotsRight, Whole, [Next]_vars
  PROVE  Whole'
  <1>1. CASE Feed
    BY <1>1, FeedObserves, WholeFeed
  <1>2. CASE Tick \/ Refresh \/ UNCHANGED vars
    BY <1>2, WholeQuiet DEF Tick, Refresh, vars
  <1>3. CASE \E s \in Slots : BackfillInserts(s)
    BY <1>3, WholeBackfill
  <1>4. CASE FlushReadyBars
    BY <1>4, WholeFlush
  <1>5. CASE WriteCommits
    BY <1>5, WholeCommit
  <1>6. CASE \E landed \in BOOLEAN : WriteRaises(landed)
    BY <1>6, WholeRaise
  <1>7. CASE Close \/ Exit \/ \E landed \in BOOLEAN : Cancel(landed) \/ Crash(landed)
    <2>1. life' = life /\ phase' # phase
      BY <1>7 DEF Close, Pop, Exit, Cancel, Crash, Abandon
    <2> QED
      BY <2>1, WholeStop
  <1>8. CASE Restart
    BY <1>8, WholeRestart
  <1> QED
    BY <1>1, <1>2, <1>3, <1>4, <1>5, <1>6, <1>7, <1>8 DEF Next

LEMMA WholeInit ==
  ASSUME Init
  PROVE  Whole
  <1>1. Len(log) = 0 /\ DOMAIN log = {} /\ \A s \in Slots :
           bars[s] = None /\ popped[s] = None /\ rows[s] = None
    BY DEF Init, NoBars
  <1>2. Present(rows) = {}
    BY <1>1 DEF Present
  <1>3. \A s \in Slots : ObservedIn(s, life) = {}
    BY <1>1 DEF ObservedIn
  <1> QED
    BY <1>1, <1>2, <1>3
       DEF Whole, Minutely, LogLives, WholeBuckets, RowLives, WholeMinute, RetryHarmless

-----------------------------------------------------------------------------
(* What a bucket reports. *)

(* The types the lemmas below need of a log and of a bucket made from it. *)
MadeFrom(l, b) ==
  /\ l \in Seq(Observation) /\ b \in Bucket /\ b.obs \subseteq 1..Len(l)

LEMMA MadeFromTypes ==
  ASSUME NEW l, NEW b, MadeFrom(l, b)
  PROVE  /\ Len(l) \in Nat
         /\ \A i \in 1..Len(l) : /\ l[i].mark # None => l[i].mark \in Int
                                 /\ l[i].greeks # None => l[i].greeks \in Greeks
         /\ \A i \in b.obs : i \in 1..Len(l)
         /\ \A price \in {b.open, b.high, b.low, b.close} : price # None => price \in Int
  <1>1. \A i \in 1..Len(l) : l[i] \in Observation
    BY DEF MadeFrom
  <1> QED
    BY <1>1 DEF MadeFrom, Observation, Bucket, Price

LEMMA EmptyReports ==
  ASSUME NEW l
  PROVE  Reports(l, EmptyBucket)
  BY DEF Reports, ReportsPrices, ReportsGreeks, QuotesIn, SnapshotsIn, EmptyBucket

(* A longer log changes no report. *)
LEMMA AppendReports ==
  ASSUME NEW l, NEW b, NEW o, MadeFrom(l, b), Reports(l, b)
  PROVE  /\ Reports(Append(l, o), b)
         /\ QuotesIn(Append(l, o), b) = QuotesIn(l, b)
         /\ SnapshotsIn(Append(l, o), b) = SnapshotsIn(l, b)
  <1> DEFINE m == Append(l, o)
  <1>1. \A i \in b.obs : m[i] = l[i]
    BY DEF MadeFrom
  <1> HIDE DEF m
  <1>2. QuotesIn(m, b) = QuotesIn(l, b) /\ SnapshotsIn(m, b) = SnapshotsIn(l, b)
    BY <1>1 DEF QuotesIn, SnapshotsIn
  <1>3. QuotesIn(l, b) \subseteq b.obs /\ SnapshotsIn(l, b) \subseteq b.obs
    BY DEF QuotesIn, SnapshotsIn
  <1>4. ReportsPrices(m, b)
    BY <1>1, <1>2, <1>3 DEF Reports, ReportsPrices
  <1>5. ReportsGreeks(m, b)
    BY <1>1, <1>2, <1>3 DEF Reports, ReportsGreeks
  <1> QED
    BY <1>2, <1>4, <1>5 DEF Reports, m

(* A quote moves the extremes, and is the close. *)
LEMMA UpdatePriceReports ==
  ASSUME NEW l, NEW b, NEW o \in Observation, MadeFrom(l, b), Reports(l, b),
         o.mark # None, o.greeks = None
  PROVE  Reports(Append(l, o), UpdatePrice(b, o.mark, o.bid, o.ask, Len(l) + 1))
  <1> DEFINE m == Append(l, o)
             n == Len(l) + 1
             c == UpdatePrice(b, o.mark, o.bid, o.ask, n)
             Q == QuotesIn(l, b)
  <1>1. /\ \A i \in b.obs : m[i] = l[i]
        /\ m[n] = o
        /\ \A i \in b.obs : i \in Int /\ i < n
        /\ n \in Int /\ o.mark \in Int
    BY MadeFromTypes DEF MadeFrom, Observation, Price
  <1>2. /\ c.open = OrElse(b.open, o.mark)
        /\ c.high = Upper(b.high, o.mark)
        /\ c.low = Lower(b.low, o.mark)
        /\ c.close = o.mark /\ c.bid = o.bid /\ c.ask = o.ask
        /\ c.greeks = b.greeks
        /\ c.obs = b.obs \cup {n}
    BY DEF MadeFrom, UpdatePrice, Bucket
  <1> HIDE DEF m, n, c
  <1>3. QuotesIn(m, c) = Q \cup {n} /\ SnapshotsIn(m, c) = SnapshotsIn(l, b)
    BY <1>1, <1>2 DEF QuotesIn, SnapshotsIn
  <1>4. /\ \A i \in Q : i \in b.obs /\ i < n /\ i \in Int /\ m[i] = l[i] /\ l[i].mark \in Int
        /\ \A i \in SnapshotsIn(l, b) : m[i] = l[i]
    BY <1>1, MadeFromTypes DEF QuotesIn, SnapshotsIn
  <1>5. /\ (b.open = None <=> Q = {}) /\ (b.high = None <=> Q = {})
        /\ (b.low = None <=> Q = {})
        /\ b.high # None => b.high \in Int
        /\ b.low # None => b.low \in Int
        /\ b.high # None => \E i \in Q : b.high = l[i].mark
        /\ b.low # None => \E i \in Q : b.low = l[i].mark
    BY MadeFromTypes DEF Reports, ReportsPrices
  <1>5a. ASSUME NEW i \in Q
         PROVE  /\ b.low \in Int /\ b.high \in Int
                /\ b.low <= l[i].mark /\ l[i].mark <= b.high
                /\ FirstOf(Q, i) => b.open = l[i].mark
    <2>1. b.low \in Int /\ b.high \in Int
      BY <1>5
    <2> QED
      BY <2>1 DEF Reports, ReportsPrices
  <1>6. ReportsGreeks(m, c)
    BY <1>2, <1>3, <1>4 DEF Reports, ReportsGreeks
  <1> HIDE DEF Q
  <1>7. c.open # None /\ c.high # None /\ c.low # None /\ c.close # None
    BY <1>2, <1>5 DEF OrElse, Upper, Lower
  <1>8. ASSUME NEW i \in Q \cup {n}
        PROVE  /\ c.low <= m[i].mark /\ m[i].mark <= c.high
               /\ FirstOf(Q \cup {n}, i) => c.open = m[i].mark
               /\ LastOf(Q \cup {n}, i) => i = n
    <2>1. c.low <= m[i].mark /\ m[i].mark <= c.high
      <3>1. /\ b.low = None => c.low = o.mark
            /\ b.low # None => c.low \in Int /\ c.low <= b.low /\ c.low <= o.mark
            /\ b.high = None => c.high = o.mark
            /\ b.high # None => c.high \in Int /\ b.high <= c.high /\ o.mark <= c.high
        BY <1>1, <1>2, <1>5, NoneAssumption DEF Upper, Lower
      <3>2. CASE i = n
        BY <1>1, <3>1, <3>2
      <3>3. CASE i \in Q
        <4>1. /\ b.low \in Int /\ b.high \in Int
              /\ b.low <= l[i].mark /\ l[i].mark <= b.high
          BY <1>5a, <3>3
        <4>2. l[i].mark \in Int /\ m[i] = l[i] /\ b.low # None /\ b.high # None
          BY <1>4, <3>3, <4>1, NoneAssumption
        <4> QED
          BY <3>1, <4>1, <4>2
      <3> QED
        BY <3>2, <3>3
    <2>2. LastOf(Q \cup {n}, i) => i = n
      BY <1>1, <1>4 DEF LastOf
    <2>3. FirstOf(Q \cup {n}, i) => c.open = m[i].mark
      <3>1. CASE Q = {}
        BY <1>1, <1>2, <1>5, <3>1 DEF OrElse
      <3>2. CASE Q # {}
        <4>1. FirstOf(Q \cup {n}, i) => FirstOf(Q, i)
          BY <1>1, <1>4, <3>2 DEF FirstOf
        <4>2. c.open = b.open
          BY <1>2, <1>5, <3>2 DEF OrElse
        <4>3. FirstOf(Q, i) => i \in Q /\ b.open = l[i].mark /\ m[i] = l[i]
          <5>1. FirstOf(Q, i) => i \in Q
            BY DEF FirstOf
          <5> QED
            BY <1>4, <1>5a, <5>1
        <4> QED
          BY <4>1, <4>2, <4>3
      <3> QED
        BY <3>1, <3>2
    <2> QED
      BY <2>1, <2>2, <2>3
  <1>9. \E i \in Q \cup {n} : c.high = m[i].mark
    BY <1>1, <1>2, <1>4, <1>5 DEF Upper
  <1>10. \E i \in Q \cup {n} : c.low = m[i].mark
    BY <1>1, <1>2, <1>4, <1>5 DEF Lower
  <1>11. ReportsPrices(m, c)
    BY <1>1, <1>2, <1>3, <1>7, <1>8, <1>9, <1>10 DEF ReportsPrices
  <1> QED
    BY <1>6, <1>11 DEF Reports, m, c, n

(* A Greeks event replaces the snapshot, and no price. *)
LEMMA UpdateGreeksReports ==
  ASSUME NEW l, NEW b, NEW o \in Observation, MadeFrom(l, b), Reports(l, b),
         o.mark = None, o.greeks # None
  PROVE  Reports(Append(l, o), UpdateGreeks(b, o.greeks, Len(l) + 1))
  <1> DEFINE m == Append(l, o)
             n == Len(l) + 1
             c == UpdateGreeks(b, o.greeks, n)
             S == SnapshotsIn(l, b)
  <1>1. /\ \A i \in b.obs : m[i] = l[i]
        /\ m[n] = o
        /\ \A i \in b.obs : i \in Int /\ i < n
        /\ n \in Int
    BY MadeFromTypes DEF MadeFrom
  <1>2. /\ c.open = b.open /\ c.high = b.high /\ c.low = b.low
        /\ c.close = b.close /\ c.bid = b.bid /\ c.ask = b.ask
        /\ c.greeks = o.greeks
        /\ c.obs = b.obs \cup {n}
    BY DEF MadeFrom, UpdateGreeks, Bucket
  <1> HIDE DEF m, n, c
  <1>3. QuotesIn(m, c) = QuotesIn(l, b) /\ SnapshotsIn(m, c) = S \cup {n}
    BY <1>1, <1>2 DEF QuotesIn, SnapshotsIn
  <1>4. \A i \in QuotesIn(l, b) : m[i] = l[i]
    BY <1>1 DEF QuotesIn
  <1>5. ReportsPrices(m, c)
    BY <1>2, <1>3, <1>4 DEF Reports, ReportsPrices
  <1>6. \A i \in S \cup {n} : LastOf(S \cup {n}, i) => i = n
    BY <1>1 DEF LastOf, SnapshotsIn
  <1>7. ReportsGreeks(m, c)
    BY <1>1, <1>2, <1>3, <1>6 DEF ReportsGreeks
  <1> QED
    BY <1>5, <1>7 DEF Reports, m, c, n

(* What the prices of a bucket say, in a form that is easy to use. *)
LEMMA PriceFacts ==
  ASSUME NEW l, NEW b, MadeFrom(l, b), Reports(l, b)
  PROVE  LET Q == QuotesIn(l, b)
         IN /\ b.open = None <=> Q = {}
            /\ b.high = None <=> Q = {}
            /\ b.low = None <=> Q = {}
            /\ b.close = None <=> Q = {}
            /\ Q = {} => b.bid = None /\ b.ask = None
            /\ b.high # None => b.high \in Int /\ \E i \in Q : b.high = l[i].mark
            /\ b.low # None => b.low \in Int /\ \E i \in Q : b.low = l[i].mark
            /\ \A i \in Q : /\ i \in Int /\ i \in b.obs /\ l[i].mark \in Int
                            /\ b.low \in Int /\ b.high \in Int
                            /\ b.low <= l[i].mark /\ l[i].mark <= b.high
  <1>1. \A i \in QuotesIn(l, b) : i \in Int /\ i \in b.obs /\ l[i].mark \in Int
    BY MadeFromTypes DEF QuotesIn
  <1>2. /\ b.high # None => b.high \in Int
        /\ b.low # None => b.low \in Int
    BY MadeFromTypes
  <1>3. ASSUME NEW i \in QuotesIn(l, b)
        PROVE  /\ b.low \in Int /\ b.high \in Int
               /\ b.low <= l[i].mark /\ l[i].mark <= b.high
    <2>1. b.low \in Int /\ b.high \in Int
      BY <1>2 DEF Reports, ReportsPrices
    <2> QED
      BY <2>1 DEF Reports, ReportsPrices
  <1> QED
    BY <1>1, <1>2, <1>3 DEF Reports, ReportsPrices

LEMMA FirstLastPrices ==
  ASSUME NEW l, NEW b, Reports(l, b), NEW i
  PROVE  LET Q == QuotesIn(l, b)
         IN /\ FirstOf(Q, i) => b.open = l[i].mark
            /\ LastOf(Q, i) => /\ b.close = l[i].mark
                               /\ l[i].bid # None => b.bid = l[i].bid
                               /\ l[i].ask # None => b.ask = l[i].ask
  BY DEF Reports, ReportsPrices, FirstOf, LastOf

(***************************************************************************)
(* The merge of a bucket with an older one reports the observations of     *)
(* both.                                                                   *)
(***************************************************************************)
LEMMA MergeReports ==
  ASSUME NEW l, NEW b, NEW older, MadeFrom(l, b), MadeFrom(l, older),
         Reports(l, b), Reports(l, older),
         \A i \in older.obs, j \in b.obs : i < j
  PROVE  Reports(l, MergeOlder(b, older))
  <1> DEFINE c == MergeOlder(b, older)
             Q == QuotesIn(l, b)
             P == QuotesIn(l, older)
             S == SnapshotsIn(l, b)
             R == SnapshotsIn(l, older)
  <1>1. /\ c.open = OrElse(older.open, b.open)
        /\ c.high = Upper(b.high, older.high)
        /\ c.low = Lower(b.low, older.low)
        /\ c.close = OrElse(b.close, older.close)
        /\ c.bid = OrElse(b.bid, older.bid)
        /\ c.ask = OrElse(b.ask, older.ask)
        /\ c.greeks = OrElse(b.greeks, older.greeks)
        /\ c.obs = b.obs \cup older.obs
    BY DEF MadeFrom, MergeOlder, Bucket
  <1> HIDE DEF c
  <1>2. QuotesIn(l, c) = Q \cup P /\ SnapshotsIn(l, c) = S \cup R
    BY <1>1 DEF QuotesIn, SnapshotsIn
  <1>3. /\ Q \subseteq b.obs /\ P \subseteq older.obs
        /\ S \subseteq b.obs /\ R \subseteq older.obs
        /\ \A i \in b.obs \cup older.obs : i \in Int
    BY MadeFromTypes DEF QuotesIn, SnapshotsIn
  <1>4. \A i \in P, j \in Q : i < j
    BY <1>3
  <1>5. ASSUME NEW i, FirstOf(Q \cup P, i)
        PROVE  FirstOf(P, i) \/ (P = {} /\ FirstOf(Q, i))
    BY <1>3, <1>4, <1>5 DEF FirstOf
  <1>6. ASSUME NEW i, LastOf(Q \cup P, i)
        PROVE  LastOf(Q, i) \/ (Q = {} /\ LastOf(P, i))
    BY <1>3, <1>4, <1>6 DEF LastOf
  <1>7. ASSUME NEW i, LastOf(S \cup R, i)
        PROVE  LastOf(S, i) \/ (S = {} /\ LastOf(R, i))
    BY <1>3, <1>7 DEF LastOf
  <1>8. /\ b.open = None <=> Q = {}
        /\ b.high = None <=> Q = {}
        /\ b.low = None <=> Q = {}
        /\ b.close = None <=> Q = {}
        /\ Q = {} => b.bid = None /\ b.ask = None
        /\ b.high # None => b.high \in Int /\ \E i \in Q : b.high = l[i].mark
        /\ b.low # None => b.low \in Int /\ \E i \in Q : b.low = l[i].mark
        /\ \A i \in Q : /\ l[i].mark \in Int /\ b.low \in Int /\ b.high \in Int
                        /\ b.low <= l[i].mark /\ l[i].mark <= b.high
    BY PriceFacts
  <1>9. /\ older.open = None <=> P = {}
        /\ older.high = None <=> P = {}
        /\ older.low = None <=> P = {}
        /\ older.close = None <=> P = {}
        /\ P = {} => older.bid = None /\ older.ask = None
        /\ older.high # None => older.high \in Int /\ \E i \in P : older.high = l[i].mark
        /\ older.low # None => older.low \in Int /\ \E i \in P : older.low = l[i].mark
        /\ \A i \in P : /\ l[i].mark \in Int /\ older.low \in Int /\ older.high \in Int
                        /\ older.low <= l[i].mark /\ l[i].mark <= older.high
    BY PriceFacts
  <1>10. ASSUME NEW i
         PROVE  /\ FirstOf(Q, i) => b.open = l[i].mark
                /\ FirstOf(P, i) => older.open = l[i].mark
    BY FirstLastPrices
  <1>10a. ASSUME NEW i, LastOf(Q, i)
          PROVE  /\ b.close = l[i].mark
                 /\ l[i].bid # None => b.bid = l[i].bid
                 /\ l[i].ask # None => b.ask = l[i].ask
    BY <1>10a, FirstLastPrices
  <1>10b. ASSUME NEW i, LastOf(P, i)
          PROVE  /\ older.close = l[i].mark
                 /\ l[i].bid # None => older.bid = l[i].bid
                 /\ l[i].ask # None => older.ask = l[i].ask
    BY <1>10b, FirstLastPrices
  <1>11. /\ b.greeks = None <=> S = {}
         /\ older.greeks = None <=> R = {}
         /\ \A i : LastOf(S, i) => b.greeks = l[i].greeks
         /\ \A i : LastOf(R, i) => older.greeks = l[i].greeks
    BY DEF Reports, ReportsGreeks, LastOf
  <1> HIDE DEF Q, P, S, R
  <1>12. ReportsGreeks(l, c)
    <2>1. c.greeks = None <=> S \cup R = {}
      BY <1>1, <1>11 DEF OrElse
    <2>2. \A i : LastOf(S \cup R, i) => c.greeks = l[i].greeks
      BY <1>1, <1>7, <1>11 DEF OrElse, LastOf
    <2> QED
      BY <1>2, <2>1, <2>2 DEF ReportsGreeks
  <1>13. \A price \in {c.open, c.high, c.low, c.close} : price = None <=> Q \cup P = {}
    BY <1>1, <1>8, <1>9 DEF OrElse, Upper, Lower
  <1>14. Q \cup P = {} => c.bid = None /\ c.ask = None
    BY <1>1, <1>8, <1>9 DEF OrElse
  <1>15. /\ b.low # None => c.low \in Int /\ c.low <= b.low
         /\ older.low # None => c.low \in Int /\ c.low <= older.low
         /\ b.high # None => c.high \in Int /\ b.high <= c.high
         /\ older.high # None => c.high \in Int /\ older.high <= c.high
         /\ c.low = b.low \/ c.low = older.low
         /\ c.high = b.high \/ c.high = older.high
    BY <1>1, <1>8, <1>9, NoneAssumption DEF Upper, Lower
  <1>16. ASSUME NEW i \in Q \cup P
         PROVE  c.low <= l[i].mark /\ l[i].mark <= c.high
    <2>1. CASE i \in Q
      BY <1>8, <1>15, <2>1, NoneAssumption
    <2>2. CASE i \in P
      BY <1>9, <1>15, <2>2, NoneAssumption
    <2> QED
      BY <2>1, <2>2
  <1>17. ASSUME NEW i, FirstOf(Q \cup P, i)
         PROVE  c.open = l[i].mark
    <2>1. CASE FirstOf(P, i)
      BY <1>1, <1>9, <1>10, <2>1 DEF OrElse, FirstOf
    <2>2. CASE P = {} /\ FirstOf(Q, i)
      BY <1>1, <1>9, <1>10, <2>2 DEF OrElse
    <2> QED
      BY <1>5, <1>17, <2>1, <2>2
  <1>18. ASSUME NEW i, LastOf(Q \cup P, i)
         PROVE  /\ c.close = l[i].mark
                /\ l[i].bid # None => c.bid = l[i].bid
                /\ l[i].ask # None => c.ask = l[i].ask
    <2>1. CASE LastOf(Q, i)
      <3>1. b.close # None
        BY <1>8, <2>1 DEF LastOf
      <3>2. /\ b.close = l[i].mark
            /\ l[i].bid # None => b.bid = l[i].bid
            /\ l[i].ask # None => b.ask = l[i].ask
        BY <1>10a, <2>1
      <3> QED
        BY <1>1, <3>1, <3>2 DEF OrElse
    <2>2. CASE Q = {} /\ LastOf(P, i)
      <3>1. b.close = None /\ b.bid = None /\ b.ask = None
        BY <1>8, <2>2
      <3>2. /\ older.close = l[i].mark
            /\ l[i].bid # None => older.bid = l[i].bid
            /\ l[i].ask # None => older.ask = l[i].ask
        BY <1>10b, <2>2
      <3> QED
        BY <1>1, <3>1, <3>2 DEF OrElse
    <2> QED
      BY <1>6, <1>18, <2>1, <2>2
  <1>19. /\ c.high # None => \E i \in Q \cup P : c.high = l[i].mark
         /\ c.low # None => \E i \in Q \cup P : c.low = l[i].mark
    BY <1>8, <1>9, <1>15
  <1>20. ReportsPrices(l, c)
    BY <1>2, <1>13, <1>14, <1>16, <1>17, <1>18, <1>19 DEF ReportsPrices
  <1> QED
    BY <1>12, <1>20 DEF Reports, c

LEMMA FaithfulBars ==
  ASSUME SlotsRight, Faithful
  PROVE  BarsFaithful
  <1> SUFFICES ASSUME NEW s \in Slots,
                      NEW b \in {bars[s], popped[s]} \cup
                                {rows[t].bar : t \in Present(rows) \cap {s}},
                      b # None
               PROVE  Reports(log, b) /\ \A i \in b.obs : log[i].slot = s
    BY DEF BarsFaithful
  <1>1. CASE b \in {bars[s], popped[s]}
    BY <1>1 DEF Faithful, SlotsRight, OfSlot, InBars, InPopped
  <1>2. CASE b \in {rows[t].bar : t \in Present(rows) \cap {s}}
    <2>1. rows[s] # None /\ b = rows[s].bar
      BY <1>2, InPresent
    <2> QED
      BY <2>1 DEF Faithful, SlotsRight, OfSlot, InRow
  <1> QED
    BY <1>1, <1>2

(* Buckets and rows are made from the log. *)
LEMMA HeldMade ==
  ASSUME TypeOK, SlotsRight, NEW s \in Slots
  PROVE  /\ bars[s] # None => MadeFrom(log, bars[s])
         /\ popped[s] # None => MadeFrom(log, popped[s])
         /\ rows[s] # None => MadeFrom(log, rows[s].bar)
         /\ MadeFrom(log, BucketAt(s))
  <1>1. log \in Seq(Observation)
    BY DEF TypeOK
  <1>2. bars[s] # None => bars[s] \in Bucket /\ bars[s].obs \subseteq 1..Len(log)
    BY DEF TypeOK, SlotsRight, OfSlot, InBars
  <1>3. popped[s] # None => popped[s] \in Bucket /\ popped[s].obs \subseteq 1..Len(log)
    BY DEF TypeOK, SlotsRight, OfSlot, InPopped
  <1>4. rows[s] # None => rows[s].bar \in Bucket /\ rows[s].bar.obs \subseteq 1..Len(log)
    BY ObsTypes, InPresent DEF SlotsRight, OfSlot, InRow
  <1>5. EmptyBucket \in Bucket /\ EmptyBucket.obs = {}
    BY EmptyBucketType DEF EmptyBucket
  <1> QED
    BY <1>1, <1>2, <1>3, <1>4, <1>5 DEF MadeFrom, BucketAt

LEMMA FaithfulAccept ==
  ASSUME TypeOK, SlotsRight, Faithful, NEW t \in Slots, NEW o, NEW bucket,
         log' = Append(log, o), bars' = [bars EXCEPT ![t] = bucket],
         UNCHANGED <<popped, rows>>, Reports(Append(log, o), bucket)
  PROVE  Faithful'
  <1> SUFFICES ASSUME NEW s \in Slots
               PROVE  /\ bars'[s] # None => Reports(log', bars'[s])
                      /\ popped[s] # None => Reports(log', popped[s])
                      /\ rows[s] # None => Reports(log', rows[s].bar)
    BY DEF Faithful
  <1>1. popped[s] # None => Reports(log', popped[s])
    BY HeldMade, AppendReports DEF Faithful
  <1>2. rows[s] # None => Reports(log', rows[s].bar)
    BY HeldMade, AppendReports DEF Faithful
  <1>3. bars[s] # None => Reports(log', bars[s])
    BY HeldMade, AppendReports DEF Faithful
  <1>4. bars'[s] = IF s = t THEN bucket ELSE bars[s]
    BY DEF TypeOK
  <1> QED
    BY <1>1, <1>2, <1>3, <1>4

LEMMA FaithfulFeed ==
  ASSUME TypeOK, SlotsRight, Faithful, Feed
  PROVE  Faithful'
  <1>1. ASSUME NEW t \in Slots
        PROVE  MadeFrom(log, BucketAt(t)) /\ Reports(log, BucketAt(t))
    BY HeldMade, EmptyReports DEF Faithful, BucketAt
  <1>2. ASSUME NEW key \in Keys, NEW q \in Quotes, OnQuote(key, q[1], q[2])
        PROVE  Faithful'
    <2> DEFINE t == <<key, MinuteOf(now)>>
               mark == Mark(q[1], q[2])
               o == [slot |-> t, life |-> life, mark |-> mark,
                     bid |-> q[1], ask |-> q[2], greeks |-> None]
               bucket == UpdatePrice(BucketAt(t), mark, q[1], q[2], Len(log) + 1)
    <2>1. FeedOpen /\ mark # None /\ Accept(t, mark, q[1], q[2], None, bucket)
      BY <1>2 DEF OnQuote
    <2>2. q[1] \in Price /\ q[2] \in Price
      BY PipelineAssumption
    <2>3. mark \in Price
      BY <2>2, MarkType
    <2>4. t \in Slots
      BY <2>1, FeedTypes
    <2> HIDE DEF t, mark
    <2>5. /\ o \in Observation /\ o.mark = mark /\ o.bid = q[1] /\ o.ask = q[2]
          /\ o.greeks = None
      BY <2>2, <2>3, <2>4 DEF TypeOK, Observation
    <2>6. /\ log' = Append(log, o) /\ bars' = [bars EXCEPT ![t] = bucket]
          /\ UNCHANGED <<popped, rows>>
      BY <2>1 DEF Accept
    <2> HIDE DEF o
    <2>7. Reports(Append(log, o), bucket)
      BY <1>1, <2>1, <2>4, <2>5, UpdatePriceReports
    <2> HIDE DEF bucket
    <2> QED
      BY <2>4, <2>6, <2>7, FaithfulAccept
  <1>3. ASSUME NEW key \in OptionIds, NEW g \in Greeks, OnOptionGreeks(key, g)
        PROVE  Faithful'
    <2> DEFINE t == <<key, MinuteOf(now)>>
               o == [slot |-> t, life |-> life, mark |-> None,
                     bid |-> None, ask |-> None, greeks |-> g]
               bucket == UpdateGreeks(BucketAt(t), g, Len(log) + 1)
    <2>1. FeedOpen /\ Accept(t, None, None, None, g, bucket)
      BY <1>3 DEF OnOptionGreeks
    <2>2. t \in Slots
      BY <2>1, FeedTypes DEF Keys
    <2> HIDE DEF t
    <2>3. o \in Observation /\ o.mark = None /\ o.greeks = g
      BY <2>2 DEF TypeOK, Observation, Price
    <2>4. g # None
      BY PipelineAssumption
    <2>5. /\ log' = Append(log, o) /\ bars' = [bars EXCEPT ![t] = bucket]
          /\ UNCHANGED <<popped, rows>>
      BY <2>1 DEF Accept
    <2> HIDE DEF o
    <2>6. Reports(Append(log, o), bucket)
      BY <1>1, <2>2, <2>3, <2>4, UpdateGreeksReports
    <2> HIDE DEF bucket
    <2> QED
      BY <2>2, <2>5, <2>6, FaithfulAccept
  <1> QED
    BY <1>2, <1>3 DEF Feed

(* Where the buckets and rows of the next state come from. *)
Sources ==
  /\ log' = log
  /\ \A s \in Slots :
       /\ \/ bars'[s] \in {None, bars[s], popped[s]}
          \/ /\ bars[s] # None /\ popped[s] # None
             /\ bars'[s] = MergeOlder(bars[s], popped[s])
       /\ popped'[s] \in {None, bars[s], popped[s]}
       /\ \/ rows'[s] = rows[s]
          \/ rows'[s] # None /\ rows'[s].bar = EmptyBucket
          \/ popped[s] # None /\ rows'[s].bar = popped[s]

LEMMA StepSources ==
  ASSUME TypeOK, Stages, [Next]_vars, ~Feed
  PROVE  Sources
  <1>1. ASSUME rows' = RowsInserted, NEW s \in Slots
        PROVE  rows'[s] = rows[s] \/ (popped[s] # None /\ rows'[s].bar = popped[s])
    BY <1>1, InPresent DEF RowsInserted, RowOf, TypeOK
  <1>2. CASE Tick \/ Refresh \/ UNCHANGED vars
    BY <1>2 DEF Tick, Refresh, vars, Sources
  <1>3. ASSUME NEW s \in Slots, BackfillInserts(s)
        PROVE  Sources
    <2>1. BackfilledRow.bar = EmptyBucket /\ BackfilledRow # None
      BY RowTypes, PipelineAssumption DEF BackfilledRow
    <2>2. \A u \in Slots : rows'[u] = rows[u] \/ rows'[u] = BackfilledRow
      BY <1>3 DEF BackfillInserts, TypeOK
    <2> QED
      BY <1>3, <2>1, <2>2 DEF BackfillInserts, Sources
  <1>4. CASE FlushReadyBars \/ Close
    BY <1>4 DEF FlushReadyBars, Close, Pop, Sources
  <1>5. CASE WriteCommits
    BY <1>1, <1>5 DEF WriteCommits, NextStage, Sources
  <1>6. ASSUME NEW landed \in BOOLEAN, WriteRaises(landed)
        PROVE  Sources
    <2>1. \A s \in Slots : \/ bars'[s] \in {None, bars[s], popped[s]}
                           \/ /\ bars[s] # None /\ popped[s] # None
                              /\ bars'[s] = MergeOlder(bars[s], popped[s])
      BY <1>6, BatchPresent, InPresent DEF WriteRaises
    <2>2. \A s \in Slots : popped'[s] \in {None, bars[s], popped[s]}
      BY <1>6 DEF WriteRaises, NextStage
    <2>3. rows' = RowsInserted \/ rows' = rows
      BY <1>6 DEF WriteRaises
    <2> QED
      BY <1>1, <1>6, <2>1, <2>2, <2>3 DEF WriteRaises, Sources
  <1>7. ASSUME NEW landed \in BOOLEAN, Cancel(landed) \/ Crash(landed)
        PROVE  Sources
    <2>1. rows' = RowsInserted \/ rows' = rows
      BY <1>7 DEF Cancel, Crash, Abandon
    <2>2. \A s \in Slots : popped'[s] = None /\ bars'[s] \in {None, bars[s]}
      BY <1>7 DEF Cancel, Crash, Abandon, NoBars
    <2> QED
      BY <1>1, <1>7, <2>1, <2>2 DEF Cancel, Crash, Abandon, Sources
  <1>8. CASE Exit \/ Restart
    BY <1>8 DEF Exit, Restart, NoBars, Sources
  <1> QED
    BY <1>2, <1>3, <1>4, <1>5, <1>6, <1>7, <1>8 DEF Next

LEMMA FaithfulStep ==
  ASSUME TypeOK, Stages, SlotsRight, PoppedOlder, Faithful, [Next]_vars
  PROVE  Faithful'
  <1>1. CASE Feed
    BY <1>1, FaithfulFeed
  <1>2. CASE ~Feed
    <2>1. Sources
      BY <1>2, StepSources
    <2> SUFFICES ASSUME NEW s \in Slots
                 PROVE  /\ bars'[s] # None => Reports(log, bars'[s])
                        /\ popped'[s] # None => Reports(log, popped'[s])
                        /\ rows'[s] # None => Reports(log, rows'[s].bar)
      BY <2>1 DEF Faithful, Sources
    <2>2. /\ bars[s] # None => Reports(log, bars[s])
          /\ popped[s] # None => Reports(log, popped[s])
          /\ rows[s] # None => Reports(log, rows[s].bar)
      BY DEF Faithful
    <2>3. bars[s] # None /\ popped[s] # None =>
            Reports(log, MergeOlder(bars[s], popped[s]))
      BY <2>2, HeldMade, MergeReports DEF PoppedOlder, InBars, InPopped
    <2> QED
      BY <2>1, <2>2, <2>3, EmptyReports DEF Sources
  <1> QED
    BY <1>1, <1>2

-----------------------------------------------------------------------------
(* The theorems. *)

LEMMA InvInit == Init => Inv
  <1>1. Init => Faithful
    BY DEF Init, NoBars, Faithful
  <1> QED
    BY <1>1, TypeInit, AccountedInit, WholeInit DEF Inv

LEMMA InvStep == Inv /\ [Next]_vars => Inv'
  <1> SUFFICES ASSUME Inv, [Next]_vars
               PROVE  Inv'
    OBVIOUS
  <1>1. TypeOK' /\ Stages'
    BY TypeStep DEF Inv
  <1>2. SlotsRight' /\ PoppedOlder' /\ Accounted'
    BY AccountedStep DEF Inv
  <1>3. Whole'
    BY WholeStep DEF Inv
  <1>4. Faithful'
    BY FaithfulStep DEF Inv
  <1> QED
    BY <1>1, <1>2, <1>3, <1>4 DEF Inv

(* The inductive invariant holds in every reachable state. *)
THEOREM Invariant == Spec => []Inv
  BY InvInit, InvStep, PTL DEF Spec

(***************************************************************************)
(* The variables keep their types, and something is popped exactly while   *)
(* a write is awaited: about every handler of the pipeline.                *)
(***************************************************************************)
THEOREM TypeCorrect == Spec => []TypeOK
  <1>1. Inv => TypeOK
    BY DEF Inv
  <1> QED
    BY <1>1, Invariant, PTL

(***************************************************************************)
(* Whatever fails, in whatever order, no observation vanishes or is        *)
(* counted twice: about pop_ready and restore around the two writes.       *)
(***************************************************************************)
THEOREM EveryObservationAccounted == Spec => []Accounted
  <1>1. Inv => Accounted
    BY DEF Inv
  <1> QED
    BY <1>1, Invariant, PTL

(***************************************************************************)
(* Every bucket and row is the OHLC, the sides and the Greeks of exactly   *)
(* the observations it was made from: about update_price, update_greeks    *)
(* and merge_older.                                                        *)
(***************************************************************************)
THEOREM BarsReportTheirObservations == Spec => []BarsFaithful
  <1>1. Inv => BarsFaithful
    BY FaithfulBars DEF Inv
  <1> QED
    BY <1>1, Invariant, PTL

(***************************************************************************)
(* A row the flush loop wrote has the whole minute, and stays so: about    *)
(* the due time of pop_ready.                                              *)
(***************************************************************************)
THEOREM FlushedMinutesAreWhole == Spec => []WholeMinute
  <1>1. Inv => WholeMinute
    BY DEF Inv, Whole
  <1> QED
    BY <1>1, Invariant, PTL

(***************************************************************************)
(* What a retry finds in the table is what it would write: about restore   *)
(* after a commit that landed, and insert_ignore.                          *)
(***************************************************************************)
THEOREM RetriesDiscardNothing == Spec => []RetryHarmless
  <1>1. Inv => RetryHarmless
    BY DEF Inv, Whole
  <1> QED
    BY <1>1, Invariant, PTL

(* No step changes a row that exists. *)
LEMMA RowsKept ==
  ASSUME TypeOK, [Next]_vars, NEW s \in Present(rows)
  PROVE  rows'[s] = rows[s]
  <1>1. s \in Slots /\ rows[s] # None
    BY InPresent
  <1>2. RowsInserted[s] = rows[s]
    BY <1>1 DEF RowsInserted
  <1>3. CASE Feed
    BY <1>3 DEF Feed, OnQuote, OnOptionGreeks, Accept
  <1>4. ASSUME NEW u \in Slots, BackfillInserts(u)
        PROVE  rows'[s] = rows[s]
    BY <1>1, <1>4 DEF BackfillInserts, TypeOK
  <1>5. ASSUME ~Feed, ~\E u \in Slots : BackfillInserts(u)
        PROVE  rows' = rows \/ rows' = RowsInserted
    BY <1>5 DEF Next, vars, Tick, Refresh, FlushReadyBars, Pop, WriteCommits,
                WriteRaises, Cancel, Abandon, Close, Exit, Crash, Restart
  <1> QED
    BY <1>2, <1>3, <1>4, <1>5

(***************************************************************************)
(* A row that was written stays as it is: about insert_ignore.             *)
(***************************************************************************)
THEOREM RowsNeverChange == Spec => RowsImmutable
  <1>1. TypeOK /\ [Next]_vars => [\A s \in Present(rows) : rows'[s] = rows[s]]_rows
    BY RowsKept
  <1> QED
    BY <1>1, TypeCorrect, PTL DEF Spec, RowsImmutable

-----------------------------------------------------------------------------
(* Refinement of BarLedger. *)

SlotOf == [i \in 1..Len(log) |-> log[i].slot]

Table == [s \in Slots |-> IF rows[s] = None THEN {} ELSE {rows[s].bar.obs}]

Running == phase = "running"

LEMMA SlotOfType ==
  ASSUME TypeOK
  PROVE  SlotOf \in Seq(Slots) /\ Len(SlotOf) = Len(log)
  <1>1. Len(log) \in Nat /\ \A i \in 1..Len(log) : log[i] \in Observation
    BY DEF TypeOK
  <1>2. \A o \in Observation : o.slot \in Slots
    BY DEF Observation
  <1> QED
    BY <1>1, <1>2 DEF SlotOf

(* The rows added by a step that accepts nothing report what was in hand. *)
LEMMA RowsAddedStep ==
  ASSUME TypeOK, Stages, SlotsRight, PoppedOlder, [Next]_vars, ~Feed
  PROVE  \A s \in Slots :
           \/ Table'[s] = Table[s]
           \/ Table[s] = {} /\ \E S \in SUBSET Held : Table'[s] = {S}
  <1> SUFFICES ASSUME NEW s \in Slots, Table'[s] # Table[s]
               PROVE  Table[s] = {} /\ \E S \in SUBSET Held : Table'[s] = {S}
    OBVIOUS
  <1>1. rows[s] = None /\ rows'[s] # None
    BY RowsKept, InPresent DEF Table
  <1>2. rows'[s].bar = EmptyBucket \/ (popped[s] # None /\ rows'[s].bar = popped[s])
    BY <1>1, StepSources DEF Sources
  <1>3. rows'[s].bar.obs \subseteq Held
    BY <1>2, HeldBySlot DEF InHands, InPopped, EmptyBucket
  <1> QED
    BY <1>1, <1>3 DEF Table

LEMMA HeldShrinks ==
  ASSUME Settles
  PROVE  Held' \subseteq Held
  BY HeldBySlot, HeldBySlotNext DEF Settles

(***************************************************************************)
(* Only a commit lets go of observations while the service is up: those it *)
(* wrote, those whose row existed, and those of its batch whose option was *)
(* found untracked.                                                        *)
(***************************************************************************)
LEMMA LetGo ==
  ASSUME TypeOK, Stages, SlotsRight, PoppedOlder, [Next]_vars, ~Feed,
         phase = "running", phase' = "running", NEW i \in Held \ Held'
  PROVE  i \in Untracked \/ Table'[SlotOf[i]] # {}
  <1>1. PICK s \in Slots : i \in InHands(s)
    BY HeldBySlot
  <1>2. i \in 1..Len(log) /\ SlotOf[i] = s
    BY <1>1, OneSlot DEF SlotOf
  <1>3. i \notin InHands(s)'
    BY HeldBySlotNext
  <1>4. CASE WriteCommits
    <2>1. s \in Batch /\ i \in InPopped(s) /\ rows' = RowsInserted
      BY <1>1, <1>3, <1>4, NextStageMoves DEF WriteCommits, InHands, InBars
    <2>2. CASE s \in writing
      <3>1. rows'[s] # None
        BY <2>1, <2>2, RowTypes, InPresent, PipelineAssumption DEF RowsInserted, TypeOK
      <3> QED
        BY <1>2, <3>1 DEF Table
    <2>3. CASE s \notin writing
      <3>1. i \in popped[s].obs /\ s \in Batch \ writing
        BY <2>1, <2>3 DEF InPopped
      <3> QED
        BY <3>1 DEF Untracked, ObsIn
    <2> QED
      BY <2>2, <2>3
  <1>5. ASSUME InHands(s)' = InHands(s)
        PROVE  FALSE
    BY <1>1, <1>3, <1>5
  <1>6. ASSUME UNCHANGED <<bars, popped>>
        PROVE  FALSE
    BY <1>5, <1>6 DEF InHands, InBars, InPopped
  <1>7. CASE FlushReadyBars
    <2>1. InPopped(s) = {}
      BY <1>7 DEF FlushReadyBars, TypeOK, NoBars, InPopped
    <2>2. InHands(s)' = InHands(s)
      BY <1>7, <2>1 DEF FlushReadyBars, Pop, InHands, InBars, InPopped
    <2> QED
      BY <1>5, <2>2
  <1>8. ASSUME NEW landed \in BOOLEAN, WriteRaises(landed)
        PROVE  FALSE
    <2>1. InHands(s)' = InHands(s)
      BY <1>8, RestoreMoves, NextStageMoves DEF WriteRaises, InHands
    <2> QED
      BY <1>5, <2>1
  <1> QED
    BY <1>4, <1>6, <1>7, <1>8
       DEF Next, vars, Tick, Refresh, BackfillInserts, Cancel, Close, Exit, Crash, Restart

(* Only the option write leaves bars out. *)
LEMMA NoneUntracked ==
  ASSUME TypeOK, Stages, stage # "option"
  PROVE  Untracked = {}
  <1>1. Batch \ writing = {}
    <2>1. CASE stage = "idle"
      BY <2>1, BatchPresent DEF TypeOK, NoBars, Present
    <2>2. CASE stage = "underlying"
      BY <2>2, BatchPresent DEF Stages
    <2> QED
      BY <2>1, <2>2 DEF TypeOK
  <1> QED
    BY <1>1 DEF Untracked, ObsIn

LEMMA NoneUntrackedNext ==
  ASSUME TypeOK', Stages', stage' # "option"
  PROVE  Untracked' = {}
  <1>1. Batch' \subseteq Present(popped)'
    BY DEF Batch
  <1>2. (Batch \ writing)' = {}
    <2>1. CASE stage' = "idle"
      BY <1>1, <2>1 DEF TypeOK, NoBars, Present
    <2>2. CASE stage' = "underlying"
      BY <1>1, <2>2 DEF Stages
    <2> QED
      BY <2>1, <2>2 DEF TypeOK
  <1> QED
    BY <1>2 DEF Untracked, ObsIn

LEMMA UntrackedHeldNext ==
  ASSUME TypeOK'
  PROVE  Untracked' \subseteq Held'
  BY DEF Untracked, ObsIn, Held, Obs, Batch

(* A flush leaves out the bars of options that are not tracked, no other. *)
LEMMA FlushReleases ==
  ASSUME TypeOK, Stages, SlotsRight, PoppedOlder, TypeOK', Stages', FlushReadyBars,
         NEW i \in Untracked'
  PROVE  SlotOf[i] \in SlotsOf(OptionIds) \ SlotsOf(tracked)
  <1>1. stage' = "option"
    BY NoneUntrackedNext
  <1>2. PICK s \in Batch' \ writing' : i \in popped'[s].obs
    BY DEF Untracked, ObsIn
  <1>3. s \in SlotsOf(OptionIds) /\ popped'[s] # None
    BY <1>1, <1>2 DEF Batch, Present
  <1>4. s \in Slots
    BY <1>3 DEF SlotsOf
  <1>5. s[1] \notin tracked
    BY <1>1, <1>2, <1>3, <1>4 DEF FlushReadyBars, Pop, RowsFor, Present
  <1>6. i \in InHands(s)
    <2>1. InPopped(s) = {}
      BY <1>4 DEF FlushReadyBars, TypeOK, NoBars, InPopped
    <2>2. InHands(s)' = InHands(s)
      BY <1>4, <2>1 DEF FlushReadyBars, Pop, InHands, InBars, InPopped
    <2> QED
      BY <1>2, <1>3, <2>2 DEF InHands, InPopped
  <1>7. SlotOf[i] = s
    BY <1>4, <1>6, OneSlot DEF SlotOf
  <1> QED
    BY <1>3, <1>5, <1>7 DEF SlotsOf

(***************************************************************************)
(* The pipeline implements BarLedger: what it accepts it keeps until a row *)
(* of its slot exists, unless its option was untracked when the rows were  *)
(* built, or the service stops.                                            *)
(***************************************************************************)
THEOREM PipelineKeepsLedger == Spec => ImplementsLedger
  <1>1. Init => Ledger!Init
    <2> SUFFICES ASSUME Init
                 PROVE  Ledger!Init
      OBVIOUS
    <2>1. \A s \in Slots : InHands(s) = {}
      BY DEF Init, NoBars, InHands, InBars, InPopped
    <2>2. Held = {}
      BY <2>1, HeldBySlot
    <2>3. SlotOf = <<>>
      BY DEF Init, SlotOf
    <2> QED
      <3>1. Batch = {} /\ tracked \in SUBSET OptionIds
        BY BatchPresent DEF Init, NoBars, Present
      <3>2. Untracked = {} /\ SlotsOf(tracked) \in SUBSET SlotsOf(OptionIds)
        BY <3>1 DEF Untracked, ObsIn, SlotsOf
      <3> QED
        BY <2>2, <2>3, <3>2 DEF Init, NoBars, Ledger!Init, SlotOf
  <1>2. Inv /\ [Next]_vars => [Ledger!Next]_(Ledger!vars)
    <2> SUFFICES ASSUME Inv, [Next]_vars
                 PROVE  Ledger!Next
      OBVIOUS
    <2>1. CASE Feed
      <3>1. PICK t \in Slots : \E o : Observes(t, o)
        BY <2>1, FeedObserves DEF Inv
      <3>2. PICK o : Observes(t, o)
        BY <3>1
      <3>3. SlotOf' = Append(SlotOf, t)
        <4>1. log' = Append(log, o) /\ o.slot = t /\ log \in Seq(Observation)
          BY <3>2 DEF Observes, Inv, TypeOK
        <4>2. SlotOf \in Seq(Slots) /\ Len(SlotOf) = Len(log)
          BY SlotOfType DEF Inv
        <4>3. Len(log') = Len(log) + 1 /\ \A i \in 1..Len(log) : log'[i] = log[i]
          BY <4>1
        <4>4. log'[Len(log) + 1] = o
          BY <4>1
        <4> QED
          BY <4>1, <4>2, <4>3, <4>4 DEF SlotOf
      <3>4. Held' = Held \cup {Len(SlotOf) + 1}
        <4>1. \A s \in Slots : InHands(s)' = IF s = t THEN InHands(s) \cup {Len(log) + 1}
                                                  ELSE InHands(s)
          BY <3>2 DEF Observes, InHands, InPopped
        <4>2. Len(SlotOf) = Len(log)
          BY SlotOfType DEF Inv
        <4> QED
          BY <4>1, <4>2, HeldBySlot, HeldBySlotNext
      <3>5. Table' = Table /\ Running' = Running
        BY <3>2 DEF Observes, Table, Running
      <3>6. Untracked' = Untracked /\ SlotsOf(tracked)' = SlotsOf(tracked)
        BY <3>2 DEF Observes, Untracked, ObsIn, Batch, Present, SlotsOf
      <3>7. Ledger!Accept(t)
        BY <3>3, <3>4, <3>5, <3>6 DEF Ledger!Accept, SlotOf, Table, Running
      <3> QED
        BY <3>7 DEF Ledger!Next
    <2>2. CASE ~Feed
      <3>1. Settles
        BY <2>2, StepSettles DEF Inv
      <3>2. Ledger!RowsAdded
        BY <2>2, RowsAddedStep DEF Inv, Ledger!RowsAdded, Table
      <3>3. Held' \subseteq Held /\ SlotOf' = SlotOf
        BY <3>1, HeldShrinks DEF Settles, SlotOf
      <3>4. Inv'
        BY InvStep
      <3>5. tracked \subseteq OptionIds /\ tracked' \subseteq OptionIds
        BY <3>4 DEF Inv, TypeOK
      <3>6. SlotsOf(tracked) \in SUBSET SlotsOf(OptionIds)
            /\ SlotsOf(tracked)' \in SUBSET SlotsOf(OptionIds)
        BY <3>5 DEF SlotsOf
      <3>7. CASE phase' # "running"
        <4>1. tracked' = tracked
          BY <2>2, <3>7 DEF Next, vars, Tick, Refresh, BackfillInserts, FlushReadyBars, Pop,
                            WriteCommits, WriteRaises, Cancel, Close, Exit, Crash, Restart, Abandon
        <4>2. SlotsOf(tracked)' = SlotsOf(tracked)
          BY <4>1 DEF SlotsOf
        <4>3. Untracked' \subseteq Held'
          BY <3>4, UntrackedHeldNext DEF Inv
        <4>4. Ledger!Stop
          BY <3>2, <3>3, <3>7, <4>2, <4>3 DEF Ledger!Stop, SlotOf
        <4> QED
          BY <4>4 DEF Ledger!Next
      <3>8. CASE phase = "running" /\ phase' = "running"
        <4>1. CASE Refresh
          <5>1. \A s \in Slots : InHands(s)' = InHands(s)
            BY <4>1 DEF Refresh, InHands, InBars, InPopped
          <5>2. Held' = Held /\ Table' = Table
            BY <4>1, <5>1, HeldBySlot, HeldBySlotNext DEF Refresh, Table
          <5>3. Untracked' = Untracked
            BY <4>1 DEF Refresh, Untracked, ObsIn, Batch, Present
          <5>4. Ledger!Retrack
            BY <3>3, <3>6, <3>8, <5>2, <5>3 DEF Ledger!Retrack, SlotOf, Table
          <5> QED
            BY <5>4 DEF Ledger!Next
        <4>2. CASE FlushReadyBars
          <5>1. \A i \in Untracked' \ Untracked : SlotOf[i] \in SlotsOf(OptionIds) \ SlotsOf(tracked)
            BY <3>4, <4>2, FlushReleases DEF Inv
          <5>2. Held' = Held
            <6>1. \A s \in Slots : InPopped(s) = {}
              BY <4>2 DEF Inv, FlushReadyBars, TypeOK, NoBars, InPopped
            <6>2. \A s \in Slots : InHands(s)' = InHands(s)
              BY <4>2, <6>1 DEF FlushReadyBars, Pop, InHands, InBars, InPopped
            <6> QED
              BY <6>2, HeldBySlot, HeldBySlotNext
          <5>3. Untracked' \subseteq Held
            BY <3>4, <5>2, UntrackedHeldNext DEF Inv
          <5>4. Table' = Table /\ SlotsOf(tracked)' = SlotsOf(tracked)
            BY <4>2 DEF FlushReadyBars, Pop, Table, SlotsOf
          <5>5. Ledger!Release
            BY <3>3, <3>8, <5>1, <5>2, <5>3, <5>4 DEF Ledger!Release, SlotOf, Table
          <5> QED
            BY <5>5 DEF Ledger!Next
        <4>3. CASE ~Refresh /\ ~FlushReadyBars
          <5>1. \A i \in Held \ Held' : Ledger!MayLetGo(i)
            BY <2>2, <3>8, LetGo DEF Inv, Ledger!MayLetGo, SlotOf, Table
          <5>2. tracked' = tracked
            BY <2>2, <3>8, <4>3 DEF Next, vars, Tick, BackfillInserts, WriteCommits, WriteRaises,
                                    Cancel, Close, Exit, Crash, Restart
          <5>3. SlotsOf(tracked)' = SlotsOf(tracked)
            BY <5>2 DEF SlotsOf
          <5>4. Untracked' \subseteq Untracked
            <6>1. ASSUME UNCHANGED <<stage, popped, writing>>
                  PROVE  Untracked' = Untracked
              BY <6>1 DEF Untracked, ObsIn, Batch, Present
            <6>2. CASE NextStage
              <7>1. stage' # "option"
                BY <6>2 DEF NextStage
              <7> QED
                BY <3>4, <7>1, NoneUntrackedNext DEF Inv
            <6>3. UNCHANGED <<stage, popped, writing>> \/ NextStage
              BY <2>2, <3>8, <4>3 DEF Next, vars, Tick, BackfillInserts, WriteCommits, WriteRaises,
                                      Cancel, Close, Exit, Crash, Restart
            <6> QED
              BY <6>1, <6>2, <6>3
          <5>5. Ledger!Write
            BY <3>2, <3>3, <3>8, <5>1, <5>3, <5>4 DEF Ledger!Write, SlotOf
          <5> QED
            BY <5>5 DEF Ledger!Next
        <4> QED
          BY <4>1, <4>2, <4>3
      <3>9. CASE phase # "running" /\ phase' = "running"
        <4>1. Restart
          BY <2>2, <3>9 DEF Next, vars, Tick, Refresh, BackfillInserts, FlushReadyBars,
                            WriteCommits, WriteRaises, Cancel, Close, Exit, Crash
        <4>2. Held = {} /\ Held' = {}
          <5>1. \A s \in Slots : InHands(s) = {} /\ InHands(s)' = {}
            BY <4>1 DEF Restart, Inv, TypeOK, Stages, NoBars, InHands, InBars, InPopped
          <5> QED
            BY <5>1, HeldBySlot, HeldBySlotNext
        <4>3. Table' = Table /\ Untracked' = Untracked
          BY <4>1 DEF Restart, Table, Untracked, ObsIn, Batch, Present
        <4>4. Ledger!Start
          BY <3>3, <3>6, <3>9, <4>2, <4>3 DEF Ledger!Start, SlotOf, Table
        <4> QED
          BY <4>4 DEF Ledger!Next
      <3> QED
        BY <3>7, <3>8, <3>9
    <2> QED
      BY <2>1, <2>2
  <1> QED
    BY <1>1, <1>2, Invariant, PTL DEF Spec, ImplementsLedger, Ledger!Spec
=============================================================================
