-------------------------- MODULE MCDailyBackfill --------------------------
(* Small instances of DailyBackfill for TLC. *)
EXTENDS DailyBackfill

CONSTANTS c1, SPX

MCPrograms == {"ingestion", "backfill"}
MCOptions == {c1}
MCTickers == {SPX}

(* c1 has expired when the clock has moved on. *)
MCListed == [c \in Options |-> 0]
MCExpires == [c \in Options |-> 0]
MCRunTimes == {2}
MCSessions == {<<0, 0>>, <<1, 2>>}
MCDegraded == {<<SPX, 1>>}
=============================================================================
