-------------------------------- MODULE MCApi --------------------------------
(* A small instance of Api for TLC. *)
EXTENDS Api

CONSTANTS SPX, C100

(***************************************************************************)
(* Two sessions, of two minutes and of one, with a minute of two ticks.    *)
(* The series have rows in the same minutes and in minutes of their own,   *)
(* SPX also one before the open.                                           *)
(***************************************************************************)
MCSessions == {<<2, 6>>, <<10, 12>>}
MCTicks == 0..13
MCRows == {<<SPX, 0>>, <<SPX, 2>>, <<SPX, 4>>, <<SPX, 10>>, <<SPX, 12>>, <<C100, 2>>, <<C100, 6>>}
MCAggPeriods == {2, 4}
MCAskedPeriods == {2, 4, 6}
MCAskedLimits == {0, 1, 2, 3}
MCAskedMinutes == 1..4
==============================================================================
