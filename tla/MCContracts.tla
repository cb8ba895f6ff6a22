---------------------------- MODULE MCContracts ----------------------------
(* Small instances of Contracts for TLC. *)
EXTENDS Contracts

CONSTANTS c1, c2, c3, SPX, NDX, ingestion, poller

MCPrograms == {ingestion, poller}
MCPollers == {poller}

(* One contract of SPX expires when the other is listed; NDX has one all along. *)
MCOptions == {c1, c2, c3}
MCOrder == <<SPX, NDX>>
MCUnderlying == [c \in Options |-> IF c = c3 THEN NDX ELSE SPX]
MCListed == [c \in Options |-> IF c = c2 THEN 1 ELSE 0]
MCExpires == [c \in Options |-> IF c = c1 THEN 1 ELSE 9]
=============================================================================
