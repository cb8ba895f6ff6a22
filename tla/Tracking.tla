------------------------------ MODULE Tracking ------------------------------
(***************************************************************************)
(* What a ContractManager promises the programs that use one: a contract   *)
(* is tracked once it has been listed, stays so until the chain has        *)
(* dropped it, and has its row in `contracts` before it is tracked.  A row *)
(* may be there without anything being tracked: the refresh that wrote it  *)
(* raised, or a poller wrote the contracts it found by itself.             *)
(*                                                                         *)
(* Three programs have a manager: the ingestion service, the backfill job, *)
(* and the live options poller, which has a BackfillJob.  The table is all *)
(* they share.  Contracts implements this, and DailyBackfill is built on   *)
(* it.                                                                     *)
(***************************************************************************)
EXTENDS Naturals

CONSTANTS
  Programs,  \* the programs that have a manager
  Options,   \* option contracts
  Listed,    \* contract -> first time it is in the chain
  Expires,   \* contract -> last time it is in the chain
  MaxTime    \* bound: the clock stops here

Times == 0..MaxTime

ASSUME TrackingAssumption ==
  /\ Listed \in [Options -> Nat] /\ Expires \in [Options -> Nat]
  /\ MaxTime \in Nat

VARIABLES
  now,
  contracts,  \* the table: contracts that have a row
  tracked     \* program -> ContractManager._tracked

tracking == <<contracts, tracked>>

-----------------------------------------------------------------------------
TrackingInit == now = 0 /\ contracts = {} /\ tracked = [p \in Programs |-> {}]

Passes == now < MaxTime /\ now' = now + 1

(***************************************************************************)
(* A refresh of p succeeds: from now on it tracks S.  What is new may have *)
(* been read from the chain some time ago.                                 *)
(***************************************************************************)
TakesOver(p, S) ==
  /\ \A c \in S \ tracked[p] : Listed[c] <= now
  /\ \A c \in tracked[p] \ S : Expires[c] < now
  /\ contracts' = contracts \cup S
  /\ tracked' = [tracked EXCEPT ![p] = S]

(* Rows appear of contracts that have been listed, and nothing is tracked.  *)
Records(S) ==
  /\ \A c \in S : Listed[c] <= now
  /\ contracts' = contracts \cup S
  /\ UNCHANGED tracked

(* The process of p is gone, and its memory with it. *)
Ends(p) == tracked' = [tracked EXCEPT ![p] = {}] /\ UNCHANGED contracts

TrackingNext ==
  \/ Passes /\ UNCHANGED tracking
  \/ UNCHANGED now /\ \E p \in Programs : Ends(p)
  \/ UNCHANGED now /\ \E S \in SUBSET Options :
                        Records(S) \/ \E p \in Programs : TakesOver(p, S)

TrackingSpec == TrackingInit /\ [][TrackingNext]_<<now, tracking>>
=============================================================================
