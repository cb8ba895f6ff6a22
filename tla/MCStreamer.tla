---------------------------- MODULE MCStreamer ----------------------------
(* Small instances of Streamer for TLC. *)
EXTENDS Streamer

MCUnderlyings == {"SPX"}
MCContracts == {"c1"}
(* Streamer, three tasks and a new connection: five names always suffice. *)
MCConns == 1..5

(***************************************************************************)
(* Constraint of the run that looks for a behaviour of the listeners alone:*)
(* nobody shuts the service down, and it is within its first refresh.      *)
(***************************************************************************)
ListenersAlone == closing = "no" /\ (started => at["refresh"] = "idle")
=============================================================================
