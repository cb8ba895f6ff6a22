------------------------------ MODULE BarLedger ------------------------------
(***************************************************************************)
(* What the ingestion pipeline promises of the observations it accepts,    *)
(* with no bucket, flush loop or transaction in it.                        *)
(*                                                                         *)
(* An observation is known by its number; it belongs to a slot, which is   *)
(* an instrument and a minute.  The service holds it until the bar table   *)
(* has a row for that slot.  While the service is up it may let go of one  *)
(* without a row in a single case: the option was not tracked when the row *)
(* of its slot was to be built, and the batch it was in then went through. *)
(* A bar of an option that is tracked is never let go, and neither is one  *)
(* of an underlying.  Only a service that stops may lose what it holds.  A *)
(* row is written once.                                                    *)
(***************************************************************************)
EXTENDS Naturals, Sequences

CONSTANTS Slots,        \* instrument-and-minute pairs: the key of the bar tables
          OptionSlots   \* those of option contracts

VARIABLES slotOf,    \* slot of every accepted observation, in order of acceptance
          held,      \* observations in the service's hands
          released,  \* those of them whose option was found untracked
          table,     \* slot -> its rows (none or one), as the observations reported
          tracked,   \* slots of the options that are tracked
          running    \* is the service up and not asked to stop

vars == <<slotOf, held, released, table, tracked, running>>

Init ==
  /\ slotOf = <<>>
  /\ held = {}
  /\ released = {}
  /\ table = [s \in Slots |-> {}]
  /\ tracked \in SUBSET OptionSlots
  /\ running = TRUE

Accept(s) ==
  /\ slotOf' = Append(slotOf, s)
  /\ held' = held \cup {Len(slotOf) + 1}
  /\ UNCHANGED <<released, table, tracked, running>>

Retrack ==
  /\ tracked' \in SUBSET OptionSlots
  /\ UNCHANGED <<slotOf, held, released, table, running>>

(* Rows are to be built, and some bars turn out to be of untracked options. *)
Release ==
  /\ released' \subseteq held
  /\ \A i \in released' \ released : slotOf[i] \in OptionSlots \ tracked
  /\ UNCHANGED <<slotOf, held, table, tracked, running>>

(***************************************************************************)
(* Rows appear for slots that had none, each from observations that were   *)
(* in hand (none of them, when another program wrote the row).             *)
(***************************************************************************)
RowsAdded ==
  \A s \in Slots :
    \/ table'[s] = table[s]
    \/ table[s] = {} /\ \E S \in SUBSET held : table'[s] = {S}

(***************************************************************************)
(* What may be let go while the service stays up.                          *)
(***************************************************************************)
MayLetGo(i) == i \in released \/ table'[slotOf[i]] # {}

(* A write ends.  If it failed, what was released is taken back in hand. *)
Write ==
  /\ RowsAdded
  /\ held' \subseteq held
  /\ \A i \in held \ held' : MayLetGo(i)
  /\ released' \subseteq released
  /\ UNCHANGED <<slotOf, tracked, running>>

Stop ==
  /\ RowsAdded
  /\ held' \subseteq held
  /\ released' \subseteq held'
  /\ running' = FALSE
  /\ UNCHANGED <<slotOf, tracked>>

Start ==
  /\ ~running
  /\ held = {}
  /\ tracked' \in SUBSET OptionSlots
  /\ running' = TRUE
  /\ UNCHANGED <<slotOf, held, released, table>>

Next ==
  \/ \E s \in Slots : Accept(s)
  \/ Retrack
  \/ Release
  \/ Write
  \/ Stop
  \/ Start

Spec == Init /\ [][Next]_vars
=============================================================================
