----------------------------- MODULE Contracts -----------------------------
(***************************************************************************)
(* ContractManager, service/ingestion/contract_manager.py: which option    *)
(* contracts a program tracks.                                             *)
(*                                                                         *)
(* A refresh asks for the chain of one ticker after the other, takes over  *)
(* the contracts it tracks already, and lets a snapshot of the Greeks      *)
(* decide, once, about the new ones.  It writes what it has resolved to    *)
(* the table, and only then is it what the program tracks.  The programs   *)
(* share the table; one of them, the live options poller, also writes the  *)
(* contracts it found in the chain by itself (poll_ticker).                *)
(*                                                                         *)
(* The option chain is a function of time.  A contract is a model value;   *)
(* of its row the properties only need that it is there.                   *)
(***************************************************************************)
EXTENDS Naturals, Sequences

CONSTANTS
  Programs, Options, Listed, Expires, MaxTime,  \* as in Tracking
  Pollers,                            \* those that run live_options
  Order,                              \* the tickers of config.yaml, in their order
  Underlying                          \* contract -> its ticker

VARIABLES
  now, contracts, tracked,  \* as in Tracking
  at,        \* program -> the await it is suspended in; "off", or, between refreshes, "idle" or "raised"
  turn,      \* program -> number of the ticker its refresh is at
  chain,     \* program -> candidates that await the snapshot
  resolved,  \* program -> what the refresh has resolved so far
  known      \* program -> those of them that its _persist found in the table

Promise == INSTANCE Tracking

Tickers == {Order[i] : i \in 1..Len(Order)}

ASSUME ContractsAssumption ==
  /\ Listed \in [Options -> Nat] /\ Expires \in [Options -> Nat]
  /\ MaxTime \in Nat /\ Pollers \subseteq Programs
  /\ Order \in Seq(Tickers) /\ Len(Order) > 0
  /\ Underlying \in [Options -> Tickers]

refresh == <<turn, chain, resolved, known>>
vars == <<now, contracts, tracked, at, refresh>>

-----------------------------------------------------------------------------
Chain(t) == {c \in Options : Underlying[c] = t /\ Listed[c] <= now /\ now <= Expires[c]}

OfTicker(S, t) == {c \in S : Underlying[c] = t}

Goes(p, await) == at' = [at EXCEPT ![p] = await]

Set(f, p, value) == [f EXCEPT ![p] = value]

Init ==
  /\ Promise!TrackingInit
  /\ at = [p \in Programs |-> "off"] /\ turn = [p \in Programs |-> 1]
  /\ chain = [p \in Programs |-> {}]
  /\ resolved = [p \in Programs |-> {}] /\ known = [p \in Programs |-> {}]

Tick == Promise!Passes /\ UNCHANGED <<contracts, tracked, at, refresh>>

(* Nothing is left of the refresh. *)
Forgets(p) ==
  /\ turn' = Set(turn, p, 1) /\ chain' = Set(chain, p, {})
  /\ resolved' = Set(resolved, p, {}) /\ known' = Set(known, p, {})

(* refresh() is called. *)
RefreshBegins(p) ==
  /\ at[p] \in {"off", "idle", "raised"}
  /\ Goes(p, "chain")
  /\ UNCHANGED <<now, contracts, tracked, refresh>>

(* _tracked becomes S, what was resolved, and the difference is returned. *)
Track(p, S) ==
  /\ Goes(p, "idle")
  /\ tracked' = Set(tracked, p, S)
  /\ Forgets(p)

(* Mutant: off by one. *)
LastOver(p) == turn[p] > Len(Order)

Last(p) == turn[p] = Len(Order)

(***************************************************************************)
(* A ticker is resolved to S: on to the next one, or to the table, which   *)
(* is left alone when there is nothing to write.                           *)
(***************************************************************************)
Resolve(p, S) ==
  LET all == resolved[p] \cup S
  IN IF Last(p) /\ all = {} THEN Track(p, {})
     ELSE /\ Goes(p, IF Last(p) THEN "check" ELSE "chain")
          /\ turn' = Set(turn, p, IF Last(p) THEN 1 ELSE turn[p] + 1)
          /\ resolved' = Set(resolved, p, all) /\ chain' = Set(chain, p, {})
          /\ UNCHANGED <<tracked, known>>

(* get_option_chain; without a new candidate nothing else is asked. *)
ReadChain(p) ==
  /\ at[p] = "chain"
  /\ LET candidates == Chain(Order[turn[p]])
     IN IF candidates \subseteq tracked[p] THEN Resolve(p, candidates)
        ELSE /\ chain' = Set(chain, p, candidates)
             /\ Goes(p, "snapshot")
             /\ UNCHANGED <<tracked, turn, resolved, known>>
  /\ UNCHANGED <<now, contracts>>

(* The new candidates whose Greeks came, with a delta in the range: S. *)
SnapshotComes(p) ==
  /\ at[p] = "snapshot"
  /\ \E S \in SUBSET (chain[p] \ tracked[p]) : Resolve(p, (chain[p] \cap tracked[p]) \cup S)
  /\ UNCHANGED <<now, contracts>>

(* Mutant: a ticker that fails is resolved to nothing. *)
ResolveFailsEmpty(p) ==
  /\ at[p] \in {"chain", "snapshot"}
  /\ Resolve(p, {})
  /\ UNCHANGED <<now, contracts>>

(* The chain or the snapshot raises: the ticker keeps what it has. *)
ResolveFails(p) ==
  /\ at[p] \in {"chain", "snapshot"}
  /\ Resolve(p, OfTicker(tracked[p], Order[turn[p]]))
  /\ UNCHANGED <<now, contracts>>

(* _persist looks for the row of each contract ... *)
Check(p) ==
  /\ at[p] = "check"
  /\ known' = Set(known, p, resolved[p] \cap contracts)
  /\ Goes(p, "commit")
  /\ UNCHANGED <<now, contracts, tracked, turn, chain, resolved>>

(* ... and adds the missing ones, unless one has appeared since. *)
Persist(p) ==
  /\ at[p] = "commit" /\ (resolved[p] \ known[p]) \cap contracts = {}
  /\ contracts' = contracts \cup (resolved[p] \ known[p])
  /\ Track(p, resolved[p])
  /\ UNCHANGED now

(* The commit of the missing rows, which may be in although it raises. *)
Written(p, landed) ==
  IF landed
  THEN /\ at[p] = "commit" /\ (resolved[p] \ known[p]) \cap contracts = {}
       /\ contracts' = contracts \cup (resolved[p] \ known[p])
  ELSE UNCHANGED contracts

(* Mutant: the refresh goes on as if the rows were there. *)
PersistFailsTracks(p, landed) ==
  /\ at[p] \in {"check", "commit"}
  /\ Written(p, landed)
  /\ Track(p, resolved[p])
  /\ UNCHANGED now

(***************************************************************************)
(* The database raises, because of a duplicate key or not, and so does     *)
(* refresh(): the program keeps what it has, or ends.                      *)
(***************************************************************************)
PersistFails(p, landed) ==
  /\ at[p] \in {"check", "commit"}
  /\ Written(p, landed)
  /\ Goes(p, "raised")
  /\ Forgets(p)
  /\ UNCHANGED <<now, tracked>>

(***************************************************************************)
(* After a refresh that returned the poller reads the chain of its ticker  *)
(* itself and has _persist write what the refresh did not come up with.    *)
(***************************************************************************)
FallbackPersists(p) ==
  /\ at[p] = "idle"
  /\ \E S \in SUBSET Options : Promise!Records(S)
  /\ UNCHANGED <<now, at, refresh>>

(* The process of p ends, wherever it is. *)
ProgramEnds(p) ==
  /\ at[p] # "off"
  /\ Goes(p, "off")
  /\ Promise!Ends(p)
  /\ Forgets(p)
  /\ UNCHANGED now

Next ==
  \/ Tick
  \/ \E p \in Programs :
       \/ RefreshBegins(p) \/ ReadChain(p) \/ SnapshotComes(p) \/ ResolveFails(p)
       \/ Check(p) \/ Persist(p) \/ ProgramEnds(p)
       \/ \E landed \in BOOLEAN : PersistFails(p, landed)
  \/ \E p \in Pollers : FallbackPersists(p)

Spec == Init /\ [][Next]_vars

-----------------------------------------------------------------------------
(* Properties. *)

TypeOK ==
  /\ now \in Promise!Times /\ contracts \subseteq Options
  /\ tracked \in [Programs -> SUBSET Options]
  /\ at \in [Programs -> {"off", "idle", "raised", "chain", "snapshot", "check", "commit"}]
  /\ turn \in [Programs -> 1..Len(Order)] /\ chain \in [Programs -> SUBSET Options]
  /\ resolved \in [Programs -> SUBSET Options] /\ known \in [Programs -> SUBSET Options]

(***************************************************************************)
(* Whatever a program tracks has its row, so that the foreign key of a bar *)
(* never fails, although all insert the same contracts after a check that  *)
(* may be stale.  About _persist before the assignment of _tracked.        *)
(***************************************************************************)
TrackedHasRow == \A p \in Programs : tracked[p] \subseteq contracts

(***************************************************************************)
(* The manager keeps its promise: whatever lookups, snapshots and writes   *)
(* fail, a contract is tracked until the chain has dropped it, and a       *)
(* refresh that raises changes nothing that is tracked, though it may have *)
(* written its rows.  About the contracts refresh() carries forward.       *)
(***************************************************************************)
KeepsPromise == Promise!TrackingSpec
=============================================================================
