-------------------------- MODULE ContractsProofs --------------------------
(***************************************************************************)
(* For any contracts, tickers and bound of the clock: Contracts is type    *)
(* correct, what is tracked has its row, and it implements Tracking.       *)
(*                                                                         *)
(* The refinement needs to know what a refresh has in hand: a contract     *)
(* that is tracked, and whose ticker has been dealt with, is among the     *)
(* resolved ones unless the chain has dropped it (Carried).                *)
(***************************************************************************)
EXTENDS Contracts, TLAPS

InRefresh(p) == at[p] \in {"chain", "snapshot", "check", "commit"}

(* The tickers of the current refresh of p that have been dealt with. *)
Passed(p) ==
  IF at[p] \in {"check", "commit"} THEN Tickers ELSE {Order[i] : i \in 1..turn[p] - 1}

(* What p has seen has been listed. *)
Seen(p) == \A c \in tracked[p] \cup chain[p] \cup resolved[p] : Listed[c] <= now

(* Nothing that is tracked is left behind before the chain drops it. *)
Carried(p) ==
  InRefresh(p) =>
    \A c \in tracked[p] : Expires[c] < now \/ c \in resolved[p] \/ Underlying[c] \notin Passed(p)

(* The candidates include what is tracked of their ticker. *)
Offered(p) ==
  at[p] = "snapshot" =>
    \A c \in tracked[p] :
      Underlying[c] = Order[turn[p]] => Expires[c] < now \/ c \in chain[p]

Clean(p) == ~InRefresh(p) => turn[p] = 1 /\ resolved[p] = {} /\ chain[p] = {}

PerProgram(p) ==
  Seen(p) /\ Carried(p) /\ Offered(p) /\ Clean(p) /\ known[p] \subseteq contracts

Inv == TypeOK /\ TrackedHasRow /\ \A p \in Programs : PerProgram(p)

USE DEF Promise!Times

LEMMA InitInv == Init => Inv
  BY ContractsAssumption
  DEF ContractsAssumption, Init, Inv, TypeOK, TrackedHasRow, PerProgram, Seen, Carried,
      Offered, Clean, InRefresh, Promise!TrackingInit

LEMMA TypeStep == ASSUME TypeOK, [Next]_vars PROVE TypeOK'
  <1> USE ContractsAssumption DEF TypeOK, ContractsAssumption, Goes, Set, refresh
  <1>1. CASE Tick
    BY <1>1 DEF Tick, Promise!Passes
  <1>2. ASSUME NEW p \in Programs, RefreshBegins(p) PROVE TypeOK'
    BY <1>2 DEF RefreshBegins
  <1>3. ASSUME NEW p \in Programs, NEW S \in SUBSET Options, Track(p, S),
               now' = now, contracts' \subseteq Options
        PROVE  TypeOK'
    BY <1>3 DEF Track, Forgets
  <1>4. ASSUME NEW p \in Programs, NEW S \in SUBSET Options, Resolve(p, S),
               UNCHANGED <<now, contracts>>
        PROVE  TypeOK'
    <2>1. CASE Track(p, {})
      BY <2>1, <1>3, <1>4
    <2>2. CASE ~Track(p, {})
      <3>1. turn[p] \in 1..Len(Order) /\ (~Last(p) => turn[p] + 1 \in 1..Len(Order))
        BY DEF Last
      <3>2. /\ at' = [at EXCEPT ![p] = IF Last(p) THEN "check" ELSE "chain"]
            /\ turn' = [turn EXCEPT ![p] = IF Last(p) THEN 1 ELSE turn[p] + 1]
            /\ resolved' = [resolved EXCEPT ![p] = resolved[p] \cup S]
            /\ chain' = [chain EXCEPT ![p] = {}]
            /\ UNCHANGED <<now, contracts, tracked, known>>
        BY <1>4, <2>2 DEF Resolve
      <3>3. turn' \in [Programs -> 1..Len(Order)]
        BY <3>1, <3>2
      <3> QED BY <3>2, <3>3
    <2> QED BY <2>1, <2>2
  <1>5. ASSUME NEW p \in Programs, ReadChain(p) PROVE TypeOK'
    <2>1. CASE Chain(Order[turn[p]]) \subseteq tracked[p]
      BY <2>1, <1>5, <1>4 DEF ReadChain, Chain
    <2>2. CASE ~(Chain(Order[turn[p]]) \subseteq tracked[p])
      <3>1. /\ at' = [at EXCEPT ![p] = "snapshot"]
            /\ chain' = [chain EXCEPT ![p] = Chain(Order[turn[p]])]
            /\ UNCHANGED <<now, contracts, tracked, turn, resolved, known>>
        BY <2>2, <1>5 DEF ReadChain
      <3>2. Chain(Order[turn[p]]) \in SUBSET Options
        BY DEF Chain
      <3> QED BY <3>1, <3>2
    <2> QED BY <2>1, <2>2
  <1>6. ASSUME NEW p \in Programs, SnapshotComes(p) PROVE TypeOK'
    <2> PICK S \in SUBSET (chain[p] \ tracked[p]) : Resolve(p, (chain[p] \cap tracked[p]) \cup S)
      BY <1>6 DEF SnapshotComes
    <2>1. (chain[p] \cap tracked[p]) \cup S \in SUBSET Options
      OBVIOUS
    <2> QED BY <2>1, <1>6, <1>4 DEF SnapshotComes
  <1>7. ASSUME NEW p \in Programs, ResolveFails(p) PROVE TypeOK'
    <2>1. OfTicker(tracked[p], Order[turn[p]]) \in SUBSET Options
      BY DEF OfTicker
    <2> QED BY <2>1, <1>7, <1>4 DEF ResolveFails
  <1>8. ASSUME NEW p \in Programs, Check(p) PROVE TypeOK'
    BY <1>8 DEF Check
  <1>9. ASSUME NEW p \in Programs, Persist(p) PROVE TypeOK'
    BY <1>9, <1>3 DEF Persist
  <1>10. ASSUME NEW p \in Programs, NEW landed \in BOOLEAN, PersistFails(p, landed) PROVE TypeOK'
    BY <1>10 DEF PersistFails, Written, Forgets
  <1>11. ASSUME NEW p \in Programs, ProgramEnds(p) PROVE TypeOK'
    BY <1>11 DEF ProgramEnds, Forgets, Promise!Ends
  <1>12. ASSUME NEW p \in Programs, FallbackPersists(p) PROVE TypeOK'
    BY <1>12 DEF FallbackPersists, Promise!Records
  <1>13. CASE UNCHANGED vars
    BY <1>13 DEF vars
  <1> QED BY <1>1, <1>2, <1>5, <1>6, <1>7, <1>8, <1>9, <1>10, <1>11, <1>12, <1>13 DEF Next

(***************************************************************************)
(* What a step of p does to what p tracks and to the table, and the        *)
(* invariant of p.  A refresh that tracks S has carried everything over.   *)
(***************************************************************************)
LEMMA Others ==
  ASSUME TypeOK, TypeOK', NEW p \in Programs, NEW q \in Programs, PerProgram(q), q # p,
         contracts \subseteq contracts', now' = now,
         tracked'[q] = tracked[q], at'[q] = at[q], turn'[q] = turn[q], chain'[q] = chain[q],
         resolved'[q] = resolved[q], known'[q] = known[q]
  PROVE  PerProgram(q)'
  BY DEF PerProgram, Seen, Carried, Offered, Clean, InRefresh, Passed

LEMMA TickInv ==
  ASSUME Inv, TypeOK', Tick
  PROVE  Inv'
  <1> USE ContractsAssumption DEF Inv, TypeOK, ContractsAssumption, Tick, Promise!Passes, refresh
  <1>1. ASSUME NEW p \in Programs PROVE PerProgram(p)'
    <2>1. \A c \in Options : /\ Listed[c] <= now => Listed[c] <= now'
                           /\ Expires[c] < now => Expires[c] < now'
      OBVIOUS
    <2>2. Seen(p)'
      BY <2>1 DEF PerProgram, Seen
    <2>3. Carried(p)'
      <3>1. Passed(p)' = Passed(p)
        BY DEF Passed
      <3> QED BY <2>1, <3>1 DEF PerProgram, Carried, InRefresh
    <2>4. Offered(p)'
      BY <2>1 DEF PerProgram, Offered
    <2>5. Clean(p)' /\ known'[p] \subseteq contracts'
      BY DEF PerProgram, Clean, InRefresh
    <2> QED BY <2>2, <2>3, <2>4, <2>5 DEF PerProgram
  <1>2. TrackedHasRow'
    BY DEF TrackedHasRow
  <1> QED BY <1>1, <1>2

(* p is done with its refresh, or ends; what it tracks then has its rows. *)
LEMMA TrackInv ==
  ASSUME Inv, TypeOK', NEW p \in Programs,
         at' = [at EXCEPT ![p] = at'[p]], at'[p] \in {"off", "idle", "raised"},
         tracked' = [tracked EXCEPT ![p] = tracked'[p]], Forgets(p), now' = now,
         contracts \subseteq contracts', tracked'[p] \subseteq contracts',
         \A c \in tracked'[p] : Listed[c] <= now
  PROVE  Inv'
  <1> USE DEF Inv, Forgets, Set
  <1>1. ASSUME NEW q \in Programs, q # p PROVE PerProgram(q)'
    BY <1>1, Others DEF TypeOK
  <1>2. PerProgram(p)'
    BY DEF TypeOK, PerProgram, Seen, Carried, Offered, Clean, InRefresh
  <1>3. TrackedHasRow'
    BY DEF TrackedHasRow, TypeOK
  <1> QED BY <1>1, <1>2, <1>3

(* The contracts that p tracks and that S, with what is resolved, leaves out. *)
Left(p, S) == {c \in tracked[p] : Underlying[c] = Order[turn[p]]} \ S

LEMMA ResolveInv ==
  ASSUME Inv, TypeOK', NEW p \in Programs, NEW S \in SUBSET Options,
         at[p] \in {"chain", "snapshot"}, Resolve(p, S), UNCHANGED <<now, contracts>>,
         \A c \in S : Listed[c] <= now, \A c \in Left(p, S) : Expires[c] < now
  PROVE  Inv' /\ (tracked' # tracked => Promise!TakesOver(p, {}))
  <1> DEFINE all == resolved[p] \cup S
  <1>1. \A c \in tracked[p] : Expires[c] < now \/ c \in all
                               \/ Underlying[c] \notin Passed(p) \cup {Order[turn[p]]}
    BY DEF Inv, PerProgram, Carried, InRefresh, Left
  <1>2. Passed(p) \cup {Order[turn[p]]} = {Order[i] : i \in 1..turn[p]}
    BY DEF Passed, Inv, TypeOK
  <1>3. Last(p) => \A c \in tracked[p] : Expires[c] < now \/ c \in all
    BY <1>1, <1>2, ContractsAssumption DEF Last, ContractsAssumption, Tickers, Inv, TypeOK
  <1>4. CASE Last(p) /\ all = {}
    <2>1. Track(p, {})
      BY <1>4 DEF Resolve
    <2>2. Inv'
      <3>1. at'[p] \in {"off", "idle", "raised"} /\ at' = [at EXCEPT ![p] = at'[p]]
        BY <2>1 DEF Track, Goes, Inv, TypeOK
      <3>2. tracked' = [tracked EXCEPT ![p] = tracked'[p]] /\ tracked'[p] = {} /\ Forgets(p)
        BY <2>1 DEF Track, Set, Inv, TypeOK
      <3> QED BY <3>1, <3>2, TrackInv
    <2>3. Promise!TakesOver(p, {})
      BY <2>1, <1>3, <1>4 DEF Promise!TakesOver, Track, Set
    <2> QED BY <2>2, <2>3
  <1>5. CASE ~(Last(p) /\ all = {})
    <2>1. /\ Goes(p, IF Last(p) THEN "check" ELSE "chain")
          /\ turn' = Set(turn, p, IF Last(p) THEN 1 ELSE turn[p] + 1)
          /\ resolved' = Set(resolved, p, all) /\ chain' = Set(chain, p, {})
          /\ UNCHANGED <<tracked, known>>
      BY <1>5 DEF Resolve
    <2>2. ASSUME NEW q \in Programs, q # p PROVE PerProgram(q)'
      BY <2>1, <2>2, Others DEF Inv, TypeOK, Goes, Set
    <2>3. Seen(p)'
      BY <2>1 DEF Inv, TypeOK, PerProgram, Seen, Set
    <2>4. Carried(p)'
      <3>1. CASE Last(p)
        BY <2>1, <3>1, <1>3 DEF Inv, TypeOK, Carried, Goes, Set
      <3>2. CASE ~Last(p)
        <4>1. Passed(p)' = {Order[i] : i \in 1..turn[p]}
          BY <2>1, <3>2 DEF Passed, Inv, TypeOK, Goes, Set
        <4> QED BY <4>1, <1>1, <1>2, <2>1 DEF Inv, TypeOK, Carried, Set
      <3> QED BY <3>1, <3>2
    <2>5. Offered(p)' /\ Clean(p)' /\ known'[p] \subseteq contracts'
      BY <2>1 DEF Inv, TypeOK, PerProgram, Offered, Clean, InRefresh, Goes
    <2>6. TrackedHasRow'
      BY <2>1 DEF Inv, TrackedHasRow
    <2> QED BY <2>1, <2>2, <2>3, <2>4, <2>5, <2>6 DEF Inv, PerProgram
  <1> QED BY <1>4, <1>5

(* What the other actions keep of the invariant, and what they track. *)
LEMMA ActionInv ==
  ASSUME Inv, TypeOK', NEW p \in Programs,
         \/ RefreshBegins(p) \/ ReadChain(p) \/ SnapshotComes(p) \/ ResolveFails(p)
         \/ Check(p) \/ Persist(p) \/ ProgramEnds(p) \/ FallbackPersists(p)
         \/ \E landed \in BOOLEAN : PersistFails(p, landed)
  PROVE  /\ Inv'
         /\ \/ UNCHANGED <<now, contracts, tracked>>
            \/ UNCHANGED now /\ Promise!Ends(p)
            \/ UNCHANGED now /\ \E S \in SUBSET Options : Promise!Records(S)
            \/ UNCHANGED now /\ \E S \in SUBSET Options : Promise!TakesOver(p, S)
  <1> USE DEF Inv
  <1>1. ASSUME NEW S \in SUBSET Options, at[p] \in {"chain", "snapshot"}, Resolve(p, S),
               UNCHANGED <<now, contracts>>,
               \A c \in S : Listed[c] <= now, \A c \in Left(p, S) : Expires[c] < now
        PROVE  /\ Inv'
               /\ \/ UNCHANGED <<now, contracts, tracked>>
                  \/ UNCHANGED now /\ \E T \in SUBSET Options : Promise!TakesOver(p, T)
    BY <1>1, ResolveInv
  <1>2. CASE RefreshBegins(p)
    <2>1. ASSUME NEW q \in Programs, q # p PROVE PerProgram(q)'
      BY <1>2, <2>1, Others DEF RefreshBegins, TypeOK, Goes, refresh
    <2>2. Passed(p)' = {}
      BY <1>2 DEF RefreshBegins, Goes, refresh, TypeOK, PerProgram, Clean, InRefresh, Passed
    <2>3. PerProgram(p)'
      BY <1>2, <2>2 DEF RefreshBegins, Goes, refresh, TypeOK, PerProgram, Seen, Carried, Offered,
                        Clean, InRefresh
    <2>4. TrackedHasRow'
      BY <1>2 DEF RefreshBegins, TrackedHasRow
    <2> QED BY <1>2, <2>1, <2>3, <2>4 DEF RefreshBegins
  <1>3. CASE ReadChain(p)
    <2> DEFINE candidates == Chain(Order[turn[p]])
    <2>1. /\ candidates \in SUBSET Options /\ \A c \in candidates : Listed[c] <= now
          /\ \A c \in Left(p, candidates) : Expires[c] < now
      BY ContractsAssumption DEF Chain, Left, PerProgram, Seen, TypeOK, ContractsAssumption, Promise!Times
    <2>2. CASE candidates \subseteq tracked[p]
      BY <1>1, <1>3, <2>1, <2>2 DEF ReadChain
    <2>3. CASE ~(candidates \subseteq tracked[p])
      <3>1. /\ chain' = Set(chain, p, candidates) /\ Goes(p, "snapshot")
            /\ UNCHANGED <<tracked, turn, resolved, known, now, contracts>>
            /\ at[p] = "chain"
        BY <1>3, <2>3 DEF ReadChain
      <3>2. ASSUME NEW q \in Programs, q # p PROVE PerProgram(q)'
        BY <3>1, <3>2, Others DEF TypeOK, Goes, Set
      <3>3. Seen(p)'
        BY <2>1, <3>1 DEF PerProgram, Seen, Set, TypeOK
      <3>4. Offered(p)'
        BY <2>1, <3>1 DEF Left, Offered, Set, TypeOK
      <3>5. Carried(p)' /\ Clean(p)' /\ known'[p] \subseteq contracts'
        BY <3>1 DEF PerProgram, Carried, Clean, InRefresh, Passed, TypeOK, Goes
      <3>6. TrackedHasRow'
        BY <3>1 DEF TrackedHasRow
      <3> QED BY <3>1, <3>2, <3>3, <3>4, <3>5, <3>6 DEF PerProgram
    <2> QED BY <2>2, <2>3
  <1>4. CASE SnapshotComes(p)
    <2> PICK T \in SUBSET (chain[p] \ tracked[p]) : Resolve(p, (chain[p] \cap tracked[p]) \cup T)
      BY <1>4 DEF SnapshotComes
    <2> DEFINE S == (chain[p] \cap tracked[p]) \cup T
    <2>1. S \in SUBSET Options /\ \A c \in S : Listed[c] <= now
      BY DEF TypeOK, PerProgram, Seen
    <2>2. \A c \in Left(p, S) : Expires[c] < now
      BY <1>4 DEF SnapshotComes, Left, PerProgram, Offered
    <2> QED BY <1>1, <1>4, <2>1, <2>2 DEF SnapshotComes
  <1>5. CASE ResolveFails(p)
    <2> DEFINE S == OfTicker(tracked[p], Order[turn[p]])
    <2>1. S \in SUBSET Options /\ (\A c \in S : Listed[c] <= now) /\ Left(p, S) = {}
      BY DEF OfTicker, Left, TypeOK, PerProgram, Seen
    <2> QED BY <1>1, <1>5, <2>1 DEF ResolveFails
  <1>6. CASE Check(p)
    <2>1. ASSUME NEW q \in Programs, q # p PROVE PerProgram(q)'
      BY <1>6, <2>1, Others DEF Check, TypeOK, Goes, Set
    <2>2. Seen(p)' /\ Clean(p)' /\ Offered(p)' /\ known'[p] \subseteq contracts'
      BY <1>6 DEF Check, TypeOK, Goes, Set, PerProgram, Seen, Clean, Offered, InRefresh
    <2>3. Carried(p)'
      <3>1. Passed(p)' = Passed(p) /\ InRefresh(p)
        BY <1>6 DEF Check, Goes, TypeOK, Passed, InRefresh
      <3> QED BY <1>6, <3>1 DEF Check, PerProgram, Carried
    <2>4. TrackedHasRow'
      BY <1>6 DEF Check, TrackedHasRow
    <2> QED BY <1>6, <2>1, <2>2, <2>3, <2>4 DEF Check, PerProgram
  <1>7. CASE Persist(p)
    <2>1. contracts' = contracts \cup resolved[p]
      BY <1>7 DEF Persist, PerProgram
    <2>2. resolved[p] \in SUBSET Options /\ \A c \in resolved[p] : Listed[c] <= now
      BY DEF TypeOK, PerProgram, Seen
    <2>3. \A c \in tracked[p] \ resolved[p] : Expires[c] < now
      BY <1>7, ContractsAssumption
      DEF Persist, PerProgram, Carried, InRefresh, Passed, TypeOK, ContractsAssumption
    <2>4. Promise!TakesOver(p, resolved[p])
      BY <1>7, <2>1, <2>2, <2>3 DEF Persist, Track, Set, Promise!TakesOver
    <2>5. at'[p] \in {"off", "idle", "raised"} /\ at' = [at EXCEPT ![p] = at'[p]]
      BY <1>7 DEF Persist, Track, Goes, TypeOK
    <2>6. /\ tracked' = [tracked EXCEPT ![p] = tracked'[p]] /\ tracked'[p] = resolved[p]
          /\ Forgets(p) /\ now' = now
      BY <1>7 DEF Persist, Track, Set, TypeOK
    <2>7. Inv'
      BY <2>1, <2>2, <2>5, <2>6, TrackInv
    <2> QED BY <2>2, <2>4, <2>6, <2>7
  <1>8. ASSUME NEW landed \in BOOLEAN, PersistFails(p, landed)
        PROVE  Inv' /\ UNCHANGED now /\ \E S \in SUBSET Options : Promise!Records(S)
    <2>1. at'[p] \in {"off", "idle", "raised"} /\ at' = [at EXCEPT ![p] = at'[p]]
      BY <1>8 DEF PersistFails, Goes, TypeOK
    <2>2. tracked' = [tracked EXCEPT ![p] = tracked'[p]] /\ Forgets(p)
      BY <1>8 DEF PersistFails, TypeOK
    <2>3. tracked[p] \subseteq contracts /\ \A c \in tracked[p] : Listed[c] <= now
      BY DEF TrackedHasRow, PerProgram, Seen
    <2>4. UNCHANGED <<now, tracked>>
      BY <1>8 DEF PersistFails
    <2>5. PICK S \in SUBSET Options : contracts' = contracts \cup S /\ \A c \in S : Listed[c] <= now
      <3>1. CASE landed
        <4>1. resolved[p] \ known[p] \in SUBSET Options
              /\ \A c \in resolved[p] \ known[p] : Listed[c] <= now
          BY DEF TypeOK, PerProgram, Seen
        <4> QED BY <1>8, <3>1, <4>1 DEF PersistFails, Written
      <3>2. CASE ~landed
        <4>1. contracts' = contracts \cup {} /\ {} \in SUBSET Options
          BY <1>8, <3>2 DEF PersistFails, Written
        <4> QED BY <4>1
      <3> QED BY <3>1, <3>2
    <2>6. Inv'
      BY <2>1, <2>2, <2>3, <2>4, <2>5, TrackInv
    <2>7. Promise!Records(S)
      BY <2>4, <2>5 DEF Promise!Records
    <2> QED BY <2>4, <2>6, <2>7
  <1>9. CASE ProgramEnds(p)
    <2>1. at'[p] \in {"off", "idle", "raised"} /\ at' = [at EXCEPT ![p] = at'[p]]
      BY <1>9 DEF ProgramEnds, Goes, TypeOK
    <2>2. /\ tracked' = [tracked EXCEPT ![p] = tracked'[p]] /\ tracked'[p] = {}
          /\ Forgets(p) /\ UNCHANGED <<now, contracts>>
      BY <1>9 DEF ProgramEnds, Promise!Ends, TypeOK
    <2>3. Inv'
      BY <2>1, <2>2, TrackInv
    <2> QED BY <1>9, <2>2, <2>3 DEF ProgramEnds
  <1>10. CASE FallbackPersists(p)
    <2> PICK S \in SUBSET Options : Promise!Records(S)
      BY <1>10 DEF FallbackPersists
    <2>1. UNCHANGED <<now, at, turn, chain, resolved, known, tracked>> /\ contracts \subseteq contracts'
      BY <1>10 DEF FallbackPersists, refresh, Promise!Records
    <2>2. ASSUME NEW q \in Programs PROVE PerProgram(q)'
      BY <2>1 DEF PerProgram, Seen, Carried, Offered, Clean, InRefresh, Passed
    <2>3. TrackedHasRow'
      BY <2>1 DEF TrackedHasRow
    <2> QED BY <2>1, <2>2, <2>3
  <1> QED BY <1>2, <1>3, <1>4, <1>5, <1>6, <1>7, <1>8, <1>9, <1>10

(* Every step keeps the invariant and is one of Tracking, or stutters there. *)
LEMMA StepInv ==
  ASSUME Inv, [Next]_vars
  PROVE  Inv' /\ [Promise!TrackingNext]_<<now, Promise!tracking>>
  <1>1. TypeOK'
    BY TypeStep DEF Inv
  <1>2. CASE Tick
    <2>1. Promise!TrackingNext
      BY <1>2 DEF Tick, Promise!TrackingNext, Promise!tracking
    <2> QED BY <1>1, <1>2, <2>1, TickInv
  <1>3. ASSUME NEW p \in Programs,
               \/ RefreshBegins(p) \/ ReadChain(p) \/ SnapshotComes(p) \/ ResolveFails(p)
               \/ Check(p) \/ Persist(p) \/ ProgramEnds(p) \/ FallbackPersists(p)
               \/ \E landed \in BOOLEAN : PersistFails(p, landed)
        PROVE  Inv' /\ [Promise!TrackingNext]_<<now, Promise!tracking>>
    <2>1. /\ Inv'
          /\ \/ UNCHANGED <<now, contracts, tracked>>
             \/ UNCHANGED now /\ Promise!Ends(p)
             \/ UNCHANGED now /\ \E S \in SUBSET Options : Promise!Records(S)
             \/ UNCHANGED now /\ \E S \in SUBSET Options : Promise!TakesOver(p, S)
      BY <1>1, <1>3, ActionInv
    <2> QED BY <2>1 DEF Promise!TrackingNext, Promise!tracking
  <1>4. CASE UNCHANGED vars
    <2>1. ASSUME NEW p \in Programs PROVE PerProgram(p)'
      BY <1>4 DEF vars, refresh, Inv, PerProgram, Seen, Carried, Offered, Clean, InRefresh, Passed
    <2>2. TrackedHasRow' /\ UNCHANGED <<now, Promise!tracking>>
      BY <1>4 DEF vars, Inv, TrackedHasRow, Promise!tracking
    <2> QED BY <1>1, <2>1, <2>2 DEF Inv
  <1> QED BY <1>2, <1>3, <1>4, ContractsAssumption DEF Next, ContractsAssumption

LEMMA Invariance == Spec => []Inv
  <1>1. Inv /\ [Next]_vars => Inv'
    BY StepInv
  <1> QED BY <1>1, InitInv, PTL DEF Spec

(***************************************************************************)
(* The variables keep their types; above all, `turn` never points beyond   *)
(* the tickers of the configuration (refresh).                             *)
(***************************************************************************)
THEOREM TypeCorrect == Spec => []TypeOK
  <1>1. Inv => TypeOK
    BY DEF Inv
  <1> QED BY <1>1, Invariance, PTL

(***************************************************************************)
(* Whatever is tracked, by however many programs that insert the same      *)
(* rows, has its row: the foreign key of its bars holds (_persist).        *)
(***************************************************************************)
THEOREM TrackedIsPersisted == Spec => []TrackedHasRow
  <1>1. Inv => TrackedHasRow
    BY DEF Inv
  <1> QED BY <1>1, Invariance, PTL

(***************************************************************************)
(* ContractManager keeps the promise of Tracking: nothing is dropped       *)
(* before the chain drops it, and a refresh that fails leaves at most rows *)
(* of contracts that were listed.                                          *)
(***************************************************************************)
THEOREM ManagerKeepsPromise == Spec => KeepsPromise
  <1>1. Init => Promise!TrackingInit
    BY DEF Init
  <1>2. Inv /\ [Next]_vars => [Promise!TrackingNext]_<<now, Promise!tracking>>
    BY StepInv
  <1> QED BY <1>1, <1>2, Invariance, PTL DEF Spec, KeepsPromise, Promise!TrackingSpec
=============================================================================
