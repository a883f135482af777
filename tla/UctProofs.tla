------------------------------ MODULE UctProofs ------------------------------
(***************************************************************************)
(* Proofs about Uct and the table of states it searches with.              *)
(*                                                                         *)
(* First those about Transpositions, for any threads, positions, pool and  *)
(* limit and any width of the mark: type correctness, then an inductive    *)
(* invariant, Inv, and the properties that follow.  Then those about Uct,  *)
(* for any threads, positions, pool, limits and results.  The search is    *)
(* shown to be a client of the table of Transpositions step by step, so    *)
(* what is proved of the table holds of it; and an invariant that says     *)
(* what a thread knows at each point of a simulation gives the properties  *)
(* of the tree.                                                            *)
(***************************************************************************)
EXTENDS Uct, FoldLemmas, SequenceTheorems, FiniteSetTheorems, TLAPS

USE DEF Colour

LEMMA ColourOfType == \A k \in Key : ColourOf(k) \in Colour
BY DEF ColourOf

LEMMA AnyKeyType == AnyKey \in Key
BY KeyAssumption DEF AnyKey

LEMMA NextMarkType ==
  ASSUME maintenance_mark \in 0..(MarkMod - 1)
  PROVE  /\ NextMark \in 0..(MarkMod - 1)
         /\ NextMark # maintenance_mark
BY MarkAssumption DEF NextMark

-----------------------------------------------------------------------------
(***************************************************************************)
(* Type correctness.  ret must be a state where a step uses it as one.     *)
(***************************************************************************)
TypeInv ==
  /\ TypeOK
  /\ \A t \in Thread : pc[t] \in {"insert", "found", "held"} => ret[t] \in Node

LEMMA TypeInit == Init => TypeInv
BY AnyKeyType, MarkAssumption DEF Init, TypeOK, TypeInv

\* The steps of a thread keep the types.
LEMMA TypeStep ==
  ASSUME TypeInv, NEW t \in Thread, Step(t)
  PROVE  TypeInv'
<1> USE ColourOfType, AnyKeyType DEF TypeInv, TypeOK
<1>1. ASSUME NEW k \in Key, NEW of_root \in BOOLEAN, Lookup(t, k, of_root)
      PROVE  TypeInv'
  <2>1. CASE LookupHit(t, k, of_root)
    <3>1. find_state(k) \subseteq Node
      BY DEF find_state
    <3>2. QED
      BY <2>1, <3>1 DEF LookupHit, FindFrom, poolVars, stateVars
  <2>2. CASE LookupMiss(t, k, of_root)
    BY <2>2 DEF LookupMiss, FindFrom, poolVars, stateVars
  <2>3. QED
    BY <1>1, <2>1, <2>2 DEF Lookup
<1>2. ASSUME create_state(t) PROVE TypeInv'
  <2>1. PICK n \in IF freed_nodes # {} THEN freed_nodes ELSE Fresh :
          /\ freed_nodes' = freed_nodes \ {n}
          /\ allocated_states' = IF freed_nodes # {} THEN allocated_states
                                                     ELSE allocated_states + 1
          /\ SetNewState(n, wanted[t])
          /\ ret' = [ret EXCEPT ![t] = n]
    BY <1>2 DEF create_state
  <2>2. n \in Node
    BY DEF Fresh
  <2>3. QED
    BY <1>2, <2>1, <2>2 DEF create_state, SetNewState
<1>3. ASSUME Insert(t) PROVE TypeInv'
  BY <1>3 DEF Insert, poolVars, stateVars
<1>4. ASSUME LockFound(t) PROVE TypeInv'
  BY <1>4 DEF LockFound, poolVars, stateVars
<1>5. ASSUME NEW n \in Tabled, SetLock(t, n) PROVE TypeInv'
  BY <1>5 DEF SetLock, Tabled, poolVars, stateVars
<1>6. ASSUME NEW n \in Tabled \cap expanded, NEW p \in Play, SetNext(t, n, p)
      PROVE  TypeInv'
  BY <1>6 DEF SetNext, Tabled, poolVars, lookupVars
<1>7. ASSUME UnsetLock(t) PROVE TypeInv'
  BY <1>7 DEF UnsetLock, Release, poolVars, stateVars
<1>8. ASSUME ExpandAndUnset(t) PROVE TypeInv'
  BY <1>8 DEF ExpandAndUnset, Release, ResetNext, poolVars
<1>9. QED
  BY <1>1, <1>2, <1>3, <1>4, <1>5, <1>6, <1>7, <1>8 DEF Step, Client

-----------------------------------------------------------------------------
(***************************************************************************)
(* The inductive invariant: the properties, and what keeps them true.      *)
(***************************************************************************)
\* What a thread inside a lookup knows.  A state found is still in its table;
\* a state created is nobody else's, and its key is still in no table.
Lookups ==
  /\ \A t \in Thread : pc[t] = "found" => ret[t] \in table[ColourOf(wanted[t])]
  /\ \A t \in Thread : pc[t] = "insert" =>
       /\ ret[t] \notin Tabled \cup freed_nodes \cup expanded
       /\ zobrist_hash[ret[t]] = wanted[t]
  /\ \A t \in Thread : pc[t] \in {"create", "insert"} =>
       \A n \in table[ColourOf(wanted[t])] : zobrist_hash[n] # wanted[t]
  /\ \A t, u \in Thread :
       pc[t] = "insert" /\ pc[u] = "insert" /\ ret[t] = ret[u] => t = u

\* A lookup of the root is the only one.
RootLookups ==
  \A t \in Thread : on_root[t] =>
    pc[t] # "idle" /\ \A u \in Thread : u # t => pc[u] = "idle"

\* A table has states of its colour only.
TableColours ==
  \A c \in Colour : \A n \in table[c] : ColourOf(zobrist_hash[n]) = c

\* LookupOvershoot, with room left for the second of two lookups.
Overshoot ==
  \A t \in Thread : pc[t] = "create" /\ ~on_root[t] =>
    /\ states_in_use <= MaxStates
    /\ \A u \in Thread : u # t /\ pc[u] = "create" /\ ~on_root[u] =>
         states_in_use < MaxStates

Structure == TypeInv /\ LockDiscipline /\ Lookups /\ RootLookups /\ TableColours

Inv ==
  /\ Structure
  /\ UniqueStates
  /\ PoolAccounting
  /\ MarksCurrent
  /\ NoDanglingStats
  /\ Overshoot

\* Two threads inside lookups are in lookups of different colours, so there
\* are at most two.
LEMMA OnePerTable ==
  ASSUME TypeInv, LockDiscipline, NEW t \in Thread, NEW u \in Thread,
         pc[t] \in {"create", "insert", "found"},
         pc[u] \in {"create", "insert", "found"},
         ColourOf(wanted[t]) = ColourOf(wanted[u])
  PROVE  t = u
BY ColourOfType DEF TypeInv, TypeOK, LockDiscipline

LEMMA InvInit == Init => Inv
<1> SUFFICES ASSUME Init PROVE Inv
  OBVIOUS
<1>1. TypeInv
  BY TypeInit
<1>2. Tabled = {} /\ InFlight = {}
  BY DEF Init, Tabled, InFlight
<1>3. LockDiscipline
  BY ThreadAssumption DEF Init, LockDiscipline
<1>4. Lookups /\ RootLookups /\ TableColours /\ UniqueStates /\ Overshoot
  BY DEF Init, Lookups, RootLookups, TableColours, UniqueStates, Overshoot
<1>5. PoolAccounting
  BY <1>2, FS_EmptySet DEF Init, PoolAccounting
<1>6. MarksCurrent /\ NoDanglingStats
  BY <1>2 DEF MarksCurrent, NoDanglingStats
<1>7. QED
  BY <1>1, <1>3, <1>4, <1>5, <1>6 DEF Inv, Structure

-----------------------------------------------------------------------------
(***************************************************************************)
(* The structural part.                                                    *)
(***************************************************************************)
LEMMA StructureLookup ==
  ASSUME Structure, NEW t \in Thread, NEW k \in Key, NEW of_root \in BOOLEAN,
         Lookup(t, k, of_root)
  PROVE  Structure'
<1> USE ColourOfType DEF Structure, TypeInv, TypeOK
<1>1. TypeInv'
  BY TypeStep DEF Step
<1>2. /\ FindFrom(t, k, of_root, "found")
      /\ \E n \in find_state(k) : ret' = [ret EXCEPT ![t] = n]
      /\ table_lock[ColourOf(k)] = Null
   \/ /\ FindFrom(t, k, of_root, "create")
      /\ ret' = ret /\ find_state(k) = {}
      /\ table_lock[ColourOf(k)] = Null
  BY DEF Lookup, LookupHit, LookupMiss, TableFree
<1>3. LockDiscipline'
  BY <1>2, ThreadAssumption DEF FindFrom, LockDiscipline, Tabled
<1>4. Lookups'
  <2>1. UNCHANGED <<table, freed_nodes, expanded, zobrist_hash>>
    BY <1>2 DEF FindFrom, poolVars, stateVars
  <2>2. \A u \in Thread : u # t =>
          pc'[u] = pc[u] /\ wanted'[u] = wanted[u] /\ ret'[u] = ret[u]
    BY <1>2 DEF FindFrom
  <2>3. wanted'[t] = k
    BY <1>2 DEF FindFrom
  <2>4. \/ pc'[t] = "found" /\ ret'[t] \in find_state(k)
        \/ pc'[t] = "create" /\ find_state(k) = {}
    BY <1>2 DEF FindFrom
  <2>5. \A u \in Thread : pc'[u] = "found" =>
          ret'[u] \in table'[ColourOf(wanted'[u])]
    BY <2>1, <2>2, <2>3, <2>4 DEF Lookups, find_state
  <2>6. \A u \in Thread : pc'[u] = "insert" => u # t
    BY <2>4
  <2>7. \A u \in Thread : pc'[u] = "insert" =>
          /\ ret'[u] \notin Tabled' \cup freed_nodes' \cup expanded'
          /\ zobrist_hash'[ret'[u]] = wanted'[u]
    BY <2>1, <2>2, <2>6 DEF Lookups, Tabled
  <2>8. \A u \in Thread : pc'[u] \in {"create", "insert"} =>
          \A n \in table'[ColourOf(wanted'[u])] : zobrist_hash'[n] # wanted'[u]
    BY <2>1, <2>2, <2>3, <2>4 DEF Lookups, find_state
  <2>9. QED
    BY <2>2, <2>5, <2>6, <2>7, <2>8 DEF Lookups
<1>5. RootLookups'
  BY <1>2 DEF FindFrom, Lookup, RootLookups, RootAlone, Quiescent
<1>6. TableColours'
  BY <1>2 DEF FindFrom, TableColours, stateVars
<1>7. QED
  BY <1>1, <1>3, <1>4, <1>5, <1>6

LEMMA StructureCreate ==
  ASSUME Structure, PoolAccounting, NEW t \in Thread, create_state(t)
  PROVE  /\ Structure'
         /\ \E n \in Node :
              /\ n \notin Tabled \cup InFlight
              /\ InFlight' = InFlight \cup {n}
              /\ Tabled' = Tabled
              /\ mark' = [mark EXCEPT ![n] = maintenance_mark]
              /\ zobrist_hash' = [zobrist_hash EXCEPT ![n] = wanted[t]]
              /\ expanded' = expanded \ {n}
              /\ \/ /\ n \in freed_nodes
                    /\ allocated_states' = allocated_states
                 \/ /\ freed_nodes = {}
                    /\ allocated_states' = allocated_states + 1
              /\ freed_nodes' = freed_nodes \ {n}
<1> USE ColourOfType DEF Structure, TypeInv, TypeOK
<1>1. TypeInv'
  BY TypeStep DEF Step
<1>2. PICK n \in IF freed_nodes # {} THEN freed_nodes ELSE Fresh :
        /\ freed_nodes' = freed_nodes \ {n}
        /\ allocated_states' = IF freed_nodes # {} THEN allocated_states
                                                   ELSE allocated_states + 1
        /\ SetNewState(n, wanted[t])
        /\ ret' = [ret EXCEPT ![t] = n]
  BY DEF create_state
<1>3. /\ n \in Node
      /\ n \notin Tabled
      /\ n \notin InFlight
  BY <1>2 DEF Fresh, PoolAccounting
<1>4. /\ pc[t] = "create" /\ pc' = [pc EXCEPT ![t] = "insert"]
      /\ UNCHANGED <<table, maintenance_mark, table_lock, lock, wanted, on_root>>
  BY DEF create_state
<1>5. Tabled' = Tabled
  BY <1>4 DEF Tabled
<1>6. InFlight' = InFlight \cup {n}
  BY <1>2, <1>3, <1>4 DEF InFlight
<1>7. \A u \in Thread : pc[u] = "insert" => ret[u] \in InFlight
  BY DEF InFlight
<1>8. LockDiscipline'
  <2>1. \A m \in Node : lock[m] # Null => lock[m] # t
    BY <1>4 DEF LockDiscipline
  <2>2. \A m \in Node : lock'[m] # Null => m \in Tabled' /\ ret'[lock'[m]] = m
    BY <2>1, <1>2, <1>4, <1>5 DEF LockDiscipline
  <2>3. \A u \in Thread : pc'[u] = "held" <=> \E m \in Node : lock'[m] = u
    BY <1>4 DEF LockDiscipline
  <2>4. \A u \in Thread : \A c \in Colour :
          table_lock'[c] = u <=> /\ pc'[u] \in {"create", "insert", "found"}
                                 /\ ColourOf(wanted'[u]) = c
    BY <1>4 DEF LockDiscipline
  <2>5. QED
    BY <2>2, <2>3, <2>4 DEF LockDiscipline
<1>9. Lookups'
  <2>1. \A u \in Thread : pc'[u] = "found" =>
          ret'[u] \in table'[ColourOf(wanted'[u])]
    BY <1>2, <1>4 DEF Lookups
  <2>2. \A u \in Thread : pc'[u] = "insert" =>
          /\ ret'[u] \notin Tabled' \cup freed_nodes' \cup expanded'
          /\ zobrist_hash'[ret'[u]] = wanted'[u]
    BY <1>2, <1>3, <1>4, <1>5, <1>7 DEF Lookups, SetNewState
  <2>3. \A u \in Thread : pc'[u] \in {"create", "insert"} =>
          \A m \in table'[ColourOf(wanted'[u])] : zobrist_hash'[m] # wanted'[u]
    <3>1. \A c \in Colour : \A m \in table[c] : zobrist_hash'[m] = zobrist_hash[m]
      BY <1>2, <1>3 DEF SetNewState, Tabled
    <3>2. QED
      BY <3>1, <1>4 DEF Lookups
  <2>4. \A u, v \in Thread :
          pc'[u] = "insert" /\ pc'[v] = "insert" /\ ret'[u] = ret'[v] => u = v
    BY <1>2, <1>3, <1>4, <1>7 DEF Lookups
  <2>5. QED
    BY <2>1, <2>2, <2>3, <2>4 DEF Lookups
<1>10. RootLookups'
  BY <1>4 DEF RootLookups
<1>11. TableColours'
  BY <1>2, <1>3, <1>4 DEF TableColours, SetNewState, Tabled
<1>12. QED
  BY <1>1, <1>2, <1>3, <1>5, <1>6, <1>8, <1>9, <1>10, <1>11 DEF SetNewState

LEMMA StructureInsert ==
  ASSUME Structure, NEW t \in Thread, Insert(t)
  PROVE  /\ Structure'
         /\ pc[t] = "insert"
         /\ Tabled' = Tabled \cup {ret[t]}
         /\ InFlight' = InFlight \ {ret[t]}
         /\ ret[t] \in InFlight
<1> USE ColourOfType DEF Structure, TypeInv, TypeOK
<1>1. TypeInv'
  BY TypeStep DEF Step
<1> DEFINE c == ColourOf(wanted[t])
<1>2. /\ pc[t] = "insert" /\ pc' = [pc EXCEPT ![t] = "held"]
      /\ lock' = [lock EXCEPT ![ret[t]] = t]
      /\ table' = [table EXCEPT ![c] = @ \cup {ret[t]}]
      /\ table_lock' = [table_lock EXCEPT ![c] = Null]
      /\ UNCHANGED <<freed_nodes, expanded, zobrist_hash, wanted, on_root, ret>>
      /\ lock[ret[t]] = Null
  BY DEF Insert, poolVars, stateVars, StateFree
<1>3. c \in Colour /\ ret[t] \in Node
  BY <1>2
<1>4. Tabled' = Tabled \cup {ret[t]}
  BY <1>2, <1>3 DEF Tabled
<1>5. /\ InFlight' = InFlight \ {ret[t]}
      /\ ret[t] \in InFlight
  BY <1>2, <1>3 DEF InFlight, Lookups
<1>6. \A u \in Thread : u # t /\ pc[u] \in {"create", "insert", "found"} =>
        ColourOf(wanted[u]) # c
  BY <1>2, OnePerTable
<1>7. LockDiscipline'
  <2>1. \A m \in Node : lock'[m] # Null => m \in Tabled' /\ ret'[lock'[m]] = m
    BY <1>2, <1>3, <1>4 DEF LockDiscipline
  <2>2. \A u \in Thread : pc'[u] = "held" <=> \E m \in Node : lock'[m] = u
    BY <1>2, <1>3, ThreadAssumption DEF LockDiscipline
  <2>3. \A u \in Thread : \A d \in Colour :
          table_lock'[d] = u <=> /\ pc'[u] \in {"create", "insert", "found"}
                                 /\ ColourOf(wanted'[u]) = d
    BY <1>2, <1>3, <1>6, ThreadAssumption DEF LockDiscipline
  <2>4. QED
    BY <2>1, <2>2, <2>3 DEF LockDiscipline
<1>8. Lookups'
  <2>1. \A u \in Thread : pc'[u] = "found" =>
          ret'[u] \in table'[ColourOf(wanted'[u])]
    BY <1>2, <1>3 DEF Lookups
  <2>2. \A u \in Thread : pc'[u] = "insert" => u # t /\ pc[u] = "insert"
    BY <1>2
  <2>3. \A u \in Thread : pc'[u] = "insert" =>
          /\ ret'[u] \notin Tabled' \cup freed_nodes' \cup expanded'
          /\ zobrist_hash'[ret'[u]] = wanted'[u]
    BY <1>2, <1>4, <2>2 DEF Lookups
  <2>4. \A u \in Thread : pc'[u] \in {"create", "insert"} =>
          \A m \in table'[ColourOf(wanted'[u])] : zobrist_hash'[m] # wanted'[u]
    BY <1>2, <1>3, <1>6 DEF Lookups
  <2>5. QED
    BY <1>2, <2>1, <2>2, <2>3, <2>4 DEF Lookups
<1>9. RootLookups'
  BY <1>2 DEF RootLookups
<1>10. TableColours'
  BY <1>2, <1>3 DEF TableColours, Lookups
<1>11. QED
  BY <1>1, <1>2, <1>4, <1>5, <1>7, <1>8, <1>9, <1>10

\* The steps that leave the tables, the pool and the states as they are.
Quiet == UNCHANGED <<table, poolVars, maintenance_mark, stateVars>>

LEMMA LookupQuiet ==
  ASSUME TypeInv, NEW t \in Thread, NEW k \in Key, NEW of_root \in BOOLEAN,
         Lookup(t, k, of_root)
  PROVE  Quiet /\ InFlight' = InFlight
<1>1. /\ FindFrom(t, k, of_root, "found") \/ FindFrom(t, k, of_root, "create")
      /\ \A u \in Thread : u # t => ret'[u] = ret[u]
  <2>1. CASE LookupHit(t, k, of_root)
    BY <2>1 DEF LookupHit, TypeInv, TypeOK
  <2>2. CASE LookupMiss(t, k, of_root)
    BY <2>2 DEF LookupMiss
  <2>3. QED
    BY <2>1, <2>2 DEF Lookup
<1>2. \A u \in Thread :
        /\ pc'[u] = "insert" <=> pc[u] = "insert"
        /\ pc[u] = "insert" => u # t
  BY <1>1 DEF FindFrom, TypeInv, TypeOK
<1>3. InFlight' = InFlight
  BY <1>1, <1>2 DEF InFlight
<1>4. QED
  BY <1>1, <1>3 DEF FindFrom, Quiet

LEMMA StructureLockFound ==
  ASSUME Structure, NEW t \in Thread, LockFound(t)
  PROVE  Structure' /\ Quiet /\ InFlight' = InFlight
<1> USE ColourOfType DEF Structure, TypeInv, TypeOK
<1>1. TypeInv'
  BY TypeStep DEF Step
<1> DEFINE c == ColourOf(wanted[t])
<1>2. /\ pc[t] = "found" /\ pc' = [pc EXCEPT ![t] = "held"]
      /\ lock' = [lock EXCEPT ![ret[t]] = t]
      /\ table_lock' = [table_lock EXCEPT ![c] = Null]
      /\ UNCHANGED <<table, freed_nodes, expanded, zobrist_hash, wanted,
                     on_root, ret>>
      /\ lock[ret[t]] = Null
  BY DEF LockFound, poolVars, stateVars, StateFree
<1>3. c \in Colour /\ ret[t] \in Node /\ ret[t] \in Tabled
  BY <1>2 DEF Lookups, Tabled
<1>4. Tabled' = Tabled
  BY <1>2 DEF Tabled
<1>5. \A u \in Thread : u # t /\ pc[u] \in {"create", "insert", "found"} =>
        ColourOf(wanted[u]) # c
  BY <1>2, OnePerTable
<1>6. LockDiscipline'
  <2>1. \A m \in Node : lock'[m] # Null => m \in Tabled' /\ ret'[lock'[m]] = m
    BY <1>2, <1>3, <1>4 DEF LockDiscipline
  <2>2. \A u \in Thread : pc'[u] = "held" <=> \E m \in Node : lock'[m] = u
    BY <1>2, <1>3, ThreadAssumption DEF LockDiscipline
  <2>3. \A u \in Thread : \A d \in Colour :
          table_lock'[d] = u <=> /\ pc'[u] \in {"create", "insert", "found"}
                                 /\ ColourOf(wanted'[u]) = d
    BY <1>2, <1>3, <1>5, ThreadAssumption DEF LockDiscipline
  <2>4. QED
    BY <2>1, <2>2, <2>3 DEF LockDiscipline
<1>7. Lookups' /\ RootLookups' /\ TableColours'
  BY <1>2, <1>4 DEF Lookups, RootLookups, TableColours
<1>8. InFlight' = InFlight
  BY <1>2 DEF InFlight
<1>9. Quiet
  BY DEF LockFound, Quiet
<1>10. QED
  BY <1>1, <1>6, <1>7, <1>8, <1>9

LEMMA StructureSetLock ==
  ASSUME Structure, RootAlone, NEW t \in Thread, NEW n \in Tabled, SetLock(t, n)
  PROVE  Structure' /\ Quiet /\ InFlight' = InFlight
<1> USE ColourOfType DEF Structure, TypeInv, TypeOK
<1>1. TypeInv'
  BY TypeStep DEF Step, Client
<1>2. /\ pc[t] = "idle" /\ pc' = [pc EXCEPT ![t] = "held"]
      /\ lock' = [lock EXCEPT ![n] = t]
      /\ ret' = [ret EXCEPT ![t] = n]
      /\ UNCHANGED <<table, freed_nodes, expanded, zobrist_hash, wanted,
                     on_root, table_lock>>
      /\ lock[n] = Null
  BY DEF SetLock, poolVars, stateVars, StateFree
<1>3. Tabled' = Tabled /\ n \in Node
  BY <1>2 DEF Tabled
<1>4. LockDiscipline'
  <2>1. \A m \in Node : lock[m] # Null => lock[m] # t
    BY <1>2 DEF LockDiscipline
  <2>2. \A m \in Node : lock'[m] # Null => m \in Tabled' /\ ret'[lock'[m]] = m
    BY <2>1, <1>2, <1>3 DEF LockDiscipline
  <2>3. \A u \in Thread : pc'[u] = "held" <=> \E m \in Node : lock'[m] = u
    BY <1>2, <1>3, ThreadAssumption DEF LockDiscipline
  <2>4. \A u \in Thread : \A d \in Colour :
          table_lock'[d] = u <=> /\ pc'[u] \in {"create", "insert", "found"}
                                 /\ ColourOf(wanted'[u]) = d
    BY <1>2 DEF LockDiscipline
  <2>5. QED
    BY <2>2, <2>3, <2>4 DEF LockDiscipline
<1>5. \A u \in Thread : u # t =>
        pc'[u] = pc[u] /\ wanted'[u] = wanted[u] /\ ret'[u] = ret[u]
  BY <1>2
<1>6. Lookups'
  BY <1>2, <1>3, <1>5 DEF Lookups
<1>7. RootLookups' /\ TableColours'
  BY <1>2 DEF RootLookups, RootAlone, TableColours
<1>8. InFlight' = InFlight
  <2>1. \A u \in Thread : /\ pc'[u] = "insert" <=> pc[u] = "insert"
                          /\ pc[u] = "insert" => ret'[u] = ret[u]
    BY <1>2
  <2>2. QED
    BY <2>1 DEF InFlight
<1>9. Quiet
  BY DEF SetLock, Quiet
<1>10. QED
  BY <1>1, <1>4, <1>6, <1>7, <1>8, <1>9

LEMMA StructureRelease ==
  ASSUME Structure, NEW t \in Thread, Release(t), TypeInv',
         zobrist_hash' = zobrist_hash, expanded' \subseteq expanded \cup {ret[t]}
  PROVE  /\ Structure' /\ InFlight' = InFlight
         /\ ret[t] \in Tabled
<1> USE ColourOfType DEF Structure, TypeInv, TypeOK
<1>1. /\ pc[t] = "held" /\ pc' = [pc EXCEPT ![t] = "idle"]
      /\ lock' = [lock EXCEPT ![ret[t]] = Null]
      /\ wanted' = [wanted EXCEPT ![t] = AnyKey]
      /\ on_root' = [on_root EXCEPT ![t] = FALSE]
      /\ ret' = [ret EXCEPT ![t] = Null]
      /\ UNCHANGED <<table, freed_nodes, table_lock>>
  BY DEF Release, poolVars
<1>2. PICK n \in Node : lock[n] = t
  BY <1>1 DEF LockDiscipline
<1>3. ret[t] = n /\ n \in Tabled
  BY <1>2, ThreadAssumption DEF LockDiscipline
<1>4. Tabled' = Tabled
  BY <1>1 DEF Tabled
<1>5. \A m \in Node : lock[m] = t => m = n
  BY <1>3, ThreadAssumption DEF LockDiscipline
<1>6. LockDiscipline'
  <2>1. \A m \in Node : lock'[m] # Null => m \in Tabled' /\ ret'[lock'[m]] = m
    BY <1>1, <1>3, <1>4, <1>5 DEF LockDiscipline
  <2>2. \A u \in Thread : pc'[u] = "held" <=> \E m \in Node : lock'[m] = u
    BY <1>1, <1>2, <1>3, <1>5, ThreadAssumption DEF LockDiscipline
  <2>3. \A u \in Thread : \A d \in Colour :
          table_lock'[d] = u <=> /\ pc'[u] \in {"create", "insert", "found"}
                                 /\ ColourOf(wanted'[u]) = d
    BY <1>1 DEF LockDiscipline
  <2>4. QED
    BY <2>1, <2>2, <2>3 DEF LockDiscipline
<1>7. \A u \in Thread : pc'[u] # "idle" =>
        u # t /\ pc'[u] = pc[u] /\ wanted'[u] = wanted[u] /\ ret'[u] = ret[u]
  BY <1>1
<1>8. Lookups'
  <2>1. \A u \in Thread : pc'[u] = "insert" =>
          ret'[u] \notin Tabled' \cup freed_nodes' \cup expanded'
    BY <1>1, <1>3, <1>4, <1>7 DEF Lookups
  <2>2. QED
    BY <2>1, <1>1, <1>7 DEF Lookups
<1>9. RootLookups' /\ TableColours'
  BY <1>1 DEF RootLookups, TableColours
<1>10. InFlight' = InFlight
  <2>1. \A u \in Thread : /\ pc'[u] = "insert" <=> pc[u] = "insert"
                          /\ pc[u] = "insert" => ret'[u] = ret[u]
    BY <1>1
  <2>2. QED
    BY <2>1 DEF InFlight
<1>11. QED
  BY <1>3, <1>6, <1>8, <1>9, <1>10

LEMMA StructureSetNext ==
  ASSUME Structure, NEW t \in Thread, NEW n \in Tabled \cap expanded,
         NEW p \in Play, RootAlone, SetNext(t, n, p)
  PROVE  /\ Structure' /\ InFlight' = InFlight
         /\ ret[t] \in Tabled
<1> USE DEF Structure
<1>1. TypeInv'
  BY TypeStep DEF Step, Client
<1>2. /\ pc[t] = "held"
      /\ UNCHANGED <<table, freed_nodes, zobrist_hash, expanded, table_lock,
                     lock, pc, wanted, on_root, ret>>
  BY DEF SetNext, poolVars, lookupVars
<1>3. Tabled' = Tabled /\ InFlight' = InFlight
  BY <1>2 DEF Tabled, InFlight
<1>4. PICK m \in Node : lock[m] = t
  BY <1>2 DEF LockDiscipline
<1>5. ret[t] \in Tabled
  BY <1>4, ThreadAssumption DEF LockDiscipline
<1>6. LockDiscipline' /\ Lookups' /\ RootLookups' /\ TableColours'
  BY <1>2, <1>3 DEF LockDiscipline, Lookups, RootLookups, TableColours, ColourOf
<1>7. QED
  BY <1>1, <1>3, <1>5, <1>6

-----------------------------------------------------------------------------
(***************************************************************************)
(* The part about the states' contents and their number, action by action. *)
(***************************************************************************)
Contents == UniqueStates /\ PoolAccounting /\ MarksCurrent /\ NoDanglingStats

LEMMA QuietKeeps ==
  ASSUME Contents, Quiet, InFlight' = InFlight
  PROVE  Contents'
BY DEF Contents, Quiet, Tabled, poolVars, stateVars, UniqueStates,
       PoolAccounting, MarksCurrent, NoDanglingStats

\* A step that starts no lookup and counts no state keeps the limit.
LEMMA OvershootKept ==
  ASSUME Overshoot, states_in_use' = states_in_use,
         \A u \in Thread : pc'[u] = "create" =>
            pc[u] = "create" /\ on_root'[u] = on_root[u]
  PROVE  Overshoot'
BY DEF Overshoot

LEMMA LookupKeeps ==
  ASSUME Inv, NEW t \in Thread, NEW k \in Key, NEW of_root \in BOOLEAN,
         Lookup(t, k, of_root)
  PROVE  Inv'
<1> USE DEF Inv
<1>1. Structure'
  BY StructureLookup
<1>2. Quiet /\ InFlight' = InFlight
  BY LookupQuiet DEF Structure
<1>3. Contents'
  BY <1>2, QuietKeeps DEF Contents
<1>4. Overshoot'
  <2>1. states_in_use' = states_in_use /\ states_in_use \in Nat
    BY <1>2 DEF Quiet, poolVars, Structure, TypeInv, TypeOK
  <2>2. CASE LookupHit(t, k, of_root)
    <3>1. \A u \in Thread : pc'[u] = "create" =>
            pc[u] = "create" /\ on_root'[u] = on_root[u]
      BY <2>2 DEF LookupHit, FindFrom, Structure, TypeInv, TypeOK
    <3>2. QED
      BY <3>1, <2>1, OvershootKept
  <2>3. CASE LookupMiss(t, k, of_root)
    <3>1. ~on_root'[t] => states_in_use < MaxStates
      BY <2>1, <2>3, MaxStatesAssumption
      DEF LookupMiss, FindFrom, Full, Structure, TypeInv, TypeOK
    <3>2. \A u \in Thread : u # t =>
            pc'[u] = pc[u] /\ on_root'[u] = on_root[u]
      BY <2>3 DEF LookupMiss, FindFrom
    <3>3. QED
      BY <3>1, <3>2, <2>1, MaxStatesAssumption DEF Overshoot
  <2>4. QED
    BY <2>2, <2>3 DEF Lookup
<1>5. QED
  BY <1>1, <1>3, <1>4 DEF Contents

LEMMA CreateKeeps ==
  ASSUME Inv, NEW t \in Thread, create_state(t)
  PROVE  Inv'
<1> USE DEF Inv
<1>1. Structure'
  BY StructureCreate
<1>2. PICK n \in Node :
        /\ n \notin Tabled \cup InFlight
        /\ InFlight' = InFlight \cup {n}
        /\ Tabled' = Tabled
        /\ mark' = [mark EXCEPT ![n] = maintenance_mark]
        /\ zobrist_hash' = [zobrist_hash EXCEPT ![n] = wanted[t]]
        /\ expanded' = expanded \ {n}
        /\ \/ /\ n \in freed_nodes
              /\ allocated_states' = allocated_states
           \/ /\ freed_nodes = {}
              /\ allocated_states' = allocated_states + 1
        /\ freed_nodes' = freed_nodes \ {n}
  BY StructureCreate
<1>3. /\ UNCHANGED <<table, maintenance_mark, next_stats, on_root>>
      /\ states_in_use' = states_in_use + 1
      /\ pc[t] = "create" /\ pc' = [pc EXCEPT ![t] = "insert"]
  BY DEF create_state, SetNewState
<1>4. TypeOK /\ IsFiniteSet(Node)
  BY NodeAssumption DEF Structure, TypeInv
<1>5. Tabled \subseteq Node /\ InFlight \subseteq Node
  BY <1>4 DEF TypeOK, Tabled, InFlight
<1>6. UniqueStates'
  BY <1>2, <1>3, <1>4 DEF UniqueStates, Tabled, TypeOK
<1>7. PoolAccounting'
  <2>1. IsFiniteSet(Tabled \cup InFlight)
    BY <1>4, <1>5, FS_Subset
  <2>2. Tabled' \cup InFlight' = (Tabled \cup InFlight) \cup {n}
    BY <1>2
  <2>3. states_in_use' = Cardinality(Tabled' \cup InFlight')
    <3>1. Cardinality((Tabled \cup InFlight) \cup {n})
            = Cardinality(Tabled \cup InFlight) + 1
      BY <1>2, <2>1, FS_AddElement
    <3>2. QED
      BY <1>3, <2>2, <3>1 DEF PoolAccounting
  <2>4. allocated_states' = Cardinality(Tabled' \cup InFlight' \cup freed_nodes')
    <3>1. CASE n \in freed_nodes /\ allocated_states' = allocated_states
      <4>1. Tabled' \cup InFlight' \cup freed_nodes'
              = Tabled \cup InFlight \cup freed_nodes
        BY <1>2, <3>1
      <4>2. QED
        BY <3>1, <4>1 DEF PoolAccounting
    <3>2. CASE freed_nodes = {} /\ allocated_states' = allocated_states + 1
      <4>1. /\ Tabled' \cup InFlight' \cup freed_nodes'
                 = (Tabled \cup InFlight) \cup {n}
            /\ Tabled \cup InFlight \cup freed_nodes = Tabled \cup InFlight
        BY <1>2, <3>2
      <4>2. Cardinality((Tabled \cup InFlight) \cup {n})
              = Cardinality(Tabled \cup InFlight) + 1
        BY <1>2, <2>1, FS_AddElement
      <4>3. allocated_states = Cardinality(Tabled \cup InFlight)
        BY <4>1 DEF PoolAccounting
      <4>4. QED
        BY <3>2, <4>1, <4>2, <4>3
    <3>3. QED
      BY <1>2, <3>1, <3>2
  <2>5. QED
    BY <1>2, <1>3, <2>3, <2>4 DEF PoolAccounting
<1>8. MarksCurrent'
  BY <1>2, <1>3, <1>4 DEF MarksCurrent, TypeOK
<1>9. NoDanglingStats'
  BY <1>2, <1>3 DEF NoDanglingStats
<1>10. Overshoot'
  <2>1. ASSUME NEW u \in Thread, pc'[u] = "create", ~on_root'[u]
        PROVE  states_in_use < MaxStates
    <3>1. u # t /\ pc[u] = "create" /\ ~on_root[u]
      BY <2>1, <1>3, <1>4 DEF TypeOK
    <3>2. ~on_root[t]
      BY <3>1, <1>3 DEF Structure, RootLookups
    <3>3. QED
      BY <3>1, <3>2, <1>3 DEF Overshoot
  <2>2. ASSUME NEW u \in Thread, pc'[u] = "create",
               NEW v \in Thread, pc'[v] = "create"
        PROVE  u = v
    <3>1. /\ u # t /\ pc[u] = "create"
          /\ v # t /\ pc[v] = "create"
      BY <2>2, <1>3, <1>4 DEF TypeOK
    <3>2. \A w \in Thread : wanted[w] \in Key
      BY <1>4 DEF TypeOK
    <3>3. /\ ColourOf(wanted[u]) # ColourOf(wanted[t])
          /\ ColourOf(wanted[v]) # ColourOf(wanted[t])
      BY <3>1, <1>3, OnePerTable DEF Structure
    <3>4. ColourOf(wanted[u]) = ColourOf(wanted[v])
      BY <3>2, <3>3 DEF ColourOf
    <3>5. QED
      BY <3>1, <3>4, OnePerTable DEF Structure
  <2>3. states_in_use \in Nat /\ states_in_use' = states_in_use + 1
    BY <1>3, <1>4 DEF TypeOK
  <2>4. QED
    BY <2>1, <2>2, <2>3, MaxStatesAssumption DEF Overshoot
<1>11. QED
  BY <1>1, <1>6, <1>7, <1>8, <1>9, <1>10

LEMMA InsertKeeps ==
  ASSUME Inv, NEW t \in Thread, Insert(t)
  PROVE  Inv'
<1> USE DEF Inv
<1>1. /\ Structure'
      /\ pc[t] = "insert"
      /\ Tabled' = Tabled \cup {ret[t]}
      /\ InFlight' = InFlight \ {ret[t]}
      /\ ret[t] \in InFlight
  BY StructureInsert
<1> DEFINE c == ColourOf(wanted[t])
<1>2. /\ table' = [table EXCEPT ![c] = @ \cup {ret[t]}]
      /\ pc' = [pc EXCEPT ![t] = "held"]
      /\ UNCHANGED <<poolVars, maintenance_mark, stateVars, on_root>>
  BY DEF Insert
<1>3. TypeOK /\ c \in Colour
  BY ColourOfType DEF Structure, TypeInv, TypeOK
<1>4. /\ ret[t] \notin Tabled \cup freed_nodes \cup expanded
      /\ zobrist_hash[ret[t]] = wanted[t]
      /\ \A n \in table[c] : zobrist_hash[n] # wanted[t]
  BY <1>1 DEF Structure, Lookups
<1>5. UniqueStates'
  BY <1>2, <1>3, <1>4 DEF UniqueStates, stateVars, TypeOK
<1>6. PoolAccounting'
  <2>1. Tabled' \cup InFlight' = Tabled \cup InFlight
    BY <1>1
  <2>2. table'["black"] \cap table'["white"] = {}
    BY <1>2, <1>3, <1>4 DEF PoolAccounting, TypeOK, Tabled
  <2>3. Tabled' \cap InFlight' = {}
    BY <1>1 DEF PoolAccounting
  <2>4. QED
    BY <1>2, <2>1, <2>2, <2>3 DEF PoolAccounting, poolVars
<1>7. MarksCurrent'
  BY <1>1, <1>2 DEF MarksCurrent, stateVars
<1>8. NoDanglingStats'
  BY <1>1, <1>2, <1>4 DEF NoDanglingStats, stateVars
<1>9. Overshoot'
  BY <1>2, <1>3, OvershootKept DEF poolVars, TypeOK
<1>10. QED
  BY <1>1, <1>5, <1>6, <1>7, <1>8, <1>9

LEMMA QuietStepKeeps ==
  ASSUME Inv, Structure', Quiet, InFlight' = InFlight,
         \A u \in Thread : pc'[u] = "create" =>
            pc[u] = "create" /\ on_root'[u] = on_root[u]
  PROVE  Inv'
BY QuietKeeps, OvershootKept DEF Inv, Contents, Quiet, poolVars

\* The steps of the client.
LEMMA ClientKeeps ==
  ASSUME Inv, NEW t \in Thread, Client(t)
  PROVE  Inv'
<1>1. Structure /\ TypeInv /\ TypeOK
  BY DEF Inv, Structure, TypeInv
<1>2. ASSUME NEW n \in Tabled, RootAlone, SetLock(t, n) PROVE Inv'
  <2>1. Structure' /\ Quiet /\ InFlight' = InFlight
    BY <1>1, <1>2, StructureSetLock
  <2>2. QED
    BY <1>1, <1>2, <2>1, QuietStepKeeps DEF SetLock, TypeOK
<1>3. ASSUME NEW n \in Tabled \cap expanded, NEW p \in Play, RootAlone,
             SetNext(t, n, p)
      PROVE  Inv'
  <2>1. Structure' /\ InFlight' = InFlight /\ ret[t] \in Tabled
    BY <1>1, <1>3, StructureSetNext
  <2>2. /\ next_stats' = [next_stats EXCEPT ![n][p] = ret[t]]
        /\ UNCHANGED <<table, poolVars, maintenance_mark, zobrist_hash, mark,
                       expanded, pc, on_root>>
    BY <1>3 DEF SetNext, lookupVars
  <2>3. UniqueStates' /\ PoolAccounting' /\ MarksCurrent'
    BY <2>1, <2>2
    DEF Inv, UniqueStates, PoolAccounting, MarksCurrent, Tabled, poolVars
  <2>4. NoDanglingStats'
    BY <1>1, <2>1, <2>2 DEF Inv, NoDanglingStats, Tabled, TypeOK
  <2>5. Overshoot'
    BY <2>2, OvershootKept DEF Inv, poolVars
  <2>6. QED
    BY <2>1, <2>3, <2>4, <2>5 DEF Inv
<1>4. ASSUME UnsetLock(t) PROVE Inv'
  <2>1. TypeInv'
    BY <1>1, <1>4, TypeStep DEF Step, Client
  <2>2. Structure' /\ InFlight' = InFlight
    BY <1>1, <1>4, <2>1, StructureRelease DEF UnsetLock, stateVars
  <2>3. Quiet
    BY <1>4 DEF UnsetLock, Release, Quiet
  <2>4. \A u \in Thread : pc'[u] = "create" =>
          pc[u] = "create" /\ on_root'[u] = on_root[u]
    BY <1>1, <1>4 DEF UnsetLock, Release, TypeOK
  <2>5. QED
    BY <2>2, <2>3, <2>4, QuietStepKeeps
<1>5. ASSUME ExpandAndUnset(t) PROVE Inv'
  <2>1. TypeInv'
    BY <1>1, <1>5, TypeStep DEF Step, Client
  <2>2. /\ Release(t)
        /\ UNCHANGED <<table, poolVars, maintenance_mark, zobrist_hash, mark>>
        /\ next_stats' = [next_stats EXCEPT ![ret[t]] = [p \in Play |-> Null]]
        /\ expanded' = expanded \cup {ret[t]}
    BY <1>5 DEF ExpandAndUnset, Release, ResetNext
  <2>3. Structure' /\ InFlight' = InFlight /\ ret[t] \in Tabled
    BY <1>1, <2>1, <2>2, StructureRelease
  <2>4. UniqueStates' /\ PoolAccounting' /\ MarksCurrent'
    BY <2>2, <2>3
    DEF Inv, UniqueStates, PoolAccounting, MarksCurrent, Tabled, poolVars
  <2>5. NoDanglingStats'
    BY <1>1, <2>2, <2>3 DEF Inv, NoDanglingStats, Tabled, TypeOK
  <2>6. \A u \in Thread : pc'[u] = "create" =>
          pc[u] = "create" /\ on_root'[u] = on_root[u]
    BY <1>1, <2>2 DEF Release, TypeOK
  <2>7. Overshoot'
    BY <2>2, <2>6, OvershootKept DEF Inv, poolVars
  <2>8. QED
    BY <2>3, <2>4, <2>5, <2>7 DEF Inv
<1>6. QED
  BY <1>2, <1>3, <1>4, <1>5 DEF Client

-----------------------------------------------------------------------------
(***************************************************************************)
(* Maintenance.                                                            *)
(***************************************************************************)
\* Releasing any of the tables' states between turns keeps the structure and
\* the accounts.
LEMMA ReleaseKeeps ==
  ASSUME Inv, Quiescent, NEW S \in SUBSET Tabled, ReleaseStates(S),
         maintenance_mark' \in 0..(MarkMod - 1),
         mark' \in [Node -> 0..(MarkMod - 1)],
         UNCHANGED <<allocated_states, zobrist_hash, expanded, next_stats,
                     table_lock, lock, lookupVars>>
  PROVE  /\ Structure' /\ UniqueStates' /\ PoolAccounting' /\ Overshoot'
         /\ Tabled' = Tabled \ S /\ InFlight' = {}
<1> USE DEF Inv, Structure
<1>1. TypeOK /\ IsFiniteSet(Node)
  BY NodeAssumption DEF TypeInv
<1>2. /\ InFlight = {} /\ InFlight' = {}
      /\ \A t \in Thread : pc'[t] = "idle" /\ ~on_root[t]
  BY DEF Quiescent, InFlight, lookupVars, RootLookups
<1>3. /\ table' = [c \in Colour |-> table[c] \ S]
      /\ freed_nodes' = freed_nodes \cup S
      /\ states_in_use' = states_in_use - Cardinality(S)
  BY DEF ReleaseStates
<1>4. Tabled' = Tabled \ S
  BY <1>3 DEF Tabled
<1>5. IsFiniteSet(Tabled) /\ S \subseteq Node
  BY <1>1, FS_Subset DEF Tabled, TypeOK
<1>6. /\ states_in_use' = Cardinality(Tabled') /\ states_in_use' \in Nat
  <2>1. Tabled \cap S = S
    OBVIOUS
  <2>2. Tabled \cup InFlight = Tabled
    BY <1>2
  <2>3. states_in_use = Cardinality(Tabled)
    BY <2>2 DEF PoolAccounting
  <2>4. /\ IsFiniteSet(Tabled \ S)
        /\ Cardinality(Tabled \ S) = Cardinality(Tabled) - Cardinality(Tabled \cap S)
    BY <1>5, FS_Difference
  <2>5. Cardinality(Tabled \ S) = Cardinality(Tabled) - Cardinality(S)
    BY <2>1, <2>4
  <2>6. Cardinality(Tabled \ S) \in Nat
    BY <2>4, FS_CardinalityType
  <2>7. QED
    BY <1>3, <1>4, <2>3, <2>5, <2>6
<1>7. TypeInv'
  BY <1>1, <1>2, <1>3, <1>5, <1>6 DEF TypeInv, TypeOK, lookupVars
<1>8. LockDiscipline'
  <2>1. \A n \in Node : lock[n] = Null
    BY <1>1, <1>2 DEF LockDiscipline, TypeOK, Quiescent
  <2>2. QED
    BY <1>2, <2>1, ThreadAssumption DEF LockDiscipline, lookupVars, Quiescent
<1>9. Lookups' /\ RootLookups' /\ TableColours'
  BY <1>2, <1>3 DEF Lookups, RootLookups, TableColours, ColourOf, lookupVars
<1>10. UniqueStates'
  BY <1>3 DEF UniqueStates
<1>11. PoolAccounting'
  <2>1. Tabled' \cup InFlight' = Tabled'
    BY <1>2
  <2>2. Tabled' \cup InFlight' \cup freed_nodes'
          = Tabled \cup InFlight \cup freed_nodes
    BY <1>2, <1>3, <1>4
  <2>3. freed_nodes' \cap Tabled' = {}
    BY <1>2, <1>3, <1>4 DEF PoolAccounting
  <2>4. table'["black"] \cap table'["white"] = {}
    BY <1>3 DEF PoolAccounting
  <2>5. QED
    BY <1>2, <1>6, <2>1, <2>2, <2>3, <2>4 DEF PoolAccounting
<1>12. Overshoot'
  BY <1>2 DEF Overshoot
<1>13. QED
  BY <1>2, <1>4, <1>7, <1>8, <1>9, <1>10, <1>11, <1>12

LEMMA CleanAllKeeps ==
  ASSUME Inv, tt_clean_all
  PROVE  Inv' /\ Tabled' = {}
<1>1. 0 \in 0..(MarkMod - 1) /\ mark \in [Node -> 0..(MarkMod - 1)]
  BY MarkAssumption DEF Inv, Structure, TypeInv, TypeOK
<1>2. /\ Structure' /\ UniqueStates' /\ PoolAccounting' /\ Overshoot'
      /\ Tabled' = Tabled \ Tabled /\ InFlight' = {}
  BY <1>1, ReleaseKeeps DEF tt_clean_all, stateVars
<1>3. Tabled' = {}
  BY <1>2
<1>4. MarksCurrent' /\ NoDanglingStats'
  BY <1>2, <1>3 DEF MarksCurrent, NoDanglingStats
<1>5. QED
  BY <1>2, <1>3, <1>4 DEF Inv

\* Marking is closed: what is followed from a marked state is marked.
LEMMA MarkedClosed ==
  ASSUME NEW m, NEW top \in Node, NEW n \in Marked(top, m),
         NEW s \in Followed(n, m)
  PROVE  s \in Marked(top, m)
BY DEF Marked, Followed

\* What the marking of a mark no state has reaches, in the tables, is what can
\* be reached.
LEMMA MarkedReachable ==
  ASSUME Inv, NEW top \in Tabled, NEW m, m # maintenance_mark
  PROVE  Marked(top, m) \cap Tabled = Reachable(top)
<1>1. Tabled \subseteq Node /\ top \in Node
  BY DEF Inv, Structure, TypeInv, TypeOK, Tabled
<1>2. \A s \in Tabled \cap expanded : \A p \in Play :
        next_stats[s][p] \in Tabled \cup {Null}
  BY DEF Inv, NoDanglingStats
<1>3. \A s \in Tabled : mark[s] # m
  BY DEF Inv, MarksCurrent
<1>4. Reachable(top) \subseteq Tabled
  BY <1>1, <1>2 DEF Reachable
<1>5. ASSUME NEW n \in Reachable(top) PROVE n \in Marked(top, m)
  <2>1. SUFFICES ASSUME NEW S \in SUBSET Node, top \in S,
                        \A s \in S : Followed(s, m) \subseteq S
                 PROVE  n \in S
    BY <1>5 DEF Marked, Reachable
  <2>2. \A s \in (S \cap Tabled) \cap expanded : \A p \in Play :
          next_stats[s][p] \in (S \cap Tabled) \cup {Null}
    BY <1>1, <1>2, <1>3, <2>1 DEF Followed
  <2>3. n \in S \cap Tabled
    BY <1>5, <2>1, <2>2 DEF Reachable
  <2>4. QED
    BY <2>3
<1>6. ASSUME NEW n \in Marked(top, m) PROVE n \in Reachable(top)
  <2>1. SUFFICES ASSUME NEW S \in SUBSET Node, top \in S,
                        \A s \in S \cap expanded : \A p \in Play :
                          next_stats[s][p] \in S \cup {Null}
                 PROVE  n \in S
    BY <1>6 DEF Marked, Reachable
  <2>2. \A s \in S : Followed(s, m) \subseteq S
    BY <2>1, NodeAssumption DEF Followed
  <2>3. QED
    BY <1>6, <2>1, <2>2 DEF Marked
<1>7. QED
  BY <1>4, <1>5, <1>6

LEMMA CleanUnreachableKeeps ==
  ASSUME Inv, Quiescent, NEW top \in Tabled,
         maintenance_mark' = NextMark,
         mark' = [n \in Node |-> IF n \in Marked(top, NextMark)
                                   THEN NextMark ELSE mark[n]],
         ReleaseStates({n \in Tabled : mark'[n] # NextMark}),
         UNCHANGED <<allocated_states, zobrist_hash, expanded, next_stats,
                     table_lock, lock, lookupVars>>
  PROVE  Inv' /\ Tabled' = Reachable(top)
<1> DEFINE S == {n \in Tabled : mark'[n] # NextMark}
<1>1. NextMark \in 0..(MarkMod - 1) /\ NextMark # maintenance_mark
  BY NextMarkType DEF Inv, Structure, TypeInv, TypeOK
<1>2. mark' \in [Node -> 0..(MarkMod - 1)] /\ Tabled \subseteq Node
  BY <1>1 DEF Inv, Structure, TypeInv, TypeOK, Tabled
<1>3. /\ Structure' /\ UniqueStates' /\ PoolAccounting' /\ Overshoot'
      /\ Tabled' = Tabled \ S /\ InFlight' = {}
  <2>1. S \in SUBSET Tabled /\ ReleaseStates(S)
    OBVIOUS
  <2>2. QED
    BY <1>1, <1>2, <2>1, ReleaseKeeps
<1>4. MarksCurrent'
  BY <1>3 DEF MarksCurrent
<1>5. Tabled' = Marked(top, NextMark) \cap Tabled
  BY <1>1, <1>2, <1>3 DEF Inv, MarksCurrent
<1>6. NoDanglingStats'
  <2>1. SUFFICES ASSUME NEW n \in Tabled \cap expanded,
                        n \in Marked(top, NextMark), NEW p \in Play,
                        next_stats[n][p] # Null
                 PROVE  next_stats[n][p] \in Tabled'
    BY <1>5 DEF NoDanglingStats
  <2>2. next_stats[n][p] \in Tabled /\ mark[next_stats[n][p]] # NextMark
    BY <1>1, <2>1 DEF Inv, NoDanglingStats, MarksCurrent
  <2>3. next_stats[n][p] \in Followed(n, NextMark)
    BY <1>2, <2>1, <2>2 DEF Followed
  <2>4. next_stats[n][p] \in Marked(top, NextMark)
    BY <1>2, <2>1, <2>3, MarkedClosed
  <2>5. QED
    BY <1>5, <2>2, <2>4
<1>7. Tabled' = Reachable(top)
  BY <1>1, <1>5, MarkedReachable
<1>8. QED
  BY <1>3, <1>4, <1>6, <1>7 DEF Inv

\* Cleaning keeps the invariant, and keeps of the tables what it should.
LEMMA CleanKeeps ==
  ASSUME Inv, NEW k \in Key, tt_clean_unreachable(k)
  PROVE  /\ Inv'
         /\ \/ find_state(k) = {} /\ Tabled' = {}
            \/ \E top \in find_state(k) : Tabled' = Reachable(top)
<1>1. CASE find_state(k) = {} /\ tt_clean_all
  BY <1>1, CleanAllKeeps
<1>2. ASSUME NEW top \in find_state(k),
             maintenance_mark' = NextMark,
             mark' = [n \in Node |-> IF n \in Marked(top, NextMark)
                                       THEN NextMark ELSE mark[n]],
             ReleaseStates({n \in Tabled : mark'[n] # NextMark}),
             UNCHANGED <<allocated_states, zobrist_hash, expanded, next_stats,
                         table_lock, lock, lookupVars>>
      PROVE  /\ Inv'
             /\ \E r \in find_state(k) : Tabled' = Reachable(r)
  <2>1. top \in Tabled /\ Quiescent
    BY ColourOfType DEF find_state, Tabled, tt_clean_unreachable
  <2>2. Inv' /\ Tabled' = Reachable(top)
    BY <1>2, <2>1, CleanUnreachableKeeps
  <2>3. QED
    BY <2>2
<1>3. QED
  BY <1>1, <1>2 DEF tt_clean_unreachable

-----------------------------------------------------------------------------
(***************************************************************************)
(* The theorems.                                                           *)
(***************************************************************************)
LEMMA InvNext == Inv /\ [Next]_vars => Inv'
<1> SUFFICES ASSUME Inv, [Next]_vars PROVE Inv'
  OBVIOUS
<1>1. ASSUME NEW t \in Thread, Step(t) PROVE Inv'
  <2>1. ASSUME NEW k \in Key, NEW of_root \in BOOLEAN, Lookup(t, k, of_root)
        PROVE  Inv'
    BY <2>1, LookupKeeps
  <2>2. CASE create_state(t)
    BY <2>2, CreateKeeps
  <2>3. CASE Insert(t)
    BY <2>3, InsertKeeps
  <2>4. CASE LockFound(t)
    <3>1. Structure' /\ Quiet /\ InFlight' = InFlight
      BY <2>4, StructureLockFound DEF Inv
    <3>2. \A u \in Thread : pc'[u] = "create" =>
            pc[u] = "create" /\ on_root'[u] = on_root[u]
      BY <2>4 DEF LockFound, Inv, Structure, TypeInv, TypeOK
    <3>3. QED
      BY <3>1, <3>2, QuietStepKeeps
  <2>5. CASE Client(t)
    BY <2>5, ClientKeeps
  <2>6. QED
    BY <1>1, <2>1, <2>2, <2>3, <2>4, <2>5 DEF Step
<1>2. CASE tt_clean_all
  BY <1>2, CleanAllKeeps
<1>3. ASSUME NEW k \in Key, tt_clean_unreachable(k) PROVE Inv'
  BY <1>3, CleanKeeps
<1>4. CASE UNCHANGED vars
  <2>1. /\ UNCHANGED <<table, freed_nodes, states_in_use, allocated_states,
                       maintenance_mark, zobrist_hash, mark, expanded>>
        /\ UNCHANGED <<next_stats, table_lock, lock, pc, wanted, on_root, ret>>
    BY <1>4 DEF vars, poolVars, stateVars, lookupVars
  <2>2. Tabled' = Tabled /\ InFlight' = InFlight
    BY <2>1 DEF Tabled, InFlight
  <2>3. Structure'
    BY <2>1, <2>2
    DEF Inv, Structure, TypeInv, TypeOK, LockDiscipline, Lookups, RootLookups,
        TableColours
  <2>4. Quiet
    BY <2>1 DEF Quiet, poolVars, stateVars
  <2>5. QED
    BY <2>1, <2>2, <2>3, <2>4, QuietStepKeeps
<1>5. QED
  BY <1>1, <1>2, <1>3, <1>4 DEF Next, Maintenance

\* The inductive invariant holds in every reachable state.
THEOREM Invariance == Spec => []Inv
BY InvInit, InvNext, PTL DEF Spec

\* Every variable of the table keeps its type; the mark never leaves its width.
THEOREM TypeCorrect == Spec => []TypeOK
<1>1. Inv => TypeOK
  BY DEF Inv, Structure, TypeInv
<1>2. QED
  BY <1>1, Invariance, PTL

\* No lookups of any threads, interleaved in any way with cleanings, put two
\* states of one position in a table (tt_lookup_null, tt_lookup_create).
THEOREM StatesAreUnique == Spec => []UniqueStates
<1>1. Inv => UniqueStates
  BY DEF Inv
<1>2. QED
  BY <1>1, Invariance, PTL

\* No state is lost, or in two places, and the counters are right (create_state,
\* release_state).
THEOREM PoolIsAccounted == Spec => []PoolAccounting
<1>1. Inv => PoolAccounting
  BY DEF Inv
<1>2. QED
  BY <1>1, Invariance, PTL

\* Locks are held by whom the lookups say, and only on states in use.
THEOREM LocksAreDisciplined == Spec => []LockDiscipline
<1>1. Inv => LockDiscipline
  BY DEF Inv, Structure
<1>2. QED
  BY <1>1, Invariance, PTL

\* All states in use carry the current mark, whatever the width of the mark, so
\* that its wrapping is harmless (tt_clean_unreachable).
THEOREM MarksAreCurrent == Spec => []MarksCurrent
<1>1. Inv => MarksCurrent
  BY DEF Inv
<1>2. QED
  BY <1>1, Invariance, PTL

\* The pointers the search follows never lead to a released state.
THEOREM StatsDoNotDangle == Spec => []NoDanglingStats
<1>1. Inv => NoDanglingStats
  BY DEF Inv
<1>2. QED
  BY <1>1, Invariance, PTL

\* With any number of threads, the states counted when tt_lookup_null creates
\* one are at most the limit, though it reads the count with no lock.
THEOREM OvershootIsBounded == Spec => []LookupOvershoot
<1>1. Inv => LookupOvershoot
  BY DEF Inv, Overshoot, LookupOvershoot
<1>2. QED
  BY <1>1, Invariance, PTL

\* Cleaning between turns keeps exactly what can be reached from the current
\* position (tt_clean_unreachable, mark_states_for_keeping).
THEOREM CleaningIsExact == Spec => CleansUnreachable
<1> DEFINE Clean == \A k \in Key :
                      tt_clean_unreachable(k) =>
                        \/ find_state(k) = {} /\ Tabled' = {}
                        \/ \E top \in find_state(k) : Tabled' = Reachable(top)
<1>1. Inv => [Clean]_vars
  BY CleanKeeps
<1>2. QED
  BY <1>1, Invariance, PTL DEF CleansUnreachable

-----------------------------------------------------------------------------
(***************************************************************************)
(* The invariant.                                                          *)
(***************************************************************************)
AtType == {"idle", "enter", "lookup", "visit", "read", "backup", "done"}

PhaseType == {"ponder", "command", "root", "search"}

UctTypes ==
  /\ at \in [Thread -> AtType]
  /\ pos \in [Thread -> Key]
  /\ is_black \in [Thread -> BOOLEAN]
  /\ curr_stats \in [Thread -> Node \cup {Null}]
  /\ path \in [Thread -> Seq(Node \X Play)]
  /\ outcome \in [Thread -> -1..1]
  /\ level \in [Thread -> Nat]
  /\ left \in [Thread -> Int]
  /\ expansion_delay \in [Node -> -1..ExpansionDelay]
  /\ mc_n \in [Node -> [Play -> Nat]]
  /\ lgrf1_reply \in [Node -> [Play -> (Node \X Play) \cup {NoPlay}]]
  /\ phase \in PhaseType
  /\ root \in Key

\* Where t can be in the table: threads simulate in the parallel loop only, and only the
\* main thread looks a root up.
ThreadOK(t) ==
  /\ at[t] # "done" => phase = "search"
  /\ at[t] \in {"idle", "enter", "read", "backup"} => pc[t] = "idle"
  /\ at[t] = "done" => pc[t] = "idle" \/ (t = Master /\ phase = "root")
  /\ at[t] = "lookup" => pc[t] # "idle" /\ wanted[t] = pos[t]
  /\ at[t] = "visit" => pc[t] = "held" /\ ret[t] = curr_stats[t]
  /\ on_root[t] => t = Master /\ phase = "root"
  /\ t = Master /\ phase = "root" => pc[t] # "idle" /\ wanted[t] = root

\* A state found or created is the one wanted, until it is released.
AnswerOK(t) ==
  /\ pc[t] = "found" => zobrist_hash[ret[t]] = wanted[t]
  /\ pc[t] = "held" /\ at[t] = "lookup" => zobrist_hash[ret[t]] = wanted[t]

\* How long the path is, and the index in it.
LengthOK(t) ==
  /\ Len(path[t]) <= MaxDepth
  /\ at[t] \in {"lookup", "visit"} => Len(path[t]) < MaxDepth
  /\ at[t] \in {"idle", "done"} => path[t] = <<>>
  /\ at[t] = "read" => path[t] # <<>>
  /\ level[t] <= Len(path[t])
  /\ at[t] # "backup" => level[t] = 0

\* A play of the tree: one of the game, of an expanded state.
TreePlay(d) ==
  /\ d[1] \in Tabled \cap expanded
  /\ d[2] \in Moves(zobrist_hash[d[1]])
  /\ ~GameEnds(zobrist_hash[d[1]], d[2])

\* Where play d leads to.
Target(d) == Succ[zobrist_hash[d[1]]][d[2]]

\* n is the state d leads to.
Leads(d, n) == next_stats[d[1]][d[2]] = n /\ n \in Tabled /\ zobrist_hash[n] = Target(d)

\* Each play of the path leads to the state of the next one.
PathOK(t) ==
  /\ \A i \in 1..Len(path[t]) : TreePlay(path[t][i])
  /\ \A i \in 1..Len(path[t]) - 1 : Leads(path[t][i], path[t][i + 1][1])

LastPlay(t) == path[t][Len(path[t])]

Descending == {"read", "enter", "lookup", "visit"}

\* The position of a simulation is where its last play leads, and so is its state once
\* it has one.
PositionOK(t) ==
  /\ at[t] \in Descending =>
       /\ is_black[t] = (pos[t] \in BlackKey)
       /\ path[t] # <<>> => pos[t] = Target(LastPlay(t))
  /\ at[t] \in {"enter", "visit"} /\ curr_stats[t] # Null =>
       /\ curr_stats[t] \in Tabled
       /\ zobrist_hash[curr_stats[t]] = pos[t]
       /\ path[t] # <<>> => Leads(LastPlay(t), curr_stats[t])
  /\ at[t] = "lookup" => curr_stats[t] = Null
  /\ at[t] = "visit" => curr_stats[t] # Null

\* The turn counted back by an update.
BackTurnOK(t) ==
  at[t] = "backup" /\ level[t] > 0 =>
    ~is_black[t] = (zobrist_hash[path[t][level[t]][1]] \in BlackKey)

SuperkoOK(t) ==
  \A i, j \in 1..Len(path[t]) :
    (i < j /\ j - i <= 6 /\ path[t][i][1] = path[t][j][1]) =>
      zobrist_hash[path[t][j][1]] \in PassedKey

SimOK(t) ==
  /\ ThreadOK(t) /\ AnswerOK(t) /\ LengthOK(t) /\ PathOK(t) /\ PositionOK(t)
  /\ BackTurnOK(t) /\ SuperkoOK(t)

\* What counts as expanded: a state whose delay has run out.
Delays ==
  /\ \A n \in expanded : expansion_delay[n] = -1
  /\ \A n \in Tabled \cup InFlight : expansion_delay[n] = -1 => n \in expanded

UctInv ==
  /\ Inv
  /\ UctTypes
  /\ Delays
  /\ NextIsSuccessor
  /\ RepliesAreOfNext
  /\ \A t \in Thread : SimOK(t)

-----------------------------------------------------------------------------
(***************************************************************************)
(* What a step of the table does to the tree.                              *)
(***************************************************************************)
\* States and links are added only.
TreeGrows ==
  /\ Tabled \subseteq Tabled'
  /\ Tabled \cap expanded \subseteq expanded'
  /\ \A n \in Tabled : zobrist_hash'[n] = zobrist_hash[n]
  /\ \A n \in Tabled \cap expanded : \A p \in Moves(zobrist_hash[n]) :
       next_stats[n][p] # Null => next_stats'[n][p] = next_stats[n][p]

\* None are.
TreeSame ==
  /\ TreeGrows
  /\ Tabled' \cap expanded' = Tabled \cap expanded
  /\ next_stats' = next_stats

\* A play of the tree is one of the game, between positions of different players.
LEMMA TreePlayLeads ==
  ASSUME Inv, NEW d, TreePlay(d)
  PROVE  /\ d[1] \in Node /\ d[2] \in Play
         /\ zobrist_hash[d[1]] \in Key /\ Target(d) \in Key
         /\ (Target(d) \in BlackKey) = (zobrist_hash[d[1]] \notin BlackKey)
<1>1. d[1] \in Node /\ zobrist_hash[d[1]] \in Key
  BY DEF TreePlay, Inv, Structure, TypeInv, TypeOK, Tabled
<1>2. QED
  BY <1>1, GraphAssumption DEF TreePlay, Target

LEMMA TabledNodes ==
  ASSUME Inv
  PROVE  /\ Tabled \subseteq Node
         /\ \A n \in Node : zobrist_hash[n] \in Key
BY DEF Inv, Structure, TypeInv, TypeOK, Tabled, Colour

\* There is one state of a position.
LEMMA OneState ==
  ASSUME Inv, NEW m \in Tabled, NEW n \in Tabled, zobrist_hash[m] = zobrist_hash[n]
  PROVE  m = n
<1>1. PICK c \in Colour : m \in table[c]
  BY DEF Tabled, Colour
<1>2. PICK e \in Colour : n \in table[e]
  BY DEF Tabled, Colour
<1>3. c = e
  BY <1>1, <1>2 DEF Inv, Structure, TableColours
<1> QED
  BY <1>1, <1>2, <1>3 DEF Inv, UniqueStates

\* A state found or held is in its table.
LEMMA AnswersAreTabled ==
  ASSUME Inv, NEW t \in Thread, pc[t] \in {"found", "held"}
  PROVE  ret[t] \in Tabled
<1>1. CASE pc[t] = "found"
  BY <1>1, ColourOfType DEF Inv, Structure, TypeInv, TypeOK, Lookups, Tabled, Colour
<1>2. CASE pc[t] = "held"
  BY <1>2, ThreadAssumption DEF Inv, Structure, LockDiscipline
<1> QED
  BY <1>1, <1>2

LEMMA QuietTree == ASSUME UNCHANGED <<table, stateVars>> PROVE TreeSame
BY DEF stateVars, Tabled, TreeSame, TreeGrows

LEMMA CreateTree == ASSUME Inv, NEW t \in Thread, create_state(t) PROVE TreeSame
<1>1. PICK n \in IF freed_nodes # {} THEN freed_nodes ELSE Fresh : SetNewState(n, wanted[t])
  BY DEF create_state
<1>2. n \notin Tabled
  BY DEF Fresh, Inv, PoolAccounting
<1>3. /\ Tabled' = Tabled /\ expanded' = expanded \ {n} /\ next_stats' = next_stats
      /\ zobrist_hash' = [zobrist_hash EXCEPT ![n] = wanted[t]]
  BY <1>1 DEF create_state, SetNewState, Tabled
<1> QED
  BY <1>2, <1>3, TabledNodes DEF TreeSame, TreeGrows, Inv, Structure, TypeInv, TypeOK

LEMMA InsertTree == ASSUME Inv, NEW t \in Thread, Insert(t) PROVE TreeSame
<1>1. UNCHANGED <<zobrist_hash, expanded, next_stats>>
  BY DEF Insert, stateVars
<1>2. Tabled' = Tabled \cup {ret[t]}
  BY ColourOfType DEF Insert, Tabled, Inv, Structure, TypeInv, TypeOK, Colour
<1>3. ret[t] \notin expanded
  BY DEF Insert, Inv, Structure, Lookups
<1> QED
  BY <1>1, <1>2, <1>3 DEF TreeSame, TreeGrows

\* A state that is expanded was not, so had no links to lose.
LEMMA ExpandTree ==
  ASSUME Inv, NEW t \in Thread, ExpandAndUnset(t), ret[t] \notin expanded
  PROVE  /\ TreeGrows
         /\ Tabled' = Tabled /\ expanded' = expanded \cup {ret[t]}
         /\ next_stats' = [next_stats EXCEPT ![ret[t]] = [p \in Play |-> Null]]
BY DEF ExpandAndUnset, Release, ResetNext, TreeGrows, Tabled, Inv, Structure, TypeInv, TypeOK

\* A link is only ever written again with the same state.
LEMMA LinkTree ==
  ASSUME Inv, NextIsSuccessor, NEW t \in Thread, NEW d, TreePlay(d), SetNext(t, d[1], d[2]),
         ret[t] \in Tabled, zobrist_hash[ret[t]] = Target(d)
  PROVE  /\ TreeGrows
         /\ Tabled' = Tabled /\ expanded' = expanded /\ zobrist_hash' = zobrist_hash
         /\ next_stats' = [next_stats EXCEPT ![d[1]][d[2]] = ret[t]]
         /\ next_stats[d[1]][d[2]] \in {Null, ret[t]}
         /\ next_stats'[d[1]][d[2]] = ret[t]
<1>1. /\ Tabled' = Tabled /\ expanded' = expanded /\ zobrist_hash' = zobrist_hash
      /\ next_stats' = [next_stats EXCEPT ![d[1]][d[2]] = ret[t]]
  BY DEF SetNext, Tabled
<1>2. d[1] \in Node /\ d[2] \in Play
  BY TreePlayLeads
<1>3. next_stats[d[1]][d[2]] \in {Null, ret[t]}
  <2>1. SUFFICES ASSUME next_stats[d[1]][d[2]] # Null PROVE next_stats[d[1]][d[2]] = ret[t]
    OBVIOUS
  <2>2. next_stats[d[1]][d[2]] \in Tabled
    BY <1>2, <2>1 DEF Inv, NoDanglingStats, TreePlay
  <2>3. zobrist_hash[next_stats[d[1]][d[2]]] = Target(d)
    BY <2>1 DEF NextIsSuccessor, TreePlay, Target
  <2>4. QED
    BY <2>2, <2>3, OneState
<1>4. next_stats \in [Node -> [Play -> Node \cup {Null}]]
  BY DEF Inv, Structure, TypeInv, TypeOK
<1>5. next_stats'[d[1]][d[2]] = ret[t]
  BY <1>1, <1>2, <1>4
<1> QED
  BY <1>1, <1>2, <1>3, <1>4, <1>5 DEF TreeGrows

LEMMA LinksSame ==
  ASSUME Inv, NextIsSuccessor, TreeSame
  PROVE  NextIsSuccessor'
<1> SUFFICES ASSUME NEW n \in Tabled' \cap expanded', NEW p \in Moves(zobrist_hash'[n]),
                    next_stats'[n][p] # Null
             PROVE  /\ ~GameEnds(zobrist_hash'[n], p)
                    /\ zobrist_hash'[next_stats'[n][p]] = Succ[zobrist_hash'[n]][p]
  BY DEF NextIsSuccessor, Moves
<1>1. n \in Tabled \cap expanded /\ zobrist_hash'[n] = zobrist_hash[n] /\ next_stats' = next_stats
  BY DEF TreeSame, TreeGrows
<1>2. p \in Moves(zobrist_hash[n]) /\ p \in Play
  BY <1>1, TabledNodes, GraphAssumption
<1>3. /\ ~GameEnds(zobrist_hash[n], p)
      /\ zobrist_hash[next_stats[n][p]] = Succ[zobrist_hash[n]][p]
  BY <1>1, <1>2 DEF NextIsSuccessor
<1>4. next_stats[n][p] \in Tabled
  BY <1>1, <1>2 DEF Inv, NoDanglingStats
<1> QED
  BY <1>1, <1>3, <1>4 DEF TreeSame, TreeGrows

LEMMA RepliesSame ==
  ASSUME Inv, RepliesAreOfNext, TreeSame, UNCHANGED lgrf1_reply
  PROVE  RepliesAreOfNext'
<1> SUFFICES ASSUME NEW n \in Tabled' \cap expanded', NEW p \in Play, NEW r,
                    r = lgrf1_reply'[n][p], r # NoPlay
             PROVE  /\ r[1] = next_stats'[n][p]
                    /\ r[1] \in Tabled' \cap expanded'
                    /\ r[2] \in Moves(zobrist_hash'[r[1]])
  BY DEF RepliesAreOfNext, Moves
<1>1. n \in Tabled \cap expanded /\ r = lgrf1_reply[n][p]
  BY DEF TreeSame
<1>2. /\ r[1] = next_stats[n][p] /\ r[1] \in Tabled \cap expanded
      /\ r[2] \in Moves(zobrist_hash[r[1]])
  BY <1>1 DEF RepliesAreOfNext
<1> QED
  BY <1>2 DEF TreeSame, TreeGrows

\* A play of the tree stays one.
LEMMA TreePlayKept ==
  ASSUME Inv, TreeGrows, NEW d, TreePlay(d)
  PROVE  /\ d[1] \in Tabled' \cap expanded'
         /\ d[2] \in Moves(zobrist_hash'[d[1]])
         /\ ~GameEnds(zobrist_hash'[d[1]], d[2])
         /\ zobrist_hash'[d[1]] = zobrist_hash[d[1]]
         /\ Succ[zobrist_hash'[d[1]]][d[2]] = Target(d)
BY DEF TreeGrows, TreePlay, Target

LEMMA LeadsKept ==
  ASSUME Inv, TreeGrows, NEW d, TreePlay(d), NEW n, Leads(d, n)
  PROVE  /\ next_stats'[d[1]][d[2]] = n /\ n \in Tabled'
         /\ zobrist_hash'[n] = zobrist_hash[n]
         /\ zobrist_hash'[n] = Succ[zobrist_hash'[d[1]]][d[2]]
<1>1. n # Null
  BY NodeAssumption, TabledNodes DEF Leads
<1> QED
  BY <1>1 DEF TreeGrows, TreePlay, Target, Leads

\* So does a path that a step leaves alone.
LEMMA PathKept ==
  ASSUME Inv, UctTypes, TreeGrows, NEW t \in Thread, PathOK(t), SuperkoOK(t), path'[t] = path[t]
  PROVE  PathOK(t)' /\ SuperkoOK(t)'
<1>0. path[t] \in Seq(Node \X Play) /\ Len(path[t]) \in Nat
  BY DEF UctTypes
<1>1. ASSUME NEW i \in 1..Len(path[t])
      PROVE  /\ TreePlay(path[t][i])'
             /\ zobrist_hash'[path[t][i][1]] = zobrist_hash[path[t][i][1]]
  <2>1. TreePlay(path[t][i])
    BY DEF PathOK
  <2>2. QED
    BY <2>1, TreePlayKept DEF TreePlay, Moves, GameEnds, Tabled
<1>2. ASSUME NEW i \in 1..Len(path[t]) - 1
      PROVE  Leads(path[t][i], path[t][i + 1][1])'
  <2>1. TreePlay(path[t][i]) /\ Leads(path[t][i], path[t][i + 1][1])
    BY <1>0 DEF PathOK
  <2>2. QED
    BY <2>1, LeadsKept, SMTT(30) DEF Leads, Target, Tabled
<1>3. PathOK(t)'
  BY <1>0, <1>1, <1>2 DEF PathOK, TreePlay, Leads, Target
<1>4. SuperkoOK(t)'
  BY <1>1 DEF SuperkoOK
<1> QED
  BY <1>3, <1>4

\* The private state of thread t, and what the table has of it.
SameSim(t) ==
  /\ at'[t] = at[t] /\ pos'[t] = pos[t] /\ is_black'[t] = is_black[t]
  /\ curr_stats'[t] = curr_stats[t] /\ path'[t] = path[t] /\ level'[t] = level[t]

SameLookup(t) ==
  pc'[t] = pc[t] /\ wanted'[t] = wanted[t] /\ ret'[t] = ret[t] /\ on_root'[t] = on_root[t]

\* What a thread knows is not changed by what another does.
LEMMA OthersKept ==
  ASSUME UctInv, TreeGrows, NEW t \in Thread, SameSim(t), SameLookup(t), UNCHANGED <<phase, root>>
  PROVE  SimOK(t)'
<1> USE DEF SameSim, SameLookup
<1>0. SimOK(t) /\ Inv /\ UctTypes
  BY DEF UctInv
<1>1. PathOK(t)' /\ SuperkoOK(t)'
  BY <1>0, PathKept DEF SimOK
<1>2. ThreadOK(t)' /\ LengthOK(t)'
  BY <1>0 DEF SimOK, ThreadOK, LengthOK
<1>3. AnswerOK(t)'
  <2>1. pc[t] \in {"found", "held"} => ret[t] \in Tabled
    BY <1>0, AnswersAreTabled
  <2>2. QED
    BY <1>0, <2>1 DEF SimOK, AnswerOK, TreeGrows
<1>4. PositionOK(t)'
  <2>0. path[t] \in Seq(Node \X Play)
    BY <1>0 DEF UctTypes
  <2>1. ASSUME path[t] # <<>> PROVE TreePlay(LastPlay(t))
    <3>1. Len(path[t]) \in 1..Len(path[t])
      BY <2>0, <2>1
    <3>2. QED
      BY <1>0, <3>1 DEF SimOK, PathOK, LastPlay
  <2>2. ASSUME at[t] \in Descending
        PROVE  /\ is_black'[t] = (pos'[t] \in BlackKey)
               /\ path[t] # <<>> => pos'[t] = Target(LastPlay(t))'
    BY <1>0, <2>1, <2>2, TreePlayKept DEF SimOK, PositionOK, Target, LastPlay
  <2>3. ASSUME at[t] \in {"enter", "visit"}, curr_stats[t] # Null
        PROVE  /\ curr_stats'[t] \in Tabled'
               /\ zobrist_hash'[curr_stats'[t]] = pos'[t]
               /\ path[t] # <<>> => Leads(LastPlay(t), curr_stats[t])'
    <3>1. /\ curr_stats[t] \in Tabled /\ zobrist_hash[curr_stats[t]] = pos[t]
          /\ path[t] # <<>> => Leads(LastPlay(t), curr_stats[t])
      BY <1>0, <2>3 DEF SimOK, PositionOK
    <3>2. /\ curr_stats'[t] \in Tabled' /\ zobrist_hash'[curr_stats'[t]] = pos'[t]
      BY <3>1 DEF TreeGrows
    <3>3. ASSUME path[t] # <<>> PROVE Leads(LastPlay(t), curr_stats[t])'
      BY <1>0, <2>1, <3>1, <3>3, LeadsKept DEF Leads, Target, LastPlay
    <3>4. QED
      BY <3>2, <3>3
  <2>4. QED
    BY <1>0, <2>2, <2>3 DEF SimOK, PositionOK
<1>5. BackTurnOK(t)'
  <2>1. SUFFICES ASSUME at[t] = "backup", level[t] > 0
                 PROVE  ~is_black[t] = (zobrist_hash'[path[t][level[t]][1]] \in BlackKey)
    BY DEF BackTurnOK
  <2>2. level[t] \in 1..Len(path[t])
    BY <1>0, <2>1 DEF UctTypes, SimOK, LengthOK
  <2>3. TreePlay(path[t][level[t]])
    BY <1>0, <2>2 DEF SimOK, PathOK
  <2>4. zobrist_hash'[path[t][level[t]][1]] = zobrist_hash[path[t][level[t]][1]]
    BY <1>0, <2>3, TreePlayKept
  <2>5. QED
    BY <1>0, <2>1, <2>4 DEF SimOK, BackTurnOK
<1> QED
  BY <1>1, <1>2, <1>3, <1>4, <1>5 DEF SimOK

-----------------------------------------------------------------------------
(***************************************************************************)
(* The search keeps the contract of the table.                             *)
(***************************************************************************)
LEMMA NoRootInSearch ==
  ASSUME UctInv, phase # "root"
  PROVE  RootAlone
BY DEF UctInv, SimOK, ThreadOK, RootAlone

\* The last play of a path is of the tree.
LEMMA LastIsTreePlay ==
  ASSUME UctInv, NEW t \in Thread, path[t] # <<>>
  PROVE  /\ TreePlay(LastPlay(t)) /\ LastPlay(t) \in Node \X Play
         /\ Len(path[t]) \in Nat \ {0}
<1>1. path[t] \in Seq(Node \X Play)
  BY DEF UctInv, UctTypes
<1>2. Len(path[t]) \in 1..Len(path[t])
  BY <1>1
<1> QED
  BY <1>1, <1>2 DEF UctInv, SimOK, PathOK, LastPlay

LEMMA TableStep ==
  ASSUME UctInv, UctNext
  PROVE  [Next]_vars
<1> USE DEF UctInv, UctTypes
<1>1. ASSUME NEW t \in Thread, BeginLookup(t) PROVE Step(t)
  <2>1. RootAlone
    BY <1>1, NoRootInSearch DEF BeginLookup, SimOK, ThreadOK
  <2>2. Lookup(t, pos[t], FALSE)
    BY <1>1, <2>1 DEF BeginLookup, Lookup
  <2>3. QED
    BY <2>2 DEF Step
<1>2. ASSUME NEW t \in Thread, OutOfMemory(t) PROVE UNCHANGED vars
  BY <1>2 DEF OutOfMemory, LookupNULL
<1>3. ASSUME NEW t \in Thread, EndLookup(t) \/ CreateState(t) PROVE Step(t)
  BY <1>3 DEF EndLookup, CreateState, Step
<1>4. ASSUME NEW t \in Thread, LockNext(t) PROVE Step(t)
  <2>1. RootAlone
    BY <1>4, NoRootInSearch DEF LockNext, SimOK, ThreadOK
  <2>2. curr_stats[t] \in Tabled
    BY <1>4 DEF LockNext, SimOK, PositionOK
  <2>3. QED
    BY <1>4, <2>1, <2>2 DEF LockNext, Step, Client
<1>5. ASSUME NEW t \in Thread, Arrive(t) PROVE Step(t) \/ UNCHANGED vars
  <2>1. RootAlone
    BY <1>5, NoRootInSearch DEF Arrive, SimOK, ThreadOK
  <2>2. CASE path[t] = <<>>
    BY <1>5, <2>2 DEF Arrive, LinkNext
  <2>3. CASE path[t] # <<>>
    <3>1. LastPlay(t)[1] \in Tabled \cap expanded /\ LastPlay(t)[2] \in Play
      BY <2>3, LastIsTreePlay DEF TreePlay
    <3>2. SetNext(t, LastPlay(t)[1], LastPlay(t)[2])
      BY <1>5, <2>3 DEF Arrive, LinkNext, LastPlay
    <3>3. QED
      BY <2>1, <3>1, <3>2 DEF Step, Client
  <2>4. QED
    BY <2>2, <2>3
<1>6. ASSUME NEW t \in Thread, EndBySuperko(t) \/ Expansion(t) \/ Select(t) PROVE Step(t)
  BY <1>6 DEF EndBySuperko, Expansion, Select, Step, Client
<1>7. ASSUME NEW t \in Thread, Backup(t) PROVE UNCHANGED vars
  BY <1>7 DEF Backup
<1>8. ASSUME NEW t \in Thread,
             StartSim(t) \/ LeaveLoop(t) \/ DepthReached(t) \/ ReadNext(t) \/ FinishSim(t)
      PROVE  UNCHANGED vars
  BY <1>8 DEF StartSim, LeaveLoop, DepthReached, ReadNext, FinishSim
<1>9. ASSUME Evaluate PROVE Step(Master)
  <2>1. RootAlone /\ Quiescent
    BY <1>9, NoRootInSearch DEF Evaluate, SimOK, ThreadOK, Quiescent, AtType
  <2>2. Lookup(Master, root, TRUE)
    BY <1>9, <2>1 DEF Evaluate, Lookup
  <2>3. QED
    BY <2>2 DEF Step
<1>10. ASSUME ExpandRoot PROVE Step(Master)
  BY <1>10 DEF ExpandRoot, Step, Client
<1>11. ASSUME TurnMaintenance PROVE Maintenance \/ UNCHANGED vars
  BY <1>11 DEF TurnMaintenance, Maintenance
<1>12. ASSUME NewMatch PROVE Maintenance
  BY <1>12 DEF NewMatch, Maintenance
<1>13. ASSUME EndSearch \/ Resume \/ ChangePosition \/ Tick PROVE UNCHANGED vars
  BY <1>13 DEF EndSearch, Resume, ChangePosition, Tick
<1>14. Master \in Thread
  BY UctAssumption
<1> QED
  BY <1>1, <1>2, <1>3, <1>4, <1>5, <1>6, <1>7, <1>8, <1>9, <1>10, <1>11, <1>12, <1>13, <1>14
     DEF UctNext, Acquire, Continue, MainStep, Command, Next

-----------------------------------------------------------------------------
(***************************************************************************)
(* The steps of a simulation that leave the table as it is.                *)
(***************************************************************************)
\* What every step keeps, the invariant of the table apart.
UctKept ==
  /\ UctTypes'
  /\ Delays'
  /\ NextIsSuccessor'
  /\ RepliesAreOfNext'
  /\ \A t \in Thread : SimOK(t)'

LEMMA DelaysKept ==
  ASSUME Delays, UNCHANGED <<table, expanded, expansion_delay>>,
         \A t \in Thread : pc'[t] = "insert" => pc[t] = "insert" /\ ret'[t] = ret[t]
  PROVE  Delays'
<1>1. InFlight' \subseteq InFlight /\ Tabled' = Tabled
  BY DEF InFlight, Tabled
<1> QED
  BY <1>1 DEF Delays

LEMMA QuietKept ==
  ASSUME UctInv, UNCHANGED <<table, stateVars, expansion_delay, lgrf1_reply>>,
         \A t \in Thread : pc'[t] = "insert" => pc[t] = "insert" /\ ret'[t] = ret[t]
  PROVE  TreeGrows /\ Delays' /\ NextIsSuccessor' /\ RepliesAreOfNext'
<1>1. TreeSame
  BY QuietTree
<1>2. Delays'
  BY DelaysKept DEF UctInv, stateVars
<1>3. NextIsSuccessor' /\ RepliesAreOfNext'
  BY <1>1, LinksSame, RepliesSame DEF UctInv
<1> QED
  BY <1>1, <1>2, <1>3 DEF TreeSame

\* All the threads but one are left alone.
LEMMA OneThread ==
  ASSUME UctInv, TreeGrows, UNCHANGED <<phase, root>>, NEW t \in Thread, SimOK(t)',
         \A u \in Thread \ {t} : SameSim(u) /\ SameLookup(u)
  PROVE  \A u \in Thread : SimOK(u)'
<1>1. ASSUME NEW u \in Thread \ {t} PROVE SimOK(u)'
  BY OthersKept
<1> QED
  BY <1>1

\* The player before the last play of the path was the other one.
LEMMA TurnBefore ==
  ASSUME UctInv, NEW t \in Thread, at[t] \in Descending, path[t] # <<>>
  PROVE  ~is_black[t] = (zobrist_hash[LastPlay(t)[1]] \in BlackKey)
<1>1. TreePlay(LastPlay(t))
  BY LastIsTreePlay
<1>2. pos[t] = Target(LastPlay(t)) /\ is_black[t] = (pos[t] \in BlackKey)
  BY DEF UctInv, SimOK, PositionOK
<1> QED
  BY <1>1, <1>2, TreePlayLeads DEF UctInv

\* A simulation leaves its loop.
LEMMA LeaveKeeps ==
  ASSUME UctInv, TreeGrows, NEW t \in Thread, at[t] \in {"enter", "visit"},
         NEW o \in -1..1, Leave(t, o),
         pc'[t] = "idle", ~on_root'[t],
         UNCHANGED <<pos, is_black, curr_stats, path, phase, root>>
  PROVE  /\ SimOK(t)'
         /\ at' \in [Thread -> AtType] /\ level' \in [Thread -> Nat]
         /\ outcome' \in [Thread -> -1..1]
         /\ \A u \in Thread \ {t} : at'[u] = at[u] /\ level'[u] = level[u]
<1> USE DEF UctInv, UctTypes
<1>0. path[t] \in Seq(Node \X Play) /\ Len(path[t]) \in Nat
  OBVIOUS
<1>1. /\ at' = [at EXCEPT ![t] = "backup"] /\ level' = [level EXCEPT ![t] = Len(path[t])]
      /\ outcome' = [outcome EXCEPT ![t] = o]
  BY DEF Leave
<1>2. at'[t] = "backup" /\ level'[t] = Len(path[t])
  BY <1>1
<1>3. PathOK(t)' /\ SuperkoOK(t)'
  BY PathKept DEF SimOK
<1>4. ThreadOK(t)' /\ AnswerOK(t)' /\ LengthOK(t)' /\ PositionOK(t)'
  BY <1>0, <1>2 DEF SimOK, ThreadOK, AnswerOK, LengthOK, PositionOK, Descending
<1>5. BackTurnOK(t)'
  <2>1. SUFFICES ASSUME path[t] # <<>>
                 PROVE  ~is_black[t] = (zobrist_hash'[LastPlay(t)[1]] \in BlackKey)
    BY <1>0, <1>2 DEF BackTurnOK, LastPlay
  <2>2. ~is_black[t] = (zobrist_hash[LastPlay(t)[1]] \in BlackKey)
    BY <2>1, TurnBefore DEF Descending
  <2>3. zobrist_hash'[LastPlay(t)[1]] = zobrist_hash[LastPlay(t)[1]]
    BY <2>1, LastIsTreePlay, TreePlayKept
  <2>4. QED
    BY <2>2, <2>3
<1> QED
  BY <1>0, <1>1, <1>2, <1>3, <1>4, <1>5 DEF SimOK, AtType

LEMMA QuietVars ==
  ASSUME UctInv, UNCHANGED vars, UNCHANGED <<expansion_delay, lgrf1_reply>>
  PROVE  /\ TreeGrows /\ Delays' /\ NextIsSuccessor' /\ RepliesAreOfNext'
         /\ \A t \in Thread : SameLookup(t)
         /\ Inv'
<1>1. /\ UNCHANGED <<table, stateVars>> /\ pc' = pc /\ ret' = ret /\ wanted' = wanted
      /\ on_root' = on_root
  BY DEF vars, lookupVars
<1>2. Inv'
  BY InvNext DEF UctInv
<1> QED
  BY <1>1, <1>2, QuietKept DEF SameLookup

LEMMA KeptStartSim == ASSUME UctInv, NEW t \in Thread, StartSim(t) PROVE UctKept
<1> USE DEF UctInv, UctTypes
<1>1. /\ phase = "search" /\ at[t] = "idle"
      /\ at' = [at EXCEPT ![t] = "enter"]
      /\ left' = [left EXCEPT ![t] = IF Endless /\ kind # "sims" THEN @ ELSE @ - 1]
      /\ pos' = [pos EXCEPT ![t] = root] /\ is_black' = [is_black EXCEPT ![t] = root \in BlackKey]
      /\ curr_stats' = [curr_stats EXCEPT ![t] = Null]
      /\ UNCHANGED <<path, outcome, level, expansion_delay, mc_n, lgrf1_reply, phase, root>>
  BY DEF StartSim, FirstTurn, playVars, mainVars
<1>2. /\ TreeGrows /\ Delays' /\ NextIsSuccessor' /\ RepliesAreOfNext'
      /\ \A u \in Thread : SameLookup(u)
  BY <1>1, QuietVars DEF StartSim
<1>3. UctTypes'
  BY <1>1 DEF AtType
<1>4. SimOK(t)'
  <2>1. PathOK(t)' /\ SuperkoOK(t)'
    BY <1>1, <1>2, PathKept DEF SimOK
  <2>2. ThreadOK(t)' /\ AnswerOK(t)' /\ LengthOK(t)' /\ BackTurnOK(t)'
    BY <1>1, <1>2 DEF SimOK, ThreadOK, AnswerOK, LengthOK, BackTurnOK, SameLookup
  <2>3. PositionOK(t)'
    BY <1>1, <1>2 DEF SimOK, PositionOK, LengthOK
  <2>4. QED
    BY <2>1, <2>2, <2>3 DEF SimOK
<1>5. \A u \in Thread \ {t} : SameSim(u)
  BY <1>1 DEF SameSim
<1> QED
  BY <1>1, <1>2, <1>3, <1>4, <1>5, OneThread DEF UctKept

LEMMA KeptLeaveLoop == ASSUME UctInv, NEW t \in Thread, LeaveLoop(t) PROVE UctKept
<1> USE DEF UctInv, UctTypes
<1>1. /\ phase = "search" /\ at[t] = "idle"
      /\ at' = [at EXCEPT ![t] = "done"] /\ left' = [left EXCEPT ![t] = 0]
      /\ UNCHANGED <<pos, is_black, curr_stats, path, outcome, level, expansion_delay, mc_n,
                     lgrf1_reply, phase, root>>
  BY DEF LeaveLoop, playVars, mainVars
<1>2. /\ TreeGrows /\ Delays' /\ NextIsSuccessor' /\ RepliesAreOfNext'
      /\ \A u \in Thread : SameLookup(u)
  BY <1>1, QuietVars DEF LeaveLoop
<1>3. UctTypes'
  BY <1>1 DEF AtType
<1>4. SimOK(t)'
  <2>1. PathOK(t)' /\ SuperkoOK(t)'
    BY <1>1, <1>2, PathKept DEF SimOK
  <2>2. ThreadOK(t)' /\ AnswerOK(t)' /\ LengthOK(t)' /\ BackTurnOK(t)' /\ PositionOK(t)'
    BY <1>1, <1>2
       DEF SimOK, ThreadOK, AnswerOK, LengthOK, BackTurnOK, PositionOK, SameLookup, Descending
  <2>3. QED
    BY <2>1, <2>2 DEF SimOK
<1>5. \A u \in Thread \ {t} : SameSim(u)
  BY <1>1 DEF SameSim
<1> QED
  BY <1>1, <1>2, <1>3, <1>4, <1>5, OneThread DEF UctKept

LEMMA KeptDepthReached == ASSUME UctInv, NEW t \in Thread, DepthReached(t) PROVE UctKept
<1>1. /\ at[t] = "enter" /\ UNCHANGED vars
      /\ UNCHANGED <<pos, is_black, curr_stats, path, left, expansion_delay, mc_n, lgrf1_reply,
                     phase, root>>
  BY DEF DepthReached, playVars, mainVars
<1>2. PICK o \in -1..1 : Leave(t, o)
  BY UctAssumption DEF DepthReached
<1>3. /\ TreeGrows /\ Delays' /\ NextIsSuccessor' /\ RepliesAreOfNext'
      /\ \A u \in Thread : SameLookup(u)
  BY <1>1, QuietVars
<1>4. pc'[t] = "idle" /\ ~on_root'[t]
  BY <1>1, <1>3 DEF UctInv, SimOK, ThreadOK, SameLookup
<1>5. /\ SimOK(t)' /\ at' \in [Thread -> AtType] /\ level' \in [Thread -> Nat]
      /\ outcome' \in [Thread -> -1..1]
      /\ \A u \in Thread \ {t} : at'[u] = at[u] /\ level'[u] = level[u]
  BY <1>1, <1>2, <1>3, <1>4, LeaveKeeps
<1>6. UctTypes'
  BY <1>1, <1>5 DEF UctInv, UctTypes
<1>7. \A u \in Thread \ {t} : SameSim(u)
  BY <1>1, <1>5 DEF SameSim
<1> QED
  BY <1>1, <1>3, <1>5, <1>6, <1>7, OneThread DEF UctKept

LEMMA KeptOutOfMemory == ASSUME UctInv, NEW t \in Thread, OutOfMemory(t) PROVE UctKept
<1>1. /\ at[t] = "enter" /\ UNCHANGED vars
      /\ UNCHANGED <<pos, is_black, curr_stats, path, left, expansion_delay, mc_n, lgrf1_reply,
                     phase, root>>
  BY DEF OutOfMemory, LookupNULL, playVars, mainVars
<1>2. PICK o \in -1..1 : Leave(t, o)
  BY UctAssumption DEF OutOfMemory
<1>3. /\ TreeGrows /\ Delays' /\ NextIsSuccessor' /\ RepliesAreOfNext'
      /\ \A u \in Thread : SameLookup(u)
  BY <1>1, QuietVars
<1>4. pc'[t] = "idle" /\ ~on_root'[t]
  BY <1>1, <1>3 DEF UctInv, SimOK, ThreadOK, SameLookup
<1>5. /\ SimOK(t)' /\ at' \in [Thread -> AtType] /\ level' \in [Thread -> Nat]
      /\ outcome' \in [Thread -> -1..1]
      /\ \A u \in Thread \ {t} : at'[u] = at[u] /\ level'[u] = level[u]
  BY <1>1, <1>2, <1>3, <1>4, LeaveKeeps
<1>6. UctTypes'
  BY <1>1, <1>5 DEF UctInv, UctTypes
<1>7. \A u \in Thread \ {t} : SameSim(u)
  BY <1>1, <1>5 DEF SameSim
<1> QED
  BY <1>1, <1>3, <1>5, <1>6, <1>7, OneThread DEF UctKept

\* The pointer read leads where the play does: the state is the position's.
LEMMA KeptReadNext == ASSUME UctInv, NEW t \in Thread, ReadNext(t) PROVE UctKept
<1>1. path[t] # <<>>
  BY DEF ReadNext, SimOK, LengthOK, UctInv, UctTypes
<1>2. TreePlay(LastPlay(t)) /\ LastPlay(t)[1] \in Node /\ LastPlay(t)[2] \in Play
  BY <1>1, LastIsTreePlay
<1>3. PICK s \in Node \cup {Null} : s = next_stats[LastPlay(t)[1]][LastPlay(t)[2]]
  <2>1. next_stats \in [Node -> [Play -> Node \cup {Null}]]
    BY DEF UctInv, Inv, Structure, TypeInv, TypeOK
  <2> QED
    BY <1>2, <2>1
<1> USE DEF UctInv, UctTypes
<1>4. /\ at[t] = "read"
      /\ at' = [at EXCEPT ![t] = "enter"]
      /\ curr_stats' = [curr_stats EXCEPT ![t] = s]
      /\ UNCHANGED <<pos, is_black, path, outcome, level, left, expansion_delay, mc_n,
                     lgrf1_reply, phase, root>>
  BY <1>3 DEF ReadNext, LastPlay, playVars, mainVars
<1>5. /\ TreeGrows /\ Delays' /\ NextIsSuccessor' /\ RepliesAreOfNext'
      /\ \A u \in Thread : SameLookup(u) /\ Inv'
  BY <1>4, QuietVars DEF ReadNext
<1>6. s # Null => Leads(LastPlay(t), s) /\ pos[t] = Target(LastPlay(t))
  <2>1. SUFFICES ASSUME s # Null PROVE Leads(LastPlay(t), s) /\ pos[t] = Target(LastPlay(t))
    OBVIOUS
  <2>2. s \in Tabled
    BY <1>2, <1>3, <2>1 DEF Inv, NoDanglingStats, TreePlay
  <2>3. zobrist_hash[s] = Target(LastPlay(t))
    BY <1>2, <1>3, <2>1 DEF NextIsSuccessor, TreePlay, Target
  <2>4. pos[t] = Target(LastPlay(t))
    BY <1>4, <1>1 DEF SimOK, PositionOK, Descending
  <2>5. QED
    BY <1>3, <2>2, <2>3, <2>4 DEF Leads
<1>7. UctTypes'
  BY <1>4, <1>3 DEF AtType
<1>8. SimOK(t)'
  <2>1. PathOK(t)' /\ SuperkoOK(t)'
    BY <1>4, <1>5, PathKept DEF SimOK
  <2>2. ThreadOK(t)' /\ AnswerOK(t)' /\ LengthOK(t)' /\ BackTurnOK(t)'
    BY <1>4, <1>5 DEF SimOK, ThreadOK, AnswerOK, LengthOK, BackTurnOK, SameLookup
  <2>3. Target(LastPlay(t))' = Target(LastPlay(t))
    BY <1>4, <1>5, <1>2, TreePlayKept DEF Target, LastPlay
  <2>4. ASSUME s # Null
        PROVE  /\ s \in Tabled' /\ zobrist_hash'[s] = pos[t] /\ Leads(LastPlay(t), s)'
    <3>1. Leads(LastPlay(t), s) /\ pos[t] = Target(LastPlay(t))
      BY <1>6, <2>4
    <3>2. Leads(LastPlay(t), s)'
      <4>1. Inv /\ LastPlay(t)' = LastPlay(t)
        BY <1>4 DEF LastPlay
      <4> HIDE DEF UctInv, UctTypes
      <4>2. /\ next_stats'[LastPlay(t)[1]][LastPlay(t)[2]] = s /\ s \in Tabled'
            /\ zobrist_hash'[s] = Succ[zobrist_hash'[LastPlay(t)[1]]][LastPlay(t)[2]]
        BY <1>2, <1>5, <3>1, <4>1, LeadsKept
      <4> QED
        BY <4>1, <4>2 DEF Leads, Target
    <3>3. QED
      BY <1>5, <3>1, <3>2 DEF Leads, TreeGrows
  <2>5. PositionOK(t)'
    BY <1>4, <1>1, <2>3, <2>4 DEF SimOK, PositionOK, Descending
  <2>6. QED
    BY <2>1, <2>2, <2>5 DEF SimOK
<1>9. \A u \in Thread \ {t} : SameSim(u)
  BY <1>4 DEF SameSim
<1> QED
  BY <1>4, <1>5, <1>7, <1>8, <1>9, OneThread DEF UctKept

LEMMA KeptFinishSim == ASSUME UctInv, NEW t \in Thread, FinishSim(t) PROVE UctKept
<1> USE DEF UctInv, UctTypes
<1>1. /\ at[t] = "backup" /\ level[t] = 0
      /\ at' = [at EXCEPT ![t] = "idle"] /\ pos' = [pos EXCEPT ![t] = AnyKey]
      /\ is_black' = [is_black EXCEPT ![t] = FALSE]
      /\ curr_stats' = [curr_stats EXCEPT ![t] = Null]
      /\ path' = [path EXCEPT ![t] = <<>>] /\ outcome' = [outcome EXCEPT ![t] = 0]
      /\ UNCHANGED <<level, left, expansion_delay, mc_n, lgrf1_reply, phase, root>>
  BY DEF FinishSim, mainVars
<1>2. /\ TreeGrows /\ Delays' /\ NextIsSuccessor' /\ RepliesAreOfNext'
      /\ \A u \in Thread : SameLookup(u)
  BY <1>1, QuietVars DEF FinishSim
<1>3. UctTypes'
  BY <1>1, AnyKeyType DEF AtType
<1>4. path'[t] = <<>> /\ Len(path'[t]) = 0
  BY <1>1
<1>5. SimOK(t)'
  <2>1. ThreadOK(t)' /\ AnswerOK(t)'
    BY <1>1, <1>2 DEF SimOK, ThreadOK, AnswerOK, SameLookup
  <2>2. LengthOK(t)' /\ PathOK(t)' /\ SuperkoOK(t)'
    BY <1>1, <1>4, UctAssumption DEF LengthOK, PathOK, SuperkoOK
  <2>3. PositionOK(t)' /\ BackTurnOK(t)'
    BY <1>1 DEF PositionOK, BackTurnOK, Descending
  <2>4. QED
    BY <2>1, <2>2, <2>3 DEF SimOK
<1>6. \A u \in Thread \ {t} : SameSim(u)
  BY <1>1 DEF SameSim
<1> QED
  BY <1>1, <1>2, <1>3, <1>5, <1>6, OneThread DEF UctKept

\* A round of the update: the reply written is the play of the path that follows, of
\* the state that the play of the round leads to.
LEMMA KeptBackup == ASSUME UctInv, NEW t \in Thread, Backup(t) PROVE UctKept
<1> USE DEF UctInv, UctTypes
<1>1. /\ at[t] = "backup" /\ level[t] > 0 /\ UNCHANGED vars
      /\ UpdateReply(t, path[t][level[t]])
      /\ is_black' = [is_black EXCEPT ![t] = ~@] /\ level' = [level EXCEPT ![t] = @ - 1]
      /\ UNCHANGED <<at, pos, curr_stats, path, outcome, left, expansion_delay, mc_n, phase, root>>
  BY DEF Backup, mainVars
<1>2. level[t] \in 1..Len(path[t]) /\ Len(path[t]) \in Nat /\ path[t] \in Seq(Node \X Play)
  <2>1. level[t] <= Len(path[t])
    BY DEF SimOK, LengthOK
  <2>2. path[t] \in Seq(Node \X Play) /\ level[t] \in Nat
    OBVIOUS
  <2>3. Len(path[t]) \in Nat
    BY <2>2
  <2> QED
    BY <1>1, <2>1, <2>2, <2>3
<1>3. PICK d \in Node \X Play : d = path[t][level[t]]
  <2> HIDE DEF UctInv, UctTypes
  <2> QED
    BY <1>2
<1>4. TreePlay(d)
  BY <1>2, <1>3 DEF SimOK, PathOK
<1>5. PICK r \in (Node \X Play) \cup {NoPlay} :
        /\ lgrf1_reply' = [lgrf1_reply EXCEPT ![d[1]][d[2]] = r]
        /\ r = NoPlay \/ (level[t] + 1 \in 1..Len(path[t]) /\ r = path[t][level[t] + 1])
  <2>1. DEFINE won == outcome[t] = 0 \/ WonBy(~is_black[t], outcome[t])
               r == IF won \/ level[t] = Len(path[t]) THEN NoPlay ELSE path[t][level[t] + 1]
  <2>2. lgrf1_reply' = [lgrf1_reply EXCEPT ![d[1]][d[2]] = r]
    BY <1>1, <1>3 DEF UpdateReply
  <2>3. r = NoPlay \/ (level[t] + 1 \in 1..Len(path[t]) /\ r = path[t][level[t] + 1])
    <3> HIDE DEF UctInv, UctTypes
    <3>1. CASE level[t] = Len(path[t])
      BY <3>1
    <3>2. CASE level[t] # Len(path[t])
      <4>1. level[t] + 1 \in 1..Len(path[t])
        BY <1>2, <3>2
      <4>2. QED
        BY <4>1, Zenon
    <3>3. QED
      BY <3>1, <3>2
  <2>4. r \in (Node \X Play) \cup {NoPlay}
    BY <1>2, <2>3
  <2>5. QED
    BY <2>2, <2>3, <2>4
<1>6. UNCHANGED <<table, stateVars>> /\ pc' = pc /\ ret' = ret /\ wanted' = wanted
      /\ on_root' = on_root
  BY <1>1 DEF vars, lookupVars
<1>7. TreeSame /\ TreeGrows /\ Delays' /\ NextIsSuccessor' /\ \A u \in Thread : SameLookup(u)
  <2>1. TreeSame
    BY <1>6, QuietTree
  <2>2. Delays'
    BY <1>1, <1>6, DelaysKept DEF stateVars
  <2>3. QED
    BY <1>6, <2>1, <2>2, LinksSame DEF TreeSame, SameLookup
<1>8. RepliesAreOfNext'
  <2> SUFFICES ASSUME NEW n \in Tabled' \cap expanded', NEW p \in Play, NEW q,
                      q = lgrf1_reply'[n][p], q # NoPlay
               PROVE  /\ q[1] = next_stats'[n][p]
                      /\ q[1] \in Tabled' \cap expanded'
                      /\ q[2] \in Moves(zobrist_hash'[q[1]])
    BY DEF RepliesAreOfNext, Moves
  <2>1. Tabled' = Tabled /\ expanded' = expanded /\ next_stats' = next_stats
        /\ zobrist_hash' = zobrist_hash
    BY <1>6 DEF stateVars, Tabled
  <2>2. CASE n = d[1] /\ p = d[2]
    <3>1. q = r
      BY <1>3, <1>5, <2>2
    <3>2. TreePlay(r) /\ Leads(d, r[1])
      <4>1. level[t] + 1 \in 1..Len(path[t]) /\ r = path[t][level[t] + 1]
        BY <1>5, <3>1
      <4>2. level[t] \in 1..Len(path[t]) - 1
        BY <1>2, <4>1
      <4>3. QED
        BY <1>3, <4>1, <4>2 DEF SimOK, PathOK
    <3>3. QED
      BY <2>1, <2>2, <3>1, <3>2 DEF TreePlay, Leads
  <2>3. CASE ~(n = d[1] /\ p = d[2])
    <3>1. n \in Node
      BY <2>1, TabledNodes
    <3>2. q = lgrf1_reply[n][p]
      BY <1>3, <1>5, <2>3, <3>1
    <3>3. QED
      BY <2>1, <3>2 DEF RepliesAreOfNext
  <2>4. QED
    BY <2>2, <2>3
<1>9. UctTypes'
  <2>1. lgrf1_reply' \in [Node -> [Play -> (Node \X Play) \cup {NoPlay}]]
    BY <1>3, <1>5
  <2>2. level[t] - 1 \in Nat
    <3> HIDE DEF UctInv, UctTypes
    <3>1. QED
      BY <1>2
  <2>3. level' \in [Thread -> Nat]
    BY <1>1, <2>2
  <2>4. QED
    BY <1>1, <2>1, <2>3
<1>10. SimOK(t)'
  <2>1. PathOK(t)' /\ SuperkoOK(t)'
    BY <1>1, <1>7, PathKept DEF SimOK
  <2>0. level'[t] <= Len(path[t])
    BY <1>1, <1>2
  <2>2. ThreadOK(t)' /\ AnswerOK(t)' /\ LengthOK(t)' /\ PositionOK(t)'
    BY <1>1, <1>7, <2>0
       DEF SimOK, ThreadOK, AnswerOK, LengthOK, PositionOK, SameLookup, Descending
  <2>3. BackTurnOK(t)'
    <3>1. SUFFICES ASSUME level[t] - 1 > 0
                   PROVE  is_black[t] = (zobrist_hash[path[t][level[t] - 1][1]] \in BlackKey)
      BY <1>1, <1>6 DEF BackTurnOK, stateVars
    <3>2. level[t] - 1 \in 1..Len(path[t]) /\ level[t] - 1 \in 1..Len(path[t]) - 1
          /\ level[t] - 1 + 1 = level[t]
      <4> HIDE DEF UctInv, UctTypes
      <4>0. level[t] \in Int /\ level[t] <= Len(path[t])
        BY <1>2
      <4>1. QED
        BY <1>2, <3>1, <4>0
    <3>3. /\ TreePlay(path[t][level[t] - 1])
          /\ zobrist_hash[d[1]] = Target(path[t][level[t] - 1])
      BY <1>3, <3>2 DEF SimOK, PathOK, Leads
    <3>4. ~is_black[t] = (zobrist_hash[d[1]] \in BlackKey)
      BY <1>1, <1>3 DEF SimOK, BackTurnOK
    <3>5. is_black[t] \in BOOLEAN
      OBVIOUS
    <3>6. (zobrist_hash[d[1]] \in BlackKey)
            = (zobrist_hash[path[t][level[t] - 1][1]] \notin BlackKey)
      BY <3>3, TreePlayLeads
    <3> HIDE DEF UctInv, UctTypes
    <3>7. QED
      BY <3>4, <3>5, <3>6
  <2>4. QED
    BY <2>1, <2>2, <2>3 DEF SimOK
<1>11. \A u \in Thread \ {t} : SameSim(u)
  BY <1>1 DEF SameSim
<1> QED
  BY <1>1, <1>7, <1>8, <1>9, <1>10, <1>11, OneThread DEF UctKept

-----------------------------------------------------------------------------
(***************************************************************************)
(* The steps of a simulation in the table.                                 *)
(***************************************************************************)
LEMMA KeptBeginLookup == ASSUME UctInv, NEW t \in Thread, BeginLookup(t) PROVE UctKept
<1> USE DEF UctInv, UctTypes
<1>1. /\ at[t] = "enter" /\ ~AtMaxDepth(t) /\ curr_stats[t] = Null
      /\ at' = [at EXCEPT ![t] = "lookup"]
      /\ UNCHANGED <<pos, is_black, curr_stats, path, outcome, level, left, expansion_delay, mc_n,
                     lgrf1_reply, phase, root>>
  BY DEF BeginLookup, playVars, mainVars
<1>2. /\ UNCHANGED <<table, stateVars>>
      /\ wanted' = [wanted EXCEPT ![t] = pos[t]] /\ on_root' = [on_root EXCEPT ![t] = FALSE]
      /\ \/ /\ pc' = [pc EXCEPT ![t] = "found"]
            /\ \E n \in find_state(pos[t]) : ret' = [ret EXCEPT ![t] = n]
         \/ pc' = [pc EXCEPT ![t] = "create"] /\ ret' = ret
  BY DEF BeginLookup, LookupHit, LookupMiss, FindFrom
<1>3. /\ pc \in [Thread -> {"idle", "create", "insert", "found", "held"}]
      /\ wanted \in [Thread -> Key] /\ on_root \in [Thread -> BOOLEAN]
      /\ ret \in [Thread -> Node \cup {Null}]
  BY DEF Inv, Structure, TypeInv, TypeOK
<1>4. /\ TreeGrows /\ Delays' /\ NextIsSuccessor' /\ RepliesAreOfNext'
  BY <1>1, <1>2, <1>3, QuietKept
<1>5. UctTypes'
  BY <1>1 DEF AtType
<1>6. SimOK(t)'
  <2>1. PathOK(t)' /\ SuperkoOK(t)'
    BY <1>1, <1>4, PathKept DEF SimOK
  <2>2. /\ at'[t] = "lookup" /\ wanted'[t] = pos[t] /\ ~on_root'[t]
        /\ pc'[t] \in {"found", "create"}
    BY <1>1, <1>2, <1>3
  <2>3. ThreadOK(t)' /\ LengthOK(t)' /\ BackTurnOK(t)'
    BY <1>1, <2>2, UctAssumption DEF SimOK, ThreadOK, LengthOK, BackTurnOK, AtMaxDepth
  <2>4. AnswerOK(t)'
    <3>1. ASSUME pc'[t] = "found" PROVE zobrist_hash'[ret'[t]] = pos[t]
      BY <1>2, <1>3, <3>1 DEF find_state, stateVars
    <3>2. QED
      BY <2>2, <3>1 DEF AnswerOK
  <2>5. PositionOK(t)'
    BY <1>1, <1>2, <2>2 DEF SimOK, PositionOK, Descending, Target, LastPlay, stateVars
  <2>6. QED
    BY <2>1, <2>3, <2>4, <2>5 DEF SimOK
<1>7. \A u \in Thread \ {t} : SameSim(u) /\ SameLookup(u)
  BY <1>1, <1>2, <1>3 DEF SameSim, SameLookup
<1> QED
  BY <1>1, <1>4, <1>5, <1>6, <1>7, OneThread DEF UctKept

\* A state created is of no table yet, and its delay starts.
LEMMA KeptCreateState == ASSUME UctInv, NEW t \in Thread, CreateState(t) PROVE UctKept
<1> USE DEF UctInv, UctTypes
<1>1. /\ pc[t] = "create" /\ pc' = [pc EXCEPT ![t] = "insert"]
      /\ expansion_delay' = [expansion_delay EXCEPT ![ret'[t]] = ExpansionDelay]
      /\ UNCHANGED <<at, pos, is_black, curr_stats, path, outcome, level, left, mc_n,
                     lgrf1_reply, phase, root, table, wanted, on_root>>
  BY DEF CreateState, create_state, simVars, mainVars
<1>2. PICK n \in IF freed_nodes # {} THEN freed_nodes ELSE Fresh :
        SetNewState(n, wanted[t]) /\ ret' = [ret EXCEPT ![t] = n]
  BY DEF CreateState, create_state
<1>3. /\ pc \in [Thread -> {"idle", "create", "insert", "found", "held"}]
      /\ wanted \in [Thread -> Key] /\ on_root \in [Thread -> BOOLEAN]
      /\ ret \in [Thread -> Node \cup {Null}] /\ freed_nodes \subseteq Node
  BY DEF Inv, Structure, TypeInv, TypeOK
<1>4. n \in Node /\ n \notin Tabled /\ n \notin InFlight
  BY <1>2, <1>3 DEF Fresh, Inv, PoolAccounting
<1>5. ret'[t] = n /\ pc'[t] = "insert" /\ expansion_delay' = [expansion_delay EXCEPT ![n] = ExpansionDelay]
  BY <1>1, <1>2, <1>3
<1>6. TreeSame /\ TreeGrows
  BY CreateTree DEF CreateState, TreeSame
<1>7. NextIsSuccessor' /\ RepliesAreOfNext'
  BY <1>1, <1>6, LinksSame, RepliesSame
<1>8. UctTypes'
  BY <1>1, <1>4, <1>5, UctAssumption
<1>9. Delays'
  <2>1. Tabled' = Tabled /\ InFlight' = InFlight \cup {n} /\ expanded' = expanded \ {n}
    BY <1>1, <1>2, <1>3, <1>4 DEF Tabled, InFlight, SetNewState
  <2>2. ExpansionDelay # -1
    BY UctAssumption
  <2>3. expanded \subseteq Node /\ Tabled \subseteq Node /\ InFlight \subseteq Node
    BY TabledNodes DEF Inv, Structure, TypeInv, TypeOK, InFlight
  <2>4. \A m \in Node : expansion_delay'[m] = IF m = n THEN ExpansionDelay ELSE expansion_delay[m]
    BY <1>4, <1>5
  <2>5. \A m \in expanded' : expansion_delay'[m] = -1
    BY <2>1, <2>3, <2>4 DEF Delays
  <2>6. \A m \in Tabled' \cup InFlight' : expansion_delay'[m] = -1 => m \in expanded'
    BY <1>4, <2>1, <2>2, <2>3, <2>4 DEF Delays
  <2>7. QED
    BY <2>5, <2>6 DEF Delays
<1>10. SimOK(t)'
  <2>1. PathOK(t)' /\ SuperkoOK(t)'
    BY <1>1, <1>6, PathKept DEF SimOK
  <2>2. ThreadOK(t)' /\ AnswerOK(t)' /\ LengthOK(t)'
    BY <1>1, <1>5 DEF SimOK, ThreadOK, AnswerOK, LengthOK
  <2>3. at[t] \in {"lookup", "done"}
    BY <1>1 DEF SimOK, ThreadOK, AtType
  <2>4. BackTurnOK(t)'
    BY <1>1, <2>3 DEF BackTurnOK
  <2>5. PositionOK(t)'
    <3>1. ASSUME path[t] # <<>> PROVE Target(LastPlay(t))' = Target(LastPlay(t))
      BY <1>1, <1>6, <3>1, LastIsTreePlay, TreePlayKept DEF Target, LastPlay
    <3>2. QED
      BY <1>1, <2>3, <3>1 DEF SimOK, PositionOK, Descending
  <2>6. QED
    BY <2>1, <2>2, <2>4, <2>5 DEF SimOK
<1>11. \A u \in Thread \ {t} : SameSim(u) /\ SameLookup(u)
  BY <1>1, <1>2, <1>3 DEF SameSim, SameLookup
<1> QED
  BY <1>1, <1>6, <1>7, <1>8, <1>9, <1>10, <1>11, OneThread DEF UctKept

\* The state that was wanted is held.
LEMMA KeptEndLookup == ASSUME UctInv, NEW t \in Thread, EndLookup(t) PROVE UctKept
<1> USE DEF UctInv, UctTypes
<1>1. /\ pc[t] \in {"insert", "found"} /\ pc' = [pc EXCEPT ![t] = "held"]
      /\ UNCHANGED <<at, pos, is_black, curr_stats, path, outcome, level, left, mc_n,
                     expansion_delay, lgrf1_reply, phase, root, wanted, on_root, ret, stateVars>>
  BY DEF EndLookup, Insert, LockFound, simVars, playVars, mainVars
<1>2. /\ pc \in [Thread -> {"idle", "create", "insert", "found", "held"}]
      /\ wanted \in [Thread -> Key] /\ on_root \in [Thread -> BOOLEAN]
      /\ ret \in [Thread -> Node \cup {Null}]
  BY DEF Inv, Structure, TypeInv, TypeOK
<1>3. TreeSame /\ TreeGrows
  BY <1>1, InsertTree, QuietTree DEF EndLookup, LockFound, TreeSame
<1>4. NextIsSuccessor' /\ RepliesAreOfNext'
  BY <1>1, <1>3, LinksSame, RepliesSame
<1>5. UctTypes'
  BY <1>1
<1>6. Delays'
  <2>1. CASE Insert(t)
    <3>1. Tabled' = Tabled \cup {ret[t]}
      BY <1>2, <2>1, ColourOfType DEF Insert, Tabled, Inv, Structure, TypeInv, TypeOK, Colour
    <3>2. ret[t] \in InFlight /\ InFlight' \subseteq InFlight
      BY <1>1, <1>2, <2>1 DEF InFlight, Insert, Inv, Structure, TypeInv
    <3>3. expanded' = expanded
      BY <1>1 DEF stateVars
    <3>4. QED
      BY <1>1, <3>1, <3>2, <3>3 DEF Delays
  <2>2. CASE LockFound(t)
    BY <1>1, <1>2, <2>2, DelaysKept DEF LockFound, stateVars
  <2>3. QED
    BY <2>1, <2>2 DEF EndLookup
<1>7. SimOK(t)'
  <2>1. PathOK(t)' /\ SuperkoOK(t)'
    BY <1>1, <1>3, PathKept DEF SimOK
  <2>2. ThreadOK(t)' /\ LengthOK(t)'
    BY <1>1, <1>2 DEF SimOK, ThreadOK, LengthOK
  <2>3. at[t] \in {"lookup", "done"}
    BY <1>1 DEF SimOK, ThreadOK, AtType
  <2>4. BackTurnOK(t)'
    BY <1>1, <2>3 DEF BackTurnOK
  <2>5. PositionOK(t)'
    BY <1>1, <2>3 DEF SimOK, PositionOK, Descending, Target, LastPlay, stateVars
  <2>6. AnswerOK(t)'
    BY <1>1, <1>2 DEF SimOK, AnswerOK, Inv, Structure, Lookups, stateVars
  <2>7. QED
    BY <2>1, <2>2, <2>4, <2>5, <2>6 DEF SimOK
<1>8. \A u \in Thread \ {t} : SameSim(u) /\ SameLookup(u)
  BY <1>1, <1>2 DEF SameSim, SameLookup
<1> QED
  BY <1>1, <1>3, <1>4, <1>5, <1>6, <1>7, <1>8, OneThread DEF UctKept

LEMMA KeptLockNext == ASSUME UctInv, NEW t \in Thread, LockNext(t) PROVE UctKept
<1> USE DEF UctInv, UctTypes
<1>1. /\ at[t] = "enter" /\ ~AtMaxDepth(t) /\ curr_stats[t] # Null
      /\ at' = [at EXCEPT ![t] = "visit"]
      /\ pc' = [pc EXCEPT ![t] = "held"] /\ ret' = [ret EXCEPT ![t] = curr_stats[t]]
      /\ UNCHANGED <<pos, is_black, curr_stats, path, outcome, level, left, mc_n, table,
                     expansion_delay, lgrf1_reply, phase, root, wanted, on_root, stateVars>>
  BY DEF LockNext, SetLock, playVars, mainVars
<1>2. /\ pc \in [Thread -> {"idle", "create", "insert", "found", "held"}]
      /\ wanted \in [Thread -> Key] /\ on_root \in [Thread -> BOOLEAN]
      /\ ret \in [Thread -> Node \cup {Null}]
  BY DEF Inv, Structure, TypeInv, TypeOK
<1>3. TreeGrows /\ Delays' /\ NextIsSuccessor' /\ RepliesAreOfNext'
  BY <1>1, <1>2, QuietKept
<1>4. UctTypes'
  BY <1>1 DEF AtType
<1>5. SimOK(t)'
  <2>1. PathOK(t)' /\ SuperkoOK(t)'
    BY <1>1, <1>3, PathKept DEF SimOK
  <2>2. at'[t] = "visit" /\ pc'[t] = "held" /\ ret'[t] = curr_stats[t]
    BY <1>1, <1>2
  <2>3. ThreadOK(t)' /\ LengthOK(t)' /\ BackTurnOK(t)' /\ AnswerOK(t)'
    BY <1>1, <2>2, UctAssumption DEF SimOK, ThreadOK, LengthOK, BackTurnOK, AnswerOK, AtMaxDepth
  <2>4. PositionOK(t)'
    BY <1>1, <2>2 DEF SimOK, PositionOK, Descending, Target, LastPlay, Leads, Tabled, stateVars
  <2>5. QED
    BY <2>1, <2>3, <2>4 DEF SimOK
<1>6. \A u \in Thread \ {t} : SameSim(u) /\ SameLookup(u)
  BY <1>1, <1>2 DEF SameSim, SameLookup
<1> QED
  BY <1>1, <1>3, <1>4, <1>5, <1>6, OneThread DEF UctKept

\* A link is written to the state its play leads to: others that wrote it wrote the same.
LEMMA LinkKeeps ==
  ASSUME UctInv, NEW t \in Thread, NEW d, TreePlay(d), SetNext(t, d[1], d[2]),
         ret[t] \in Tabled, zobrist_hash[ret[t]] = Target(d), UNCHANGED lgrf1_reply
  PROVE  NextIsSuccessor' /\ RepliesAreOfNext'
<1> USE DEF UctInv
<1>1. /\ Tabled' = Tabled /\ expanded' = expanded /\ zobrist_hash' = zobrist_hash
      /\ next_stats' = [next_stats EXCEPT ![d[1]][d[2]] = ret[t]]
      /\ next_stats[d[1]][d[2]] \in {Null, ret[t]}
      /\ next_stats'[d[1]][d[2]] = ret[t]
  BY LinkTree
<1>2. /\ next_stats \in [Node -> [Play -> Node \cup {Null}]]
      /\ Tabled \subseteq Node /\ d[1] \in Node /\ d[2] \in Play
  BY TreePlayLeads, TabledNodes DEF Inv, Structure, TypeInv, TypeOK
<1>3. ASSUME NEW n \in Node, NEW p \in Play, ~(n = d[1] /\ p = d[2])
      PROVE  next_stats'[n][p] = next_stats[n][p]
  BY <1>1, <1>2, <1>3
<1>4. NextIsSuccessor'
  <2> SUFFICES ASSUME NEW n \in Tabled \cap expanded, NEW p \in Moves(zobrist_hash[n]),
                      next_stats'[n][p] # Null
               PROVE  /\ ~GameEnds(zobrist_hash[n], p)
                      /\ zobrist_hash[next_stats'[n][p]] = Succ[zobrist_hash[n]][p]
    BY <1>1 DEF NextIsSuccessor, Moves
  <2>1. n \in Node /\ p \in Play
    BY <1>2, TabledNodes, GraphAssumption
  <2>2. CASE n = d[1] /\ p = d[2]
    BY <1>1, <2>2 DEF TreePlay, Target
  <2>3. CASE ~(n = d[1] /\ p = d[2])
    BY <1>3, <2>1, <2>3 DEF NextIsSuccessor
  <2>4. QED
    BY <2>2, <2>3
<1>5. RepliesAreOfNext'
  <2> SUFFICES ASSUME NEW n \in Tabled \cap expanded, NEW p \in Play, NEW r,
                      r = lgrf1_reply[n][p], r # NoPlay
               PROVE  /\ r[1] = next_stats'[n][p]
                      /\ r[1] \in Tabled \cap expanded
                      /\ r[2] \in Moves(zobrist_hash[r[1]])
    BY <1>1 DEF RepliesAreOfNext, Moves
  <2>1. /\ r[1] = next_stats[n][p] /\ r[1] \in Tabled \cap expanded
        /\ r[2] \in Moves(zobrist_hash[r[1]])
    BY DEF RepliesAreOfNext
  <2>2. CASE n = d[1] /\ p = d[2]
    BY <1>1, <1>2, <2>1, <2>2, NodeAssumption
  <2>3. CASE ~(n = d[1] /\ p = d[2])
    BY <1>2, <1>3, <2>1, <2>3
  <2>4. QED
    BY <2>2, <2>3
<1> QED
  BY <1>4, <1>5

LEMMA KeptArrive == ASSUME UctInv, NEW t \in Thread, Arrive(t) PROVE UctKept
<1> USE DEF UctInv, UctTypes
<1>1. PICK s \in Node : s = ret[t] /\ s \in Tabled /\ zobrist_hash[s] = pos[t]
  <2>1. pc[t] = "held" /\ at[t] = "lookup"
    BY DEF Arrive
  <2>2. ret[t] \in Tabled
    BY <2>1, AnswersAreTabled
  <2>3. zobrist_hash[ret[t]] = pos[t]
    BY <2>1 DEF SimOK, AnswerOK, ThreadOK
  <2>4. QED
    BY <2>2, <2>3, TabledNodes
<1>2. /\ at[t] = "lookup" /\ pc[t] = "held"
      /\ at' = [at EXCEPT ![t] = "visit"] /\ curr_stats' = [curr_stats EXCEPT ![t] = s]
      /\ UNCHANGED <<pos, is_black, path, outcome, level, left, mc_n, expansion_delay,
                     lgrf1_reply, phase, root>>
  BY <1>1 DEF Arrive, playVars, mainVars
<1>3. pc' = pc /\ wanted' = wanted /\ on_root' = on_root /\ ret' = ret
      /\ UNCHANGED <<table, expanded>>
  BY DEF Arrive, LinkNext, SetNext, vars, lookupVars, stateVars
<1>4. ASSUME path[t] # <<>>
      PROVE  /\ TreePlay(LastPlay(t)) /\ SetNext(t, LastPlay(t)[1], LastPlay(t)[2])
             /\ zobrist_hash[s] = Target(LastPlay(t))
  <2>1. SetNext(t, LastPlay(t)[1], LastPlay(t)[2])
    BY <1>4 DEF Arrive, LinkNext, LastPlay
  <2>2. pos[t] = Target(LastPlay(t))
    BY <1>2, <1>4 DEF SimOK, PositionOK, Descending
  <2>3. QED
    BY <1>1, <1>4, <2>1, <2>2, LastIsTreePlay
<1>5. TreeGrows /\ NextIsSuccessor' /\ RepliesAreOfNext'
  <2>1. CASE path[t] = <<>>
    BY <1>2, <2>1, QuietVars DEF Arrive, LinkNext
  <2>2. CASE path[t] # <<>>
    BY <1>1, <1>2, <1>4, <2>2, LinkTree, LinkKeeps
  <2>3. QED
    BY <2>1, <2>2
<1>6. Delays'
  BY <1>2, <1>3, DelaysKept
<1>7. UctTypes'
  BY <1>2 DEF AtType
<1>8. SimOK(t)'
  <2>1. PathOK(t)' /\ SuperkoOK(t)'
    BY <1>2, <1>5, PathKept DEF SimOK
  <2>2. at'[t] = "visit" /\ curr_stats'[t] = s /\ s # Null
    BY <1>1, <1>2, NodeAssumption
  <2>3. ThreadOK(t)' /\ AnswerOK(t)' /\ LengthOK(t)' /\ BackTurnOK(t)'
    BY <1>1, <1>2, <1>3, <2>2 DEF SimOK, ThreadOK, AnswerOK, LengthOK, BackTurnOK
  <2>4. s \in Tabled' /\ zobrist_hash'[s] = pos[t]
    BY <1>1, <1>5 DEF TreeGrows
  <2>5. ASSUME path[t] # <<>>
        PROVE  /\ Leads(LastPlay(t), s)' /\ pos[t] = Target(LastPlay(t))'
    <3>1. PICK d \in Node \X Play : d = LastPlay(t)
      BY <2>5, LastIsTreePlay
    <3>2. /\ next_stats'[d[1]][d[2]] = s /\ zobrist_hash' = zobrist_hash
      BY <1>1, <1>4, <2>5, <3>1, LinkTree
    <3>3. zobrist_hash[s] = Target(d) /\ d = LastPlay(t)'
      BY <1>2, <1>4, <2>5, <3>1 DEF LastPlay
    <3>4. QED
      BY <1>1, <2>4, <3>2, <3>3 DEF Leads, Target
  <2>6. PositionOK(t)'
    BY <1>2, <2>2, <2>4, <2>5 DEF SimOK, PositionOK, Descending
  <2>7. QED
    BY <2>1, <2>3, <2>6 DEF SimOK
<1>9. \A u \in Thread \ {t} : SameSim(u) /\ SameLookup(u)
  BY <1>2, <1>3 DEF SameSim, SameLookup
<1> QED
  BY <1>2, <1>5, <1>6, <1>7, <1>8, <1>9, OneThread DEF UctKept

\* What the table has of a thread that lets a state go.
LEMMA ReleasedLookup ==
  ASSUME Inv, NEW t \in Thread, Release(t)
  PROVE  /\ pc'[t] = "idle" /\ ~on_root'[t]
         /\ \A u \in Thread \ {t} : SameLookup(u)
         /\ \A u \in Thread : pc'[u] = "insert" => pc[u] = "insert" /\ ret'[u] = ret[u]
         /\ table' = table
<1>1. /\ pc \in [Thread -> {"idle", "create", "insert", "found", "held"}]
      /\ wanted \in [Thread -> Key] /\ on_root \in [Thread -> BOOLEAN]
      /\ ret \in [Thread -> Node \cup {Null}]
  BY DEF Inv, Structure, TypeInv, TypeOK
<1> QED
  BY <1>1 DEF Release, SameLookup

LEMMA KeptEndBySuperko == ASSUME UctInv, NEW t \in Thread, EndBySuperko(t) PROVE UctKept
<1>1. /\ at[t] = "visit" /\ Release(t)
      /\ UNCHANGED <<table, stateVars>>
      /\ UNCHANGED <<pos, is_black, curr_stats, path, left, expansion_delay, mc_n, lgrf1_reply,
                     phase, root>>
  BY DEF EndBySuperko, UnsetLock, Release, playVars, mainVars
<1>2. PICK o \in -1..1 : Leave(t, o) /\ o = IF is_black[t] THEN 1 ELSE -1
  BY DEF EndBySuperko
<1>3. /\ pc'[t] = "idle" /\ ~on_root'[t] /\ \A u \in Thread \ {t} : SameLookup(u)
      /\ \A u \in Thread : pc'[u] = "insert" => pc[u] = "insert" /\ ret'[u] = ret[u]
  BY <1>1, ReleasedLookup DEF UctInv
<1>4. TreeGrows /\ Delays' /\ NextIsSuccessor' /\ RepliesAreOfNext'
  BY <1>1, <1>3, QuietKept
<1>5. /\ SimOK(t)' /\ at' \in [Thread -> AtType] /\ level' \in [Thread -> Nat]
      /\ outcome' \in [Thread -> -1..1]
      /\ \A u \in Thread \ {t} : at'[u] = at[u] /\ level'[u] = level[u]
  BY <1>1, <1>2, <1>3, <1>4, LeaveKeeps
<1>6. UctTypes'
  BY <1>1, <1>5 DEF UctInv, UctTypes
<1>7. \A u \in Thread \ {t} : SameSim(u)
  BY <1>1, <1>5 DEF SameSim
<1> QED
  BY <1>1, <1>3, <1>4, <1>5, <1>6, <1>7, OneThread DEF UctKept

\* A state is expanded that was not: it has no links and no replies yet.
LEMMA ExpandKeeps ==
  ASSUME UctInv, NEW t \in Thread, ExpandAndUnset(t), InitPlays(ret[t]), ret[t] \notin expanded
  PROVE  /\ TreeGrows /\ Delays' /\ NextIsSuccessor' /\ RepliesAreOfNext'
         /\ expansion_delay' \in [Node -> -1..ExpansionDelay]
         /\ mc_n' \in [Node -> [Play -> Nat]]
         /\ lgrf1_reply' \in [Node -> [Play -> (Node \X Play) \cup {NoPlay}]]
<1> USE DEF UctInv, UctTypes
<1>1. PICK s \in Node : s = ret[t] /\ s \in Tabled /\ s \notin expanded
  <2>1. pc[t] = "held"
    BY DEF ExpandAndUnset, Release
  <2>2. QED
    BY <2>1, AnswersAreTabled, TabledNodes
<1>2. /\ expansion_delay' = [expansion_delay EXCEPT ![s] = -1]
      /\ mc_n' = [mc_n EXCEPT ![s] = [p \in Play |-> PriorVisits]]
      /\ lgrf1_reply' = [lgrf1_reply EXCEPT ![s] = [p \in Play |-> NoPlay]]
  BY <1>1 DEF InitPlays
<1>3. /\ TreeGrows /\ Tabled' = Tabled /\ expanded' = expanded \cup {s}
      /\ next_stats' = [next_stats EXCEPT ![s] = [p \in Play |-> Null]]
      /\ zobrist_hash' = zobrist_hash
  BY <1>1, ExpandTree DEF ExpandAndUnset
<1>4. /\ next_stats \in [Node -> [Play -> Node \cup {Null}]]
      /\ expanded \subseteq Node /\ Tabled \subseteq Node
  BY TabledNodes DEF Inv, Structure, TypeInv, TypeOK
<1>5. Delays'
  <2>1. InFlight' \subseteq InFlight
    BY ReleasedLookup DEF ExpandAndUnset, InFlight
  <2>2. InFlight \subseteq Node
    BY DEF InFlight
  <2>3. \A n \in Node : expansion_delay'[n] = IF n = s THEN -1 ELSE expansion_delay[n]
    BY <1>1, <1>2
  <2>4. QED
    BY <1>1, <1>3, <1>4, <2>1, <2>2, <2>3 DEF Delays
<1>6. NextIsSuccessor'
  <2> HIDE DEF UctInv, UctTypes
  <2> SUFFICES ASSUME NEW n \in Tabled \cap expanded', NEW p \in Moves(zobrist_hash[n]),
                      next_stats'[n][p] # Null
               PROVE  /\ ~GameEnds(zobrist_hash[n], p)
                      /\ zobrist_hash[next_stats'[n][p]] = Succ[zobrist_hash[n]][p]
    BY <1>3 DEF NextIsSuccessor, Moves
  <2> USE DEF UctInv, UctTypes
  <2>1. n \in Node /\ p \in Play
    BY <1>4, TabledNodes, GraphAssumption
  <2>2. n # s
    BY <1>1, <1>3, <1>4, <2>1
  <2>3. next_stats'[n] = next_stats[n] /\ n \in expanded
    BY <1>1, <1>3, <1>4, <2>1, <2>2
  <2>4. QED
    BY <2>3 DEF NextIsSuccessor
<1>7. RepliesAreOfNext'
  <2> HIDE DEF UctInv, UctTypes
  <2> SUFFICES ASSUME NEW n \in Tabled \cap expanded', NEW p \in Play, NEW r,
                      r = lgrf1_reply'[n][p], r # NoPlay
               PROVE  /\ r[1] = next_stats'[n][p]
                      /\ r[1] \in Tabled \cap expanded'
                      /\ r[2] \in Moves(zobrist_hash[r[1]])
    BY <1>3 DEF RepliesAreOfNext, Moves
  <2> USE DEF UctInv, UctTypes
  <2>1. n \in Node
    BY <1>4
  <2>2. n # s
    BY <1>1, <1>2, <2>1
  <2>3. /\ next_stats'[n] = next_stats[n] /\ n \in expanded
        /\ lgrf1_reply'[n] = lgrf1_reply[n]
    BY <1>1, <1>2, <1>3, <1>4, <2>1, <2>2
  <2>4. QED
    BY <1>3, <2>3 DEF RepliesAreOfNext
<1>8. /\ expansion_delay' \in [Node -> -1..ExpansionDelay]
      /\ mc_n' \in [Node -> [Play -> Nat]]
      /\ lgrf1_reply' \in [Node -> [Play -> (Node \X Play) \cup {NoPlay}]]
  BY <1>2, UctAssumption
<1> QED
  BY <1>3, <1>5, <1>6, <1>7, <1>8

LEMMA KeptExpansion == ASSUME UctInv, NEW t \in Thread, Expansion(t) PROVE UctKept
<1>1. /\ at[t] = "visit" /\ Release(t)
      /\ UNCHANGED <<pos, is_black, curr_stats, path, left, phase, root>>
  BY DEF Expansion, UnsetLock, ExpandAndUnset, mainVars
<1>2. PICK o \in -1..1 : Leave(t, o)
  BY UctAssumption DEF Expansion
<1>3. /\ pc'[t] = "idle" /\ ~on_root'[t] /\ \A u \in Thread \ {t} : SameLookup(u)
      /\ \A u \in Thread : pc'[u] = "insert" => pc[u] = "insert" /\ ret'[u] = ret[u]
      /\ table' = table
  BY <1>1, ReleasedLookup DEF UctInv
<1>4. /\ curr_stats[t] = ret[t] /\ curr_stats[t] \in Tabled /\ curr_stats[t] \in Node
      /\ expansion_delay[curr_stats[t]] >= 0 /\ curr_stats[t] \notin expanded
  <2>1. curr_stats[t] = ret[t] /\ curr_stats[t] \in Tabled /\ curr_stats[t] \in Node
    BY <1>1, TabledNodes DEF UctInv, SimOK, ThreadOK, PositionOK
  <2>2. expansion_delay[curr_stats[t]] >= 0
    BY DEF Expansion
  <2>3. expansion_delay[curr_stats[t]] # -1
    BY <2>2
  <2>4. QED
    BY <2>1, <2>2, <2>3 DEF UctInv, Delays
<1>5. /\ TreeGrows /\ Delays' /\ NextIsSuccessor' /\ RepliesAreOfNext'
      /\ expansion_delay' \in [Node -> -1..ExpansionDelay]
      /\ mc_n' \in [Node -> [Play -> Nat]]
      /\ lgrf1_reply' \in [Node -> [Play -> (Node \X Play) \cup {NoPlay}]]
  <2>1. CASE expansion_delay[curr_stats[t]] = 0
    <3>1. InitPlays(ret[t]) /\ ExpandAndUnset(t) /\ ret[t] \notin expanded
      BY <1>4, <2>1 DEF Expansion
    <3>2. QED
      BY <3>1, ExpandKeeps
  <2>2. CASE expansion_delay[curr_stats[t]] # 0
    <3> DEFINE s == curr_stats[t]
    <3>1. /\ expansion_delay' = [expansion_delay EXCEPT ![s] = @ - 1]
          /\ UNCHANGED <<mc_n, lgrf1_reply>> /\ UNCHANGED stateVars
      BY <1>4, <2>2 DEF Expansion, UnsetLock
    <3>2. expansion_delay[s] - 1 \in 0..ExpansionDelay
      <4>1. expansion_delay \in [Node -> -1..ExpansionDelay]
        BY DEF UctInv, UctTypes
      <4>2. expansion_delay[s] \in -1..ExpansionDelay
        BY <1>4, <4>1
      <4>3. ExpansionDelay \in Nat
        BY UctAssumption
      <4> QED
        BY <1>4, <2>2, <4>2, <4>3
    <3>3. TreeSame
      BY <1>3, <3>1, QuietTree
    <3>4. NextIsSuccessor' /\ RepliesAreOfNext'
      BY <3>1, <3>3, LinksSame, RepliesSame DEF UctInv
    <3>5. expansion_delay' \in [Node -> -1..ExpansionDelay]
      BY <1>4, <3>1, <3>2 DEF UctInv, UctTypes
    <3>6. Delays'
      <4>1. InFlight' \subseteq InFlight /\ Tabled' = Tabled /\ expanded' = expanded
        BY <1>3, <3>1 DEF InFlight, Tabled, stateVars
      <4>2. /\ \A n \in Node : n # s => expansion_delay'[n] = expansion_delay[n]
            /\ expansion_delay'[s] # -1
        BY <1>4, <3>1, <3>2 DEF UctInv, UctTypes
      <4>3. expanded \subseteq Node /\ Tabled \subseteq Node /\ InFlight \subseteq Node
        BY TabledNodes DEF UctInv, Inv, Structure, TypeInv, TypeOK, InFlight
      <4>4. QED
        BY <1>4, <4>1, <4>2, <4>3 DEF UctInv, Delays
    <3>7. QED
      BY <3>1, <3>3, <3>4, <3>5, <3>6 DEF TreeSame, UctInv, UctTypes
  <2>3. QED
    BY <2>1, <2>2
<1>6. /\ SimOK(t)' /\ at' \in [Thread -> AtType] /\ level' \in [Thread -> Nat]
      /\ outcome' \in [Thread -> -1..1]
      /\ \A u \in Thread \ {t} : at'[u] = at[u] /\ level'[u] = level[u]
  BY <1>1, <1>2, <1>3, <1>5, LeaveKeeps
<1>7. UctTypes'
  BY <1>1, <1>5, <1>6 DEF UctInv, UctTypes
<1>8. \A u \in Thread \ {t} : SameSim(u)
  BY <1>1, <1>6 DEF SameSim
<1> QED
  BY <1>1, <1>3, <1>5, <1>6, <1>7, <1>8, OneThread DEF UctKept

\* The play selected is one of the state the simulation is at, also when it is a reply.
LEMMA SelectedOfState ==
  ASSUME UctInv, NEW t \in Thread, at[t] = "visit", curr_stats[t] \in Tabled \cap expanded,
         NEW d \in SelectedPlays(t)
  PROVE  d \in Node \X Play /\ d[1] = curr_stats[t] /\ d[2] \in Moves(zobrist_hash[curr_stats[t]])
<1>1. curr_stats[t] \in Node /\ zobrist_hash[curr_stats[t]] \in Key
  BY TabledNodes DEF UctInv
<1>2. CASE path[t] # <<>> /\ lgrf1_reply[LastPlay(t)[1]][LastPlay(t)[2]] # NoPlay
  <2>1. d = lgrf1_reply[LastPlay(t)[1]][LastPlay(t)[2]] /\ d # NoPlay
    BY <1>2 DEF SelectedPlays, LastPlay
  <2>2. /\ LastPlay(t)[1] \in Tabled \cap expanded /\ LastPlay(t)[2] \in Play
        /\ LastPlay(t)[1] \in Node
    BY <1>2, LastIsTreePlay DEF TreePlay
  <2>3. next_stats[LastPlay(t)[1]][LastPlay(t)[2]] = curr_stats[t]
    BY <1>2 DEF UctInv, SimOK, PositionOK, Leads
  <2>4. d \in Node \X Play
    BY <2>1, <2>2 DEF UctInv, UctTypes
  <2>5. QED
    BY <2>1, <2>2, <2>3, <2>4 DEF UctInv, RepliesAreOfNext
<1>3. CASE ~(path[t] # <<>> /\ lgrf1_reply[LastPlay(t)[1]][LastPlay(t)[2]] # NoPlay)
  <2>1. PICK p \in Moves(zobrist_hash[curr_stats[t]]) : d = <<curr_stats[t], p>>
    BY <1>3 DEF SelectedPlays, LastPlay
  <2>2. p \in Play
    BY <1>1, GraphAssumption
  <2>3. QED
    BY <1>1, <2>1, <2>2
<1> QED
  BY <1>2, <1>3

\* The path of a simulation that goes on.
LEMMA LongerPath ==
  ASSUME NEW s \in Seq(Node \X Play), NEW d \in Node \X Play
  PROVE  /\ Append(s, d) \in Seq(Node \X Play) /\ Len(s) \in Nat /\ Len(Append(s, d)) = Len(s) + 1
         /\ Append(s, d)[Len(s) + 1] = d /\ \A i \in 1..Len(s) : Append(s, d)[i] = s[i]
         /\ Append(s, d) # <<>>
OBVIOUS

\* A play is selected: the simulation goes on from where it leads.
LEMMA DescendKeeps ==
  ASSUME UctInv, TreeSame, NEW t \in Thread, at[t] = "visit", ~Superko(t),
         NEW d \in Node \X Play, d[1] = curr_stats[t], curr_stats[t] \in expanded,
         d[2] \in Moves(zobrist_hash[curr_stats[t]]), ~GameEnds(pos[t], d[2]),
         at'[t] = "read", pos'[t] = Succ[pos[t]][d[2]], is_black'[t] = ~is_black[t],
         path'[t] = Append(path[t], d), pc'[t] = "idle", ~on_root'[t],
         UNCHANGED <<curr_stats, level, phase, root>>
  PROVE  SimOK(t)'
<1> USE DEF UctInv
<1>1. /\ path[t] \in Seq(Node \X Play) /\ Len(path[t]) \in Nat /\ MaxDepth \in Nat
      /\ is_black[t] \in BOOLEAN /\ pos[t] \in Key /\ level[t] \in Nat
  BY UctAssumption, SMTT(30) DEF UctTypes
<1>2. /\ Len(path'[t]) = Len(path[t]) + 1 /\ path'[t][Len(path[t]) + 1] = d
      /\ \A i \in 1..Len(path[t]) : path'[t][i] = path[t][i]
      /\ path'[t] # <<>>
  BY <1>1, LongerPath
<1>3. /\ Len(path[t]) < MaxDepth /\ level[t] = 0 /\ phase = "search"
      /\ curr_stats[t] \in Tabled /\ zobrist_hash[curr_stats[t]] = pos[t]
      /\ is_black[t] = (pos[t] \in BlackKey)
      /\ path[t] # <<>> => Leads(LastPlay(t), d[1])
  BY DEF SimOK, ThreadOK, LengthOK, PositionOK, Descending
<1>4. TreePlay(d) /\ Target(d) = pos'[t]
  BY <1>3 DEF TreePlay, Target
<1>5. TreeGrows /\ next_stats' = next_stats
  BY DEF TreeSame
<1>6. ASSUME NEW i \in 1..Len(path[t])
      PROVE  TreePlay(path[t][i]) /\ zobrist_hash'[path[t][i][1]] = zobrist_hash[path[t][i][1]]
  <2>1. TreePlay(path[t][i])
    BY DEF SimOK, PathOK
  <2>2. QED
    BY <1>5, <2>1, TreePlayKept
<1>7. ASSUME NEW i \in 1..Len(path'[t]) PROVE TreePlay(path[t][i])'
  <2>1. TreePlay(path'[t][i])
    BY <1>1, <1>2, <1>4, <1>6
  <2>2. QED
    BY <1>5, <2>1, TreePlayKept DEF TreePlay, Moves, GameEnds, Tabled
<1>8. ASSUME NEW i \in 1..Len(path'[t]) - 1 PROVE Leads(path[t][i], path[t][i + 1][1])'
  <2>1. i \in 1..Len(path[t]) /\ path'[t][i] = path[t][i]
    BY <1>1, <1>2
  <2>2. Leads(path[t][i], path'[t][i + 1][1])
    <3>1. CASE i = Len(path[t])
      <4>1. path[t] # <<>>
        BY <2>1
      <4>2. QED
        BY <1>2, <1>3, <3>1, <4>1 DEF LastPlay
    <3>2. CASE i # Len(path[t])
      <4>1. i \in 1..Len(path[t]) - 1 /\ i + 1 \in 1..Len(path[t])
        BY <1>1, <2>1, <3>2
      <4>2. QED
        BY <1>2, <4>1 DEF SimOK, PathOK
    <3>3. QED
      BY <3>1, <3>2
  <2>3. TreePlay(path[t][i])
    BY <1>6, <2>1
  <2>4. PICK e, n : e = path[t][i] /\ n = path'[t][i + 1][1]
    OBVIOUS
  <2>5. /\ next_stats'[e[1]][e[2]] = n /\ n \in Tabled'
        /\ zobrist_hash'[n] = Succ[zobrist_hash'[e[1]]][e[2]]
    BY <1>5, <2>2, <2>3, <2>4, LeadsKept
  <2>6. QED
    BY <2>1, <2>4, <2>5 DEF Leads, Target
<1>9. PathOK(t)'
  BY <1>7, <1>8 DEF PathOK
<1>10. ThreadOK(t)' /\ AnswerOK(t)' /\ BackTurnOK(t)'
  BY <1>3 DEF SimOK, ThreadOK, AnswerOK, BackTurnOK
<1>11. LengthOK(t)'
  BY <1>1, <1>2, <1>3 DEF LengthOK
<1>12. PositionOK(t)'
  <2>1. LastPlay(t)' = d /\ zobrist_hash'[d[1]] = zobrist_hash[d[1]]
    BY <1>2, <1>4, <1>5, TreePlayKept DEF LastPlay
  <2>2. pos'[t] = Target(LastPlay(t))'
    BY <1>4, <2>1 DEF Target
  <2>3. is_black'[t] = (pos'[t] \in BlackKey)
    <3>1. (Target(d) \in BlackKey) = (zobrist_hash[d[1]] \notin BlackKey)
      BY <1>4, TreePlayLeads
    <3>2. (pos'[t] \in BlackKey) = (pos[t] \notin BlackKey)
      BY <1>3, <1>4, <3>1
    <3>3. QED
      BY <1>1, <1>3, <3>2
  <2>4. QED
    BY <2>2, <2>3 DEF PositionOK
<1>13. SuperkoOK(t)'
  <2> SUFFICES ASSUME NEW i \in 1..Len(path'[t]), NEW j \in 1..Len(path'[t]),
                      i < j, j - i <= 6, path'[t][i][1] = path'[t][j][1]
               PROVE  zobrist_hash'[path'[t][j][1]] \in PassedKey
    BY DEF SuperkoOK
  <2>1. i \in 1..Len(path[t]) /\ path'[t][i] = path[t][i]
    BY <1>1, <1>2
  <2>2. CASE j \in 1..Len(path[t])
    <3>1. path'[t][j] = path[t][j]
      BY <1>2, <2>2
    <3>2. zobrist_hash[path[t][j][1]] \in PassedKey
      BY <2>1, <2>2, <3>1 DEF SimOK, SuperkoOK
    <3>3. QED
      BY <1>6, <2>2, <3>1, <3>2
  <2>3. CASE j \notin 1..Len(path[t])
    <3>1. j = Len(path[t]) + 1 /\ path'[t][j] = d
      BY <1>1, <1>2, <2>3
    <3>2. zobrist_hash'[d[1]] = pos[t]
      BY <1>3, <1>4, <1>5, TreePlayKept
    <3>3. CASE i = Len(path[t])
      <4>1. path[t] # <<>> /\ path[t][i] = LastPlay(t) /\ TreePlay(LastPlay(t))
        BY <1>6, <2>1, <3>3, SMTT(30) DEF LastPlay
      <4>2. zobrist_hash[d[1]] = Target(LastPlay(t))
        BY <1>3, <4>1 DEF Leads
      <4>3. LastPlay(t)[1] # d[1]
        BY <4>1, <4>2, TreePlayLeads
      <4>4. QED
        BY <2>1, <3>1, <4>1, <4>3
    <3>4. CASE i # Len(path[t])
      <4>1. PICK m \in 2..6 : m = j - i
        BY <1>1, <2>1, <3>1, <3>4, SMTT(30)
      <4>2. m <= Len(path[t]) /\ Len(path[t]) + 1 - m = i
        BY <1>1, <2>1, <3>1, <4>1
      <4>3. path[t][Len(path[t]) + 1 - m][1] = curr_stats[t]
        BY <2>1, <3>1, <4>2
      <4>4. pos[t] \in PassedKey
        BY <4>1, <4>2, <4>3 DEF Superko
      <4>5. QED
        BY <3>1, <3>2, <4>4
    <3>5. QED
      BY <3>3, <3>4
  <2>4. QED
    BY <2>2, <2>3
<1> QED
  BY <1>9, <1>10, <1>11, <1>12, <1>13 DEF SimOK

LEMMA KeptSelect == ASSUME UctInv, NEW t \in Thread, Select(t) PROVE UctKept
<1>1. /\ at[t] = "visit" /\ Release(t) /\ ~Superko(t) /\ UNCHANGED stateVars
      /\ expansion_delay[curr_stats[t]] = -1
      /\ UNCHANGED <<curr_stats, left, expansion_delay, lgrf1_reply, phase, root>>
  BY DEF Select, UnsetLock, mainVars
<1>2. PICK d \in SelectedPlays(t) :
       /\ VirtualLoss(d[1], d[2])
       /\ \/ /\ GameEnds(pos[t], d[2])
             /\ \E o \in Outcome : Leave(t, o)
             /\ UNCHANGED <<pos, is_black, path>>
          \/ /\ ~GameEnds(pos[t], d[2])
             /\ pos' = [pos EXCEPT ![t] = Succ[@][d[2]]]
             /\ is_black' = [is_black EXCEPT ![t] = ~@]
             /\ path' = [path EXCEPT ![t] = Append(@, d)]
             /\ at' = [at EXCEPT ![t] = "read"]
             /\ UNCHANGED <<outcome, level>>
  BY DEF Select
<1>3. /\ pc'[t] = "idle" /\ ~on_root'[t] /\ \A u \in Thread \ {t} : SameLookup(u)
      /\ \A u \in Thread : pc'[u] = "insert" => pc[u] = "insert" /\ ret'[u] = ret[u]
      /\ table' = table
  BY <1>1, ReleasedLookup DEF UctInv
<1>4. /\ TreeGrows /\ Delays' /\ NextIsSuccessor' /\ RepliesAreOfNext'
  BY <1>1, <1>3, QuietKept
<1>5. curr_stats[t] \in Tabled \cap expanded /\ zobrist_hash[curr_stats[t]] = pos[t]
  BY <1>1 DEF UctInv, SimOK, PositionOK, Delays
<1>6. d \in Node \X Play /\ d[1] = curr_stats[t] /\ d[2] \in Moves(zobrist_hash[curr_stats[t]])
  BY <1>1, <1>5, SelectedOfState
<1>7. mc_n' \in [Node -> [Play -> Nat]]
  <2>1. d[1] \in Node /\ d[2] \in Play /\ mc_n \in [Node -> [Play -> Nat]]
    BY <1>6 DEF UctInv, UctTypes
  <2>2. mc_n' = mc_n \/ mc_n' = [mc_n EXCEPT ![d[1]][d[2]] = @ + 1]
    BY <1>2 DEF VirtualLoss
  <2>3. QED
    BY <2>1, <2>2
<1>8. CASE GameEnds(pos[t], d[2])
  <2>1. PICK o \in -1..1 : Leave(t, o)
    BY <1>2, <1>8, UctAssumption
  <2>2. UNCHANGED <<pos, is_black, path>>
    BY <1>2, <1>8
  <2>3. /\ SimOK(t)' /\ at' \in [Thread -> AtType] /\ level' \in [Thread -> Nat]
        /\ outcome' \in [Thread -> -1..1]
        /\ \A u \in Thread \ {t} : at'[u] = at[u] /\ level'[u] = level[u]
    BY <1>1, <1>3, <1>4, <2>1, <2>2, LeaveKeeps
  <2>4. UctTypes'
    BY <1>1, <1>7, <2>2, <2>3 DEF UctInv, UctTypes
  <2>5. \A u \in Thread \ {t} : SameSim(u)
    BY <1>1, <2>2, <2>3 DEF SameSim
  <2>6. QED
    BY <1>1, <1>3, <1>4, <2>3, <2>4, <2>5, OneThread DEF UctKept
<1>9. CASE ~GameEnds(pos[t], d[2])
  <2>1. /\ pos' = [pos EXCEPT ![t] = Succ[@][d[2]]]
        /\ is_black' = [is_black EXCEPT ![t] = ~@]
        /\ path' = [path EXCEPT ![t] = Append(@, d)]
        /\ at' = [at EXCEPT ![t] = "read"]
        /\ UNCHANGED <<outcome, level>>
    BY <1>2, <1>9
  <2>2. Succ[pos[t]][d[2]] \in Key
    BY <1>5, <1>6, <1>9, GraphAssumption DEF UctInv, UctTypes
  <2>3. UctTypes'
    BY <1>1, <1>6, <1>7, <2>1, <2>2 DEF UctInv, UctTypes, AtType
  <2>4. SimOK(t)'
    <3>1. /\ at'[t] = "read" /\ pos'[t] = Succ[pos[t]][d[2]] /\ is_black'[t] = ~is_black[t]
          /\ path'[t] = Append(path[t], d)
      BY <2>1 DEF UctInv, UctTypes
    <3>2. TreeSame
      BY <1>1, <1>3, QuietTree
    <3>3. QED
      BY <1>1, <1>3, <1>5, <1>6, <1>9, <2>1, <3>1, <3>2, DescendKeeps
  <2>5. \A u \in Thread \ {t} : SameSim(u)
    BY <1>1, <2>1 DEF SameSim
  <2>6. QED
    BY <1>1, <1>3, <1>4, <2>3, <2>4, <2>5, OneThread DEF UctKept
<1> QED
  BY <1>8, <1>9

-----------------------------------------------------------------------------
(***************************************************************************)
(* The steps of the main thread.                                           *)
(***************************************************************************)
\* No simulation goes on outside the parallel loop.
LEMMA AtRest ==
  ASSUME UctInv, phase # "search", NEW t \in Thread
  PROVE  /\ at[t] = "done" /\ path[t] = <<>> /\ level[t] = 0
         /\ phase # "root" \/ t # Master => pc[t] = "idle" /\ ~on_root[t]
BY DEF UctInv, SimOK, ThreadOK, LengthOK

\* Nothing else is asked of a thread that simulates nothing.
LEMMA RestOK ==
  ASSUME NEW t \in Thread, at'[t] \in {"idle", "done"}, path'[t] = <<>>, level'[t] = 0,
         ThreadOK(t)', pc'[t] = "found" => zobrist_hash'[ret'[t]] = wanted'[t]
  PROVE  SimOK(t)'
<1>1. Len(path'[t]) = 0
  OBVIOUS
<1>2. LengthOK(t)' /\ PathOK(t)' /\ SuperkoOK(t)'
  BY <1>1, UctAssumption DEF LengthOK, PathOK, SuperkoOK
<1>3. AnswerOK(t)' /\ PositionOK(t)' /\ BackTurnOK(t)'
  BY DEF AnswerOK, PositionOK, BackTurnOK, Descending
<1> QED
  BY <1>2, <1>3 DEF SimOK

LEMMA KeptResume == ASSUME UctInv, Resume PROVE UctKept
<1>1. /\ phase = "ponder" /\ phase' = "search" /\ UNCHANGED vars
      /\ at' = [t \in Thread |-> "idle"] /\ left' = [t \in Thread |-> Sims]
      /\ UNCHANGED <<pos, is_black, curr_stats, path, outcome, level, expansion_delay, mc_n,
                     lgrf1_reply, root>>
  BY DEF Resume, OpenLoop, playVars
<1>2. /\ Delays' /\ NextIsSuccessor' /\ RepliesAreOfNext' /\ \A t \in Thread : SameLookup(t)
  BY <1>1, QuietVars
<1>3. UctTypes'
  BY <1>1, UctAssumption DEF UctInv, UctTypes, AtType, PhaseType
<1>4. ASSUME NEW t \in Thread PROVE SimOK(t)'
  <2>1. at'[t] = "idle" /\ path'[t] = <<>> /\ level'[t] = 0 /\ pc'[t] = "idle" /\ ~on_root'[t]
    BY <1>1, <1>2, AtRest DEF SameLookup
  <2>2. ThreadOK(t)'
    BY <1>1, <2>1 DEF ThreadOK
  <2>3. QED
    BY <2>1, <2>2, RestOK
<1> QED
  BY <1>2, <1>3, <1>4 DEF UctKept

LEMMA KeptEndSearch == ASSUME UctInv, EndSearch PROVE UctKept
<1>1. /\ phase = "search" /\ phase' = "ponder" /\ UNCHANGED vars /\ \A t \in Thread : at[t] = "done"
      /\ UNCHANGED <<at, pos, is_black, curr_stats, path, outcome, level, left, expansion_delay,
                     mc_n, lgrf1_reply>>
  BY DEF EndSearch, simVars, playVars
<1>2. /\ Delays' /\ NextIsSuccessor' /\ RepliesAreOfNext' /\ \A t \in Thread : SameLookup(t)
  BY <1>1, QuietVars
<1>3. root' \in Key
  BY UctAssumption DEF EndSearch, UctInv, UctTypes
<1>4. UctTypes'
  BY <1>1, <1>3 DEF UctInv, UctTypes, PhaseType
<1>5. ASSUME NEW t \in Thread PROVE SimOK(t)'
  <2>1. at'[t] = "done" /\ path'[t] = <<>> /\ level'[t] = 0 /\ pc'[t] = "idle" /\ ~on_root'[t]
    BY <1>1, <1>2 DEF SameLookup, UctInv, SimOK, ThreadOK, LengthOK
  <2>2. ThreadOK(t)'
    BY <1>1, <2>1 DEF ThreadOK
  <2>3. QED
    BY <2>1, <2>2, RestOK
<1> QED
  BY <1>2, <1>4, <1>5 DEF UctKept

LEMMA KeptTick == ASSUME UctInv, Tick PROVE UctKept
<1>1. /\ UNCHANGED vars
      /\ UNCHANGED <<at, pos, is_black, curr_stats, path, outcome, level, left, expansion_delay,
                     mc_n, lgrf1_reply, phase, root>>
  BY DEF Tick, simVars, playVars, mainVars
<1>2. /\ TreeGrows /\ Delays' /\ NextIsSuccessor' /\ RepliesAreOfNext'
      /\ \A t \in Thread : SameLookup(t) /\ SameSim(t)
  BY <1>1, QuietVars DEF SameSim
<1>3. UctTypes'
  BY <1>1 DEF UctInv, UctTypes
<1> QED
  BY <1>1, <1>2, <1>3, OthersKept DEF UctKept

LEMMA KeptChangePosition == ASSUME UctInv, ChangePosition PROVE UctKept
<1>1. /\ phase = "command" /\ phase' = "ponder" /\ UNCHANGED vars
      /\ UNCHANGED <<at, pos, is_black, curr_stats, path, outcome, level, left, expansion_delay,
                     mc_n, lgrf1_reply>>
  BY DEF ChangePosition, simVars, playVars
<1>2. /\ Delays' /\ NextIsSuccessor' /\ RepliesAreOfNext' /\ \A t \in Thread : SameLookup(t)
  BY <1>1, QuietVars
<1>3. root' \in Key
  BY UctAssumption DEF ChangePosition
<1>4. UctTypes'
  BY <1>1, <1>3 DEF UctInv, UctTypes, PhaseType
<1>5. ASSUME NEW t \in Thread PROVE SimOK(t)'
  <2>1. at'[t] = "done" /\ path'[t] = <<>> /\ level'[t] = 0 /\ pc'[t] = "idle" /\ ~on_root'[t]
    BY <1>1, <1>2, AtRest DEF SameLookup
  <2>2. ThreadOK(t)'
    BY <1>1, <2>1 DEF ThreadOK
  <2>3. QED
    BY <2>1, <2>2, RestOK
<1> QED
  BY <1>2, <1>4, <1>5 DEF UctKept

\* Cleaning leaves no link or reply to a state that it releases.
LEMMA CleaningKeeps ==
  ASSUME UctInv, Inv', Tabled' \subseteq Tabled,
         UNCHANGED <<zobrist_hash, expanded, next_stats, expansion_delay, lgrf1_reply, pc, ret>>
  PROVE  Delays' /\ NextIsSuccessor' /\ RepliesAreOfNext'
<1>1. Delays'
  BY DEF UctInv, Delays, InFlight
<1>2. NextIsSuccessor'
  BY DEF UctInv, NextIsSuccessor, Moves
<1>3. RepliesAreOfNext'
  <2> SUFFICES ASSUME NEW n \in Tabled' \cap expanded, NEW p \in Play, NEW r,
                      r = lgrf1_reply[n][p], r # NoPlay
               PROVE  /\ r[1] = next_stats[n][p]
                      /\ r[1] \in Tabled' \cap expanded
                      /\ r[2] \in Moves(zobrist_hash[r[1]])
    BY DEF RepliesAreOfNext, Moves
  <2>1. /\ r[1] = next_stats[n][p] /\ r[1] \in Tabled \cap expanded
        /\ r[2] \in Moves(zobrist_hash[r[1]])
    BY DEF UctInv, RepliesAreOfNext
  <2>2. next_stats[n][p] # Null
    BY <2>1, TabledNodes, NodeAssumption DEF UctInv
  <2>3. next_stats[n][p] \in Tabled'
    BY <2>2 DEF Inv, NoDanglingStats
  <2>4. QED
    BY <2>1, <2>3
<1> QED
  BY <1>1, <1>2, <1>3

LEMMA KeptCleaning ==
  ASSUME UctInv, Inv', TurnMaintenance \/ NewMatch
  PROVE  UctKept
<1>1. /\ phase \in {"command", "ponder"} /\ phase' \in {"command", "ponder"}
      /\ UNCHANGED <<at, pos, is_black, curr_stats, path, outcome, level, left, expansion_delay,
                     mc_n, lgrf1_reply>>
  BY DEF TurnMaintenance, NewMatch, BetweenSearches, simVars, playVars
<1>2. phase # "search" /\ phase # "root" /\ phase' \in {"command", "ponder"}
  BY DEF TurnMaintenance, NewMatch, BetweenSearches
<1>3. root' \in Key
  BY UctAssumption DEF TurnMaintenance, NewMatch, UctInv, UctTypes
<1>4. /\ UNCHANGED <<zobrist_hash, expanded, next_stats, pc, ret, wanted, on_root>>
      /\ Tabled' \subseteq Tabled
  <2>1. ASSUME tt_clean_all
        PROVE  UNCHANGED <<zobrist_hash, expanded, next_stats, pc, ret, wanted, on_root>>
               /\ Tabled' \subseteq Tabled
    BY <2>1 DEF tt_clean_all, ReleaseStates, stateVars, lookupVars, Tabled, Colour
  <2>2. ASSUME tt_clean_unreachable(root)
        PROVE  UNCHANGED <<zobrist_hash, expanded, next_stats, pc, ret, wanted, on_root>>
               /\ Tabled' \subseteq Tabled
    BY <2>1, <2>2, ZenonT(30) DEF tt_clean_unreachable, ReleaseStates, lookupVars, Tabled, Colour
  <2>3. ASSUME UNCHANGED vars
        PROVE  UNCHANGED <<zobrist_hash, expanded, next_stats, pc, ret, wanted, on_root>>
               /\ Tabled' \subseteq Tabled
    BY <2>3 DEF vars, stateVars, lookupVars, Tabled
  <2>4. QED
    BY <2>1, <2>2, <2>3 DEF TurnMaintenance, NewMatch
<1>5. Delays' /\ NextIsSuccessor' /\ RepliesAreOfNext'
  BY <1>1, <1>4, CleaningKeeps
<1>6. UctTypes'
  BY <1>1, <1>2, <1>3 DEF UctInv, UctTypes, PhaseType
<1>7. ASSUME NEW t \in Thread PROVE SimOK(t)'
  <2>1. at'[t] = "done" /\ path'[t] = <<>> /\ level'[t] = 0 /\ pc'[t] = "idle" /\ ~on_root'[t]
    BY <1>1, <1>2, <1>4, AtRest
  <2>2. ThreadOK(t)'
    BY <1>2, <2>1 DEF ThreadOK
  <2>3. QED
    BY <2>1, <2>2, RestOK
<1> QED
  BY <1>5, <1>6, <1>7 DEF UctKept

LEMMA KeptEvaluate == ASSUME UctInv, Evaluate PROVE UctKept
<1>1. /\ phase = "command" /\ phase' = "root"
      /\ UNCHANGED <<at, pos, is_black, curr_stats, path, outcome, level, left, expansion_delay,
                     mc_n, lgrf1_reply, root>>
  BY DEF Evaluate, simVars, playVars
<1>2. /\ UNCHANGED <<table, stateVars>>
      /\ wanted' = [wanted EXCEPT ![Master] = root] /\ on_root' = [on_root EXCEPT ![Master] = TRUE]
      /\ \/ /\ pc' = [pc EXCEPT ![Master] = "found"]
            /\ \E n \in find_state(root) : ret' = [ret EXCEPT ![Master] = n]
         \/ pc' = [pc EXCEPT ![Master] = "create"] /\ ret' = ret
  BY DEF Evaluate, LookupHit, LookupMiss, FindFrom
<1>3. /\ pc \in [Thread -> {"idle", "create", "insert", "found", "held"}]
      /\ wanted \in [Thread -> Key] /\ on_root \in [Thread -> BOOLEAN]
      /\ ret \in [Thread -> Node \cup {Null}] /\ Master \in Thread
  BY UctAssumption DEF UctInv, Inv, Structure, TypeInv, TypeOK
<1>4. /\ TreeGrows /\ Delays' /\ NextIsSuccessor' /\ RepliesAreOfNext'
  BY <1>1, <1>2, <1>3, QuietKept
<1>5. UctTypes'
  BY <1>1 DEF UctInv, UctTypes, PhaseType
<1>6. ASSUME NEW t \in Thread PROVE SimOK(t)'
  <2>1. /\ at'[t] = "done" /\ path'[t] = <<>> /\ level'[t] = 0 /\ pc[t] = "idle" /\ ~on_root[t]
    BY <1>1, AtRest
  <2>2. CASE t = Master
    <3>1. /\ pc'[t] \in {"found", "create"} /\ wanted'[t] = root
          /\ pc'[t] = "found" => zobrist_hash'[ret'[t]] = root
      BY <1>2, <1>3, <2>2 DEF find_state, stateVars
    <3>2. ThreadOK(t)'
      BY <1>1, <2>1, <2>2, <3>1 DEF ThreadOK
    <3>3. QED
      BY <2>1, <3>1, <3>2, RestOK
  <2>3. CASE t # Master
    <3>1. pc'[t] = "idle" /\ ~on_root'[t]
      BY <1>2, <1>3, <2>1, <2>3
    <3>2. ThreadOK(t)'
      BY <2>1, <2>3, <3>1 DEF ThreadOK
    <3>3. QED
      BY <2>1, <3>1, <3>2, RestOK
  <2>4. QED
    BY <2>2, <2>3
<1> QED
  BY <1>4, <1>5, <1>6 DEF UctKept

LEMMA KeptExpandRoot == ASSUME UctInv, ExpandRoot PROVE UctKept
<1>1. /\ phase = "root" /\ phase' = "search" /\ pc[Master] = "held" /\ Release(Master)
      /\ at' = [t \in Thread |-> "idle"] /\ left' = [t \in Thread |-> Sims]
      /\ UNCHANGED <<pos, is_black, curr_stats, path, outcome, level, root>>
  BY DEF ExpandRoot, OpenLoop, UnsetLock, ExpandAndUnset
<1>2. /\ pc'[Master] = "idle" /\ ~on_root'[Master] /\ \A u \in Thread \ {Master} : SameLookup(u)
      /\ \A u \in Thread : pc'[u] = "insert" => pc[u] = "insert" /\ ret'[u] = ret[u]
      /\ table' = table
  BY <1>1, ReleasedLookup, UctAssumption DEF UctInv
<1>3. /\ TreeGrows /\ Delays' /\ NextIsSuccessor' /\ RepliesAreOfNext'
      /\ expansion_delay' \in [Node -> -1..ExpansionDelay]
      /\ mc_n' \in [Node -> [Play -> Nat]]
      /\ lgrf1_reply' \in [Node -> [Play -> (Node \X Play) \cup {NoPlay}]]
  <2>1. CASE Unexpanded(ret[Master])
    <3>1. InitPlays(ret[Master]) /\ ExpandAndUnset(Master) /\ ret[Master] \notin expanded
      BY <2>1 DEF ExpandRoot, Unexpanded, UctInv, Delays
    <3>2. QED
      BY <3>1, ExpandKeeps, UctAssumption
  <2>2. CASE ~Unexpanded(ret[Master])
    <3>1. UNCHANGED stateVars /\ UNCHANGED <<expansion_delay, mc_n, lgrf1_reply>>
      BY <2>2 DEF ExpandRoot, UnsetLock, playVars
    <3>2. QED
      BY <1>2, <3>1, QuietKept DEF UctInv, UctTypes
  <2>3. QED
    BY <2>1, <2>2
<1>4. UctTypes'
  BY <1>1, <1>3, UctAssumption DEF UctInv, UctTypes, AtType, PhaseType
<1>5. ASSUME NEW t \in Thread PROVE SimOK(t)'
  <2>1. /\ at'[t] = "idle" /\ path'[t] = <<>> /\ level'[t] = 0
    BY <1>1, AtRest
  <2>2. pc'[t] = "idle" /\ ~on_root'[t]
    BY <1>1, <1>2, AtRest DEF SameLookup
  <2>3. ThreadOK(t)'
    BY <1>1, <2>1, <2>2 DEF ThreadOK
  <2>4. QED
    BY <2>1, <2>2, <2>3, RestOK
<1> QED
  BY <1>3, <1>4, <1>5 DEF UctKept

-----------------------------------------------------------------------------
(***************************************************************************)
(* The invariant holds.                                                    *)
(***************************************************************************)
LEMMA UctInvInit == UctInit => UctInv
<1> SUFFICES ASSUME UctInit PROVE UctInv
  OBVIOUS
<1> USE DEF UctInit
<1>1. Inv
  BY InvInit
<1>2. Tabled = {} /\ InFlight = {} /\ expanded = {} /\ \A t \in Thread : pc[t] = "idle" /\ ~on_root[t]
  BY DEF Init, Tabled, InFlight, Colour
<1>3. UctTypes
  <2>1. path \in [Thread -> Seq(Node \X Play)]
    OBVIOUS
  <2>2. 0 \in -1..1 /\ -1 \in -1..ExpansionDelay /\ root \in Key
    BY UctAssumption
  <2>3. QED
    BY <2>1, <2>2, AnyKeyType DEF UctTypes, AtType, PhaseType
<1>4. Delays /\ NextIsSuccessor /\ RepliesAreOfNext
  BY <1>2 DEF Delays, NextIsSuccessor, RepliesAreOfNext
<1>5. ASSUME NEW t \in Thread PROVE SimOK(t)
  <2>1. path[t] = <<>> /\ Len(path[t]) = 0 /\ level[t] = 0 /\ at[t] = "done" /\ phase = "ponder"
    OBVIOUS
  <2>2. LengthOK(t) /\ PathOK(t) /\ SuperkoOK(t)
    BY <2>1, UctAssumption DEF LengthOK, PathOK, SuperkoOK
  <2>3. ThreadOK(t) /\ AnswerOK(t) /\ PositionOK(t) /\ BackTurnOK(t)
    BY <1>2, <2>1 DEF ThreadOK, AnswerOK, PositionOK, BackTurnOK, Descending
  <2>4. QED
    BY <2>2, <2>3 DEF SimOK
<1> QED
  BY <1>1, <1>3, <1>4, <1>5 DEF UctInv

LEMMA UctInvNext == ASSUME UctInv, UctNext PROVE UctInv'
<1>1. Inv'
  BY TableStep, InvNext DEF UctInv
<1>2. UctKept
  <2>1. ASSUME NEW t \in Thread, Acquire(t) PROVE UctKept
    BY <2>1, KeptBeginLookup, KeptOutOfMemory, KeptEndLookup, KeptLockNext, KeptBackup
       DEF Acquire
  <2>2. ASSUME NEW t \in Thread, Continue(t) PROVE UctKept
    BY <2>2, KeptStartSim, KeptLeaveLoop, KeptDepthReached, KeptCreateState, KeptArrive,
       KeptEndBySuperko, KeptExpansion, KeptSelect, KeptReadNext, KeptFinishSim
       DEF Continue
  <2>3. ASSUME MainStep PROVE UctKept
    BY <2>3, KeptExpandRoot, KeptEndSearch DEF MainStep
  <2>4. ASSUME Command PROVE UctKept
    BY <1>1, <2>4, KeptResume, KeptCleaning, KeptChangePosition, KeptEvaluate DEF Command
  <2>5. QED
    BY <2>1, <2>2, <2>3, <2>4, KeptTick DEF UctNext
<1> QED
  BY <1>1, <1>2 DEF UctKept, UctInv

LEMMA UctInvStutter == ASSUME UctInv, UNCHANGED uctVars PROVE UctInv'
<1>1. /\ UNCHANGED vars
      /\ UNCHANGED <<at, pos, is_black, curr_stats, path, outcome, level, left, expansion_delay,
                     mc_n, lgrf1_reply, phase, root>>
  BY DEF uctVars, simVars, playVars, mainVars
<1>2. /\ TreeGrows /\ Delays' /\ NextIsSuccessor' /\ RepliesAreOfNext' /\ Inv'
      /\ \A t \in Thread : SameLookup(t) /\ SameSim(t)
  BY <1>1, QuietVars DEF SameSim
<1>3. UctTypes'
  BY <1>1 DEF UctInv, UctTypes
<1> QED
  BY <1>1, <1>2, <1>3, OthersKept DEF UctInv

-----------------------------------------------------------------------------
(***************************************************************************)
(* Theorems.                                                               *)
(***************************************************************************)
THEOREM UctInvariance == UctSpec => []UctInv
<1>1. UctInv /\ [UctNext]_uctVars => UctInv'
  BY UctInvNext, UctInvStutter
<1> QED
  BY <1>1, UctInvInit, PTL DEF UctSpec

\* The search is a client that keeps the contract of the table: each of its steps is one
\* of the table's, or none.
THEOREM SearchImplementsTable == UctSpec => ImplementsTable
<1>1. UctInit => Init
  BY DEF UctInit
<1>2. UctInv /\ [UctNext]_uctVars => [Next]_vars
  <2>1. ASSUME UctInv, UNCHANGED uctVars PROVE UNCHANGED vars
    BY <2>1 DEF uctVars
  <2>2. QED
    BY <2>1, TableStep
<1> QED
  BY <1>1, <1>2, UctInvariance, PTL DEF UctSpec, Spec, ImplementsTable

\* So what is proved of the table holds of it in the search, cleaning included.
THEOREM TableInSearch ==
  UctSpec => /\ [](TypeOK /\ UniqueStates /\ PoolAccounting /\ NoDanglingStats)
             /\ [](MarksCurrent /\ LockDiscipline /\ LookupOvershoot)
             /\ CleansUnreachable
BY SearchImplementsTable, TypeCorrect, StatesAreUnique, PoolIsAccounted, StatsDoNotDangle,
   MarksAreCurrent, LocksAreDisciplined, OvershootIsBounded, CleaningIsExact, PTL
   DEF ImplementsTable

\* No simulation is longer than the arrays of its plays and states.
THEOREM UctTypeCorrect == UctSpec => []UctTypeOK
<1>1. UctInv => UctTypeOK
  BY DEF UctInv, UctTypes, SimOK, LengthOK, UctTypeOK, AtType, PhaseType
<1> QED
  BY <1>1, UctInvariance, PTL

\* The links of the tree lead where its plays do, the turns that a simulation counts, down
\* the tree and back, are those of its positions, and no superko is played, whatever the
\* interleaving of the threads.
THEOREM TreeIsOfTheGame == UctSpec => []TreeOfTheGame
<1>1. UctInv => TreeOfTheGame
  <2> SUFFICES ASSUME UctInv PROVE TreeOfTheGame
    OBVIOUS
  <2>1. TurnParity
    BY DEF UctInv, SimOK, PositionOK, BackTurnOK, TurnParity, Descending
  <2>2. NoSuperkoInPath
    BY DEF UctInv, SimOK, SuperkoOK, NoSuperkoInPath
  <2>3. QED
    BY <2>1, <2>2 DEF UctInv, TreeOfTheGame
<1> QED
  BY <1>1, UctInvariance, PTL

\* A last good reply is always a play of the state its play leads to.
THEOREM RepliesAreReplies == UctSpec => []RepliesAreOfNext
<1>1. UctInv => RepliesAreOfNext
  BY DEF UctInv
<1> QED
  BY <1>1, UctInvariance, PTL
\* No step takes a visit from a play of an expanded state.
VisitsKept ==
  \A n \in Tabled \cap expanded : n \in Tabled' => \A p \in Play : mc_n'[n][p] >= mc_n[n][p]

\* Statistics are set to the priors in a state that is not expanded.
LEMMA InitPlaysKeepsVisits ==
  ASSUME UctInv, NEW m \in Node, m \notin expanded, InitPlays(m)
  PROVE  VisitsKept
<1>1. \A n \in Node \ {m} : mc_n'[n] = mc_n[n]
  BY DEF InitPlays, UctInv, UctTypes
<1>2. \A n \in Tabled \cap expanded : n \in Node \ {m} /\ \A p \in Play : mc_n[n][p] \in Nat
  BY TabledNodes DEF UctInv, UctTypes
<1>3. \A n \in Tabled \cap expanded : \A p \in Play : mc_n'[n][p] = mc_n[n][p]
  BY <1>1, <1>2
<1> QED
  BY <1>2, <1>3 DEF VisitsKept

LEMMA SameVisits == ASSUME UctInv, UNCHANGED mc_n PROVE VisitsKept
<1>1. \A n \in Tabled \cap expanded : \A p \in Play : mc_n[n][p] \in Nat
  BY TabledNodes DEF UctInv, UctTypes
<1> QED
  BY <1>1 DEF VisitsKept

LEMMA ExpansionKeepsVisits == ASSUME UctInv, NEW t \in Thread, Expansion(t) PROVE VisitsKept
<1>1. CASE UNCHANGED mc_n
  BY <1>1, SameVisits
<1>2. CASE expansion_delay[curr_stats[t]] = 0 /\ InitPlays(curr_stats[t])
  <2>1. curr_stats[t] \in Tabled /\ curr_stats[t] \in Node
    BY TabledNodes DEF Expansion, UctInv, SimOK, PositionOK
  <2>2. curr_stats[t] \notin expanded
    BY <1>2 DEF UctInv, Delays
  <2> QED
    BY <1>2, <2>1, <2>2, InitPlaysKeepsVisits
<1> QED
  BY <1>1, <1>2 DEF Expansion

LEMMA ExpandRootKeepsVisits == ASSUME UctInv, ExpandRoot PROVE VisitsKept
<1>1. CASE UNCHANGED playVars
  BY <1>1, SameVisits DEF playVars
<1>2. CASE Unexpanded(ret[Master]) /\ InitPlays(ret[Master])
  <2>1. ret[Master] \in Node
    BY AnswersAreTabled, TabledNodes, UctAssumption DEF ExpandRoot, UctInv
  <2>2. ret[Master] \notin expanded
    BY <1>2 DEF UctInv, Delays, Unexpanded
  <2> QED
    BY <1>2, <2>1, <2>2, InitPlaysKeepsVisits
<1> QED
  BY <1>1, <1>2 DEF ExpandRoot

\* A virtual loss adds a visit, or none.
LEMMA SelectKeepsVisits == ASSUME UctInv, NEW t \in Thread, Select(t) PROVE VisitsKept
<1>1. PICK d : VirtualLoss(d[1], d[2])
  BY DEF Select
<1>2. CASE UNCHANGED mc_n
  BY <1>2, SameVisits
<1>3. CASE mc_n' = [mc_n EXCEPT ![d[1]][d[2]] = @ + 1]
  <2>1. \A n \in Node : \A p \in Play :
          mc_n[n][p] \in Nat /\ mc_n'[n][p] \in {mc_n[n][p], mc_n[n][p] + 1}
    BY <1>3 DEF UctInv, UctTypes
  <2>2. \A n \in Node : \A p \in Play : mc_n'[n][p] >= mc_n[n][p]
    BY <2>1
  <2> QED
    BY <2>2, TabledNodes DEF VisitsKept, UctInv
<1> QED
  BY <1>1, <1>2, <1>3 DEF VirtualLoss

\* While an expanded state stays in its table nothing sets its statistics back to the
\* priors: a state is expanded once, whoever waits to expand it, the search included that
\* expands its root.
THEOREM StatsAreKept == UctSpec => StatsKept
<1>1. UctInv /\ [UctNext]_uctVars => VisitsKept
  <2> SUFFICES ASSUME UctInv, [UctNext]_uctVars PROVE VisitsKept
    OBVIOUS
  <2>1. CASE UNCHANGED mc_n
    BY <2>1, SameVisits
  <2>2. CASE \E t \in Thread : Expansion(t)
    BY <2>2, ExpansionKeepsVisits
  <2>3. CASE \E t \in Thread : Select(t)
    BY <2>3, SelectKeepsVisits
  <2>4. CASE ExpandRoot
    BY <2>4, ExpandRootKeepsVisits
  <2>5. ASSUME NEW t \in Thread, Acquire(t) PROVE UNCHANGED mc_n
    BY <2>5 DEF Acquire, BeginLookup, OutOfMemory, EndLookup, LockNext, Backup, playVars
  <2>6. ASSUME NEW t \in Thread, Continue(t), ~Expansion(t), ~Select(t) PROVE UNCHANGED mc_n
    BY <2>6 DEF Continue, StartSim, LeaveLoop, DepthReached, CreateState, Arrive,
                EndBySuperko, ReadNext, FinishSim, playVars
  <2>7. CASE EndSearch \/ Command \/ Tick
    BY <2>7, <2>1 DEF EndSearch, Command, Tick, Resume, TurnMaintenance, ChangePosition,
                      NewMatch, Evaluate, playVars
  <2>8. CASE UNCHANGED uctVars
    BY <2>8, <2>1 DEF uctVars, playVars
  <2> QED
    BY <2>1, <2>2, <2>3, <2>4, <2>5, <2>6, <2>7, <2>8 DEF UctNext, MainStep
<1>2. VisitsKept => (\A n \in Tabled \cap expanded : n \in Tabled' =>
                       \A p \in Play : mc_n'[n][p] >= mc_n[n][p])
  BY DEF VisitsKept
<1> QED
  BY <1>1, <1>2, UctInvariance, PTL DEF UctSpec, StatsKept

-----------------------------------------------------------------------------
(***************************************************************************)
(* Fractions.                                                              *)
(***************************************************************************)
\* A product is divided by its factor.
LEMMA Divides == ASSUME NEW a \in Nat, NEW b \in Nat \ {0} PROVE (a * b) % b = 0
<1> DEFINE x == a * b
<1>1. x \in Nat /\ x = b * (x \div b) + (x % b) /\ x % b \in 0..(b - 1) /\ x \div b \in Int
  OBVIOUS
<1>2. b * (a - x \div b) = x % b
  BY <1>1
<1>3. CASE a - x \div b = 0
  BY <1>2, <1>3
<1>4. CASE a - x \div b >= 1
  <2>1. b * (a - x \div b) >= b
    BY <1>1, <1>4
  <2> QED
    BY <1>1, <1>2, <2>1
<1>5. CASE a - x \div b <= -1
  <2>1. b * (a - x \div b) <= -b
    BY <1>1, <1>5
  <2> QED
    BY <1>1, <1>2, <2>1
<1> QED
  BY <1>1, <1>3, <1>4, <1>5

LEMMA Divided ==
  ASSUME NEW a \in Nat, NEW d \in Nat, NEW b \in Nat \ {0}, (a * d) % b = 0
  PROVE  ((a * d) \div b) * b = a * d /\ (a * d) \div b \in Nat
<1> DEFINE x == a * d
<1>1. x \in Nat
  OBVIOUS
<1> HIDE DEF x
<1>2. x = b * (x \div b) + (x % b) /\ x \div b \in Int
  BY <1>1
<1>3. x \div b >= 0
  BY <1>1
<1> QED
  BY <1>1, <1>2, <1>3 DEF x

\* A fraction in lowest terms is the number it is made from.
LEMMA FractionIs ==
  ASSUME NEW num \in Nat, NEW den \in Nat \ {0}
  PROVE  /\ Fraction(num, den).won \in Nat /\ Fraction(num, den).of \in Nat \ {0}
         /\ Fraction(num, den).won * den = num * Fraction(num, den).of
<1> DEFINE P(d) == /\ (num * d) % den = 0
                   /\ \A e \in 1..(d - 1) : (num * e) % den # 0
           T == {d \in 1..den : (num * d) % den = 0}
           d == CHOOSE d \in 1..den : P(d)
<1>1. (num * den) % den = 0
  BY Divides
<1>2. den \in T /\ T \in SUBSET Nat
  BY <1>1
<1>3. PICK m \in T : \A k \in T : m <= k
  BY <1>2, LeastNumber
<1>4. m \in 1..den /\ P(m)
  <2>1. ASSUME NEW e \in 1..(m - 1), (num * e) % den = 0 PROVE FALSE
    <3>1. e \in T
      BY <1>3, <2>1
    <3> QED
      BY <1>3, <3>1
  <2> QED
    BY <1>3, <2>1
<1>5. d \in 1..den /\ P(d)
  BY <1>4
<1> HIDE DEF d
<1>6. ((num * d) \div den) * den = num * d /\ (num * d) \div den \in Nat
  BY <1>5, Divided
<1>7. Fraction(num, den) = [won |-> (num * d) \div den, of |-> d]
  BY DEF Fraction, d
<1> QED
  BY <1>5, <1>6, <1>7
-----------------------------------------------------------------------------
(***************************************************************************)
(* The plays of the simulations going on.                                  *)
(***************************************************************************)
\* Where the simulations going on have play d: the thread and the index in its path, or
\* 0 for the pass that ended it.
Ongoing(d) ==
  {x \in Thread \X (0..MaxDepth) :
     IF x[2] = 0 THEN last_pass[x[1]] = d
     ELSE x[2] <= Len(path[x[1]]) /\ path[x[1]][x[2]] = d}

\* Whether a simulation with this outcome is won by the player of d.
WonPlay(d, o) == o # 0 /\ WonBy(zobrist_hash[d[1]] \in BlackKey, o)

\* Which of them have been turned into a win: those updated, in a simulation that is won.
Credited(d) ==
  {x \in Ongoing(d) : at[x[1]] = "backup" /\ x[2] > level[x[1]] /\ WonPlay(d, outcome[x[1]])}

\* The wins of a play: its prior, those of the simulations that are over, but for the
\* passes that ended them, and those credited so far.
WinsOf(d) ==
  PriorWins + simulated[d[1]][d[2]].w - simulated[d[1]][d[2]].ended + Cardinality(Credited(d))

\* The statistics of play d are those of the simulations through it.
StatsOf(d) ==
  LET n == mc_n[d[1]][d[2]]
      q == mc_q[d[1]][d[2]]
      s == simulated[d[1]][d[2]]
  IN /\ n = PriorVisits + s.v + Cardinality(Ongoing(d))
     /\ q.won * n = q.of * WinsOf(d)
     /\ s.ended <= s.w /\ s.w - s.ended <= s.v

StatsTypes ==
  /\ mc_q \in [Node -> [Play -> [won : Nat, of : Nat \ {0}]]]
  /\ simulated \in [Node -> [Play -> [v : Nat, w : Nat, ended : Nat]]]
  /\ last_pass \in [Thread -> (Node \X Play) \cup {NoPlay}]

QualitiesInRange == \A n \in Node : \A p \in Play : mc_q[n][p].won <= mc_q[n][p].of

\* The pass that ended a simulation is of an expanded state, until it is recorded.
PassOK(t) ==
  last_pass[t] # NoPlay => at[t] = "backup" /\ last_pass[t][1] \in Tabled \cap expanded

StatsInv ==
  /\ StatsTypes
  /\ QualitiesInRange
  /\ \A t \in Thread : PassOK(t)
  /\ \A n \in Tabled \cap expanded : \A p \in Play : StatsOf(<<n, p>>)

\* There are finitely many.
LEMMA OngoingFinite ==
  ASSUME NEW d
  PROVE  /\ IsFiniteSet(Ongoing(d)) /\ IsFiniteSet(Credited(d))
         /\ Cardinality(Ongoing(d)) \in Nat /\ Cardinality(Credited(d)) \in Nat
         /\ Cardinality(Credited(d)) <= Cardinality(Ongoing(d))
<1>1. IsFiniteSet(Thread \X (0..MaxDepth))
  <2>1. IsFiniteSet(0..MaxDepth)
    BY UctAssumption, FS_Interval
  <2> QED
    BY <2>1, ThreadAssumption, FS_Product
<1>2. Ongoing(d) \in SUBSET (Thread \X (0..MaxDepth)) /\ Credited(d) \in SUBSET Ongoing(d)
  BY DEF Ongoing, Credited
<1>3. IsFiniteSet(Ongoing(d)) /\ IsFiniteSet(Credited(d))
  BY <1>1, <1>2, FS_Subset
<1> QED
  BY <1>2, <1>3, FS_Subset, FS_CardinalityType

\* Without simulations there are none.
LEMMA NoneOngoing ==
  ASSUME NEW d \in Node \X Play, \A t \in Thread : path[t] = <<>> /\ last_pass[t] = NoPlay
  PROVE  Ongoing(d) = {} /\ Credited(d) = {}
<1>1. d # NoPlay /\ Len(<<>>) = 0
  BY DEF NoPlay
<1> QED
  BY <1>1 DEF Ongoing, Credited

\* A play of a state that is not expanded is of no simulation.
LEMMA UnexpandedNotOngoing ==
  ASSUME UctInv, \A t \in Thread : PassOK(t), NEW d \in Node \X Play, d[1] \notin Tabled \cap expanded
  PROVE  Ongoing(d) = {} /\ Credited(d) = {}
<1>1. ASSUME NEW x \in Ongoing(d) PROVE FALSE
  <2>1. x[1] \in Thread /\ x[2] \in 0..MaxDepth
    BY DEF Ongoing
  <2>2. CASE x[2] = 0
    <3>1. last_pass[x[1]] = d /\ d # NoPlay
      BY <2>2 DEF Ongoing, NoPlay
    <3> QED
      BY <2>1, <3>1 DEF PassOK
  <2>3. CASE x[2] # 0
    <3>1. x[2] \in 1..Len(path[x[1]]) /\ path[x[1]][x[2]] = d
      BY <2>1, <2>3 DEF Ongoing, UctInv, UctTypes
    <3> QED
      BY <2>1, <3>1 DEF UctInv, SimOK, PathOK, TreePlay
  <2> QED
    BY <2>2, <2>3
<1> QED
  BY <1>1 DEF Credited

-----------------------------------------------------------------------------
(***************************************************************************)
(* Steps that touch no statistics.                                         *)
(***************************************************************************)
\* What thread t has of plays is as it was; a simulation that leaves its loop has credited
\* none yet.
SameBack(t) ==
  /\ path'[t] = path[t] /\ last_pass'[t] = last_pass[t]
  /\ at[t] = "backup" => at'[t] = "backup" /\ level'[t] = level[t] /\ outcome'[t] = outcome[t]
  /\ at[t] # "backup" /\ at'[t] = "backup" => level'[t] = Len(path[t])

SameStats(d) ==
  /\ zobrist_hash'[d[1]] = zobrist_hash[d[1]]
  /\ mc_n'[d[1]][d[2]] = mc_n[d[1]][d[2]] /\ mc_q'[d[1]][d[2]] = mc_q[d[1]][d[2]]
  /\ simulated'[d[1]][d[2]] = simulated[d[1]][d[2]]

\* No state is expanded; those that are stay so, but when they are cleaned.
KeepsExpanded ==
  /\ Tabled' \cap expanded' \subseteq Tabled \cap expanded
  /\ \A n \in Tabled' \cap expanded' : zobrist_hash'[n] = zobrist_hash[n]
  /\ \/ Tabled \cap expanded \subseteq Tabled' \cap expanded'
     \/ \A t \in Thread : at[t] # "backup"

LEMMA SameOngoing ==
  ASSUME UctInv, \A t \in Thread : SameBack(t), NEW d
  PROVE  /\ Ongoing(d)' = Ongoing(d)
         /\ zobrist_hash'[d[1]] = zobrist_hash[d[1]] => Credited(d)' = Credited(d)
<1>1. Ongoing(d)' = Ongoing(d)
  BY DEF Ongoing, SameBack
<1>2. ASSUME zobrist_hash'[d[1]] = zobrist_hash[d[1]], NEW x \in Ongoing(d)
      PROVE  (x \in Credited(d)') = (x \in Credited(d))
  <2>1. x[1] \in Thread /\ SameBack(x[1]) /\ x[2] \in 0..MaxDepth /\ Len(path[x[1]]) \in Nat
    BY DEF Ongoing, UctInv, UctTypes
  <2>2. CASE at[x[1]] = "backup"
    BY <1>1, <1>2, <2>1, <2>2 DEF Credited, SameBack, WonPlay
  <2>3. CASE at[x[1]] # "backup"
    <3>1. x[2] = 0 \/ x[2] <= Len(path[x[1]])
      BY DEF Ongoing
    <3>2. at'[x[1]] = "backup" => ~(x[2] > level'[x[1]])
      BY <2>1, <2>3, <3>1 DEF SameBack
    <3> QED
      BY <2>3, <3>2 DEF Credited
  <2> QED
    BY <2>2, <2>3
<1>3. Credited(d)' \subseteq Ongoing(d) /\ Credited(d) \subseteq Ongoing(d)
  BY <1>1 DEF Credited
<1> QED
  BY <1>1, <1>2, <1>3

LEMMA StatsSame ==
  ASSUME NEW d, StatsOf(d), SameStats(d),
         Cardinality(Ongoing(d)') = Cardinality(Ongoing(d)),
         Cardinality(Credited(d)') = Cardinality(Credited(d))
  PROVE  StatsOf(d)'
BY DEF StatsOf, SameStats, WinsOf

LEMMA QuietStats ==
  ASSUME UctInv, StatsInv, \A t \in Thread : SameBack(t), KeepsExpanded,
         UNCHANGED <<mc_n, mc_q, simulated, last_pass>>
  PROVE  StatsInv'
<1>1. StatsTypes' /\ QualitiesInRange'
  BY DEF StatsInv, StatsTypes, QualitiesInRange
<1>2. ASSUME NEW t \in Thread PROVE PassOK(t)'
  BY DEF StatsInv, PassOK, SameBack, KeepsExpanded
<1>3. ASSUME NEW n \in Tabled' \cap expanded', NEW p \in Play PROVE StatsOf(<<n, p>>)'
  <2>1. n \in Tabled \cap expanded /\ zobrist_hash'[n] = zobrist_hash[n]
    BY DEF KeepsExpanded
  <2>2. StatsOf(<<n, p>>) /\ SameStats(<<n, p>>)
    BY <2>1 DEF StatsInv, SameStats
  <2>3. Ongoing(<<n, p>>)' = Ongoing(<<n, p>>) /\ Credited(<<n, p>>)' = Credited(<<n, p>>)
    BY <2>1, SameOngoing
  <2> QED
    BY <2>2, <2>3, StatsSame
<1> QED
  BY <1>1, <1>2, <1>3 DEF StatsInv

LEMMA TreeSameKeepsExpanded == ASSUME TreeSame PROVE KeepsExpanded
BY DEF TreeSame, TreeGrows, KeepsExpanded

LEMMA QuietKeepsExpanded == ASSUME UNCHANGED vars PROVE KeepsExpanded
BY DEF vars, stateVars, KeepsExpanded, Tabled

\* A thread that does not update.
LEMMA OtherwiseBack ==
  ASSUME UctInv, NEW t \in Thread, at[t] # "backup", NEW s, s # "backup",
         at' = [at EXCEPT ![t] = s], UNCHANGED <<path, last_pass, level, outcome>>
  PROVE  \A u \in Thread : SameBack(u)
BY DEF SameBack, UctInv, UctTypes

LEMMA LeaveBack ==
  ASSUME UctInv, NEW t \in Thread, at[t] # "backup", NEW o, Leave(t, o),
         UNCHANGED <<path, last_pass>>
  PROVE  \A u \in Thread : SameBack(u)
BY DEF SameBack, Leave, UctInv, UctTypes

LEMMA StillBack ==
  ASSUME UNCHANGED <<at, path, last_pass, level, outcome>>
  PROVE  \A u \in Thread : SameBack(u)
BY DEF SameBack

\* The steps of a simulation that leave the table as it is.
LEMMA StatsOfQuietSteps ==
  ASSUME UctInv, StatsInv, NEW t \in Thread,
         StartSim(t) \/ LeaveLoop(t) \/ DepthReached(t) \/ OutOfMemory(t) \/ ReadNext(t)
  PROVE  StatsInv'
<1>1. UNCHANGED <<mc_n, mc_q, simulated, last_pass>> /\ UNCHANGED vars
  BY DEF StartSim, LeaveLoop, DepthReached, OutOfMemory, ReadNext, LookupNULL, playVars
<1>2. \A u \in Thread : SameBack(u)
  <2>1. CASE StartSim(t)
    BY <2>1, OtherwiseBack DEF StartSim
  <2>2. CASE LeaveLoop(t)
    BY <2>2, OtherwiseBack DEF LeaveLoop
  <2>3. CASE ReadNext(t)
    BY <2>3, OtherwiseBack DEF ReadNext
  <2>4. CASE DepthReached(t)
    <3>1. at[t] = "enter" /\ UNCHANGED <<path, last_pass>> /\ \E o : Leave(t, o)
      BY <2>4 DEF DepthReached
    <3> QED
      BY <3>1, LeaveBack
  <2>5. CASE OutOfMemory(t)
    <3>1. at[t] = "enter" /\ UNCHANGED <<path, last_pass>> /\ \E o : Leave(t, o)
      BY <2>5 DEF OutOfMemory
    <3> QED
      BY <3>1, LeaveBack
  <2> QED
    BY <2>1, <2>2, <2>3, <2>4, <2>5
<1> QED
  BY <1>1, <1>2, QuietKeepsExpanded, QuietStats

\* The steps of a lookup, of a link and of a simulation that meets a superko.
LEMMA StatsOfTableSteps ==
  ASSUME UctInv, StatsInv, NEW t \in Thread,
         \/ BeginLookup(t) \/ CreateState(t) \/ EndLookup(t) \/ Arrive(t) \/ LockNext(t)
         \/ EndBySuperko(t)
  PROVE  StatsInv'
<1>1. UNCHANGED <<mc_n, mc_q, simulated, last_pass>>
  BY DEF BeginLookup, CreateState, EndLookup, Arrive, LockNext, EndBySuperko, playVars, simVars
<1>2. \A u \in Thread : SameBack(u)
  <2>1. CASE BeginLookup(t)
    BY <2>1, OtherwiseBack DEF BeginLookup
  <2>2. CASE CreateState(t) \/ EndLookup(t)
    BY <2>2, StillBack DEF CreateState, EndLookup, simVars
  <2>3. CASE Arrive(t)
    BY <2>3, OtherwiseBack DEF Arrive
  <2>4. CASE LockNext(t)
    BY <2>4, OtherwiseBack DEF LockNext
  <2>5. CASE EndBySuperko(t)
    <3>1. at[t] = "visit" /\ UNCHANGED <<path, last_pass>> /\ \E o : Leave(t, o)
      BY <2>5 DEF EndBySuperko
    <3> QED
      BY <3>1, LeaveBack
  <2> QED
    BY <2>1, <2>2, <2>3, <2>4, <2>5
<1>3. KeepsExpanded
  <2>1. CASE UNCHANGED <<table, stateVars>>
    BY <2>1, QuietTree, TreeSameKeepsExpanded
  <2>2. ASSUME BeginLookup(t) \/ LockNext(t) \/ EndBySuperko(t) \/ LockFound(t)
        PROVE  UNCHANGED stateVars /\ Tabled' = Tabled
    BY <2>2 DEF BeginLookup, LockNext, EndBySuperko, LockFound, LookupHit, LookupMiss, FindFrom,
                SetLock, UnsetLock, Release, Tabled
  <2>3. CASE BeginLookup(t) \/ LockNext(t) \/ EndBySuperko(t) \/ LockFound(t)
    BY <2>2, <2>3 DEF KeepsExpanded, stateVars
  <2>4. CASE create_state(t)
    BY <2>4, CreateTree, TreeSameKeepsExpanded DEF UctInv
  <2>5. CASE Insert(t)
    BY <2>5, InsertTree, TreeSameKeepsExpanded DEF UctInv
  <2>6. CASE Arrive(t)
    <3>1. CASE path[t] = <<>>
      BY <2>6, <3>1, QuietKeepsExpanded DEF Arrive, LinkNext
    <3>2. CASE path[t] # <<>>
      BY <2>6, <3>2 DEF Arrive, LinkNext, SetNext, KeepsExpanded, Tabled
    <3> QED
      BY <3>1, <3>2
  <2> QED
    BY <2>3, <2>4, <2>5, <2>6 DEF CreateState, EndLookup
<1> QED
  BY <1>1, <1>2, <1>3, QuietStats

\* The steps of the main thread, but the expansion of a root.
LEMMA StatsOfMainSteps ==
  ASSUME UctInv, StatsInv, Resume \/ EndSearch \/ Tick \/ ChangePosition \/ Evaluate
  PROVE  StatsInv'
<1>1. UNCHANGED <<mc_n, mc_q, simulated, last_pass>>
  BY DEF Resume, EndSearch, Tick, ChangePosition, Evaluate, OpenLoop, playVars, simVars
<1>2. \A u \in Thread : SameBack(u)
  <2>1. CASE Resume
    BY <2>1, AtRest DEF Resume, OpenLoop, SameBack
  <2>2. CASE ~Resume
    BY <2>2, StillBack DEF EndSearch, Tick, ChangePosition, Evaluate, simVars
  <2> QED
    BY <2>1, <2>2
<1>3. KeepsExpanded
  <2>1. CASE Evaluate
    BY <2>1, QuietTree, TreeSameKeepsExpanded DEF Evaluate, LookupHit, LookupMiss, FindFrom
  <2>2. CASE ~Evaluate
    BY <2>2, QuietKeepsExpanded DEF Resume, EndSearch, Tick, ChangePosition
  <2> QED
    BY <2>1, <2>2
<1> QED
  BY <1>1, <1>2, <1>3, QuietStats

\* States are cleaned when no simulation goes on.
LEMMA StatsOfCleaning ==
  ASSUME UctInv, StatsInv, TurnMaintenance \/ NewMatch
  PROVE  StatsInv'
<1>1. UNCHANGED <<mc_n, mc_q, simulated, last_pass>> /\ \A u \in Thread : SameBack(u)
  BY StillBack DEF TurnMaintenance, NewMatch, playVars, simVars
<1>2. \A t \in Thread : at[t] # "backup"
  BY AtRest DEF TurnMaintenance, NewMatch, BetweenSearches
<1>3. UNCHANGED <<zobrist_hash, expanded>> /\ Tabled' \subseteq Tabled
  <2>1. ASSUME tt_clean_all PROVE UNCHANGED <<zobrist_hash, expanded>> /\ Tabled' \subseteq Tabled
    BY <2>1 DEF tt_clean_all, ReleaseStates, stateVars, lookupVars, Tabled, Colour
  <2>2. ASSUME tt_clean_unreachable(root)
        PROVE  UNCHANGED <<zobrist_hash, expanded>> /\ Tabled' \subseteq Tabled
    BY <2>1, <2>2, ZenonT(30) DEF tt_clean_unreachable, ReleaseStates, lookupVars, Tabled, Colour
  <2>3. ASSUME UNCHANGED vars PROVE UNCHANGED <<zobrist_hash, expanded>> /\ Tabled' \subseteq Tabled
    BY <2>3 DEF vars, stateVars, lookupVars, Tabled
  <2> QED
    BY <2>1, <2>2, <2>3 DEF TurnMaintenance, NewMatch
<1> QED
  BY <1>1, <1>2, <1>3, QuietStats DEF KeepsExpanded

-----------------------------------------------------------------------------
(***************************************************************************)
(* Steps that change statistics.                                           *)
(***************************************************************************)
\* Less wins than visits make a quality that is one.
LEMMA InRange ==
  ASSUME NEW won \in Nat, NEW of \in Nat \ {0}, NEW n \in Nat \ {0}, NEW k \in Nat,
         k <= n, won * n = of * k
  PROVE  won <= of
<1>1. SUFFICES ASSUME won >= of + 1 PROVE FALSE
  OBVIOUS
<1>2. won * n >= (of + 1) * n
  BY <1>1
<1>3. of * k <= of * n
  OBVIOUS
<1>4. (of + 1) * n = of * n + n
  OBVIOUS
<1>5. of * n \in Nat /\ of * k \in Nat /\ won * n \in Nat
  OBVIOUS
<1> QED
  BY <1>2, <1>3, <1>4, <1>5

\* There are no more wins than visits.
LEMMA WinsBounded ==
  ASSUME StatsTypes, NEW d \in Node \X Play, StatsOf(d)
  PROVE  /\ WinsOf(d) \in Nat /\ mc_n[d[1]][d[2]] \in Nat \ {0}
         /\ WinsOf(d) <= mc_n[d[1]][d[2]]
<1> DEFINE s == simulated[d[1]][d[2]]
<1>1. s.v \in Nat /\ s.w \in Nat /\ s.ended \in Nat
  BY DEF StatsTypes
<1>2. s.ended <= s.w /\ s.w - s.ended <= s.v
  BY DEF StatsOf
<1>3. PriorWins \in Nat /\ PriorVisits \in Nat \ {0} /\ PriorWins <= PriorVisits
  BY UctAssumption
<1>4. WinsOf(d) = PriorWins + s.w - s.ended + Cardinality(Credited(d))
  BY DEF WinsOf
<1>5. mc_n[d[1]][d[2]] = PriorVisits + s.v + Cardinality(Ongoing(d))
  BY DEF StatsOf
<1> HIDE DEF s
<1> QED
  BY <1>1, <1>2, <1>3, <1>4, <1>5, OngoingFinite

\* A state is expanded: its statistics are the priors, and no simulation is through it.
LEMMA StatsOfExpanded ==
  ASSUME UctInv, StatsInv, NEW t \in Thread, ExpandAndUnset(t), InitPlays(ret[t]),
         ret[t] \notin expanded, \A u \in Thread : SameBack(u), last_pass' = last_pass
  PROVE  StatsInv'
<1>1. PICK m \in Node : m = ret[t] /\ m \in Tabled /\ m \notin expanded
  <2>1. pc[t] = "held"
    BY DEF ExpandAndUnset, Release
  <2> QED
    BY <2>1, AnswersAreTabled, TabledNodes DEF UctInv
<1>2. TreeGrows /\ Tabled' = Tabled /\ expanded' = expanded \cup {m}
  BY <1>1, ExpandTree DEF UctInv
<1>3. /\ mc_n' = [mc_n EXCEPT ![m] = [p \in Play |-> PriorVisits]]
      /\ mc_q' = [mc_q EXCEPT ![m] = [p \in Play |-> Fraction(PriorWins, PriorVisits)]]
      /\ simulated' = [simulated EXCEPT ![m] = [p \in Play |-> NoSim]]
  BY <1>1 DEF InitPlays
<1> DEFINE f == Fraction(PriorWins, PriorVisits)
<1>4. /\ PriorWins \in Nat /\ PriorVisits \in Nat \ {0} /\ PriorWins <= PriorVisits
      /\ f.won \in Nat /\ f.of \in Nat \ {0} /\ f.won * PriorVisits = PriorWins * f.of
  BY UctAssumption, FractionIs
<1>5. f = [won |-> f.won, of |-> f.of]
  BY DEF Fraction
<1> HIDE DEF f
<1>6. f.won <= f.of
  <2>1. f.won * PriorVisits = f.of * PriorWins
    BY <1>4
  <2> QED
    BY <1>4, <2>1, InRange
<1>7. StatsTypes' /\ QualitiesInRange'
  <2>1. StatsTypes /\ QualitiesInRange
    BY DEF StatsInv
  <2>2. f \in [won : Nat, of : Nat \ {0}] /\ NoSim \in [v : Nat, w : Nat, ended : Nat]
    BY <1>4, <1>5 DEF NoSim
  <2>3. mc_q' = [mc_q EXCEPT ![m] = [p \in Play |-> f]]
    BY <1>3 DEF f
  <2>4. StatsTypes'
    BY <1>3, <2>1, <2>2, <2>3 DEF StatsTypes
  <2>5. QualitiesInRange'
    BY <1>6, <2>1, <2>3 DEF StatsTypes, QualitiesInRange
  <2> QED
    BY <2>4, <2>5
<1>8. ASSUME NEW u \in Thread PROVE PassOK(u)'
  BY <1>2 DEF StatsInv, PassOK, SameBack, TreeGrows
<1>9. ASSUME NEW n \in Tabled' \cap expanded', NEW p \in Play PROVE StatsOf(<<n, p>>)'
  <2>1. n \in Node /\ n \in Tabled /\ zobrist_hash'[n] = zobrist_hash[n]
    BY <1>2, TabledNodes DEF UctInv, TreeGrows
  <2>2. Ongoing(<<n, p>>)' = Ongoing(<<n, p>>) /\ Credited(<<n, p>>)' = Credited(<<n, p>>)
    BY <2>1, SameOngoing
  <2>3. CASE n # m
    <3>1. n \in Tabled \cap expanded
      BY <1>2, <2>1, <2>3
    <3>2. StatsOf(<<n, p>>) /\ SameStats(<<n, p>>)
      BY <1>3, <2>1, <2>3, <3>1 DEF StatsInv, StatsTypes, UctInv, UctTypes, SameStats
    <3> QED
      BY <2>2, <3>2, StatsSame
  <2>4. CASE n = m
    <3>1. Ongoing(<<n, p>>) = {} /\ Credited(<<n, p>>) = {}
      BY <1>1, <2>4, UnexpandedNotOngoing DEF StatsInv
    <3>2. Cardinality(Ongoing(<<n, p>>)') = 0 /\ Cardinality(Credited(<<n, p>>)') = 0
      BY <2>2, <3>1, FS_EmptySet
    <3>3. mc_n'[n][p] = PriorVisits /\ mc_q'[n][p] = f /\ simulated'[n][p] = NoSim
      BY <1>1, <1>3, <2>4 DEF f, StatsInv, StatsTypes, UctInv, UctTypes
    <3>4. WinsOf(<<n, p>>)' = PriorWins
      BY <1>4, <3>2, <3>3 DEF WinsOf, NoSim
    <3> QED
      BY <1>4, <3>2, <3>3, <3>4 DEF StatsOf, NoSim
  <2> QED
    BY <2>3, <2>4
<1> QED
  BY <1>7, <1>8, <1>9 DEF StatsInv

LEMMA StatsOfExpansion ==
  ASSUME UctInv, StatsInv, NEW t \in Thread, Expansion(t)
  PROVE  StatsInv'
<1>1. at[t] = "visit" /\ UNCHANGED <<path, last_pass>> /\ \E o : Leave(t, o)
  BY DEF Expansion
<1>2. \A u \in Thread : SameBack(u)
  BY <1>1, LeaveBack
<1>3. /\ curr_stats[t] = ret[t]
      /\ expansion_delay[curr_stats[t]] >= 0
  BY <1>1 DEF Expansion, UctInv, SimOK, ThreadOK
<1>4. CASE expansion_delay[ret[t]] = 0
  <2>1. ret[t] \notin expanded
    BY <1>4 DEF UctInv, Delays
  <2> QED
    BY <1>1, <1>2, <1>3, <1>4, <2>1, StatsOfExpanded DEF Expansion
<1>5. CASE expansion_delay[ret[t]] # 0
  <2>1. UnsetLock(t) /\ UNCHANGED <<mc_n, mc_q, simulated>>
    BY <1>3, <1>5 DEF Expansion
  <2>2. KeepsExpanded
    BY <2>1 DEF UnsetLock, Release, stateVars, KeepsExpanded, Tabled
  <2> QED
    BY <1>1, <1>2, <2>1, <2>2, QuietStats
<1> QED
  BY <1>4, <1>5

LEMMA StatsOfExpandRoot ==
  ASSUME UctInv, StatsInv, ExpandRoot
  PROVE  StatsInv'
<1>1. last_pass' = last_pass /\ Master \in Thread /\ \A u \in Thread : SameBack(u)
  BY AtRest, UctAssumption DEF ExpandRoot, OpenLoop, SameBack
<1>2. CASE Unexpanded(ret[Master])
  <2>1. InitPlays(ret[Master]) /\ ExpandAndUnset(Master) /\ ret[Master] \notin expanded
    BY <1>2 DEF ExpandRoot, Unexpanded, UctInv, Delays
  <2> QED
    BY <1>1, <2>1, StatsOfExpanded
<1>3. CASE ~Unexpanded(ret[Master])
  <2>1. UnsetLock(Master) /\ UNCHANGED <<mc_n, mc_q, simulated>>
    BY <1>3 DEF ExpandRoot, playVars
  <2>2. KeepsExpanded
    BY <2>1 DEF UnsetLock, Release, stateVars, KeepsExpanded, Tabled
  <2> QED
    BY <1>1, <2>1, <2>2, QuietStats
<1> QED
  BY <1>2, <1>3

\* A quality q of n visits with one more win, and with one more visit.
WonQuality(q, n) == Fraction(q.won * n + q.of, q.of * n)

LostQuality(q, n) == Fraction(q.won * n, q.of * (n + 1))

LEMMA QualityUpdated ==
  ASSUME NEW q \in [won : Nat, of : Nat \ {0}], NEW n \in Nat \ {0}, NEW k \in Nat,
         q.won * n = q.of * k
  PROVE  /\ WonQuality(q, n) \in [won : Nat, of : Nat \ {0}]
         /\ WonQuality(q, n).won * n = WonQuality(q, n).of * (k + 1)
         /\ LostQuality(q, n) \in [won : Nat, of : Nat \ {0}]
         /\ LostQuality(q, n).won * (n + 1) = LostQuality(q, n).of * k
<1>a. PICK won \in Nat, of \in Nat \ {0} : won = q.won /\ of = q.of
  OBVIOUS
<1>b. won * n = of * k /\ won \in Int /\ of \in Int
  BY <1>a
<1>1. ASSUME NEW f, NEW a \in Nat, NEW b \in Nat \ {0}, f = Fraction(a, b)
      PROVE  /\ f \in [won : Nat, of : Nat \ {0}]
             /\ f.won * b = a * f.of
  <2>1. f.won \in Nat /\ f.of \in Nat \ {0} /\ f.won * b = a * f.of
    BY <1>1, FractionIs
  <2>2. f = [won |-> f.won, of |-> f.of]
    BY <1>1 DEF Fraction
  <2> QED
    BY <2>1, <2>2
<1>2. ASSUME NEW a \in Int, NEW b \in Int, of * a = of * b PROVE a = b
  <2>1. of * (a - b) = 0
    BY <1>2
  <2> QED
    BY <2>1
<1>3. /\ won * n + of \in Nat /\ of * n \in Nat \ {0} /\ won * n \in Nat
      /\ of * (n + 1) \in Nat \ {0}
  OBVIOUS
<1>4. ASSUME NEW f, f = Fraction(won * n + of, of * n)
      PROVE  /\ f \in [won : Nat, of : Nat \ {0}]
             /\ f.won * n = f.of * (k + 1)
  <2>1. f \in [won : Nat, of : Nat \ {0}] /\ f.won * (of * n) = (won * n + of) * f.of
    BY <1>1, <1>3, <1>4
  <2>2. f.won \in Nat /\ f.of \in Nat
    BY <2>1
  <2>3. (won * n + of) * f.of = (of * k + of) * f.of
    BY <1>b
  <2>4. (of * k + of) * f.of = of * (f.of * (k + 1))
    <3>1. of * k + of = of * (k + 1)
      BY <1>b
    <3>2. \A a, b, c \in Int : (a * b) * c = a * (c * b)
      OBVIOUS
    <3>3. k + 1 \in Int /\ f.of \in Int /\ of \in Int
      BY <1>b, <2>2
    <3>4. (of * (k + 1)) * f.of = of * (f.of * (k + 1))
      BY <3>2, <3>3, Zenon
    <3> QED
      BY <3>1, <3>4, Zenon
  <2>5. f.won * (of * n) = of * (f.won * n)
    BY <1>b, <2>2
  <2>6. f.won * n \in Int /\ f.of * (k + 1) \in Int
    BY <2>2
  <2>7. of * (f.won * n) = of * (f.of * (k + 1))
    BY <2>1, <2>3, <2>4, <2>5
  <2> QED
    BY <1>2, <2>1, <2>6, <2>7
<1>5. ASSUME NEW f, f = Fraction(won * n, of * (n + 1))
      PROVE  /\ f \in [won : Nat, of : Nat \ {0}]
             /\ f.won * (n + 1) = f.of * k
  <2>1. f \in [won : Nat, of : Nat \ {0}] /\ f.won * (of * (n + 1)) = (won * n) * f.of
    BY <1>1, <1>3, <1>5
  <2>2. f.won \in Nat /\ f.of \in Nat
    BY <2>1
  <2>3. (won * n) * f.of = (of * k) * f.of
    BY <1>b
  <2>4. (of * k) * f.of = of * (f.of * k)
    BY <1>b, <2>2
  <2>5. f.won * (of * (n + 1)) = of * (f.won * (n + 1))
    BY <1>b, <2>2
  <2>6. f.won * (n + 1) \in Int /\ f.of * k \in Int
    BY <2>2
  <2>7. of * (f.won * (n + 1)) = of * (f.of * k)
    BY <2>1, <2>3, <2>4, <2>5
  <2> QED
    BY <1>2, <2>1, <2>6, <2>7
<1>6. /\ WonQuality(q, n) = Fraction(won * n + of, of * n)
      /\ LostQuality(q, n) = Fraction(won * n, of * (n + 1))
  BY <1>a DEF WonQuality, LostQuality
<1> QED
  BY <1>4, <1>5, <1>6

LEMMA PathLength == ASSUME UctInv PROVE \A t \in Thread : Len(path[t]) \in Nat
BY DEF UctInv, UctTypes

\* The play that t updates next.
LEMMA UpdatedPlay ==
  ASSUME UctInv, NEW t \in Thread, at[t] = "backup", level[t] > 0
  PROVE  /\ level[t] \in 1..Len(path[t]) /\ Len(path[t]) <= MaxDepth
         /\ path[t][level[t]] \in Node \X Play
         /\ path[t][level[t]][1] \in Tabled \cap expanded
         /\ (outcome[t] # 0 /\ WonBy(~is_black[t], outcome[t]))
              <=> WonPlay(path[t][level[t]], outcome[t])
<1>1. level[t] \in 1..Len(path[t]) /\ Len(path[t]) <= MaxDepth
  BY DEF UctInv, UctTypes, SimOK, LengthOK
<1>2. path[t][level[t]] \in Node \X Play /\ TreePlay(path[t][level[t]])
  BY <1>1, SMTT(30) DEF UctInv, UctTypes, SimOK, PathOK
<1>3. ~is_black[t] = (zobrist_hash[path[t][level[t]][1]] \in BlackKey)
  BY DEF UctInv, SimOK, BackTurnOK
<1>4. WonBy(~is_black[t], outcome[t])
        <=> WonBy(zobrist_hash[path[t][level[t]][1]] \in BlackKey, outcome[t])
  <2>1. is_black[t] \in BOOLEAN /\ (is_black[t] <=> ~(zobrist_hash[path[t][level[t]][1]] \in BlackKey))
    BY <1>3 DEF UctInv, UctTypes
  <2>2. CASE is_black[t] = TRUE
    BY <2>1, <2>2 DEF WonBy
  <2>3. CASE is_black[t] = FALSE
    BY <2>1, <2>3 DEF WonBy
  <2> QED
    BY <2>1, <2>2, <2>3
<1>5. path[t][level[t]][1] \in Tabled \cap expanded
  BY <1>2 DEF TreePlay
<1>6. (outcome[t] # 0 /\ WonBy(~is_black[t], outcome[t])) <=> WonPlay(path[t][level[t]], outcome[t])
  BY <1>4 DEF WonPlay
<1> QED
  BY <1>1, <1>2, <1>5, <1>6

\* An update credits its own play, if it is won.
LEMMA CreditedByUpdate ==
  ASSUME UctInv, NEW t \in Thread, Backup(t), NEW e
  PROVE  /\ Ongoing(e)' = Ongoing(e)
         /\ Credited(e)' = IF e = path[t][level[t]] /\ WonPlay(e, outcome[t])
                             THEN Credited(e) \cup {<<t, level[t]>>} ELSE Credited(e)
<1>1. /\ at[t] = "backup" /\ level[t] > 0 /\ level' = [level EXCEPT ![t] = @ - 1]
      /\ UNCHANGED <<at, path, last_pass, outcome>> /\ zobrist_hash' = zobrist_hash
  BY DEF Backup, vars, stateVars
<1>2. level[t] \in 1..Len(path[t]) /\ Len(path[t]) <= MaxDepth /\ level \in [Thread -> Nat]
      /\ MaxDepth \in Nat /\ Len(path[t]) \in Nat
  <2>1. level[t] \in 1..Len(path[t]) /\ Len(path[t]) <= MaxDepth
    BY <1>1, UpdatedPlay
  <2>2. level \in [Thread -> Nat] /\ Len(path[t]) \in Nat
    BY DEF UctInv, UctTypes
  <2> QED
    BY <2>1, <2>2, UctAssumption
<1>3. Ongoing(e)' = Ongoing(e)
  BY <1>1 DEF Ongoing
<1>4. ASSUME NEW x \in Ongoing(e)
      PROVE  (x \in Credited(e)') =
               (x \in Credited(e) \/ (x = <<t, level[t]>> /\ WonPlay(e, outcome[t])))
  <2>1. PICK u \in Thread, i \in 0..MaxDepth : x = <<u, i>>
    BY DEF Ongoing
  <2>2. (x \in Credited(e)') = (at[u] = "backup" /\ i > level'[u] /\ WonPlay(e, outcome[u]))
    BY <1>1, <1>3, <2>1 DEF Credited, WonPlay
  <2>3. (x \in Credited(e)) = (at[u] = "backup" /\ i > level[u] /\ WonPlay(e, outcome[u]))
    BY <2>1 DEF Credited
  <2>4. CASE u # t
    BY <1>1, <2>1, <2>2, <2>3, <2>4
  <2>5. CASE u = t
    <3>1. level'[t] = level[t] - 1
      BY <1>1, <1>2
    <3>2. (i > level'[t]) = (i > level[t] \/ i = level[t])
      BY <1>2, <3>1
    <3> QED
      BY <1>1, <2>1, <2>2, <2>3, <2>5, <3>2
  <2> QED
    BY <2>4, <2>5
<1>5. (<<t, level[t]>> \in Ongoing(e)) = (e = path[t][level[t]])
  BY <1>2 DEF Ongoing
<1>6. Credited(e)' \subseteq Ongoing(e) /\ Credited(e) \subseteq Ongoing(e)
  BY <1>3 DEF Credited
<1>7. ASSUME e = path[t][level[t]] /\ WonPlay(e, outcome[t])
      PROVE  Credited(e)' = Credited(e) \cup {<<t, level[t]>>}
  BY <1>4, <1>5, <1>6, <1>7
<1>8. ASSUME ~(e = path[t][level[t]] /\ WonPlay(e, outcome[t]))
      PROVE  Credited(e)' = Credited(e)
  BY <1>4, <1>5, <1>6, <1>8
<1> QED
  BY <1>3, <1>7, <1>8

\* The quality of one play changes.
LEMMA OneQuality ==
  ASSUME StatsTypes, QualitiesInRange, NEW d \in Node \X Play,
         NEW f \in [won : Nat, of : Nat \ {0}], f.won <= f.of,
         mc_q' = [mc_q EXCEPT ![d[1]][d[2]] = f]
  PROVE  /\ mc_q' \in [Node -> [Play -> [won : Nat, of : Nat \ {0}]]] /\ QualitiesInRange'
         /\ mc_q'[d[1]][d[2]] = f
         /\ \A n \in Node, p \in Play : <<n, p>> # d => mc_q'[n][p] = mc_q[n][p]
<1>1. PICK a \in Node, b \in Play : d = <<a, b>>
  OBVIOUS
<1>2. mc_q \in [Node -> [Play -> [won : Nat, of : Nat \ {0}]]]
  BY DEF StatsTypes
<1>3. mc_q' = [mc_q EXCEPT ![a] = [mc_q[a] EXCEPT ![b] = f]]
  BY <1>1
<1>4. mc_q' \in [Node -> [Play -> [won : Nat, of : Nat \ {0}]]]
  BY <1>2, <1>3
<1>5. mc_q'[a][b] = f
  BY <1>2, <1>3
<1>6. ASSUME NEW n \in Node, NEW p \in Play, n # a \/ p # b PROVE mc_q'[n][p] = mc_q[n][p]
  BY <1>2, <1>3, <1>6
<1>7. QualitiesInRange'
  BY <1>5, <1>6 DEF QualitiesInRange
<1> QED
  BY <1>1, <1>4, <1>5, <1>6, <1>7

LEMMA StatsOfBackup ==
  ASSUME UctInv, StatsInv, NEW t \in Thread, Backup(t)
  PROVE  StatsInv'
<1>a. PICK d, x : d = path[t][level[t]] /\ x = <<t, level[t]>>
  OBVIOUS
<1> DEFINE n == mc_n[d[1]][d[2]]
           q == mc_q[d[1]][d[2]]
           k == WinsOf(d)
           f == WonQuality(q, n)
<1>1. /\ at[t] = "backup" /\ level[t] > 0
      /\ UNCHANGED <<vars, at, path, last_pass, outcome, mc_n, simulated>>
  BY DEF Backup
<1>2. /\ table' = table /\ Tabled' = Tabled /\ expanded' = expanded /\ zobrist_hash' = zobrist_hash
  BY <1>1 DEF vars, stateVars, Tabled
<1>3. /\ d \in Node \X Play /\ d[1] \in Tabled \cap expanded
      /\ (outcome[t] # 0 /\ WonBy(~is_black[t], outcome[t])) <=> WonPlay(d, outcome[t])
      /\ level[t] \in 1..Len(path[t]) /\ Len(path[t]) <= MaxDepth /\ Len(path[t]) \in Nat
  BY <1>1, <1>a, UpdatedPlay, PathLength
<1>4. \A e : /\ Ongoing(e)' = Ongoing(e)
             /\ Credited(e)' = IF e = d /\ WonPlay(e, outcome[t])
                                 THEN Credited(e) \cup {x} ELSE Credited(e)
  BY <1>a, CreditedByUpdate
<1>5. \A u \in Thread : PassOK(u)'
  BY <1>1, <1>2 DEF StatsInv, PassOK
<1>6. StatsTypes /\ QualitiesInRange
  BY DEF StatsInv
<1>7. CASE ~WonPlay(d, outcome[t])
  <2>1. mc_q' = mc_q
    BY <1>3, <1>7, <1>a DEF Backup
  <2>2. StatsTypes' /\ QualitiesInRange'
    BY <1>1, <1>6, <2>1 DEF StatsTypes, QualitiesInRange
  <2>3. ASSUME NEW m \in Tabled \cap expanded, NEW p \in Play PROVE StatsOf(<<m, p>>)'
    <3>1. StatsOf(<<m, p>>) /\ SameStats(<<m, p>>)
      BY <1>1, <1>2, <2>1 DEF StatsInv, SameStats
    <3>2. Ongoing(<<m, p>>)' = Ongoing(<<m, p>>) /\ Credited(<<m, p>>)' = Credited(<<m, p>>)
      BY <1>4, <1>7
    <3> QED
      BY <3>1, <3>2, StatsSame
  <2> QED
    BY <1>2, <1>5, <2>2, <2>3 DEF StatsInv
<1>8. CASE WonPlay(d, outcome[t])
  <2>1. mc_q' = [mc_q EXCEPT ![d[1]][d[2]] = Fraction(@.won * n + @.of, @.of * n)]
    BY <1>3, <1>8, <1>a DEF Backup, CreditWin
  <2>2. mc_q' = [mc_q EXCEPT ![d[1]][d[2]] = f]
    BY <1>3, <1>6, <2>1 DEF StatsTypes, WonQuality
  <2>3. StatsOf(d)
    <3>1. d = <<d[1], d[2]>> /\ d[2] \in Play
      BY <1>3
    <3> QED
      BY <1>3, <3>1 DEF StatsInv
  <2>4. /\ q.won \in Nat /\ q.of \in Nat \ {0} /\ q.won * n = q.of * k
        /\ k \in Nat /\ n \in Nat \ {0}
    BY <1>3, <1>6, <2>3, WinsBounded, ZenonT(30) DEF StatsTypes, StatsOf
  <2>5. f \in [won : Nat, of : Nat \ {0}] /\ f.won * n = f.of * (k + 1)
    <3>1. q \in [won : Nat, of : Nat \ {0}]
      BY <1>3, <1>6 DEF StatsTypes
    <3> HIDE DEF k, n, q
    <3> QED
      BY <2>4, <3>1, QualityUpdated
  <2>6. /\ Cardinality(Credited(d)') = Cardinality(Credited(d)) + 1
        /\ Cardinality(Credited(d)) + 1 <= Cardinality(Ongoing(d))
    <3>1. x \in Ongoing(d) /\ x \notin Credited(d) /\ Credited(d) \subseteq Ongoing(d)
      <4>1. x[1] = t /\ x[2] = level[t] /\ level[t] \in 0..MaxDepth /\ level[t] # 0
        BY <1>3, <1>a, UctAssumption
      <4>2. x \in Ongoing(d)
        BY <1>3, <1>a, <4>1 DEF Ongoing
      <4>3. x \notin Credited(d)
        BY <4>1 DEF Credited
      <4> QED
        BY <4>2, <4>3 DEF Credited
    <3>2. Credited(d)' = Credited(d) \cup {x} /\ Credited(d) \cup {x} \in SUBSET Ongoing(d)
      BY <1>4, <1>8, <3>1
    <3>3. IsFiniteSet(Credited(d)) /\ IsFiniteSet(Ongoing(d))
      BY OngoingFinite
    <3>4. Cardinality(Credited(d) \cup {x}) = Cardinality(Credited(d)) + 1
      BY <3>1, <3>3, FS_AddElement
    <3>5. Cardinality(Credited(d) \cup {x}) <= Cardinality(Ongoing(d))
      BY <3>2, <3>3, FS_Subset
    <3> QED
      BY <3>2, <3>4, <3>5
  <2>7. WinsOf(d)' = k + 1 /\ k + 1 <= n
    <3> DEFINE s == simulated[d[1]][d[2]]
               c == Cardinality(Credited(d))
               o == Cardinality(Ongoing(d))
    <3>1. WinsOf(d)' = PriorWins + s.w - s.ended + (c + 1)
      BY <1>1, <2>6 DEF WinsOf
    <3>2. k = PriorWins + s.w - s.ended + c /\ n = PriorVisits + s.v + o /\ s.w - s.ended <= s.v
      BY <2>3 DEF StatsOf, WinsOf
    <3>3. s.w \in Nat /\ s.ended \in Nat /\ s.v \in Nat
      BY <1>3, <1>6 DEF StatsTypes
    <3>4. o \in Nat /\ c \in Nat /\ c + 1 <= o
      BY <2>6, OngoingFinite
    <3>5. PriorWins \in Nat /\ PriorVisits \in Nat /\ PriorWins <= PriorVisits
      BY UctAssumption
    <3> HIDE DEF s, c, o, k, n
    <3> QED
      BY <3>1, <3>2, <3>3, <3>4, <3>5
  <2>8. f.won <= f.of
    <3> HIDE DEF k, n, q, f
    <3> QED
      BY <2>4, <2>5, <2>7, InRange
  <2>9. /\ mc_q' \in [Node -> [Play -> [won : Nat, of : Nat \ {0}]]] /\ QualitiesInRange'
        /\ mc_q'[d[1]][d[2]] = f
        /\ \A m \in Node, p \in Play : <<m, p>> # d => mc_q'[m][p] = mc_q[m][p]
    <3> HIDE DEF f
    <3> QED
      BY <1>3, <1>6, <2>2, <2>5, <2>8, OneQuality
  <2>10. StatsTypes'
    BY <1>1, <1>6, <2>9 DEF StatsTypes
  <2>11. ASSUME NEW m \in Tabled \cap expanded, NEW p \in Play PROVE StatsOf(<<m, p>>)'
    <3>1. CASE <<m, p>> # d
      <4>1. mc_q'[m][p] = mc_q[m][p]
        BY <2>9, <3>1, TabledNodes DEF UctInv
      <4>2. StatsOf(<<m, p>>) /\ SameStats(<<m, p>>)
        BY <1>1, <1>2, <4>1 DEF StatsInv, SameStats
      <4>3. Ongoing(<<m, p>>)' = Ongoing(<<m, p>>) /\ Credited(<<m, p>>)' = Credited(<<m, p>>)
        BY <1>4, <3>1
      <4> QED
        BY <4>2, <4>3, StatsSame
    <3>2. CASE <<m, p>> = d
      <4>1. m = d[1] /\ p = d[2]
        BY <3>2
      <4>2. Cardinality(Ongoing(<<m, p>>)') = Cardinality(Ongoing(<<m, p>>))
        BY <1>4
      <4>3. WinsOf(<<m, p>>)' = k + 1
        BY <2>7, <3>2
      <4>4. mc_n'[m][p] = n /\ mc_q'[m][p] = f /\ simulated'[m][p] = simulated[m][p]
        BY <1>1, <2>9, <4>1
      <4>5. StatsOf(<<m, p>>)
        BY DEF StatsInv
      <4>6. mc_n[m][p] = n
        BY <4>1
      <4> HIDE DEF f, k, n
      <4> QED
        BY <2>5, <4>2, <4>3, <4>4, <4>5, <4>6 DEF StatsOf
    <3> QED
      BY <3>1, <3>2
  <2> QED
    BY <1>2, <1>5, <2>9, <2>10, <2>11 DEF StatsInv
<1> QED
  BY <1>7, <1>8

\* Simulation t goes on by play d, or is ended by it.
GoesOn(t, d) ==
  /\ path' = [path EXCEPT ![t] = Append(@, d)]
  /\ at' = [at EXCEPT ![t] = "read"]
  /\ UNCHANGED <<last_pass, outcome, level>>

EndedBy(t, d) ==
  /\ \E o \in Outcome : Leave(t, o)
  /\ last_pass' = [last_pass EXCEPT ![t] = d]
  /\ path' = path

\* There is one simulation more of d, with no win yet.
OneMore(d, x) ==
  \A e \in Node \X Play :
    /\ Ongoing(e)' = IF e = d THEN Ongoing(e) \cup {x} ELSE Ongoing(e)
    /\ Credited(e)' = Credited(e) /\ x \notin Ongoing(e)

\* A simulation goes on by a play: it is one more of that play, with no win yet.
LEMMA OngoingByAppend ==
  ASSUME UctInv, NEW t \in Thread, at[t] = "visit", NEW d \in Node \X Play, NEW x,
         x = <<t, Len(path[t]) + 1>>, zobrist_hash' = zobrist_hash,
         GoesOn(t, d), NEW e \in Node \X Play
  PROVE  /\ Ongoing(e)' = IF e = d THEN Ongoing(e) \cup {x} ELSE Ongoing(e)
         /\ Credited(e)' = Credited(e) /\ x \notin Ongoing(e)
<1>1. /\ Len(path[t]) \in Nat /\ Len(path[t]) < MaxDepth /\ MaxDepth \in Nat
      /\ path \in [Thread -> Seq(Node \X Play)]
      /\ path' = [path EXCEPT ![t] = Append(@, d)] /\ at' = [at EXCEPT ![t] = "read"]
      /\ UNCHANGED <<last_pass, outcome, level>>
  BY PathLength, UctAssumption DEF UctInv, UctTypes, SimOK, LengthOK, GoesOn
<1>2. /\ Len(path'[t]) = Len(path[t]) + 1 /\ path'[t][Len(path[t]) + 1] = d
      /\ \A i \in 1..Len(path[t]) : path'[t][i] = path[t][i]
      /\ \A u \in Thread : u # t => path'[u] = path[u]
  BY <1>1
<1>3. x \in Thread \X (0..MaxDepth) /\ x[1] = t /\ x[2] = Len(path[t]) + 1 /\ x \notin Ongoing(e)
  BY <1>1 DEF Ongoing
<1>4. ASSUME NEW u \in Thread, NEW i \in 0..MaxDepth
      PROVE  (<<u, i>> \in Ongoing(e)') = (<<u, i>> \in Ongoing(e) \/ (e = d /\ <<u, i>> = x))
  <2>1. (<<u, i>> \in Ongoing(e)')
          = (IF i = 0 THEN last_pass[u] = e ELSE i <= Len(path'[u]) /\ path'[u][i] = e)
    BY <1>1 DEF Ongoing
  <2>2. (<<u, i>> \in Ongoing(e))
          = (IF i = 0 THEN last_pass[u] = e ELSE i <= Len(path[u]) /\ path[u][i] = e)
    BY <1>1 DEF Ongoing
  <2>3. CASE u # t
    BY <1>2, <1>3, <2>1, <2>2, <2>3
  <2>4. CASE u = t
    <3>1. CASE i = Len(path[t]) + 1
      BY <1>1, <1>2, <2>1, <2>2, <2>4, <3>1
    <3>2. CASE i # Len(path[t]) + 1
      BY <1>1, <1>2, <1>3, <2>1, <2>2, <2>4, <3>2
    <3> QED
      BY <3>1, <3>2
  <2> QED
    BY <2>3, <2>4
<1>5. Ongoing(e)' \subseteq Thread \X (0..MaxDepth) /\ Ongoing(e) \subseteq Thread \X (0..MaxDepth)
  BY <1>1 DEF Ongoing
<1>6. Ongoing(e)' = IF e = d THEN Ongoing(e) \cup {x} ELSE Ongoing(e)
  <2>1. ASSUME NEW y \in Thread \X (0..MaxDepth)
        PROVE  (y \in Ongoing(e)') = (y \in Ongoing(e) \/ (e = d /\ y = x))
    <3>1. PICK u \in Thread, i \in 0..MaxDepth : y = <<u, i>>
      OBVIOUS
    <3> QED
      BY <1>4, <3>1
  <2>2. CASE e = d
    BY <1>3, <1>5, <2>1, <2>2
  <2>3. CASE e # d
    BY <1>3, <1>5, <2>1, <2>3
  <2> QED
    BY <2>2, <2>3
<1>7. Credited(e)' = Credited(e)
  <2>1. ASSUME NEW y \in Ongoing(e) PROVE (y \in Credited(e)') = (y \in Credited(e))
    <3>1. y[1] \in Thread /\ y \in Ongoing(e)'
      BY <1>5, <1>6
    <3>2. at \in [Thread -> AtType]
      BY DEF UctInv, UctTypes
    <3>3. (at'[y[1]] = "backup") = (at[y[1]] = "backup")
      BY <1>1, <3>1, <3>2
    <3>4. /\ level'[y[1]] = level[y[1]]
          /\ WonPlay(e, outcome[y[1]])' = WonPlay(e, outcome[y[1]])
      BY <1>1 DEF WonPlay
    <3> QED
      BY <3>1, <3>3, <3>4 DEF Credited
  <2>2. x \notin Credited(e)'
    <3>1. at \in [Thread -> AtType]
      BY DEF UctInv, UctTypes
    <3>2. at'[x[1]] # "backup"
      BY <1>1, <1>3, <3>1
    <3> QED
      BY <3>2 DEF Credited
  <2> QED
    BY <1>6, <2>1, <2>2 DEF Credited
<1> QED
  BY <1>3, <1>6, <1>7

\* A pass that ends a simulation is a visit of it too.
LEMMA OngoingByPass ==
  ASSUME UctInv, NEW t \in Thread, at[t] = "visit", NEW d \in Node \X Play, NEW x,
         x = <<t, 0>>, zobrist_hash' = zobrist_hash, EndedBy(t, d),
         StatsTypes, last_pass[t] = NoPlay, NEW e \in Node \X Play
  PROVE  /\ Ongoing(e)' = IF e = d THEN Ongoing(e) \cup {x} ELSE Ongoing(e)
         /\ Credited(e)' = Credited(e) /\ x \notin Ongoing(e)
<1>1. MaxDepth \in Nat /\ \A u \in Thread : Len(path[u]) \in Nat
  BY UctAssumption, PathLength
<1>a. PICK o : Leave(t, o) /\ last_pass' = [last_pass EXCEPT ![t] = d] /\ path' = path
  BY DEF EndedBy
<1>b. last_pass \in [Thread -> (Node \X Play) \cup {NoPlay}]
  BY DEF StatsTypes
<1>2. e # NoPlay /\ d # NoPlay
  BY DEF NoPlay
<1>3. x \in Thread \X (0..MaxDepth) /\ x[1] = t /\ x[2] = 0 /\ x \notin Ongoing(e)
  BY <1>1, <1>2 DEF Ongoing
<1>4. ASSUME NEW u \in Thread, NEW i \in 0..MaxDepth
      PROVE  (<<u, i>> \in Ongoing(e)') = (<<u, i>> \in Ongoing(e) \/ (e = d /\ <<u, i>> = x))
  <2>1. (<<u, i>> \in Ongoing(e)')
          = (IF i = 0 THEN last_pass'[u] = e ELSE i <= Len(path[u]) /\ path[u][i] = e)
    BY <1>a DEF Ongoing
  <2>2. (<<u, i>> \in Ongoing(e))
          = (IF i = 0 THEN last_pass[u] = e ELSE i <= Len(path[u]) /\ path[u][i] = e)
    BY <1>a DEF Ongoing
  <2> QED
    BY <1>2, <1>3, <1>a, <1>b, <2>1, <2>2
<1>5. Ongoing(e)' \subseteq Thread \X (0..MaxDepth) /\ Ongoing(e) \subseteq Thread \X (0..MaxDepth)
  BY <1>a DEF Ongoing
<1>6. Ongoing(e)' = IF e = d THEN Ongoing(e) \cup {x} ELSE Ongoing(e)
  <2>1. ASSUME NEW y \in Thread \X (0..MaxDepth)
        PROVE  (y \in Ongoing(e)') = (y \in Ongoing(e) \/ (e = d /\ y = x))
    <3>1. PICK u \in Thread, i \in 0..MaxDepth : y = <<u, i>>
      OBVIOUS
    <3> QED
      BY <1>4, <3>1
  <2>2. CASE e = d
    BY <1>3, <1>5, <2>1, <2>2
  <2>3. CASE e # d
    BY <1>3, <1>5, <2>1, <2>3
  <2> QED
    BY <2>2, <2>3
<1>7. /\ at'[t] = "backup" /\ level'[t] = Len(path[t])
      /\ \A u \in Thread : u # t => at'[u] = at[u] /\ level'[u] = level[u] /\ outcome'[u] = outcome[u]
  BY <1>a DEF Leave, UctInv, UctTypes
<1>8. Credited(e)' = Credited(e)
  <2>1. ASSUME NEW y \in Ongoing(e) PROVE (y \in Credited(e)') = (y \in Credited(e))
    <3>1. y[1] \in Thread /\ y[2] \in 0..MaxDepth /\ y \in Ongoing(e)'
      BY <1>5, <1>6
    <3>2. CASE y[1] # t
      BY <1>7, <1>a, <3>1, <3>2 DEF Credited, WonPlay
    <3>3. CASE y[1] = t
      <4>1. ~(y[2] > level'[t])
        BY <1>1, <1>7, <3>1, <3>3 DEF Ongoing
      <4> QED
        BY <3>3, <4>1 DEF Credited
    <3> QED
      BY <3>2, <3>3
  <2>2. x \notin Credited(e)'
    BY <1>1, <1>3, <1>7 DEF Credited
  <2> QED
    BY <1>6, <2>1, <2>2 DEF Credited
<1> QED
  BY <1>3, <1>6, <1>8

\* Play d gets a virtual loss, and a simulation that goes on.
LEMMA StatsOfVisit ==
  ASSUME ~Endless, UctInv, StatsTypes, QualitiesInRange, NEW d \in Node \X Play, StatsOf(d),
         VirtualLoss(d[1], d[2]), UNCHANGED <<simulated, zobrist_hash>>,
         NEW x, OneMore(d, x)
  PROVE  /\ mc_q' \in [Node -> [Play -> [won : Nat, of : Nat \ {0}]]] /\ QualitiesInRange'
         /\ StatsOf(d)'
         /\ \A e \in Node \X Play : e # d /\ StatsOf(e) => StatsOf(e)'
<1> DEFINE n == mc_n[d[1]][d[2]]
           q == mc_q[d[1]][d[2]]
           k == WinsOf(d)
           f == LostQuality(q, n)
<1>1. /\ mc_n' = [mc_n EXCEPT ![d[1]][d[2]] = @ + 1]
      /\ mc_q' = [mc_q EXCEPT ![d[1]][d[2]] = Fraction(@.won * n, @.of * (n + 1))]
  BY DEF VirtualLoss
<1>2. mc_n \in [Node -> [Play -> Nat]] /\ mc_q \in [Node -> [Play -> [won : Nat, of : Nat \ {0}]]]
  BY DEF UctInv, UctTypes, StatsTypes
<1>3. mc_q' = [mc_q EXCEPT ![d[1]][d[2]] = f]
  BY <1>1, <1>2 DEF LostQuality
<1>4. /\ q \in [won : Nat, of : Nat \ {0}] /\ q.won * n = q.of * k
      /\ k \in Nat /\ n \in Nat \ {0} /\ k <= n
  BY <1>2, WinsBounded DEF StatsOf
<1>5. f \in [won : Nat, of : Nat \ {0}] /\ f.won * (n + 1) = f.of * k
  <2> HIDE DEF n, q, k
  <2> QED
    BY <1>4, QualityUpdated
<1>6. f.won <= f.of
  <2> HIDE DEF n, q, k, f
  <2>1. n + 1 \in Nat \ {0} /\ k <= n + 1
    BY <1>4
  <2> QED
    BY <1>4, <1>5, <2>1, InRange
<1>7. /\ mc_q' \in [Node -> [Play -> [won : Nat, of : Nat \ {0}]]] /\ QualitiesInRange'
      /\ mc_q'[d[1]][d[2]] = f
      /\ \A m \in Node, p \in Play : <<m, p>> # d => mc_q'[m][p] = mc_q[m][p]
  <2> HIDE DEF f
  <2> QED
    BY <1>3, <1>5, <1>6, OneQuality
<1>8. PICK a \in Node, b \in Play : d = <<a, b>>
  OBVIOUS
<1>9. /\ mc_n'[a][b] = n + 1
      /\ \A m \in Node, p \in Play : m # a \/ p # b => mc_n'[m][p] = mc_n[m][p]
  <2>1. mc_n' = [mc_n EXCEPT ![a] = [mc_n[a] EXCEPT ![b] = n + 1]]
    BY <1>1, <1>2, <1>8
  <2> QED
    BY <1>2, <1>8, <2>1
<1>10. StatsOf(d)'
  <2>1. Cardinality(Ongoing(d)') = Cardinality(Ongoing(d)) + 1
    BY OngoingFinite, FS_AddElement DEF OneMore
  <2>2. WinsOf(d)' = k
    BY DEF WinsOf, OneMore
  <2>3. mc_n'[d[1]][d[2]] = n + 1 /\ mc_q'[d[1]][d[2]] = f /\ simulated' = simulated
    BY <1>7, <1>8, <1>9
  <2>4. n = PriorVisits + simulated[d[1]][d[2]].v + Cardinality(Ongoing(d))
    BY DEF StatsOf
  <2>5. /\ simulated[d[1]][d[2]].v \in Nat /\ Cardinality(Ongoing(d)) \in Nat
        /\ PriorVisits \in Nat
    BY OngoingFinite, UctAssumption DEF StatsTypes
  <2>6. n + 1 = PriorVisits + simulated[d[1]][d[2]].v + (Cardinality(Ongoing(d)) + 1)
    BY <2>4, <2>5
  <2>7. /\ simulated[d[1]][d[2]].ended <= simulated[d[1]][d[2]].w
        /\ simulated[d[1]][d[2]].w - simulated[d[1]][d[2]].ended <= simulated[d[1]][d[2]].v
    BY DEF StatsOf
  <2> HIDE DEF k, n, f
  <2> QED
    BY <1>5, <2>1, <2>2, <2>3, <2>6, <2>7 DEF StatsOf
<1>11. ASSUME NEW e \in Node \X Play, e # d, StatsOf(e) PROVE StatsOf(e)'
  <2>1. PICK m \in Node, p \in Play : e = <<m, p>> /\ (m # a \/ p # b)
    BY <1>8, <1>11
  <2>2. SameStats(e)
    BY <1>7, <1>9, <1>11, <2>1 DEF SameStats
  <2> QED
    BY <1>11, <2>2, StatsSame DEF OneMore
<1> QED
  BY <1>7, <1>10, <1>11

LEMMA StatsOfSelect ==
  ASSUME ~Endless, UctInv, StatsInv, NEW t \in Thread, Select(t)
  PROVE  StatsInv'
<1>1. /\ at[t] = "visit" /\ UnsetLock(t) /\ expansion_delay[curr_stats[t]] = -1
      /\ UNCHANGED <<simulated, lgrf1_reply>>
  BY DEF Select
<1>2. PICK d \in SelectedPlays(t) :
       /\ VirtualLoss(d[1], d[2])
       /\ EndedBy(t, d) \/ GoesOn(t, d)
  BY DEF Select, EndedBy, GoesOn
<1>3. UNCHANGED stateVars /\ Tabled' = Tabled
  BY <1>1 DEF UnsetLock, Release, Tabled
<1>4. expanded' = expanded /\ zobrist_hash' = zobrist_hash /\ Tabled' = Tabled
  BY <1>3 DEF stateVars
<1>5. curr_stats[t] \in Tabled \cap expanded
  BY <1>1 DEF UctInv, SimOK, PositionOK, Delays
<1>6. d \in Node \X Play /\ d[1] = curr_stats[t] /\ d[1] \in Tabled \cap expanded
  BY <1>1, <1>5, SelectedOfState
<1>7. /\ StatsTypes /\ QualitiesInRange /\ \A u \in Thread : PassOK(u)
      /\ last_pass \in [Thread -> (Node \X Play) \cup {NoPlay}]
      /\ \A m \in Tabled \cap expanded : \A p \in Play : StatsOf(<<m, p>>)
  BY DEF StatsInv, StatsTypes
<1>8. last_pass[t] = NoPlay
  BY <1>1, <1>7 DEF PassOK
<1>9. StatsOf(d)
  <2>1. d = <<d[1], d[2]>> /\ d[2] \in Play
    BY <1>6
  <2> QED
    BY <1>6, <1>7, <2>1
<1>10. \E x : OneMore(d, x)
  <2>1. CASE EndedBy(t, d)
    BY <1>1, <1>4, <1>6, <1>7, <1>8, <2>1, OngoingByPass DEF OneMore
  <2>2. CASE GoesOn(t, d)
    <3>1. PICK x : x = <<t, Len(path[t]) + 1>>
      OBVIOUS
    <3>2. ASSUME NEW e \in Node \X Play
          PROVE  /\ Ongoing(e)' = IF e = d THEN Ongoing(e) \cup {x} ELSE Ongoing(e)
                 /\ Credited(e)' = Credited(e) /\ x \notin Ongoing(e)
      BY <1>1, <1>4, <1>6, <2>2, <3>1, OngoingByAppend
    <3> QED
      BY <3>2 DEF OneMore
  <2> QED
    BY <1>2, <2>1, <2>2
<1>11. /\ mc_q' \in [Node -> [Play -> [won : Nat, of : Nat \ {0}]]] /\ QualitiesInRange'
       /\ StatsOf(d)'
       /\ \A e \in Node \X Play : e # d /\ StatsOf(e) => StatsOf(e)'
  BY <1>1, <1>2, <1>4, <1>6, <1>7, <1>9, <1>10, StatsOfVisit
<1>12. last_pass' \in [Thread -> (Node \X Play) \cup {NoPlay}]
  BY <1>2, <1>6, <1>7 DEF EndedBy, GoesOn
<1>13. StatsTypes'
  BY <1>1, <1>7, <1>11, <1>12 DEF StatsTypes
<1>14. ASSUME NEW u \in Thread PROVE PassOK(u)'
  <2>1. CASE u # t
    <3>1. at'[u] = at[u] /\ last_pass'[u] = last_pass[u]
      BY <1>2, <1>7, <2>1 DEF Leave, UctInv, UctTypes, EndedBy, GoesOn
    <3> QED
      BY <1>4, <1>7, <3>1 DEF PassOK
  <2>2. CASE u = t
    <3>1. \/ at'[t] = "backup" /\ last_pass'[t] = d
          \/ last_pass'[t] = NoPlay
      BY <1>2, <1>7, <1>8 DEF Leave, UctInv, UctTypes, EndedBy, GoesOn
    <3> QED
      BY <1>4, <1>6, <2>2, <3>1 DEF PassOK
  <2> QED
    BY <2>1, <2>2
<1>15. ASSUME NEW m \in Tabled' \cap expanded', NEW p \in Play PROVE StatsOf(<<m, p>>)'
  <2>1. m \in Tabled \cap expanded /\ <<m, p>> \in Node \X Play
    BY <1>4, TabledNodes DEF UctInv
  <2> QED
    BY <1>7, <1>11, <2>1
<1> QED
  BY <1>11, <1>13, <1>14, <1>15 DEF StatsInv

-----------------------------------------------------------------------------
(***************************************************************************)
(* A simulation is over.                                                   *)
(***************************************************************************)
\* Where play d is on the path of simulation t.
Seen(t, d) == {i \in 1..Len(path[t]) : path[t][i] = d}

\* Those of its places that an update goes through.
InPath(t, d) == {x \in Ongoing(d) : x[1] = t /\ x[2] # 0}

\* All its places.
Mine(t, d) == {x \in Ongoing(d) : x[1] = t}

LEMMA InPathCounted ==
  ASSUME UctInv, NEW t \in Thread, NEW d \in Node \X Play
  PROVE  /\ IsFiniteSet(InPath(t, d)) /\ Cardinality(InPath(t, d)) = Cardinality(Seen(t, d))
         /\ Cardinality(Seen(t, d)) \in Nat
<1> DEFINE f == [i \in Seen(t, d) |-> <<t, i>>]
<1>1. Len(path[t]) \in Nat /\ Len(path[t]) <= MaxDepth /\ MaxDepth \in Nat
  BY PathLength, UctAssumption DEF UctInv, SimOK, LengthOK
<1>2. f \in [Seen(t, d) -> InPath(t, d)]
  <2>1. ASSUME NEW i \in Seen(t, d) PROVE <<t, i>> \in InPath(t, d)
    <3>1. i \in 1..Len(path[t]) /\ i \in 0..MaxDepth /\ i # 0 /\ path[t][i] = d
      BY <1>1 DEF Seen
    <3> QED
      BY <3>1 DEF InPath, Ongoing
  <2> QED
    BY <2>1
<1>3. \A a, b \in Seen(t, d) : f[a] = f[b] => a = b
  OBVIOUS
<1>4. \A x \in InPath(t, d) : \E i \in Seen(t, d) : f[i] = x
  <2>1. ASSUME NEW x \in InPath(t, d) PROVE \E i \in Seen(t, d) : f[i] = x
    <3>1. PICK u \in Thread, i \in 0..MaxDepth : x = <<u, i>>
      BY DEF InPath, Ongoing
    <3>2. u = t /\ i # 0 /\ i <= Len(path[t]) /\ path[t][i] = d
      BY <3>1 DEF InPath, Ongoing
    <3>3. i \in Seen(t, d) /\ x = <<t, i>>
      BY <1>1, <3>1, <3>2 DEF Seen
    <3> QED
      BY <3>3
  <2> QED
    BY <2>1
<1>5. IsFiniteSet(Seen(t, d)) /\ Cardinality(Seen(t, d)) \in Nat
  <2>1. IsFiniteSet(1..Len(path[t]))
    BY <1>1, FS_Interval
  <2>2. Seen(t, d) \in SUBSET (1..Len(path[t]))
    BY DEF Seen
  <2> QED
    BY <2>1, <2>2, FS_Subset, FS_CardinalityType
<1>6. ExistsBijection(Seen(t, d), InPath(t, d))
  <2> HIDE DEF f
  <2>1. f \in Bijection(Seen(t, d), InPath(t, d))
    BY <1>2, <1>3, <1>4 DEF Bijection, Injection, Surjection, IsInjective
  <2> QED
    BY <2>1 DEF ExistsBijection
<1> QED
  BY <1>5, <1>6, FS_Bijection

LEMMA MineCounted ==
  ASSUME UctInv, NEW t \in Thread, NEW d \in Node \X Play
  PROVE  /\ IsFiniteSet(Mine(t, d))
         /\ Cardinality(Mine(t, d)) =
              Cardinality(Seen(t, d)) + (IF last_pass[t] = d THEN 1 ELSE 0)
<1>1. MaxDepth \in Nat
  BY UctAssumption
<1>2. /\ IsFiniteSet(InPath(t, d)) /\ Cardinality(InPath(t, d)) = Cardinality(Seen(t, d))
      /\ Cardinality(Seen(t, d)) \in Nat
  BY InPathCounted
<1>3. CASE last_pass[t] = d
  <2>1. <<t, 0>> \in Mine(t, d) /\ <<t, 0>> \notin InPath(t, d)
    BY <1>1, <1>3 DEF Mine, InPath, Ongoing
  <2>2. ASSUME NEW x \in Mine(t, d), x \notin InPath(t, d) PROVE x = <<t, 0>>
    BY <2>2 DEF Mine, InPath, Ongoing
  <2>3. Mine(t, d) = InPath(t, d) \cup {<<t, 0>>}
    BY <2>1, <2>2 DEF Mine, InPath
  <2> QED
    <3>1. /\ IsFiniteSet(InPath(t, d) \cup {<<t, 0>>})
          /\ Cardinality(InPath(t, d) \cup {<<t, 0>>}) = Cardinality(InPath(t, d)) + 1
      BY <1>2, <2>1, FS_AddElement
    <3> QED
      BY <1>2, <1>3, <2>3, <3>1
<1>4. CASE last_pass[t] # d
  <2>1. Mine(t, d) = InPath(t, d)
    BY <1>4 DEF Mine, InPath, Ongoing
  <2> QED
    BY <1>2, <1>4, <2>1
<1> QED
  BY <1>3, <1>4

\* What simulation t leaves when it is over.
LEMMA OngoingFinished ==
  ASSUME UctInv, NEW t \in Thread, FinishSim(t), NEW d \in Node \X Play,
         last_pass \in [Thread -> (Node \X Play) \cup {NoPlay}]
  PROVE  /\ Ongoing(d)' = Ongoing(d) \ Mine(t, d)
         /\ Credited(d)' = Credited(d) \ (IF WonPlay(d, outcome[t]) THEN InPath(t, d) ELSE {})
         /\ WonPlay(d, outcome[t]) => InPath(t, d) \subseteq Credited(d)
<1>1. /\ at[t] = "backup" /\ level[t] = 0 /\ at' = [at EXCEPT ![t] = "idle"]
      /\ path' = [path EXCEPT ![t] = <<>>] /\ last_pass' = [last_pass EXCEPT ![t] = NoPlay]
      /\ outcome' = [outcome EXCEPT ![t] = 0] /\ level' = level /\ zobrist_hash' = zobrist_hash
  BY DEF FinishSim, vars, stateVars
<1>2. /\ at'[t] = "idle" /\ path'[t] = <<>> /\ last_pass'[t] = NoPlay /\ Len(<<>>) = 0
      /\ \A u \in Thread : u # t => /\ at'[u] = at[u] /\ path'[u] = path[u]
                                    /\ last_pass'[u] = last_pass[u] /\ outcome'[u] = outcome[u]
  BY <1>1 DEF UctInv, UctTypes
<1>3. d # NoPlay
  BY DEF NoPlay
<1>4. ASSUME NEW x \in Thread \X (0..MaxDepth)
      PROVE  (x \in Ongoing(d)') = (x \in Ongoing(d) /\ x[1] # t)
  <2>1. CASE x[1] = t
    BY <1>2, <1>3, <2>1 DEF Ongoing
  <2>2. CASE x[1] # t
    BY <1>2, <2>2 DEF Ongoing
  <2> QED
    BY <2>1, <2>2
<1>5. Ongoing(d)' \subseteq Thread \X (0..MaxDepth) /\ Ongoing(d) \subseteq Thread \X (0..MaxDepth)
  BY DEF Ongoing
<1>6. Ongoing(d)' = Ongoing(d) \ Mine(t, d)
  BY <1>4, <1>5 DEF Mine
<1>7. ASSUME NEW x \in Ongoing(d), x[1] = t
      PROVE  (x \in Credited(d)) = (WonPlay(d, outcome[t]) /\ x \in InPath(t, d))
  <2>1. x[2] \in 0..MaxDepth /\ (x[2] > 0) = (x[2] # 0)
    BY <1>5
  <2> QED
    BY <1>1, <1>7, <2>1 DEF Credited, InPath
<1>8. ASSUME NEW x \in Ongoing(d), x[1] # t
      PROVE  (x \in Credited(d)') = (x \in Credited(d)) /\ x \notin InPath(t, d)
  <2>1. x[1] \in Thread /\ x \in Ongoing(d)'
    BY <1>4, <1>5, <1>8
  <2> QED
    BY <1>1, <1>2, <1>8, <2>1 DEF Credited, InPath, WonPlay
<1>9. /\ Credited(d)' \subseteq Ongoing(d) \ Mine(t, d) /\ Credited(d) \subseteq Ongoing(d)
      /\ InPath(t, d) \subseteq Ongoing(d) /\ \A x \in InPath(t, d) : x[1] = t
      /\ \A x \in Ongoing(d) : x \in Mine(t, d) <=> x[1] = t
  BY <1>6 DEF Credited, InPath, Mine
<1>10. CASE WonPlay(d, outcome[t])
  BY <1>6, <1>7, <1>8, <1>9, <1>10
<1>11. CASE ~WonPlay(d, outcome[t])
  BY <1>6, <1>7, <1>8, <1>9, <1>11
<1> QED
  BY <1>6, <1>10, <1>11

LEMMA StatsOfRecord ==
  ASSUME UctInv, StatsTypes, NEW t \in Thread, FinishSim(t), Record(t),
         NEW d \in Node \X Play
  PROVE  /\ StatsOf(d) => StatsOf(d)'
         /\ simulated'[d[1]][d[2]] \in [v : Nat, w : Nat, ended : Nat]
<1> DEFINE s == simulated[d[1]][d[2]]
           seen == Cardinality(Seen(t, d))
           last == IF last_pass[t] = d THEN 1 ELSE 0
           won == IF WonPlay(d, outcome[t]) THEN 1 ELSE 0
           o == Cardinality(Ongoing(d))
           c == Cardinality(Credited(d))
<1>1. last_pass \in [Thread -> (Node \X Play) \cup {NoPlay}]
  BY DEF StatsTypes
<1>2. /\ Ongoing(d)' = Ongoing(d) \ Mine(t, d)
      /\ Credited(d)' = Credited(d) \ (IF WonPlay(d, outcome[t]) THEN InPath(t, d) ELSE {})
      /\ WonPlay(d, outcome[t]) => InPath(t, d) \subseteq Credited(d)
  BY <1>1, OngoingFinished
<1>3. /\ IsFiniteSet(Ongoing(d)) /\ IsFiniteSet(Credited(d)) /\ o \in Nat /\ c \in Nat
  BY OngoingFinite
<1>4. seen \in Nat /\ Cardinality(InPath(t, d)) = seen /\ Cardinality(Mine(t, d)) = seen + last
  BY InPathCounted, MineCounted
<1>5. Cardinality(Ongoing(d)') = o - (seen + last)
  <2>1. Ongoing(d) \cap Mine(t, d) = Mine(t, d)
    BY DEF Mine
  <2>2. Cardinality(Ongoing(d) \ Mine(t, d)) = o - Cardinality(Ongoing(d) \cap Mine(t, d))
    BY <1>3, FS_Difference
  <2> QED
    BY <1>2, <1>4, <2>1, <2>2
<1>6. Cardinality(Credited(d)') = c - won * seen
  <2>1. CASE WonPlay(d, outcome[t])
    <3>1. Credited(d) \cap InPath(t, d) = InPath(t, d) /\ Credited(d)' = Credited(d) \ InPath(t, d)
      BY <1>2, <2>1
    <3>2. Cardinality(Credited(d) \ InPath(t, d)) = c - Cardinality(Credited(d) \cap InPath(t, d))
      BY <1>3, FS_Difference
    <3>3. won = 1 /\ won * seen = seen
      BY <1>4, <2>1
    <3> QED
      BY <1>4, <3>1, <3>2, <3>3
  <2>2. CASE ~WonPlay(d, outcome[t])
    <3>1. won = 0 /\ won * seen = 0 /\ Credited(d)' = Credited(d)
      BY <1>2, <1>4, <2>2
    <3> QED
      BY <1>3, <3>1
  <2> QED
    BY <2>1, <2>2
<1>7. simulated'[d[1]][d[2]] =
        [v |-> s.v + seen + last, w |-> s.w + won * (seen + last), ended |-> s.ended + won * last]
  <2>1. PICK n \in Node, p \in Play : d = <<n, p>>
    OBVIOUS
  <2>2. Cardinality({i \in 1..Len(path[t]) : path[t][i] = <<n, p>>}) = seen
    BY <2>1 DEF Seen
  <2>3. (outcome[t] # 0 /\ WonBy(zobrist_hash[n] \in BlackKey, outcome[t])) = WonPlay(d, outcome[t])
    BY <2>1 DEF WonPlay
  <2> QED
    BY <2>1, <2>2, <2>3 DEF Record
<1>8. /\ mc_n' = mc_n /\ mc_q' = mc_q
  BY DEF FinishSim
<1>9. /\ s.v \in Nat /\ s.w \in Nat /\ s.ended \in Nat /\ last \in Nat /\ won \in 0..1
  BY DEF StatsTypes
<1>11. /\ won * (seen + last) \in Nat /\ won * last \in Nat /\ won * seen \in Nat
       /\ won * (seen + last) = won * seen + won * last /\ won * seen <= seen
  <2> HIDE DEF seen, last, won
  <2>1. CASE won = 1
    BY <1>4, <1>9, <2>1
  <2>2. CASE won = 0
    BY <1>4, <1>9, <2>2
  <2> QED
    BY <1>9, <2>1, <2>2
<1>14. /\ simulated'[d[1]][d[2]].v = s.v + seen + last
       /\ simulated'[d[1]][d[2]].w = s.w + won * (seen + last)
       /\ simulated'[d[1]][d[2]].ended = s.ended + won * last
       /\ simulated'[d[1]][d[2]] \in [v : Nat, w : Nat, ended : Nat]
  BY <1>4, <1>7, <1>9, <1>11
<1>s. SUFFICES ASSUME StatsOf(d) PROVE StatsOf(d)'
  BY <1>14
<1>10. /\ mc_n[d[1]][d[2]] = PriorVisits + s.v + o
       /\ WinsOf(d) = PriorWins + s.w - s.ended + c
       /\ s.ended <= s.w /\ s.w - s.ended <= s.v
       /\ mc_q[d[1]][d[2]].won * mc_n[d[1]][d[2]] = mc_q[d[1]][d[2]].of * WinsOf(d)
       /\ PriorVisits \in Nat /\ PriorWins \in Nat
  BY <1>s, UctAssumption DEF StatsOf, WinsOf
<1>12. WinsOf(d)' = PriorWins + (s.w + won * (seen + last)) - (s.ended + won * last)
                     + Cardinality(Credited(d)')
  BY <1>7 DEF WinsOf
<1> HIDE DEF s, seen, last, won, o, c
<1>13. WinsOf(d)' = WinsOf(d)
  <2> DEFINE a == won * (seen + last)
             b == won * last
             e == won * seen
  <2>1. WinsOf(d)' = PriorWins + (s.w + a) - (s.ended + b) + (c - e)
    BY <1>6, <1>12
  <2>2. a \in Nat /\ b \in Nat /\ e \in Nat /\ a = e + b
    BY <1>11
  <2> HIDE DEF a, b, e
  <2> QED
    BY <1>3, <1>9, <1>10, <2>1, <2>2 DEF c
<1>15. /\ PriorVisits + s.v + o = PriorVisits + (s.v + seen + last) + (o - (seen + last))
       /\ s.ended + won * last <= s.w + won * (seen + last)
       /\ (s.w + won * (seen + last)) - (s.ended + won * last) <= s.v + seen + last
  <2> DEFINE a == won * (seen + last)
             b == won * last
             e == won * seen
  <2>1. a \in Nat /\ b \in Nat /\ e \in Nat /\ a = e + b /\ e <= seen
    BY <1>11
  <2>2. seen \in Nat /\ last \in Nat /\ o \in Nat /\ PriorVisits \in Nat
    BY <1>3, <1>4, <1>9, <1>10 DEF o
  <2> HIDE DEF a, b, e
  <2>3. s.v \in Nat /\ s.w \in Nat /\ s.ended \in Nat /\ s.ended <= s.w /\ s.w - s.ended <= s.v
    BY <1>9, <1>10
  <2>4. PriorVisits + s.v + o = PriorVisits + (s.v + seen + last) + (o - (seen + last))
    BY <2>2, <2>3
  <2>5. s.ended + b <= s.w + a /\ (s.w + a) - (s.ended + b) <= s.v + seen + last
    BY <2>1, <2>2, <2>3
  <2> QED
    BY <2>4, <2>5 DEF a, b
<1> QED
  BY <1>5, <1>8, <1>10, <1>13, <1>14, <1>15 DEF StatsOf

LEMMA StatsOfFinishSim ==
  ASSUME ~Endless, UctInv, StatsInv, NEW t \in Thread, FinishSim(t)
  PROVE  StatsInv'
<1>1. /\ Record(t) /\ UNCHANGED <<mc_n, mc_q>> /\ UNCHANGED stateVars /\ Tabled' = Tabled
      /\ at' = [at EXCEPT ![t] = "idle"] /\ last_pass' = [last_pass EXCEPT ![t] = NoPlay]
  BY DEF FinishSim, vars, Tabled
<1>2. expanded' = expanded
  BY <1>1 DEF stateVars
<1>3. /\ StatsTypes /\ QualitiesInRange /\ \A u \in Thread : PassOK(u)
      /\ \A m \in Tabled \cap expanded : \A p \in Play : StatsOf(<<m, p>>)
  BY DEF StatsInv
<1>4. ASSUME NEW m \in Node, NEW p \in Play
      PROVE  /\ StatsOf(<<m, p>>) => StatsOf(<<m, p>>)'
             /\ simulated'[m][p] \in [v : Nat, w : Nat, ended : Nat]
  <2>1. PICK d \in Node \X Play : d = <<m, p>>
    OBVIOUS
  <2>2. (StatsOf(d) => StatsOf(d)') /\ simulated'[d[1]][d[2]] \in [v : Nat, w : Nat, ended : Nat]
    BY <1>1, <1>3, StatsOfRecord
  <2>3. d[1] = m /\ d[2] = p
    BY <2>1
  <2>4. (StatsOf(<<m, p>>) => StatsOf(<<m, p>>)')
    BY <2>1, <2>2
  <2> QED
    BY <2>2, <2>3, <2>4
<1>5. simulated' \in [Node -> [Play -> [v : Nat, w : Nat, ended : Nat]]]
  BY <1>1, <1>4 DEF Record
<1>6. StatsTypes' /\ QualitiesInRange'
  BY <1>1, <1>3, <1>5 DEF StatsTypes, QualitiesInRange
<1>7. ASSUME NEW u \in Thread PROVE PassOK(u)'
  BY <1>1, <1>2, <1>3 DEF PassOK, StatsTypes, UctInv, UctTypes
<1>8. ASSUME NEW m \in Tabled' \cap expanded', NEW p \in Play PROVE StatsOf(<<m, p>>)'
  BY <1>1, <1>2, <1>3, <1>4, TabledNodes DEF UctInv
<1> QED
  BY <1>6, <1>7, <1>8 DEF StatsInv

-----------------------------------------------------------------------------
LEMMA StatsInvInit == UctInit => StatsInv
<1> SUFFICES ASSUME UctInit PROVE StatsInv
  OBVIOUS
<1>1. /\ mc_q = [n \in Node |-> [p \in Play |-> NoQuality]]
      /\ simulated = [n \in Node |-> [p \in Play |-> NoSim]]
      /\ last_pass = [t \in Thread |-> NoPlay]
  BY DEF UctInit
<1>2. NoQuality \in [won : Nat, of : Nat \ {0}] /\ NoQuality.won <= NoQuality.of
  BY DEF NoQuality
<1>3. NoSim \in [v : Nat, w : Nat, ended : Nat]
  BY DEF NoSim
<1>4. StatsTypes
  BY <1>1, <1>2, <1>3 DEF StatsTypes
<1>5. QualitiesInRange
  BY <1>1, <1>2 DEF QualitiesInRange
<1>6. \A t \in Thread : PassOK(t)
  BY <1>1 DEF PassOK
<1>7. Tabled = {}
  BY DEF UctInit, Init, Tabled, Colour
<1> QED
  BY <1>4, <1>5, <1>6, <1>7 DEF StatsInv

LEMMA StatsInvNext == ASSUME ~Endless, UctInv, StatsInv, UctNext PROVE StatsInv'
<1>1. ASSUME NEW t \in Thread, Acquire(t) \/ Continue(t) PROVE StatsInv'
  <2>1. CASE StartSim(t) \/ LeaveLoop(t) \/ DepthReached(t) \/ OutOfMemory(t) \/ ReadNext(t)
    BY <2>1, StatsOfQuietSteps
  <2>2. CASE \/ BeginLookup(t) \/ CreateState(t) \/ EndLookup(t) \/ Arrive(t) \/ LockNext(t)
             \/ EndBySuperko(t)
    BY <2>2, StatsOfTableSteps
  <2>3. CASE Expansion(t)
    BY <2>3, StatsOfExpansion
  <2>4. CASE Select(t)
    BY <2>4, StatsOfSelect
  <2>5. CASE Backup(t)
    BY <2>5, StatsOfBackup
  <2>6. CASE FinishSim(t)
    BY <2>6, StatsOfFinishSim
  <2> QED
    BY <1>1, <2>1, <2>2, <2>3, <2>4, <2>5, <2>6 DEF Acquire, Continue
<1>2. CASE ExpandRoot
  BY <1>2, StatsOfExpandRoot
<1>3. CASE Resume \/ EndSearch \/ Tick \/ ChangePosition \/ Evaluate
  BY <1>3, StatsOfMainSteps
<1>4. CASE TurnMaintenance \/ NewMatch
  BY <1>4, StatsOfCleaning
<1> QED
  BY <1>1, <1>2, <1>3, <1>4 DEF UctNext, MainStep, Command

LEMMA StatsInvStutter == ASSUME UctInv, StatsInv, UNCHANGED uctVars PROVE StatsInv'
<1>1. UNCHANGED vars /\ UNCHANGED <<mc_n, mc_q, simulated, last_pass>>
      /\ UNCHANGED <<at, path, last_pass, level, outcome>>
  BY DEF uctVars, simVars, playVars
<1> QED
  BY <1>1, StillBack, QuietKeepsExpanded, QuietStats

\* Once the simulations are over their plays' statistics are exact.
LEMMA NoneLeft ==
  ASSUME UctInv, StatsInv, phase \in {"ponder", "command"}
  PROVE  \A d \in Node \X Play : Ongoing(d) = {} /\ Credited(d) = {}
<1>1. \A t \in Thread : at[t] = "done" /\ path[t] = <<>>
  BY AtRest
<1>2. \A t \in Thread : last_pass[t] = NoPlay
  BY <1>1 DEF StatsInv, PassOK
<1> QED
  BY <1>1, <1>2, NoneOngoing

LEMMA StatsInvExact == ASSUME UctInv, StatsInv PROVE StatsExact
<1>1. \A n \in Node : \A p \in Play : mc_q[n][p].won \in 0..mc_q[n][p].of
  BY DEF StatsInv, StatsTypes, QualitiesInRange
<1>2. ASSUME phase \in {"ponder", "command"}, NEW n \in Tabled \cap expanded,
             NEW p \in Moves(zobrist_hash[n])
      PROVE  LET s == simulated[n][p]
             IN /\ mc_n[n][p] = PriorVisits + s.v
                /\ mc_q[n][p].won * mc_n[n][p] = mc_q[n][p].of * (PriorWins + s.w - s.ended)
  <2>1. n \in Node /\ p \in Play
    BY TabledNodes, GraphAssumption DEF UctInv
  <2>2. Ongoing(<<n, p>>) = {} /\ Credited(<<n, p>>) = {}
    BY <1>2, <2>1, NoneLeft
  <2>3. Cardinality(Ongoing(<<n, p>>)) = 0 /\ Cardinality(Credited(<<n, p>>)) = 0
    BY <2>2, FS_EmptySet
  <2>4. StatsOf(<<n, p>>)
    BY <2>1 DEF StatsInv
  <2>5. /\ simulated[n][p].v \in Nat /\ simulated[n][p].w \in Nat /\ simulated[n][p].ended \in Nat
        /\ PriorVisits \in Nat /\ PriorWins \in Nat
    BY <2>1, UctAssumption DEF StatsInv, StatsTypes
  <2> QED
    BY <2>3, <2>4, <2>5 DEF StatsOf, WinsOf
<1> QED
  BY <1>1, <1>2 DEF StatsExact

\* Statistics are exact once the simulations of a search are over, and qualities are win
\* rates at any time (mcts_selection, uct.c), for any number of threads, states and plays.
\* A search of which the model keeps no history, one that is Endless, is not covered.
THEOREM StatsAreExact == ASSUME ~Endless PROVE UctSpec => []StatsExact
<1>1. UctInv /\ StatsInv /\ [UctNext]_uctVars => StatsInv'
  BY StatsInvNext, StatsInvStutter
<1>2. UctInv /\ StatsInv => StatsExact
  BY StatsInvExact
<1> QED
  BY <1>1, <1>2, StatsInvInit, UctInvariance, PTL DEF UctSpec

=============================================================================
