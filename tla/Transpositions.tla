--------------------------- MODULE Transpositions ---------------------------
(***************************************************************************)
(* The transpositions table of matilda (src/src/transpositions.c): two     *)
(* tables of game states, one per player to move, a pool of released       *)
(* states, and the marking that frees the states out of reach of the       *)
(* current position between two turns.                                     *)
(*                                                                         *)
(* Threads look states up concurrently.  Each table has one lock, held     *)
(* from the search for a state until the state's own lock is held; the     *)
(* pool has a lock of its own, held for the pool's update only.  The spec  *)
(* is the table under its most general client: a thread may look up any    *)
(* key, lock any state of the tables, write the next_stats pointer of any  *)
(* play of theirs, and expand the state it has locked.  Uct.tla composes   *)
(* this module with the client matilda has.                                *)
(*                                                                         *)
(* Abstracted: the bucket chains (a table is a set of states, of which at  *)
(* most one has a given key: see UniqueStates), the board and the hash (a  *)
(* key stands for the stones, the last stone eaten or the pass, and the    *)
(* player to move, which is all find_state compares).                      *)
(***************************************************************************)
EXTENDS Integers, FiniteSets

CONSTANTS
  Thread,     \* OpenMP threads
  Node,       \* the addresses malloc can give a tt_stats; bounds the pool
  Key,        \* the positions looked up
  BlackKey,   \* those of them with black to play
  Play,       \* the plays of a position
  Null,       \* the NULL pointer, and the owner of a free lock
  MaxStates,  \* max_allocated_states
  MarkMod     \* 2 ^ width of maintenance_mark, 256 for the code's u8

ASSUME NodeAssumption == IsFiniteSet(Node) /\ Null \notin Node
ASSUME ThreadAssumption == IsFiniteSet(Thread) /\ Null \notin Thread
ASSUME KeyAssumption == BlackKey \subseteq Key /\ Key # {}
ASSUME MaxStatesAssumption == MaxStates \in Nat
ASSUME MarkAssumption == MarkMod \in Nat /\ MarkMod > 1

VARIABLES
  table,             \* b_stats_table and w_stats_table
  freed_nodes,       \* the states released and not used again yet
  states_in_use,
  allocated_states,
  maintenance_mark,
  zobrist_hash,      \* the key of each state
  mark,              \* the maintenance_mark of each state
  expanded,          \* states with plays_count > 0, so whose plays are read
  next_stats,        \* next_stats of each play of each state
  table_lock,        \* owner of b_table_lock and w_table_lock
  lock,              \* owner of the lock of each state
  pc,                \* how far each thread is in a lookup
  wanted,            \* the key each thread looks up
  on_root,           \* whether the lookup is a tt_lookup_create
  ret                \* the state each thread creates, waits for or holds

poolVars   == <<freed_nodes, states_in_use, allocated_states>>
stateVars  == <<zobrist_hash, mark, expanded, next_stats>>
lookupVars == <<pc, wanted, on_root, ret>>
vars == <<table, poolVars, maintenance_mark, stateVars, table_lock, lock,
          lookupVars>>

-----------------------------------------------------------------------------
Colour == {"black", "white"}

ColourOf(k) == IF k \in BlackKey THEN "black" ELSE "white"

Tabled == table["black"] \cup table["white"]

AnyKey == CHOOSE k \in Key : TRUE

\* The states taken from the pool and not put in a table yet.
InFlight == {n \in Node : \E t \in Thread : pc[t] = "insert" /\ ret[t] = n}

Fresh == Node \ (Tabled \cup InFlight \cup freed_nodes)

\* find_state, find_state2: the state of the key in the table of its colour.
find_state(k) == {n \in table[ColourOf(k)] : zobrist_hash[n] = k}

Init ==
  /\ table = [c \in Colour |-> {}]
  /\ freed_nodes = {}
  /\ states_in_use = 0
  /\ allocated_states = 0
  /\ maintenance_mark = 0
  /\ zobrist_hash = [n \in Node |-> AnyKey]
  /\ mark = [n \in Node |-> 0]
  /\ expanded = {}
  /\ next_stats = [n \in Node |-> [p \in Play |-> Null]]
  /\ table_lock = [c \in Colour |-> Null]
  /\ lock = [n \in Node |-> Null]
  /\ pc = [t \in Thread |-> "idle"]
  /\ wanted = [t \in Thread |-> AnyKey]
  /\ on_root = [t \in Thread |-> FALSE]
  /\ ret = [t \in Thread |-> Null]

-----------------------------------------------------------------------------
(***************************************************************************)
(* tt_lookup_null and tt_lookup_create.                                    *)
(***************************************************************************)
TableUnguarded(c) == TRUE

TableFree(c) == table_lock[c] = Null

StateUnguarded(n) == TRUE

StateFree(n) == lock[n] = Null

FullOffByOne == states_in_use > MaxStates

\* The limit that makes tt_lookup_null answer NULL.  states_in_use is read
\* under the table's lock, not the pool's: see LookupOvershoot.
Full == states_in_use >= MaxStates

FindFrom(t, k, root, step) ==
  /\ pc[t] = "idle"
  /\ table_lock' = [table_lock EXCEPT ![ColourOf(k)] = t]
  /\ pc' = [pc EXCEPT ![t] = step]
  /\ wanted' = [wanted EXCEPT ![t] = k]
  /\ on_root' = [on_root EXCEPT ![t] = root]
  /\ UNCHANGED <<table, poolVars, maintenance_mark, stateVars, lock>>

\* The key is in the table: wait for the lock of its state.
LookupHit(t, k, root) ==
  /\ TableFree(ColourOf(k))
  /\ \E n \in find_state(k) : ret' = [ret EXCEPT ![t] = n]
  /\ FindFrom(t, k, root, "found")

\* It is not, and a state is to be created: always for tt_lookup_create, if
\* the limit on states is not met for tt_lookup_null.
LookupMiss(t, k, root) ==
  /\ TableFree(ColourOf(k))
  /\ find_state(k) = {}
  /\ root \/ ~Full
  /\ UNCHANGED ret
  /\ FindFrom(t, k, root, "create")

\* tt_lookup_null returns NULL: the lock is set and unset, nothing changes.
LookupNULL(t, k) ==
  /\ pc[t] = "idle"
  /\ TableFree(ColourOf(k))
  /\ find_state(k) = {}
  /\ Full
  /\ UNCHANGED vars

\* The fields create_state sets in a state, new or used before; the others
\* keep the values of the state's former use.
SetNewStateLeavesMark(n, k) ==
  /\ zobrist_hash' = [zobrist_hash EXCEPT ![n] = k]
  /\ expanded' = expanded \ {n}
  /\ UNCHANGED <<mark, next_stats>>

SetNewState(n, k) ==
  /\ zobrist_hash' = [zobrist_hash EXCEPT ![n] = k]
  /\ mark' = [mark EXCEPT ![n] = maintenance_mark]
  /\ expanded' = expanded \ {n}
  /\ UNCHANGED next_stats

\* create_state, under freed_nodes_lock: a released state is preferred to
\* another malloc.
create_state(t) ==
  /\ pc[t] = "create"
  /\ \E n \in IF freed_nodes # {} THEN freed_nodes ELSE Fresh :
       /\ freed_nodes' = freed_nodes \ {n}
       /\ allocated_states' = IF freed_nodes # {} THEN allocated_states
                                                  ELSE allocated_states + 1
       /\ SetNewState(n, wanted[t])
       /\ ret' = [ret EXCEPT ![t] = n]
  /\ states_in_use' = states_in_use + 1
  /\ pc' = [pc EXCEPT ![t] = "insert"]
  /\ UNCHANGED <<table, maintenance_mark, table_lock, lock, wanted, on_root>>

\* The new state is locked, put first in its bucket, and the table unlocked.
Insert(t) ==
  LET c == ColourOf(wanted[t]) IN
  /\ pc[t] = "insert"
  /\ StateFree(ret[t])
  /\ lock' = [lock EXCEPT ![ret[t]] = t]
  /\ table' = [table EXCEPT ![c] = @ \cup {ret[t]}]
  /\ table_lock' = [table_lock EXCEPT ![c] = Null]
  /\ pc' = [pc EXCEPT ![t] = "held"]
  /\ UNCHANGED <<poolVars, maintenance_mark, stateVars, wanted, on_root, ret>>

\* The state found is locked, and only then the table unlocked.
LockFound(t) ==
  /\ pc[t] = "found"
  /\ StateFree(ret[t])
  /\ lock' = [lock EXCEPT ![ret[t]] = t]
  /\ table_lock' = [table_lock EXCEPT ![ColourOf(wanted[t])] = Null]
  /\ pc' = [pc EXCEPT ![t] = "held"]
  /\ UNCHANGED <<table, poolVars, maintenance_mark, stateVars, wanted,
                 on_root, ret>>

-----------------------------------------------------------------------------
(***************************************************************************)
(* The client's steps on the states it was given.                          *)
(***************************************************************************)
\* omp_set_lock on a state known from a next_stats pointer.
SetLock(t, n) ==
  /\ pc[t] = "idle"
  /\ StateFree(n)
  /\ lock' = [lock EXCEPT ![n] = t]
  /\ ret' = [ret EXCEPT ![t] = n]
  /\ pc' = [pc EXCEPT ![t] = "held"]
  /\ UNCHANGED <<table, poolVars, maintenance_mark, stateVars, table_lock,
                 wanted, on_root>>

\* The state held becomes what play p of state n leads to.
SetNext(t, n, p) ==
  /\ pc[t] = "held"
  /\ next_stats' = [next_stats EXCEPT ![n][p] = ret[t]]
  /\ UNCHANGED <<table, poolVars, maintenance_mark, zobrist_hash, mark,
                 expanded, table_lock, lock, lookupVars>>

\* The state held is unlocked, and what the client remembers of the lookup is
\* forgotten.
Release(t) ==
  /\ pc[t] = "held"
  /\ lock' = [lock EXCEPT ![ret[t]] = Null]
  /\ pc' = [pc EXCEPT ![t] = "idle"]
  /\ wanted' = [wanted EXCEPT ![t] = AnyKey]
  /\ on_root' = [on_root EXCEPT ![t] = FALSE]
  /\ ret' = [ret EXCEPT ![t] = Null]
  /\ UNCHANGED <<table, poolVars, maintenance_mark, table_lock>>

UnsetLock(t) == Release(t) /\ UNCHANGED stateVars

\* The plays init_new_state adds start with no next_stats.
ResetNextForgotten(n) == UNCHANGED next_stats

ResetNext(n) == next_stats' = [next_stats EXCEPT ![n] = [p \in Play |-> Null]]

\* init_new_state on the state held, then its unlocking.
ExpandAndUnset(t) ==
  /\ Release(t)
  /\ ResetNext(ret[t])
  /\ expanded' = expanded \cup {ret[t]}
  /\ UNCHANGED <<zobrist_hash, mark>>

-----------------------------------------------------------------------------
(***************************************************************************)
(* Maintenance.  "Not thread-safe": called outside the parallel regions.   *)
(***************************************************************************)
Quiescent == \A t \in Thread : pc[t] = "idle"

\* release_state for every state of the set: states leave the tables, and
\* their lists in the table, for the pool.
ReleaseUncounted(S) ==
  /\ table' = [c \in Colour |-> table[c] \ S]
  /\ freed_nodes' = freed_nodes \cup S
  /\ UNCHANGED states_in_use

ReleaseStates(S) ==
  /\ table' = [c \in Colour |-> table[c] \ S]
  /\ freed_nodes' = freed_nodes \cup S
  /\ states_in_use' = states_in_use - Cardinality(S)

\* What mark_states_for_keeping follows from a state it marks with m: the
\* next_stats of its plays that do not carry m already.
Followed(n, m) ==
  IF n \in expanded
    THEN {s \in Node : mark[s] # m /\ \E p \in Play : next_stats[n][p] = s}
    ELSE {}

MarkedOneLevel(root, m) == {root} \cup Followed(root, m)

\* The states mark_states_for_keeping(root) marks: the least set with the
\* root that what it follows does not leave.
Marked(root, m) ==
  {n \in Node : \A S \in SUBSET Node :
      (root \in S /\ \A s \in S : Followed(s, m) \subseteq S) => n \in S}

\* ++maintenance_mark on the code's unsigned 8 bits.
NextMarkUnbounded == maintenance_mark + 1

NextMark == (maintenance_mark + 1) % MarkMod

tt_clean_all ==
  /\ Quiescent
  /\ maintenance_mark' = 0
  /\ ReleaseStates(Tabled)
  /\ UNCHANGED <<allocated_states, stateVars, table_lock, lock, lookupVars>>

\* The states that do not carry the new mark once marking is done.
tt_clean_unreachable(k) ==
  /\ Quiescent
  /\ \/ /\ find_state(k) = {}
        /\ tt_clean_all
     \/ \E root \in find_state(k) :
          LET kept == Marked(root, NextMark) IN
          /\ maintenance_mark' = NextMark
          /\ mark' = [n \in Node |-> IF n \in kept THEN NextMark ELSE mark[n]]
          /\ ReleaseStates({n \in Tabled : mark'[n] # NextMark})
          /\ UNCHANGED <<allocated_states, zobrist_hash, expanded, next_stats,
                         table_lock, lock, lookupVars>>

-----------------------------------------------------------------------------
\* tt_lookup_create is called outside the parallel regions: no other thread is
\* at work from its call to the unlocking of the state it returns.
RootAlone == \A t \in Thread : ~on_root[t]

Lookup(t, k, root) ==
  /\ RootAlone
  /\ root => Quiescent
  /\ LookupHit(t, k, root) \/ LookupMiss(t, k, root)

Client(t) ==
  \/ RootAlone /\ \E n \in Tabled : SetLock(t, n)
  \/ \E n \in Tabled \cap expanded, p \in Play :
        RootAlone /\ SetNext(t, n, p)
  \/ UnsetLock(t)
  \/ ExpandAndUnset(t)

Step(t) ==
  \/ \E k \in Key, root \in BOOLEAN : Lookup(t, k, root)
  \/ create_state(t)
  \/ Insert(t)
  \/ LockFound(t)
  \/ Client(t)

Maintenance == tt_clean_all \/ \E k \in Key : tt_clean_unreachable(k)

Next == (\E t \in Thread : Step(t)) \/ Maintenance

Spec == Init /\ [][Next]_vars

-----------------------------------------------------------------------------
(***************************************************************************)
(* Properties.                                                             *)
(***************************************************************************)
\* Every variable keeps its type; in particular the mark stays in 8 bits and
\* the states counted in use are as many as a natural number can be.
TypeOK ==
  /\ table \in [Colour -> SUBSET Node]
  /\ freed_nodes \in SUBSET Node
  /\ states_in_use \in Nat
  /\ allocated_states \in Nat
  /\ maintenance_mark \in 0..(MarkMod - 1)
  /\ zobrist_hash \in [Node -> Key]
  /\ mark \in [Node -> 0..(MarkMod - 1)]
  /\ expanded \in SUBSET Node
  /\ next_stats \in [Node -> [Play -> Node \cup {Null}]]
  /\ table_lock \in [Colour -> Thread \cup {Null}]
  /\ lock \in [Node -> Thread \cup {Null}]
  /\ pc \in [Thread -> {"idle", "create", "insert", "found", "held"}]
  /\ wanted \in [Thread -> Key]
  /\ on_root \in [Thread -> BOOLEAN]
  /\ ret \in [Thread -> Node \cup {Null}]

\* Two threads that look up the same new position at the same time get the
\* same state: no table ever has two states of one key (tt_lookup_null keeps
\* the table locked from its search to its insertion).
UniqueStates ==
  \A c \in Colour : \A m, n \in table[c] :
    zobrist_hash[m] = zobrist_hash[n] => m = n

\* The counters agree with the structures: states_in_use counts the states of
\* the tables and those on their way there, allocated_states these and the
\* released ones, and no state is in two of these places, or in both tables.
PoolAccounting ==
  /\ states_in_use = Cardinality(Tabled \cup InFlight)
  /\ allocated_states = Cardinality(Tabled \cup InFlight \cup freed_nodes)
  /\ table["black"] \cap table["white"] = {}
  /\ Tabled \cap InFlight = {}
  /\ freed_nodes \cap (Tabled \cup InFlight) = {}

\* A next_stats the search can follow never points to a released state, nor to
\* one used again for another position: the search reads it with no lock and
\* no check (uct.c:227).
NoDanglingStats ==
  \A n \in Tabled \cap expanded : \A p \in Play :
    next_stats[n][p] # Null => next_stats[n][p] \in Tabled

\* Every state of the tables carries the current mark, which is why the 8-bit
\* mark may "cycle eventually but its not a big deal" (transpositions.c:50):
\* the mark taken next is on none of them.
MarksCurrent ==
  \A n \in Tabled \cup InFlight : mark[n] = maintenance_mark

\* Locks are held by who the lookups say: a state's lock by the thread it was
\* returned to, never on a released state; a table's lock by the thread inside
\* a lookup of its colour.  No thread that holds a state waits for a table.
LockDiscipline ==
  /\ \A t \in Thread : pc[t] = "held" <=> \E n \in Node : lock[n] = t
  /\ \A n \in Node : lock[n] # Null => n \in Tabled /\ ret[lock[n]] = n
  /\ \A t \in Thread : \A c \in Colour :
       table_lock[c] = t <=> /\ pc[t] \in {"create", "insert", "found"}
                             /\ ColourOf(wanted[t]) = c

\* The limit on states is read outside the lock that guards the count, so two
\* lookups, one of each colour, can pass it together; no more than that: when
\* tt_lookup_null creates a state the count is at most the limit.
LookupOvershoot ==
  \A t \in Thread : pc[t] = "create" /\ ~on_root[t] => states_in_use <= MaxStates

\* What the cleaning between turns keeps is exactly what can be reached from
\* the current position, whatever marks the states have.
Reachable(root) ==
  {n \in Node : \A S \in SUBSET Node :
      (root \in S /\ \A s \in S \cap expanded : \A p \in Play :
          next_stats[s][p] \in S \cup {Null}) => n \in S}

CleansUnreachable ==
  [][\A k \in Key :
       tt_clean_unreachable(k) =>
         \/ find_state(k) = {} /\ Tabled' = {}
         \/ \E top \in find_state(k) : Tabled' = Reachable(top)]_vars
=============================================================================
