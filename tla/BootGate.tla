------------------------------ MODULE BootGate ------------------------------
(***************************************************************************)
(* The map of per-name boot locks of one proxy listener (BootGate,          *)
(* crates/adj/src/proxy.rs:52-79) and the requests that use it              *)
(* (ensure_running, 344-345).  The map holds only Weak references to the    *)
(* locks: a lock lives as long as a request keeps its Arc, so the same      *)
(* name gets different lock objects over time, and what must be shown is    *)
(* that it never gets two at once.                                          *)
(***************************************************************************)
EXTENDS Naturals, FiniteSets

CONSTANTS
  Reqs,    \* concurrent requests of one listener
  Names,   \* routing keys
  Locks,   \* identities of Arc<Mutex<()>> allocations
  None

ASSUME GateNoneAssumption == None \notin Names \cup Locks
ASSUME GateReqsAssumption == IsFiniteSet(Reqs)

VARIABLES
  map,     \* the Weak reference stored under each name, or None
  name,    \* the name a request boots, or None
  arc,     \* the lock a request keeps alive with its Arc, or None
  guard    \* the requests that hold the guard of their lock

gateVars == <<map, name, arc, guard>>

GateTypeOK ==
  /\ map \in [Names -> Locks \cup {None}]
  /\ name \in [Reqs -> Names \cup {None}]
  /\ arc \in [Reqs -> Locks \cup {None}]
  /\ guard \in SUBSET Reqs

GateInit ==
  /\ map = [n \in Names |-> None]
  /\ name = [r \in Reqs |-> None]
  /\ arc = [r \in Reqs |-> None]
  /\ guard = {}

(* The strong count of a lock is not zero. *)
Alive(l) == \E r \in Reqs : arc[r] = l

(* Mutant of Kept: no `retain`, dead entries stay. *)
KeptAll == [n \in Names |-> map[n]]

(* The entries that survive lock_for's `retain`. *)
Kept == [n \in Names |-> IF map[n] # None /\ Alive(map[n]) THEN map[n] ELSE None]

(* An allocation is new when neither an Arc nor a Weak refers to it.        *)
NewLock(l) == ~Alive(l) /\ \A n \in Names : map[n] # l

(* Mutant of LockFor: the name's Weak is replaced, never upgraded. *)
LockForAnew(r, n) ==
  /\ arc[r] = None
  /\ \E l \in Locks :
       /\ NewLock(l)
       /\ map' = [Kept EXCEPT ![n] = l]
       /\ arc' = [arc EXCEPT ![r] = l]
  /\ name' = [name EXCEPT ![r] = n]
  /\ UNCHANGED guard

(* lock_for: drop dead entries, then upgrade the name's Weak or replace it. *)
LockFor(r, n) ==
  /\ arc[r] = None
  /\ \E l \in Locks :
       /\ IF Kept[n] # None THEN l = Kept[n] ELSE NewLock(l)
       /\ map' = [Kept EXCEPT ![n] = l]
       /\ arc' = [arc EXCEPT ![r] = l]
  /\ name' = [name EXCEPT ![r] = n]
  /\ UNCHANGED guard

(* Mutant of Acquire: one mutex for all names. *)
AcquireGlobal(r) ==
  /\ arc[r] # None /\ guard = {}
  /\ guard' = {r}
  /\ UNCHANGED <<map, name, arc>>

(* name_lock.lock().await: the mutex of this very allocation is free.       *)
Acquire(r) ==
  /\ arc[r] # None /\ r \notin guard
  /\ \A o \in guard : arc[o] # arc[r]
  /\ guard' = guard \cup {r}
  /\ UNCHANGED <<map, name, arc>>

(* ensure_running returns, or its future is dropped at any of its awaits:   *)
(* the guard and then the Arc go, and the Weak stays in the map, dead or    *)
(* not, until the next lock_for.                                            *)
Leave(r) ==
  /\ arc[r] # None
  /\ guard' = guard \ {r}
  /\ name' = [name EXCEPT ![r] = None]
  /\ arc' = [arc EXCEPT ![r] = None]
  /\ UNCHANGED map

GateNext ==
  \E r \in Reqs : (\E n \in Names : LockFor(r, n)) \/ Acquire(r) \/ Leave(r)

GateSpec == GateInit /\ [][GateNext]_gateVars

(* tokio's Mutex serves its waiters in order. *)
GateFairSpec == GateSpec /\ \A r \in Reqs : SF_gateVars(Acquire(r))

-----------------------------------------------------------------------------
(* Whatever has come and gone, all requests for a name share one lock, the  *)
(* one its entry refers to (lock_for must not hand out a second lock while  *)
(* a request still keeps, waits for or holds the first).                    *)
OneLockPerName ==
  \A r, o \in Reqs : arc[r] # None /\ arc[o] # None =>
    (name[r] = name[o] <=> arc[r] = arc[o])

(* "the map is bounded by in-flight boots rather than by every name ever    *)
(* requested" (proxy.rs:56-58): never more entries than requests at once.   *)
MapBounded == Cardinality({n \in Names : map[n] # None}) <= Cardinality(Reqs)

GateWaiting ==
  [r \in Reqs |-> IF r \in guard THEN None ELSE name[r]]
GateHolding ==
  [r \in Reqs |-> IF r \in guard THEN name[r] ELSE None]

Flight == INSTANCE SingleFlight WITH waiting <- GateWaiting, holding <- GateHolding

(* Requests for one name hold the gate one at a time, and nobody waits for  *)
(* a request for another name.                                              *)
ImplementsFlight == Flight!FlightSpec

(* And every waiter gets in once its predecessors leave. *)
ImplementsFairFlight == Flight!FlightFairSpec
=============================================================================
