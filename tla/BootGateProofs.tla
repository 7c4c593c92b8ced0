--------------------------- MODULE BootGateProofs ---------------------------
(***************************************************************************)
(* Proofs about BootGate, for any finite set of requests and any sets of    *)
(* names and locks: one lock per name at a time, a bounded map, and the     *)
(* safety part of SingleFlight.                                             *)
(***************************************************************************)
EXTENDS BootGate, FiniteSetTheorems, TLAPS

(* A request keeps the lock that the entry of its name refers to, entries   *)
(* refer to different locks, and the guards are of different locks.         *)
GateInv ==
  /\ GateTypeOK
  /\ \A r \in Reqs : /\ arc[r] = None <=> name[r] = None
                     /\ arc[r] # None => map[name[r]] = arc[r]
  /\ \A m, n \in Names : map[m] # None /\ map[m] = map[n] => m = n
  /\ \A r \in guard : arc[r] # None
  /\ \A r, o \in guard : arc[r] = arc[o] => r = o

LEMMA InitGateInv == GateInit => GateInv
BY DEF GateInit, GateInv, GateTypeOK

LEMMA LockForGateInv ==
  ASSUME GateInv, NEW r \in Reqs, NEW n \in Names, LockFor(r, n)
  PROVE  GateInv'
<1> USE GateNoneAssumption
<1>1. PICK l \in Locks :
        /\ IF Kept[n] # None THEN l = Kept[n] ELSE NewLock(l)
        /\ map' = [Kept EXCEPT ![n] = l]
        /\ arc' = [arc EXCEPT ![r] = l]
  BY DEF LockFor
<1>2. /\ name' = [name EXCEPT ![r] = n] /\ guard' = guard /\ arc[r] = None
      /\ r \notin guard
  BY DEF LockFor, GateInv
<1>3. /\ Kept \in [Names -> Locks \cup {None}]
      /\ \A m \in Names : /\ Kept[m] # None => Kept[m] = map[m] /\ Alive(map[m])
                          /\ Alive(map[m]) /\ map[m] # None => Kept[m] = map[m]
  BY DEF Kept, GateInv, GateTypeOK
<1>4. GateTypeOK'
  BY <1>1, <1>2, <1>3 DEF GateInv, GateTypeOK
<1>5. \A o \in Reqs : arc[o] # None =>
        /\ o # r /\ name[o] \in Names
        /\ Kept[name[o]] = arc[o] /\ map[name[o]] = arc[o]
        /\ map'[name[o]] = arc[o]
  <2> SUFFICES ASSUME NEW o \in Reqs, arc[o] # None
               PROVE  /\ o # r /\ name[o] \in Names
                      /\ Kept[name[o]] = arc[o] /\ map[name[o]] = arc[o]
                      /\ map'[name[o]] = arc[o]
    OBVIOUS
  <2>1. o # r /\ name[o] \in Names /\ map[name[o]] = arc[o]
    BY <1>2 DEF GateInv, GateTypeOK
  <2>2. Kept[name[o]] = arc[o]
    BY <1>3, <2>1 DEF Alive
  <2>3. QED
    BY <1>1, <1>3, <2>1, <2>2
<1>6. \A o \in Reqs : /\ arc'[o] = None <=> name'[o] = None
                      /\ arc'[o] # None => map'[name'[o]] = arc'[o]
  BY <1>1, <1>2, <1>3, <1>5 DEF GateInv, GateTypeOK
<1>7. \A m, k \in Names : map'[m] # None /\ map'[m] = map'[k] => m = k
  <2>1. \A m \in Names : m # n /\ map'[m] # None => map'[m] = map[m] /\ Alive(map[m])
    BY <1>1, <1>3
  <2>2. map'[n] = l
    BY <1>1, <1>3
  <2>3. \A m \in Names : m # n /\ map'[m] # None => map'[m] # l
    BY <1>1, <1>3, <2>1 DEF NewLock, GateInv
  <2>4. QED
    BY <1>1, <2>1, <2>2, <2>3 DEF GateInv
<1>8. /\ \A o \in guard' : arc'[o] # None
      /\ \A o, u \in guard' : arc'[o] = arc'[u] => o = u
  BY <1>1, <1>2 DEF GateInv, GateTypeOK
<1>9. QED
  BY <1>4, <1>6, <1>7, <1>8 DEF GateInv

LEMMA AcquireGateInv ==
  ASSUME GateInv, NEW r \in Reqs, Acquire(r)
  PROVE  GateInv'
BY DEF GateInv, GateTypeOK, Acquire

LEMMA LeaveGateInv ==
  ASSUME GateInv, NEW r \in Reqs, Leave(r)
  PROVE  GateInv'
BY DEF GateInv, GateTypeOK, Leave

LEMMA GateInvHolds == GateSpec => []GateInv
<1>1. GateInv /\ [GateNext]_gateVars => GateInv'
  <2> SUFFICES ASSUME GateInv, [GateNext]_gateVars PROVE GateInv'
    OBVIOUS
  <2>1. CASE GateNext
    BY <2>1, LockForGateInv, AcquireGateInv, LeaveGateInv DEF GateNext
  <2>2. CASE UNCHANGED gateVars
    BY <2>2 DEF gateVars, GateInv, GateTypeOK
  <2>3. QED
    BY <2>1, <2>2
<1>2. QED
  BY <1>1, InitGateInv, PTL DEF GateSpec

(* The map, the Arcs and the guards keep their types (proxy.rs:52-79), for  *)
(* any names, locks and requests.                                           *)
THEOREM GateTypeCorrect == GateSpec => []GateTypeOK
<1>1. GateInv => GateTypeOK
  BY DEF GateInv
<1>2. QED
  BY <1>1, GateInvHolds, PTL

(* lock_for never hands out a second lock for a name while a request still  *)
(* keeps the first.                                                         *)
THEOREM OneLockPerNameHolds == GateSpec => []OneLockPerName
<1>1. GateInv => OneLockPerName
  BY GateNoneAssumption DEF GateInv, GateTypeOK, OneLockPerName
<1>2. QED
  BY <1>1, GateInvHolds, PTL

-----------------------------------------------------------------------------
LEMMA LockForBounds ==
  ASSUME GateInv, NEW r \in Reqs, NEW n \in Names, LockFor(r, n)
  PROVE  MapBounded'
<1> DEFINE E == {m \in Names : map'[m] # None}
           f == [m \in E |-> CHOOSE o \in Reqs : name'[o] = m]
<1>1. \A m \in E : \E o \in Reqs : name'[o] = m
  <2> SUFFICES ASSUME NEW m \in E PROVE \E o \in Reqs : name'[o] = m
    OBVIOUS
  <2>1. CASE m = n
    BY <2>1 DEF LockFor, GateInv, GateTypeOK
  <2>2. CASE m # n
    <3>1. Kept[m] # None
      BY <2>2 DEF LockFor, Kept
    <3>2. map[m] # None /\ Alive(map[m])
      BY <3>1 DEF Kept
    <3>3. PICK o \in Reqs : arc[o] = map[m]
      BY <3>2 DEF Alive
    <3>4. name[o] = m /\ o # r
      BY <3>2, <3>3, GateNoneAssumption DEF GateInv, GateTypeOK, LockFor
    <3>5. QED
      BY <3>4 DEF LockFor, GateInv, GateTypeOK
  <2>3. QED
    BY <2>1, <2>2
<1>2. f \in Injection(E, Reqs)
  BY <1>1 DEF Injection, IsInjective
<1>3. Cardinality(E) <= Cardinality(Reqs)
  BY <1>2, FS_Injection, GateReqsAssumption
<1>4. QED
  BY <1>3 DEF MapBounded

(* The map never holds more names than there are requests at a time, "rather *)
(* than every name ever requested" (proxy.rs:56-58).                        *)
THEOREM MapBoundedHolds == GateSpec => []MapBounded
<1>1. GateInit => MapBounded
  <2> SUFFICES ASSUME GateInit PROVE MapBounded
    OBVIOUS
  <2>1. {n \in Names : map[n] # None} = {}
    BY DEF GateInit
  <2>2. Cardinality({}) = 0 /\ Cardinality(Reqs) \in Nat
    BY FS_EmptySet, FS_CardinalityType, GateReqsAssumption
  <2>3. QED
    BY <2>1, <2>2 DEF MapBounded
<1>2. GateInv /\ MapBounded /\ [GateNext]_gateVars => MapBounded'
  <2> SUFFICES ASSUME GateInv, MapBounded, [GateNext]_gateVars PROVE MapBounded'
    OBVIOUS
  <2>1. CASE \E r \in Reqs, n \in Names : LockFor(r, n)
    BY <2>1, LockForBounds
  <2>2. CASE map' = map
    BY <2>2 DEF MapBounded
  <2>3. QED
    BY <2>1, <2>2 DEF GateNext, gateVars, Acquire, Leave
<1>3. QED
  BY <1>1, <1>2, GateInvHolds, PTL DEF GateSpec

-----------------------------------------------------------------------------
LEMMA FlightInitial == GateInit => Flight!FlightInit
BY DEF GateInit, Flight!FlightInit, GateWaiting, GateHolding

LEMMA FlightStep ==
  GateInv /\ [GateNext]_gateVars => [Flight!FlightNext]_(Flight!flightVars)
<1> SUFFICES ASSUME GateInv, [GateNext]_gateVars
             PROVE  Flight!FlightNext \/ UNCHANGED <<GateWaiting, GateHolding>>
  BY DEF Flight!flightVars
<1> USE GateNoneAssumption
<1>1. ASSUME NEW r \in Reqs, NEW n \in Names, LockFor(r, n)
      PROVE  Flight!Knock(r, n)
  <2>1. r \notin guard /\ name[r] = None
    BY <1>1 DEF LockFor, GateInv
  <2>2. GateWaiting' = [GateWaiting EXCEPT ![r] = n]
    BY <1>1, <2>1 DEF LockFor, GateWaiting, GateInv, GateTypeOK
  <2>3. GateHolding' = GateHolding
    BY <1>1, <2>1 DEF LockFor, GateHolding, GateInv, GateTypeOK
  <2>4. QED
    BY <2>1, <2>2, <2>3 DEF Flight!Knock, GateWaiting, GateHolding
<1>2. ASSUME NEW r \in Reqs, Acquire(r)
      PROVE  Flight!Enter(r, name[r]) /\ name[r] \in Names
  <2>1. name[r] \in Names /\ r \notin guard
    BY <1>2 DEF Acquire, GateInv, GateTypeOK
  <2>2. \A o \in guard : name[o] # name[r]
    BY <1>2 DEF Acquire, GateInv, GateTypeOK
  <2>3. GateWaiting' = [GateWaiting EXCEPT ![r] = None]
    BY <1>2 DEF Acquire, GateWaiting
  <2>4. GateHolding' = [GateHolding EXCEPT ![r] = name[r]]
    BY <1>2 DEF Acquire, GateHolding
  <2>5. \A o \in Reqs : GateHolding[o] # name[r]
    BY <2>1, <2>2 DEF GateHolding
  <2>6. GateWaiting[r] = name[r]
    BY <2>1 DEF GateWaiting
  <2>7. QED
    BY <2>1, <2>3, <2>4, <2>5, <2>6 DEF Flight!Enter
<1>3. ASSUME NEW r \in Reqs, Leave(r)
      PROVE  Flight!Quit(r)
  <2>1. GateWaiting' = [GateWaiting EXCEPT ![r] = None]
    BY <1>3 DEF Leave, GateWaiting, GateInv, GateTypeOK
  <2>2. GateHolding' = [GateHolding EXCEPT ![r] = None]
    BY <1>3 DEF Leave, GateHolding, GateInv, GateTypeOK
  <2>3. QED
    BY <2>1, <2>2 DEF Flight!Quit
<1>4. CASE UNCHANGED gateVars
  BY <1>4 DEF gateVars, GateWaiting, GateHolding
<1>5. QED
  BY <1>1, <1>2, <1>3, <1>4 DEF GateNext, Flight!FlightNext

(* Requests for one name hold the gate one at a time, although the locks    *)
(* behind the name come and go with the requests that keep them.            *)
THEOREM GateImplementsFlight == GateSpec => ImplementsFlight
BY FlightInitial, FlightStep, GateInvHolds, PTL
   DEF GateSpec, ImplementsFlight, Flight!FlightSpec
=============================================================================
