---------------------------- MODULE SingleFlight ----------------------------
(***************************************************************************)
(* What the boot gate promises the requests of one listener: boots of one   *)
(* app are serialized, and boots of different apps do not wait for each     *)
(* other.  "The first holder runs the boot; later holders find the app      *)
(* Running" (crates/adj/src/proxy.rs:336-338).                              *)
(***************************************************************************)
CONSTANTS Reqs, Names, None

VARIABLES
  waiting,   \* waiting[r]: the name whose gate request r waits for, or None
  holding    \* holding[r]: the name whose gate request r holds, or None

flightVars == <<waiting, holding>>

FlightInit ==
  /\ waiting = [r \in Reqs |-> None]
  /\ holding = [r \in Reqs |-> None]

Knock(r, n) ==
  /\ waiting[r] = None /\ holding[r] = None
  /\ waiting' = [waiting EXCEPT ![r] = n]
  /\ UNCHANGED holding

(* Only the other requests for the same name keep a request waiting.        *)
Enter(r, n) ==
  /\ waiting[r] = n
  /\ \A o \in Reqs : holding[o] # n
  /\ waiting' = [waiting EXCEPT ![r] = None]
  /\ holding' = [holding EXCEPT ![r] = n]

(* The boot is over, or the client hung up while waiting or booting.        *)
Quit(r) ==
  /\ waiting' = [waiting EXCEPT ![r] = None]
  /\ holding' = [holding EXCEPT ![r] = None]

FlightNext ==
  \E r \in Reqs : (\E n \in Names : Knock(r, n) \/ Enter(r, n)) \/ Quit(r)

FlightSpec == FlightInit /\ [][FlightNext]_flightVars

(* A request that waits gets in or gives up, however many others come.      *)
FlightFairSpec ==
  FlightSpec /\ \A r \in Reqs : SF_flightVars(\E n \in Names : Enter(r, n))
=============================================================================
