-------------------------------- MODULE Proxy --------------------------------
(***************************************************************************)
(* The reverse proxy (crates/adj/src/proxy.rs) over the Supervisor: each    *)
(* request passes the boot gate of its listener, boots its app if it must,  *)
(* waits until the app listens (readiness.rs), stamps the idle tracker and  *)
(* forwards.  Beside it run what also drives the supervisor: `adj up`, the  *)
(* stops of `adj down` and of the idle scanner, and the children.           *)
(*                                                                          *)
(* The gate is the mutex per name and listener that SingleFlight promises   *)
(* and BootGate implements.  Requests that no registered app matches are    *)
(* answered without touching any of this state and are left out.            *)
(***************************************************************************)
EXTENDS Supervisor

CONSTANTS
  Reqs,       \* requests in flight at a time
  Listeners,  \* the plain and the TLS listener; each has a BootGate of its own
  CliBoots    \* whether `adj up` and `adj restart` are used meanwhile

ASSUME CliAssumption == CliBoots \in BOOLEAN

VARIABLE req

proxyVars == <<apps, reserved, procs, opening, stop, req>>

(* "check", "up", "opening", "probe" and "connect" run under the gate's     *)
(* guard; then the request is routed: "ready", "forward" and "stream".      *)
Gated == {"check", "up", "opening", "probe", "connect"}
Routed == {"ready", "forward", "stream"}
Resting == {"idle", "served", "cut", "r502", "r504"}

(* `port` is the upstream port found ready, `peer` the process group that   *)
(* answered on it.  `recent` is history: the request stamped the idle       *)
(* tracker less than an idle window ago.                                    *)
Request ==
  [at: {"gate"} \cup Gated \cup Routed \cup Resting,
   app: Apps \cup {None}, via: Listeners \cup {None},
   port: Ports \cup {None}, peer: Pids \cup {None}, recent: BOOLEAN]

Answered(result) ==
  [at |-> result, app |-> None, via |-> None,
   port |-> None, peer |-> None, recent |-> FALSE]

ProxyTypeOK == TypeOK /\ req \in [Reqs -> Request]

ProxyInit == Init /\ req = [r \in Reqs |-> Answered("idle")]

Moves(r, to) == req' = [req EXCEPT ![r].at = to]
Answers(r, result) == req' = [req EXCEPT ![r] = Answered(result)]

-----------------------------------------------------------------------------
(* ensure_running *)

Arrive(r, a, via) ==
  /\ req[r].at \in Resting
  /\ req' = [req EXCEPT ![r] = [Answered("gate") EXCEPT !.app = a, !.via = via]]
  /\ UNCHANGED vars

(* Mutant of EnterGate: boots are not serialized. *)
EnterGateAtOnce(r) ==
  /\ req[r].at = "gate"
  /\ Moves(r, "check")
  /\ UNCHANGED vars

EnterGate(r) ==
  /\ req[r].at = "gate"
  /\ \A o \in Reqs : req[o].at \in Gated =>
       <<req[o].app, req[o].via>> # <<req[r].app, req[r].via>>
  /\ Moves(r, "check")
  /\ UNCHANGED vars

(* supervisor.state: the answer is used after the mutex is released.        *)
CheckState(r) ==
  /\ req[r].at = "check" /\ LockFree
  /\ Moves(r, IF Running(req[r].app) THEN "probe" ELSE "up")
  /\ UNCHANGED vars

(* No pid of a run that a request still talks to comes round again.         *)
UnusedPid(p) == \A r \in Reqs : req[r].peer # p

ProxyUp(r) ==
  /\ req[r].at = "up"
  /\ \E p \in Pids, q \in Ports : UnusedPid(p) /\ UpSpawn(req[r].app, p, q)
  /\ Moves(r, "opening")

(* `up` errs: "already running", or no env file, no port, no shell.         *)
ProxyUpFails(r) ==
  /\ req[r].at = "up" /\ LockFree
  /\ Answers(r, "r502")
  /\ UNCHANGED vars

ProxyUpRecord(r) ==
  /\ req[r].at = "opening"
  /\ UpRecord
  /\ Moves(r, "probe")

ProxyUpAbandon(r) ==
  /\ req[r].at = "opening"
  /\ UpAbandon
  /\ Answers(r, "r502")

(* Mutant of ReadState: a Running app is not probed (issue #28).            *)
ReadStateOnly(r) ==
  /\ req[r].at = "probe" /\ LockFree
  /\ \/ /\ Running(req[r].app)
        /\ req' = [req EXCEPT ![r].at = "ready", ![r].via = None,
                              ![r].port = apps[req[r].app].port,
                              ![r].peer = apps[req[r].app].pid]
     \/ /\ apps[req[r].app].state = "Crashed"
        /\ Answers(r, "r502")
  /\ UNCHANGED vars

(* Mutant of ReadState: the port is used although the app is not Running.   *)
ReadStateAnyhow(r) ==
  /\ req[r].at = "probe" /\ LockFree
  /\ req' = [req EXCEPT ![r].at =
       IF Running(req[r].app) THEN "connect" ELSE apps[req[r].app].state]
  /\ UNCHANGED vars

(* wait_ready reads the state, then probes the port it read.                *)
ReadState(r) ==
  /\ req[r].at = "probe" /\ LockFree
  /\ \/ /\ Running(req[r].app)
        /\ req' = [req EXCEPT ![r].at = "connect", ![r].port = apps[req[r].app].port]
     \/ /\ apps[req[r].app].state = "Crashed"
        /\ Answers(r, "r502")
  /\ UNCHANGED vars

Serves(p, q) == procs[p].bound /\ procs[p].port = q

(* The probe connects, and gets a 2xx if there is a health check.           *)
ProbeOk(r) ==
  /\ req[r].at = "connect"
  /\ \E p \in Pids :
       /\ Serves(p, req[r].port)
       /\ req' = [req EXCEPT ![r].at = "ready", ![r].via = None, ![r].peer = p]
  /\ UNCHANGED vars

ProbeAgain(r) ==
  /\ req[r].at = "connect"
  /\ req' = [req EXCEPT ![r].at = "probe", ![r].port = None]
  /\ UNCHANGED vars

(* Mutant of BootTimeout: the deadline is checked while Running only.       *)
BootTimeoutRunning(r) ==
  /\ req[r].at = "connect"
  /\ Answers(r, "r504")
  /\ UNCHANGED vars

(* The deadline has passed when the probe fails or the app is Stopped.      *)
BootTimeout(r) ==
  /\ \/ req[r].at = "connect"
     \/ /\ req[r].at = "probe" /\ LockFree
        /\ apps[req[r].app].state \in {"Absent", "Stopped"}
  /\ Answers(r, "r504")
  /\ UNCHANGED vars

-----------------------------------------------------------------------------
(* Mutant of TouchIdle: the request is not stamped. *)
TouchIdleNot(r) ==
  /\ req[r].at = "ready" /\ LockFree
  /\ UNCHANGED vars
  /\ req' = [req EXCEPT ![r].at = "forward", ![r].recent = TRUE]

(* The rest of handle: touch_idle, a no-op unless Running, then forward.    *)
TouchIdle(r) ==
  /\ req[r].at = "ready" /\ LockFree
  /\ IF Running(req[r].app) THEN Touch(req[r].app) ELSE UNCHANGED vars
  /\ req' = [req EXCEPT ![r].at = "forward", ![r].recent = TRUE]

Forward(r) ==
  /\ req[r].at = "forward"
  /\ \/ \E p \in Pids :
          /\ Serves(p, req[r].port)
          /\ req' = [req EXCEPT ![r].at = "stream", ![r].port = None, ![r].peer = p]
     \/ ~Listening(req[r].port) /\ Answers(r, "r502")
  /\ UNCHANGED vars

(* The response or the upgraded tunnel ends, or dies with its server.       *)
Finish(r) ==
  /\ req[r].at = "stream"
  /\ Answers(r, IF procs[req[r].peer].bound THEN "served" ELSE "cut")
  /\ UNCHANGED vars

(* The client hangs up and hyper drops the future of `handle`.              *)
HangUp(r) ==
  /\ req[r].at \notin Resting
  /\ IF req[r].at = "opening" THEN UpAbandon ELSE UNCHANGED vars
  /\ Answers(r, "idle")

-----------------------------------------------------------------------------
(* The daemon's other clients of the supervisor. *)

CliUp(a) ==
  /\ CliBoots
  /\ \E p \in Pids, q \in Ports : UnusedPid(p) /\ UpSpawn(a, p, q)
  /\ UNCHANGED req

CliUpEnds ==
  /\ \A r \in Reqs : req[r].at # "opening"
  /\ UpRecord \/ UpAbandon
  /\ UNCHANGED req

WindowPasses(a) ==
  /\ WindowElapses(a)
  /\ req' = [r \in Reqs |->
       IF req[r].app = a THEN [req[r] EXCEPT !.recent = FALSE] ELSE req[r]]

Others ==
  /\ \/ System
     \/ \E p \in Pids : Watch(p)
     \/ Stops
     \/ \E a \in Apps : Forget(a)
  /\ UNCHANGED req

(* What a request does by itself; HangUp is its client's. *)
Proceed(r) ==
  \/ EnterGate(r)
  \/ CheckState(r)
  \/ ProxyUp(r) \/ ProxyUpFails(r)
  \/ ProxyUpRecord(r) \/ ProxyUpAbandon(r)
  \/ ReadState(r) \/ ProbeOk(r) \/ ProbeAgain(r)
  \/ BootTimeout(r)
  \/ TouchIdle(r)
  \/ Forward(r)

ProxyNext ==
  \/ \E r \in Reqs : \/ \E a \in Apps, via \in Listeners : Arrive(r, a, via)
                     \/ Proceed(r)
                     \/ Finish(r)
                     \/ HangUp(r)
  \/ \E a \in Apps : CliUp(a) \/ WindowPasses(a)
  \/ CliUpEnds
  \/ Others

ProxySpec == ProxyInit /\ [][ProxyNext]_proxyVars

(* Every task runs on, and both mutexes serve their waiters in order, so a  *)
(* step that takes one is strongly fair.  The deadline of a boot comes,     *)
(* however often the probe loop turns.  A response need not ever end.       *)
ProxyFairness ==
  /\ WF_proxyVars(CliUpEnds)
  /\ \A r \in Reqs : SF_proxyVars(Proceed(r)) /\ SF_proxyVars(BootTimeout(r))

ProxyFairSpec == ProxySpec /\ ProxyFairness

-----------------------------------------------------------------------------
(* "concurrent requests during boot wait on the same start" (README.md:17): *)
(* a request that decided to boot its app never finds it booted already,    *)
(* and is not answered 502 "already running".  One listener's gate keeps    *)
(* this, although the state is read and used under separate critical        *)
(* sections; two listeners, or `adj up` beside one, do not.                 *)
BootsShared == \A r \in Reqs : req[r].at = "up" => ~Running(req[r].app)

(* A request is routed to a run only once that run has been seen listening  *)
(* (issue #28 in proxy.rs:339-343): a routed request finds its server       *)
(* there unless the server has ended since.  For commands that `exec`.      *)
RoutedRunsListen ==
  \A r \in Reqs : req[r].at \in Routed =>
    LET g == procs[req[r].peer] IN g.leader = "alive" => g.bound

(* An idle stop: the scanner's down_if_idle takes effect on app a.          *)
IdleStop(a) ==
  \E t \in Tasks : BeginStop(t, a, TRUE)

(* The idle scanner never stops an app within a window of a request that    *)
(* stamped it, whether the response is short or still streams (the          *)
(* re-check of down_if_idle under the lock, supervisor.rs:331-340).         *)
FreshRequestsSpared ==
  [][\A a \in Apps, r \in Reqs :
       IdleStop(a) /\ req[r].app = a => ~req[r].recent]_proxyVars

(* Every request is answered or reaches its upstream, though it may wait    *)
(* for the boots of others before its own: no waiter of a gate is           *)
(* forgotten, and no boot holds a gate for ever.                            *)
RequestsAnswered ==
  \A r \in Reqs : req[r].at = "gate" ~> req[r].at \in Resting \cup {"stream"}

-----------------------------------------------------------------------------
(* A statement of the documentation that the code does not keep.            *)

(* supervisor.rs:339-340: re-checking under the lock "means that            *)
(* interleaving always either (a) stops the app before the request is       *)
(* routed, or (b) skips the stop".                                          *)
RoutedRequestsSpared ==
  [][\A a \in Apps, r \in Reqs :
       IdleStop(a) /\ req[r].app = a => req[r].at # "ready"]_proxyVars
=============================================================================
