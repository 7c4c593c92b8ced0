----------------------------- MODULE ProxyProofs -----------------------------
(***************************************************************************)
(* Proofs about Proxy, for any sets of requests, listeners, apps, pids,     *)
(* ports and tasks: the proxy drives the supervisor as Supervisor.tla says  *)
(* it may be driven, one listener boots an app once, a routed request finds *)
(* a server, the idle scanner spares a fresh request, and the gate is used  *)
(* as SingleFlight promises it.                                             *)
(***************************************************************************)
EXTENDS Proxy, SupervisorProofs

(* What a request knows at each place. *)
Shape(k) ==
  /\ k \in Request
  /\ k.at \notin Resting => k.app \in Apps
  /\ k.at \in {"gate"} \cup Gated => k.via \in Listeners
  /\ k.at \in Routed => k.peer \in Pids

Shaped == req \in [Reqs -> Request] /\ \A r \in Reqs : Shape(req[r])

(* The gate of an app lets one request of a listener in at a time.          *)
GateHeld ==
  \A r, o \in Reqs :
    /\ req[r].at \in Gated /\ req[o].at \in Gated
    /\ req[r].app = req[o].app /\ req[r].via = req[o].via
    => r = o

(* The request that has its app's log opened: it is the only one.           *)
Opens(r) == req[r].at = "opening"

OpenerKnown ==
  /\ \A r \in Reqs : Opens(r) => opening # None /\ procs[opening].app = req[r].app
  /\ \A r, o \in Reqs : Opens(r) /\ Opens(o) => r = o

(* What was stamped within the window is not quiet.                         *)
StampsKept ==
  \A r \in Reqs : req[r].recent =>
    req[r].app \in Apps /\ (Running(req[r].app) => ~apps[req[r].app].quiet)

PInv == IInv /\ Shaped /\ GateHeld /\ OpenerKnown /\ StampsKept

(* Without `adj up`, every child whose log is being opened is a request's.  *)
OpenerIsRequest == opening # None => \E r \in Reqs : Opens(r)

(* Of commands that exec, no descendant but the server is ever alive.       *)
NoTrees == \A p \in Pids : ~procs[p].tree

-----------------------------------------------------------------------------
(* The step of one request, as far as the invariants go. *)
Acts(r) ==
  \/ \E a \in Apps, via \in Listeners : Arrive(r, a, via)
  \/ Proceed(r) \/ Finish(r) \/ HangUp(r)

SameApp(r) == req'[r].app = req[r].app

RequestStep(r) ==
  /\ \A o \in Reqs \ {r} : req'[o] = req[o]
  /\ req' \in [Reqs -> Request] /\ Shape(req'[r])
  /\ req'[r].at \in Gated =>
       /\ req[r].at \in Gated \/ EnterGate(r)
       /\ SameApp(r) /\ req'[r].via = req[r].via
  /\ req'[r].at \in Routed =>
       \/ req[r].at \in Routed /\ req'[r].peer = req[r].peer
       \/ procs[req'[r].peer].bound
  /\ Opens(r)' => ProxyUp(r) \/ Opens(r)
  /\ req'[r].at = "up" => req[r].at = "up" \/ ~Running(req[r].app)
  /\ req'[r].recent => SameApp(r) /\ (req[r].recent \/ TouchIdle(r))

LEMMA OneRequest ==
  ASSUME Shaped, NEW r \in Reqs, NEW k, Shape(k), req' = [req EXCEPT ![r] = k]
  PROVE  /\ req'[r] = k /\ req' \in [Reqs -> Request]
         /\ \A o \in Reqs \ {r} : req'[o] = req[o]
BY DEF Shaped, Shape

LEMMA AnsweredShape ==
  ASSUME NEW result \in Resting \cup {"gate"}
  PROVE  /\ Answered(result) \in Request /\ Answered(result).at = result
         /\ Answered(result).recent = FALSE
         /\ result \in Resting => Shape(Answered(result))
BY DEF Answered, Request, Resting, Shape, Gated, Routed

(* A request is answered, or its client gone. *)
LEMMA AnswersStep ==
  ASSUME Shaped, NEW r \in Reqs, NEW result \in Resting, Answers(r, result)
  PROVE  RequestStep(r)
<1>1. /\ req'[r] = Answered(result) /\ req' \in [Reqs -> Request]
      /\ \A o \in Reqs \ {r} : req'[o] = req[o] /\ Shape(req'[r])
  BY AnsweredShape, OneRequest DEF Answers
<1>2. req'[r].at \in Resting /\ req'[r].recent = FALSE /\ Shape(req'[r])
  BY <1>1, AnsweredShape
<1>3. req'[r].at \notin Gated /\ req'[r].at \notin Routed /\ req'[r].at # "opening"
      /\ req'[r].at # "up"
  BY <1>2 DEF Resting, Gated, Routed
<1>4. QED
  BY <1>1, <1>2, <1>3 DEF RequestStep, Opens

LEMMA GatedShape ==
  ASSUME Shaped, NEW r \in Reqs, NEW to \in Gated, req[r].at \in {"gate"} \cup Gated
  PROVE  LET k == [req[r] EXCEPT !.at = to] IN
         /\ Shape(k) /\ k.at = to /\ k.app = req[r].app /\ k.via = req[r].via
         /\ k.recent = req[r].recent
BY DEF Shaped, Shape, Request, Resting, Gated, Routed

(* A request moves on under its gate.                                       *)
LEMMA GatedStep ==
  ASSUME Shaped, NEW r \in Reqs, NEW to \in Gated, Moves(r, to),
         req[r].at \in Gated \/ EnterGate(r),
         to = "opening" => ProxyUp(r), to = "up" => ~Running(req[r].app)
  PROVE  RequestStep(r)
<1> DEFINE k == [req[r] EXCEPT !.at = to]
<1>1. /\ Shape(k) /\ k.at = to /\ k.app = req[r].app /\ k.via = req[r].via
      /\ k.recent = req[r].recent
  BY GatedShape DEF EnterGate
<1>2. req' = [req EXCEPT ![r] = k]
  BY DEF Moves
<1>3. /\ req'[r] = k /\ req' \in [Reqs -> Request]
      /\ \A o \in Reqs \ {r} : req'[o] = req[o]
  BY <1>1, <1>2, OneRequest
<1>4. to \notin Routed
  BY DEF Gated, Routed
<1>5. QED
  BY <1>1, <1>3, <1>4 DEF RequestStep, SameApp, Opens

LEMMA ProceedStep ==
  ASSUME IInv, Shaped, NEW r \in Reqs, Proceed(r)
  PROVE  RequestStep(r)
<1>1. Shape(req[r]) /\ req[r] \in Request
  BY DEF Shaped, Shape
<1>2. CASE EnterGate(r)
  BY <1>2, GatedStep DEF EnterGate, Gated
<1>3. CASE CheckState(r)
  <2>1. CASE Running(req[r].app)
    BY <1>3, <2>1, GatedStep DEF CheckState, Gated
  <2>2. CASE ~Running(req[r].app)
    BY <1>3, <2>2, GatedStep DEF CheckState, Gated
  <2>3. QED
    BY <2>1, <2>2
<1>4. CASE ProxyUp(r)
  BY <1>4, GatedStep DEF ProxyUp, Gated
<1>5. CASE ProxyUpRecord(r)
  BY <1>5, GatedStep DEF ProxyUpRecord, Gated
<1>6. CASE ProxyUpFails(r) \/ ProxyUpAbandon(r) \/ BootTimeout(r)
  BY <1>6, AnswersStep DEF ProxyUpFails, ProxyUpAbandon, BootTimeout, Resting
<1>7. CASE ReadState(r)
  <2>1. CASE Answers(r, "r502")
    BY <2>1, AnswersStep DEF Resting
  <2>2. CASE ~Answers(r, "r502")
    <3> DEFINE k == [req[r] EXCEPT !.at = "connect", !.port = apps[req[r].app].port]
    <3>1. req' = [req EXCEPT ![r] = k] /\ req[r].at = "probe"
      BY <1>7, <2>2 DEF ReadState
    <3>2. apps[req[r].app].port \in Ports \cup {None}
      BY <1>1, <3>1 DEF IInv, TypeOK, AppRuntime, Shape, Resting
    <3>3. /\ Shape(k) /\ k.at = "connect" /\ k.app = req[r].app /\ k.via = req[r].via
          /\ k.recent = req[r].recent
      BY <1>1, <3>1, <3>2 DEF Shape, Request, Resting, Gated, Routed
    <3>4. /\ req'[r] = k /\ req' \in [Reqs -> Request]
          /\ \A o \in Reqs \ {r} : req'[o] = req[o]
      BY <3>1, <3>3, OneRequest
    <3>5. QED
      BY <3>1, <3>3, <3>4 DEF RequestStep, SameApp, Opens, Gated, Routed
  <2>3. QED
    BY <2>1, <2>2
<1>8. CASE ProbeOk(r)
  <2>1. PICK p \in Pids :
          /\ Serves(p, req[r].port)
          /\ req' = [req EXCEPT ![r].at = "ready", ![r].via = None, ![r].peer = p]
    BY <1>8 DEF ProbeOk
  <2> DEFINE k == [req[r] EXCEPT !.at = "ready", !.via = None, !.peer = p]
  <2>2. req' = [req EXCEPT ![r] = k] /\ req[r].at = "connect"
    BY <1>8, <2>1 DEF ProbeOk
  <2>3. /\ Shape(k) /\ k.at = "ready" /\ k.app = req[r].app /\ k.peer = p
        /\ k.recent = req[r].recent
    BY <1>1, <2>2 DEF Shape, Request, Resting, Gated, Routed
  <2>4. /\ req'[r] = k /\ req' \in [Reqs -> Request]
        /\ \A o \in Reqs \ {r} : req'[o] = req[o]
    BY <2>2, <2>3, OneRequest
  <2>5. QED
    BY <2>1, <2>3, <2>4 DEF RequestStep, SameApp, Opens, Gated, Serves
<1>9. CASE ProbeAgain(r)
  <2> DEFINE k == [req[r] EXCEPT !.at = "probe", !.port = None]
  <2>1. req' = [req EXCEPT ![r] = k] /\ req[r].at = "connect"
    BY <1>9 DEF ProbeAgain
  <2>2. /\ Shape(k) /\ k.at = "probe" /\ k.app = req[r].app /\ k.via = req[r].via
        /\ k.recent = req[r].recent
    BY <1>1, <2>1 DEF Shape, Request, Resting, Gated, Routed
  <2>3. /\ req'[r] = k /\ req' \in [Reqs -> Request]
        /\ \A o \in Reqs \ {r} : req'[o] = req[o]
    BY <2>1, <2>2, OneRequest
  <2>4. QED
    BY <2>1, <2>2, <2>3 DEF RequestStep, SameApp, Opens, Gated, Routed
<1>10. CASE TouchIdle(r)
  <2> DEFINE k == [req[r] EXCEPT !.at = "forward", !.recent = TRUE]
  <2>1. req' = [req EXCEPT ![r] = k] /\ req[r].at = "ready"
    BY <1>10 DEF TouchIdle
  <2>2. Shape(k) /\ k.at = "forward" /\ k.app = req[r].app /\ k.peer = req[r].peer
    BY <1>1, <2>1 DEF Shape, Request, Resting, Gated, Routed
  <2>3. /\ req'[r] = k /\ req' \in [Reqs -> Request]
        /\ \A o \in Reqs \ {r} : req'[o] = req[o]
    BY <2>1, <2>2, OneRequest
  <2>4. QED
    BY <1>10, <2>1, <2>2, <2>3 DEF RequestStep, SameApp, Opens, Gated, Routed
<1>11. CASE Forward(r)
  <2>1. CASE Answers(r, "r502")
    BY <2>1, AnswersStep DEF Resting
  <2>2. CASE ~Answers(r, "r502")
    <3>1. PICK p \in Pids :
            /\ Serves(p, req[r].port)
            /\ req' = [req EXCEPT ![r].at = "stream", ![r].port = None, ![r].peer = p]
      BY <1>11, <2>2 DEF Forward
    <3> DEFINE k == [req[r] EXCEPT !.at = "stream", !.port = None, !.peer = p]
    <3>2. req' = [req EXCEPT ![r] = k] /\ req[r].at = "forward"
      BY <1>11, <3>1 DEF Forward
    <3>3. /\ Shape(k) /\ k.at = "stream" /\ k.app = req[r].app /\ k.peer = p
          /\ k.recent = req[r].recent
      BY <1>1, <3>2 DEF Shape, Request, Resting, Gated, Routed
    <3>4. /\ req'[r] = k /\ req' \in [Reqs -> Request]
          /\ \A o \in Reqs \ {r} : req'[o] = req[o]
      BY <3>2, <3>3, OneRequest
    <3>5. QED
      BY <3>1, <3>3, <3>4 DEF RequestStep, SameApp, Opens, Gated, Serves
  <2>3. QED
    BY <2>1, <2>2
<1>12. QED
  BY <1>2, <1>3, <1>4, <1>5, <1>6, <1>7, <1>8, <1>9, <1>10, <1>11 DEF Proceed

LEMMA RequestSteps ==
  ASSUME IInv, Shaped, NEW r \in Reqs, Acts(r)
  PROVE  RequestStep(r)
<1>1. ASSUME NEW a \in Apps, NEW via \in Listeners, Arrive(r, a, via)
      PROVE  RequestStep(r)
  <2> DEFINE k == [Answered("gate") EXCEPT !.app = a, !.via = via]
  <2>1. Shape(k) /\ k.at = "gate" /\ k.recent = FALSE
    BY DEF Answered, Shape, Request, Resting, Gated, Routed
  <2>2. /\ req'[r] = k /\ req' \in [Reqs -> Request]
        /\ \A o \in Reqs \ {r} : req'[o] = req[o]
    BY <1>1, <2>1, OneRequest DEF Arrive
  <2>3. QED
    BY <2>1, <2>2 DEF RequestStep, Opens, Gated, Routed
<1>2. CASE Finish(r) \/ HangUp(r)
  BY <1>2, AnswersStep DEF Finish, HangUp, Resting
<1>3. QED
  BY <1>1, <1>2, ProceedStep DEF Acts

-----------------------------------------------------------------------------
(* What a step does to the supervisor: every step of the proxy is one of    *)
(* the supervisor's or none at all.                                         *)

(* A request leaves the supervisor alone, or takes one of its steps.        *)
LEMMA RequestDrives ==
  ASSUME Shaped, NEW r \in Reqs, Acts(r)
  PROVE  \/ UNCHANGED vars
         \/ /\ ProxyUp(r)
            /\ \E p \in Pids, q \in Ports : UnusedPid(p) /\ UpSpawn(req[r].app, p, q)
         \/ ProxyUpRecord(r) /\ UpRecord
         \/ Opens(r) /\ ~Opens(r)' /\ UpAbandon
         \/ TouchIdle(r) /\ Running(req[r].app) /\ Touch(req[r].app)
<1>1. CASE ProxyUp(r) \/ ProxyUpRecord(r)
  BY <1>1 DEF ProxyUp, ProxyUpRecord
<1>2. CASE ProxyUpAbandon(r) \/ HangUp(r)
  <2>1. \E result \in Resting : Answers(r, result)
    BY <1>2 DEF ProxyUpAbandon, HangUp, Resting
  <2>2. ~Opens(r)'
    BY <2>1, AnswersStep, AnsweredShape, OneRequest DEF Answers, Opens, Resting
  <2>3. QED
    BY <1>2, <2>2 DEF ProxyUpAbandon, HangUp, Opens
<1>3. CASE TouchIdle(r)
  BY <1>3 DEF TouchIdle
<1>4. CASE \/ \E a \in Apps, via \in Listeners : Arrive(r, a, via)
           \/ EnterGate(r) \/ CheckState(r) \/ ProxyUpFails(r) \/ ReadState(r)
           \/ ProbeOk(r) \/ ProbeAgain(r) \/ BootTimeout(r) \/ Forward(r) \/ Finish(r)
  BY <1>4 DEF Arrive, EnterGate, CheckState, ProxyUpFails, ReadState, ProbeOk,
              ProbeAgain, BootTimeout, Forward, Finish
<1>5. QED
  BY <1>1, <1>2, <1>3, <1>4 DEF Acts, Proceed

(* An app a request boots or stamps is one of the apps. *)
LEMMA UnrestedApp ==
  ASSUME Shaped, NEW r \in Reqs, ProxyUp(r) \/ TouchIdle(r)
  PROVE  req[r].app \in Apps
BY DEF Shaped, Shape, ProxyUp, TouchIdle, Resting

LEMMA ProxyDrives == Shaped /\ [ProxyNext]_proxyVars => [Next]_vars
<1> SUFFICES ASSUME Shaped, [ProxyNext]_proxyVars PROVE [Next]_vars
  OBVIOUS
<1>1. ASSUME NEW r \in Reqs, Acts(r)
      PROVE  [Next]_vars
  <2>1. CASE UNCHANGED vars
    BY <2>1
  <2>2. CASE ProxyUp(r) /\ \E p \in Pids, q \in Ports : UpSpawn(req[r].app, p, q)
    BY <2>2, UnrestedApp DEF Next, Boot
  <2>3. CASE UpRecord \/ UpAbandon
    BY <2>3 DEF Next
  <2>4. CASE TouchIdle(r) /\ Touch(req[r].app)
    BY <2>4, UnrestedApp DEF Next
  <2>5. QED
    BY <1>1, <2>1, <2>2, <2>3, <2>4, RequestDrives
<1>2. ASSUME NEW a \in Apps, CliUp(a) \/ WindowPasses(a)
      PROVE  [Next]_vars
  BY <1>2 DEF CliUp, WindowPasses, Next, Boot
<1>3. CASE CliUpEnds \/ Others
  BY <1>3 DEF CliUpEnds, Others, Next
<1>4. CASE UNCHANGED proxyVars
  BY <1>4 DEF proxyVars, vars
<1>5. QED
  BY <1>1, <1>2, <1>3, <1>4 DEF ProxyNext, Acts

(* A child that is being booted is out of everybody else's reach, and only  *)
(* the end of a boot makes an app Running.                                  *)
Aside ==
  /\ UNCHANGED opening
  /\ opening # None => procs'[opening].app = procs[opening].app
  /\ \A a \in Apps : Running(a)' => Running(a) /\ apps'[a].quiet = apps[a].quiet

LEMMA OthersAside ==
  ASSUME IInv, Others
  PROVE  Aside
<1>1. /\ procs \in [Pids -> ProcessGroup] /\ apps \in [Apps -> AppRuntime]
      /\ opening \in Pids \cup {None} /\ None \notin Pids
  BY NoneAssumption DEF IInv, TypeOK
<1>2. opening # None =>
        procs[opening].leader # "none" /\ ~procs[opening].watched
  BY DEF IInv, OpeningInv
<1>3. CASE System
  <2>1. UNCHANGED <<apps, opening>>
    BY <1>3 DEF System, Bind, LeaderExits, TreeExits, ReapOrphan
  <2>2. ASSUME opening # None
        PROVE  procs'[opening].app = procs[opening].app
    <3>1. PICK p \in Pids :
            \/ Bind(p) \/ TreeExits(p) \/ ReapOrphan(p)
            \/ \E code \in {"zero", "nonzero"} : LeaderExits(p, code)
      BY <1>3 DEF System
    <3>2. CASE p = opening
      <4>1. ~ReapOrphan(p)
        BY <3>2 DEF ReapOrphan
      <4>2. CASE Bind(p) \/ \E code \in {"zero", "nonzero"} : LeaderExits(p, code)
        BY <1>1, <2>2, <3>2, <4>2 DEF Bind, LeaderExits, ProcessGroup
      <4>3. CASE TreeExits(p)
        BY <1>1, <1>2, <2>2, <3>2, <4>3 DEF TreeExits, Settled, ProcessGroup
      <4>4. QED
        BY <3>1, <4>1, <4>2, <4>3
    <3>3. CASE p # opening
      BY <1>1, <2>2, <3>1, <3>3 DEF Bind, LeaderExits, TreeExits, ReapOrphan
    <3>4. QED
      BY <3>2, <3>3
  <2>3. QED
    BY <2>1, <2>2 DEF Aside, Running
<1>4. CASE \E p \in Pids : Watch(p)
  <2>1. PICK p \in Pids : Watch(p)
    BY <1>4
  <2>2. opening = None /\ UNCHANGED opening
    BY <2>1 DEF Watch, LockFree
  <2>3. \A a \in Apps : apps'[a] = apps[a] \/ apps'[a].state \in {"Stopped", "Crashed"}
    BY <1>1, <2>1 DEF Watch, Entry, Verdict
  <2>4. QED
    BY <2>2, <2>3 DEF Aside, Running
<1>5. CASE Stops
  <2>1. PICK t \in Tasks :
          \/ \E a \in Apps, min_idle \in BOOLEAN : BeginStop(t, a, min_idle)
          \/ Poll(t) \/ SigKill(t)
    BY <1>5 DEF Stops
  <2>2. CASE \E a \in Apps, min_idle \in BOOLEAN : BeginStop(t, a, min_idle)
    BY <1>1, <2>2 DEF BeginStop, LockFree, Aside, Running, AppRuntime
  <2>3. CASE Poll(t)
    BY <2>3 DEF Poll, StopEnds, GraceOver, StopFails, Aside, Running
  <2>4. CASE SigKill(t)
    <3>1. UNCHANGED <<apps, opening>>
      BY <2>4 DEF SigKill
    <3>2. opening # None => procs'[opening].app = procs[opening].app
      <4>1. opening # None => stop[t].pid # opening
        BY <1>2, <2>4, SigKillStep
      <4>2. QED
        BY <1>1, <2>4, <4>1 DEF SigKill
    <3>3. QED
      BY <3>1, <3>2 DEF Aside, Running
  <2>5. QED
    BY <2>1, <2>2, <2>3, <2>4
<1>6. CASE \E a \in Apps : Forget(a)
  <2>1. UNCHANGED <<procs, opening>>
    BY <1>6 DEF Forget
  <2>2. \A a \in Apps : apps'[a] = apps[a] \/ apps'[a].state = "Absent"
    BY <1>1, <1>6 DEF Forget, Entry
  <2>3. QED
    BY <2>1, <2>2 DEF Aside, Running
<1>7. QED
  BY <1>3, <1>4, <1>5, <1>6 DEF Others

-----------------------------------------------------------------------------
(* The invariant. *)

LEMMA PInvInit == ProxyInit => PInv
<1> SUFFICES ASSUME ProxyInit PROVE PInv
  OBVIOUS
<1>1. \A r \in Reqs : req[r].at = "idle" /\ req[r].recent = FALSE /\ Shape(req[r])
  BY AnsweredShape DEF ProxyInit, Resting
<1>2. req \in [Reqs -> Request]
  BY AnsweredShape DEF ProxyInit, Resting
<1>3. IInv
  BY InitIInv DEF ProxyInit
<1>4. QED
  BY <1>1, <1>2, <1>3
     DEF PInv, Shaped, GateHeld, OpenerKnown, StampsKept, Opens, Gated

(* A step of a request.                                                     *)
LEMMA RequestShaped ==
  ASSUME Shaped, NEW r \in Reqs, RequestStep(r)
  PROVE  Shaped'
BY DEF Shaped, RequestStep

LEMMA RequestGateHeld ==
  ASSUME GateHeld, NEW r \in Reqs, RequestStep(r)
  PROVE  GateHeld'
BY DEF GateHeld, RequestStep, SameApp, EnterGate

LEMMA RequestOpenerKnown ==
  ASSUME PInv, NEW r \in Reqs, Acts(r)
  PROVE  OpenerKnown'
<1>1. RequestStep(r)
  BY RequestSteps DEF PInv
<1>2. CASE Opens(r) /\ ~Opens(r)'
  BY <1>1, <1>2 DEF PInv, OpenerKnown, RequestStep, Opens
<1>3. CASE ProxyUp(r)
  <2>1. PICK p \in Pids, q \in Ports : UpSpawn(req[r].app, p, q)
    BY <1>3 DEF ProxyUp
  <2>2. opening = None /\ opening' = p /\ procs'[p].app = req[r].app /\ p # None
    BY <2>1, NoneAssumption DEF UpSpawn, LockFree, Vacant, PInv, IInv, TypeOK
  <2>3. \A o \in Reqs : ~Opens(o)
    BY <2>2 DEF PInv, OpenerKnown
  <2>4. \A o \in Reqs \ {r} : ~Opens(o)'
    BY <1>1, <2>3 DEF RequestStep, Opens
  <2>5. req'[r].app = req[r].app
    BY <1>3 DEF ProxyUp, Moves, PInv, Shaped, Shape, Request
  <2>6. QED
    BY <2>2, <2>4, <2>5 DEF OpenerKnown
<1>4. CASE ~(Opens(r) /\ ~Opens(r)') /\ ~ProxyUp(r)
  <2>1. UNCHANGED <<procs, opening>>
    <3>1. ~ProxyUpRecord(r)
      BY <1>4 DEF ProxyUpRecord, Moves, Opens, PInv, Shaped, Request
    <3>2. QED
      BY <1>4, <3>1, RequestDrives DEF PInv, vars, Touch
  <2>2. \A o \in Reqs : Opens(o)' => Opens(o) /\ req'[o].app = req[o].app
    BY <1>1, <1>4 DEF RequestStep, SameApp, Opens, Gated
  <2>3. QED
    BY <2>1, <2>2 DEF PInv, OpenerKnown
<1>5. QED
  BY <1>2, <1>3, <1>4

(* A step that leaves no app Running and quiet that was not so before.      *)
Stamps ==
  \A a \in Apps : Running(a)' /\ apps'[a].quiet => Running(a) /\ apps[a].quiet

(* A boot stamps its app as it records it. *)
LEMMA RecordStamps ==
  ASSUME IInv, UpRecord
  PROVE  Stamps
<1>1. apps \in [Apps -> AppRuntime]
  BY DEF IInv, TypeOK
<1>2. ASSUME NEW a \in Apps
      PROVE  \/ apps'[a] = apps[a]
             \/ apps'[a].quiet = FALSE
  <2> DEFINE rt == [state |-> "Running", pid |-> opening,
                    port |-> procs[opening].port,
                    intentional |-> FALSE, quiet |-> FALSE]
  <2>1. apps' = [apps EXCEPT ![procs[opening].app] = rt]
    BY DEF UpRecord
  <2>2. rt.quiet = FALSE
    OBVIOUS
  <2> HIDE DEF rt
  <2>3. QED
    BY <1>1, <2>1, <2>2
<1>3. QED
  BY <1>2 DEF Stamps, Running

LEMMA RequestStampsKept ==
  ASSUME PInv, NEW r \in Reqs, Acts(r)
  PROVE  StampsKept'
<1>1. RequestStep(r)
  BY RequestSteps DEF PInv
<1>2. CASE TouchIdle(r)
  <2>1. req[r].app \in Apps /\ SameApp(r)
    BY <1>2, UnrestedApp DEF TouchIdle, SameApp, PInv, Shaped, Shape, Request
  <2>2. \A a \in Apps :
          /\ Running(a)' <=> Running(a)
          /\ apps'[a].quiet = IF a = req[r].app /\ Running(a) THEN FALSE ELSE apps[a].quiet
    <3>1. CASE Running(req[r].app)
      <4>1. apps' = [apps EXCEPT ![req[r].app].quiet = FALSE]
        BY <1>2, <3>1 DEF TouchIdle, Touch
      <4>2. QED
        BY <2>1, <3>1, <4>1 DEF Running, PInv, IInv, TypeOK, AppRuntime
    <3>2. CASE ~Running(req[r].app)
      BY <1>2, <3>2 DEF TouchIdle, vars, Running
    <3>3. QED
      BY <3>1, <3>2
  <2>3. \A o \in Reqs \ {r} : req'[o] = req[o]
    BY <1>1 DEF RequestStep
  <2>4. QED
    BY <2>1, <2>2, <2>3 DEF PInv, StampsKept, SameApp
<1>3. CASE ~TouchIdle(r)
  <2>1. Stamps
    <3>1. CASE UpRecord
      BY <3>1, RecordStamps DEF PInv
    <3>2. CASE UNCHANGED apps
      BY <3>2 DEF Stamps, Running
    <3>3. QED
      BY <1>3, <3>1, <3>2, RequestDrives DEF PInv, vars, UpSpawn, UpAbandon
  <2>2. \A o \in Reqs : req'[o].recent => req[o].recent /\ req'[o].app = req[o].app
    BY <1>1, <1>3 DEF RequestStep, SameApp
  <2>3. QED
    BY <2>1, <2>2 DEF PInv, StampsKept, Stamps
<1>4. QED
  BY <1>2, <1>3

(* `adj up` beside the proxy, and the passing of time.                      *)
LEMMA CliPInv ==
  ASSUME PInv, (\E a \in Apps : CliUp(a)) \/ CliUpEnds
  PROVE  OpenerKnown' /\ StampsKept'
<1>1. UNCHANGED req
  BY DEF CliUp, CliUpEnds
<1>2. \A r \in Reqs : ~Opens(r)
  <2>1. CASE \E a \in Apps : CliUp(a)
    BY <2>1 DEF CliUp, UpSpawn, LockFree, PInv, OpenerKnown
  <2>2. CASE CliUpEnds
    BY <2>2 DEF CliUpEnds, Opens
  <2>3. QED
    BY <2>1, <2>2
<1>3. OpenerKnown'
  BY <1>1, <1>2 DEF OpenerKnown, Opens
<1>4. Stamps
  <2>1. CASE UpRecord
    BY <2>1, RecordStamps DEF PInv
  <2>2. CASE ~UpRecord
    BY <2>2 DEF CliUp, CliUpEnds, UpSpawn, UpAbandon, Stamps, Running
  <2>3. QED
    BY <2>1, <2>2
<1>5. QED
  BY <1>1, <1>3, <1>4 DEF PInv, StampsKept, Stamps

LEMMA WindowPInv ==
  ASSUME PInv, NEW a \in Apps, WindowPasses(a)
  PROVE  Shaped' /\ GateHeld' /\ OpenerKnown' /\ StampsKept'
<1>1. \A r \in Reqs :
        req'[r] = IF req[r].app = a THEN [req[r] EXCEPT !.recent = FALSE] ELSE req[r]
  BY DEF WindowPasses
<1>2. \A r \in Reqs : req[r] \in Request /\ Shape(req[r])
  BY DEF PInv, Shaped
<1>3. \A r \in Reqs :
        /\ req'[r] \in Request /\ req'[r].at = req[r].at /\ req'[r].app = req[r].app
        /\ req'[r].via = req[r].via /\ req'[r].peer = req[r].peer
        /\ req'[r].recent => req[r].recent /\ req[r].app # a
  BY <1>1, <1>2 DEF Request
<1>4. Shaped'
  <2>1. req' \in [Reqs -> Request]
    BY <1>3 DEF WindowPasses
  <2>2. QED
    BY <1>2, <1>3, <2>1 DEF Shaped, Shape
<1>5. UNCHANGED <<procs, opening>>
  BY DEF WindowPasses, WindowElapses
<1>6. GateHeld' /\ OpenerKnown'
  BY <1>3, <1>5 DEF PInv, GateHeld, OpenerKnown, Opens
<1>7. \A b \in Apps \ {a} : apps'[b] = apps[b]
  BY DEF WindowPasses, WindowElapses, PInv, IInv, TypeOK
<1>8. StampsKept'
  BY <1>3, <1>7 DEF PInv, StampsKept, Running
<1>9. QED
  BY <1>4, <1>6, <1>8

LEMMA PInvStep == PInv /\ [ProxyNext]_proxyVars => PInv'
<1> SUFFICES ASSUME PInv, [ProxyNext]_proxyVars PROVE PInv'
  OBVIOUS
<1>1. IInv'
  BY ProxyDrives, NextIInv DEF PInv
<1>2. ASSUME NEW r \in Reqs, Acts(r)
      PROVE  PInv'
  BY <1>1, <1>2, RequestSteps, RequestShaped, RequestGateHeld, RequestOpenerKnown,
     RequestStampsKept DEF PInv
<1>3. CASE (\E a \in Apps : CliUp(a)) \/ CliUpEnds
  <2>1. UNCHANGED req
    BY <1>3 DEF CliUp, CliUpEnds
  <2>2. Shaped' /\ GateHeld'
    BY <2>1 DEF PInv, Shaped, GateHeld
  <2>3. QED
    BY <1>1, <1>3, <2>2, CliPInv DEF PInv
<1>4. CASE \E a \in Apps : WindowPasses(a)
  BY <1>1, <1>4, WindowPInv DEF PInv
<1>5. CASE Others
  <2>1. UNCHANGED req /\ Aside
    BY <1>5, OthersAside DEF Others, PInv
  <2>2. Shaped' /\ GateHeld'
    BY <2>1 DEF PInv, Shaped, GateHeld
  <2>3. OpenerKnown' /\ StampsKept'
    BY <2>1 DEF PInv, OpenerKnown, StampsKept, Opens, Aside
  <2>4. QED
    BY <1>1, <2>2, <2>3 DEF PInv
<1>6. CASE UNCHANGED proxyVars
  BY <1>1, <1>6 DEF proxyVars, PInv, Shaped, GateHeld, OpenerKnown, StampsKept, Opens,
     Running
<1>7. QED
  BY <1>2, <1>3, <1>4, <1>5, <1>6 DEF ProxyNext, Acts

LEMMA PInvHolds == ProxySpec => []PInv
BY PInvInit, PInvStep, PTL DEF ProxySpec

(* Whatever requests, `adj up`, stops, idle scans and children do, every    *)
(* variable of the proxy and of the supervisor keeps its type.              *)
THEOREM ProxyTypeCorrect == ProxySpec => []ProxyTypeOK
<1>1. PInv => ProxyTypeOK
  BY DEF PInv, IInv, Shaped, ProxyTypeOK
<1>2. QED
  BY <1>1, PInvHolds, PTL

(* The proxy drives the supervisor only as Supervisor allows any caller to: *)
(* each of its steps is a step of Next or leaves the supervisor alone.  So  *)
(* all that is proved of the supervisor holds behind the proxy.             *)
THEOREM ProxyImplementsSupervisor == ProxySpec => Spec
<1>1. ProxyInit => Init
  BY DEF ProxyInit
<1>2. PInv /\ [ProxyNext]_proxyVars => [Next]_vars
  BY ProxyDrives DEF PInv
<1>3. QED
  BY <1>1, <1>2, PInvHolds, PTL DEF ProxySpec, Spec

(* In particular a client that hangs up while its app is being booted does  *)
(* not make the table name a dead or a foreign run.                         *)
THEOREM ProxySupervisesRuns == ProxySpec => []SupervisedRuns
BY ProxyImplementsSupervisor, SupervisedRunsHold

(* The idle scanner's down_if_idle never stops an app within a window of a  *)
(* request that stamped it, however long the response streams: its re-check *)
(* under the lock sees the stamp (supervisor.rs:331-340).                   *)
THEOREM FreshRequestsSparedHolds == ProxySpec => FreshRequestsSpared
<1>1. ASSUME PInv
      PROVE  \A a \in Apps, r \in Reqs :
               IdleStop(a) /\ req[r].app = a => ~req[r].recent
  <2> SUFFICES ASSUME NEW a \in Apps, NEW r \in Reqs, IdleStop(a), req[r].app = a
               PROVE  ~req[r].recent
    OBVIOUS
  <2>1. Running(a) /\ apps[a].quiet
    BY DEF IdleStop, BeginStop
  <2>2. QED
    BY <1>1, <2>1 DEF PInv, StampsKept
<1>2. QED
  BY <1>1, PInvHolds, PTL DEF FreshRequestsSpared

-----------------------------------------------------------------------------
(* Commands that exec their server. *)

Serving(p) == procs[p].leader = "alive" => procs[p].bound
Spawned(p) == opening = None /\ opening' = p

LEMMA NoTreesStep ==
  ASSUME IInv, NoTrees, Forks \subseteq {FALSE}, [Next]_vars
  PROVE  NoTrees'
<1>1. procs \in [Pids -> ProcessGroup]
  BY DEF IInv, TypeOK
<1>2. CASE Boot
  <2>1. PICK a \in Apps, p \in Pids, q \in Ports : UpSpawn(a, p, q)
    BY <1>2 DEF Boot
  <2>2. PICK forks \in Forks :
          procs' = [procs EXCEPT ![p] =
            [Vacant EXCEPT !.app = a, !.port = q, !.leader = "alive", !.tree = forks]]
    BY <2>1 DEF UpSpawn
  <2>3. QED
    BY <1>1, <2>2 DEF NoTrees, Vacant
<1>3. CASE UpRecord \/ UpAbandon
  BY <1>1, <1>3 DEF UpRecord, UpAbandon, NoTrees, ProcessGroup
<1>4. CASE System
  <2>1. PICK p \in Pids :
          \/ Bind(p) \/ TreeExits(p) \/ ReapOrphan(p)
          \/ \E code \in {"zero", "nonzero"} : LeaderExits(p, code)
    BY <1>4 DEF System
  <2>2. ~TreeExits(p)
    BY DEF NoTrees, TreeExits
  <2>3. CASE Bind(p) \/ \E code \in {"zero", "nonzero"} : LeaderExits(p, code)
    BY <1>1, <2>3 DEF Bind, LeaderExits, NoTrees, ProcessGroup
  <2>4. CASE ReapOrphan(p)
    BY <1>1, <2>4 DEF ReapOrphan, Settled, Vacant, NoTrees, ProcessGroup
  <2>5. QED
    BY <2>1, <2>2, <2>3, <2>4
<1>5. CASE \E p \in Pids : Watch(p)
  BY <1>1, <1>5 DEF Watch, Settled, Vacant, NoTrees, ProcessGroup
<1>6. CASE Stops
  <2>1. PICK t \in Tasks :
          \/ \E a \in Apps, min_idle \in BOOLEAN : BeginStop(t, a, min_idle)
          \/ Poll(t) \/ SigKill(t)
    BY <1>6 DEF Stops
  <2>2. CASE \E a \in Apps, min_idle \in BOOLEAN : BeginStop(t, a, min_idle)
    BY <1>1, <2>2 DEF BeginStop, NoTrees, ProcessGroup
  <2>3. CASE Poll(t)
    BY <2>3 DEF Poll, StopEnds, GraceOver, StopFails, NoTrees
  <2>4. CASE SigKill(t)
    BY <1>1, <2>4 DEF SigKill, Killed, Settled, Vacant, NoTrees, ProcessGroup
  <2>5. QED
    BY <2>1, <2>2, <2>3, <2>4
<1>7. CASE \E a \in Apps : Forget(a) \/ Touch(a) \/ WindowElapses(a)
  BY <1>7 DEF Forget, Touch, WindowElapses, NoTrees
<1>8. CASE UNCHANGED vars
  BY <1>8 DEF vars, NoTrees
<1>9. QED
  BY <1>2, <1>3, <1>4, <1>5, <1>6, <1>7, <1>8 DEF Next

(* A server that listens does so until its group ends; a group that is not  *)
(* being spawned in this step was there before.                             *)
LEMMA ServingKept ==
  ASSUME IInv, NoTrees, [Next]_vars, NEW p \in Pids, Serving(p), ~Spawned(p)
  PROVE  Serving(p)'
<1>1. procs \in [Pids -> ProcessGroup]
  BY DEF IInv, TypeOK
<1>2. CASE Boot
  <2>1. PICK a \in Apps, o \in Pids, q \in Ports : UpSpawn(a, o, q)
    BY <1>2 DEF Boot
  <2>2. p # o /\ procs'[p] = procs[p]
    BY <1>1, <2>1 DEF UpSpawn, LockFree, Spawned
  <2>3. QED
    BY <2>2 DEF Serving
<1>3. CASE UpRecord \/ UpAbandon
  BY <1>1, <1>3 DEF UpRecord, UpAbandon, Serving, ProcessGroup
<1>4. CASE System
  <2>1. PICK o \in Pids :
          \/ Bind(o) \/ TreeExits(o) \/ ReapOrphan(o)
          \/ \E code \in {"zero", "nonzero"} : LeaderExits(o, code)
    BY <1>4 DEF System
  <2>2. ~TreeExits(o)
    BY DEF NoTrees, TreeExits
  <2>3. CASE Bind(o) \/ \E code \in {"zero", "nonzero"} : LeaderExits(o, code)
    BY <1>1, <2>3 DEF Bind, LeaderExits, Serving, ProcessGroup
  <2>4. CASE ReapOrphan(o)
    BY <1>1, <2>4 DEF ReapOrphan, Settled, Vacant, Serving, ProcessGroup
  <2>5. QED
    BY <2>1, <2>2, <2>3, <2>4
<1>5. CASE \E o \in Pids : Watch(o)
  BY <1>1, <1>5 DEF Watch, Settled, Vacant, Serving, ProcessGroup
<1>6. CASE Stops
  <2>1. PICK t \in Tasks :
          \/ \E a \in Apps, min_idle \in BOOLEAN : BeginStop(t, a, min_idle)
          \/ Poll(t) \/ SigKill(t)
    BY <1>6 DEF Stops
  <2>2. CASE \E a \in Apps, min_idle \in BOOLEAN : BeginStop(t, a, min_idle)
    BY <1>1, <2>2 DEF BeginStop, Serving, ProcessGroup
  <2>3. CASE Poll(t)
    BY <2>3 DEF Poll, StopEnds, GraceOver, StopFails, Serving
  <2>4. CASE SigKill(t)
    BY <1>1, <2>4 DEF SigKill, Killed, Settled, Vacant, Serving, ProcessGroup
  <2>5. QED
    BY <2>1, <2>2, <2>3, <2>4
<1>7. CASE \E a \in Apps : Forget(a) \/ Touch(a) \/ WindowElapses(a)
  BY <1>7 DEF Forget, Touch, WindowElapses, Serving
<1>8. CASE UNCHANGED vars
  BY <1>8 DEF vars, Serving
<1>9. QED
  BY <1>2, <1>3, <1>4, <1>5, <1>6, <1>7, <1>8 DEF Next

(* A pid is only given to a child when no request still talks to it.        *)
LEMMA SpawnedUnused ==
  ASSUME PInv, [ProxyNext]_proxyVars, NEW p \in Pids, Spawned(p)
  PROVE  /\ UnusedPid(p)
         /\ UNCHANGED req \/ \E r \in Reqs : Acts(r) /\ ProxyUp(r)
<1>0. p # None
  BY NoneAssumption
<1>1. ASSUME NEW r \in Reqs, Acts(r)
      PROVE  ProxyUp(r) /\ UnusedPid(p)
  <2>1. ProxyUp(r) /\ \E o \in Pids, q \in Ports : UnusedPid(o) /\ UpSpawn(req[r].app, o, q)
    BY <1>0, <1>1, RequestDrives
       DEF PInv, Spawned, UpRecord, UpAbandon, Touch, vars
  <2>2. QED
    BY <2>1 DEF UpSpawn, Spawned
<1>2. ASSUME NEW a \in Apps, CliUp(a)
      PROVE  UnusedPid(p) /\ UNCHANGED req
  BY <1>2 DEF CliUp, UpSpawn, Spawned
<1>3. ~CliUpEnds
  BY DEF CliUpEnds, UpRecord, UpAbandon, Spawned
<1>4. \A a \in Apps : ~WindowPasses(a)
  BY <1>0 DEF WindowPasses, WindowElapses, Spawned
<1>5. ~Others
  BY <1>0, OthersAside DEF PInv, Aside, Spawned
<1>6. proxyVars' # proxyVars
  BY <1>0 DEF proxyVars, Spawned
<1>7. QED
  BY <1>1, <1>2, <1>3, <1>4, <1>5, <1>6 DEF ProxyNext, Acts

LInv == PInv /\ NoTrees /\ RoutedRunsListen

Finds(r) == Serving(req[r].peer)

LEMMA LInvStep ==
  ASSUME LInv, [ProxyNext]_proxyVars, Forks \subseteq {FALSE}
  PROVE  LInv'
<1>1. PInv' /\ [Next]_vars /\ NoTrees'
  BY PInvStep, ProxyDrives, NoTreesStep DEF LInv, PInv
<1> DEFINE Kept == \A p \in Pids : Serving(p) /\ ~Spawned(p) => Serving(p)'
<1>0. Kept
  BY <1>1, ServingKept DEF LInv, PInv
<1>2. ASSUME NEW o \in Reqs, req'[o].at \in Routed, req[o].at \in Routed,
             req'[o].peer = req[o].peer
      PROVE  Finds(o)'
  <2>1. req[o].peer \in Pids /\ Serving(req[o].peer)
    BY <1>2 DEF LInv, PInv, Shaped, Shape, RoutedRunsListen, Serving
  <2>2. ~Spawned(req[o].peer)
    BY <2>1, SpawnedUnused DEF LInv, UnusedPid
  <2>3. QED
    BY <1>0, <1>2, <2>1, <2>2 DEF Serving, Finds
<1>3. ASSUME NEW r \in Reqs, Acts(r)
      PROVE  RoutedRunsListen'
  <2> SUFFICES ASSUME NEW o \in Reqs, req'[o].at \in Routed
               PROVE  Finds(o)'
    BY DEF RoutedRunsListen, Serving, Finds
  <2>1. RequestStep(r)
    BY <1>3, RequestSteps DEF LInv, PInv
  <2>2. CASE o # r
    BY <1>2, <2>1, <2>2 DEF RequestStep
  <2>3. CASE o = r /\ req[r].at \in Routed /\ req'[r].peer = req[r].peer
    BY <1>2, <2>3
  <2>4. CASE o = r /\ procs[req'[r].peer].bound
    <3>1. req'[r].peer \in Pids
      BY <1>1, <2>4 DEF PInv, Shaped, Shape
    <3>2. ~ProxyUp(r)
      BY <2>4 DEF ProxyUp, Moves, LInv, PInv, Shaped, Request, Routed
    <3>3. ~Spawned(req'[r].peer)
      BY <1>3, <3>1, <3>2, RequestDrives, NoneAssumption
         DEF LInv, PInv, Spawned, UpRecord, UpAbandon, Touch, vars
    <3>4. QED
      BY <1>0, <2>4, <3>1, <3>3 DEF Serving, Finds
  <2>5. QED
    BY <2>1, <2>2, <2>3, <2>4 DEF RequestStep
<1>4. ASSUME ~\E r \in Reqs : Acts(r)
      PROVE  RoutedRunsListen'
  <2>1. \A o \in Reqs : req'[o].at = req[o].at /\ req'[o].peer = req[o].peer
    <3>1. CASE \E a \in Apps : WindowPasses(a)
      BY <3>1 DEF WindowPasses, LInv, PInv, Shaped, Request
    <3>2. CASE ~\E a \in Apps : WindowPasses(a)
      BY <1>4, <3>2 DEF ProxyNext, Acts, CliUp, CliUpEnds, Others, proxyVars
    <3>3. QED
      BY <3>1, <3>2
  <2>2. QED
    BY <1>2, <2>1 DEF RoutedRunsListen, Serving, Finds
<1>5. QED
  BY <1>1, <1>3, <1>4 DEF LInv

(* Where commands exec their server, a request is routed only to a run that *)
(* listens, and finds it listening for as long as that run is alive,        *)
(* whatever is stopped, booted or abandoned meanwhile (proxy.rs:339-343).   *)
THEOREM RoutedRunsListenHolds ==
  ASSUME Forks \subseteq {FALSE}
  PROVE  ProxySpec => []RoutedRunsListen
<1>1. ProxyInit => LInv
  <2> SUFFICES ASSUME ProxyInit PROVE NoTrees /\ RoutedRunsListen
    BY PInvInit DEF LInv
  <2>1. NoTrees
    BY DEF ProxyInit, Init, Vacant, NoTrees
  <2>2. RoutedRunsListen
    BY AnsweredShape DEF ProxyInit, RoutedRunsListen, Routed, Resting
  <2>3. QED
    BY <2>1, <2>2
<1>2. LInv /\ [ProxyNext]_proxyVars => LInv'
  BY LInvStep
<1>3. LInv => RoutedRunsListen
  BY DEF LInv
<1>4. QED
  BY <1>1, <1>2, <1>3, PTL DEF ProxySpec

-----------------------------------------------------------------------------
(* One listener, and no `adj up` beside it. *)

BInv == PInv /\ OpenerIsRequest /\ BootsShared

Runs(r) == Running(req[r].app)

(* What the step of a request can make Running is the app it was booting.   *)
LEMMA RequestRuns ==
  ASSUME PInv, NEW r \in Reqs, Acts(r), NEW a \in Apps, Running(a)', ~Running(a)
  PROVE  ProxyUpRecord(r) /\ a = req[r].app
<1>1. apps \in [Apps -> AppRuntime]
  BY DEF PInv, IInv, TypeOK
<1>2. ~UNCHANGED apps
  BY DEF Running
<1>3. CASE TouchIdle(r) /\ Touch(req[r].app)
  BY <1>1, <1>3 DEF Touch, Running, AppRuntime
<1>4. CASE ProxyUpRecord(r) /\ UpRecord
  <2>1. procs[opening].app = req[r].app
    BY <1>4 DEF ProxyUpRecord, PInv, OpenerKnown, Opens
  <2>2. QED
    BY <1>1, <1>4, <2>1 DEF UpRecord, Running
<1>5. QED
  BY <1>2, <1>3, <1>4, RequestDrives DEF PInv, vars, UpSpawn, UpAbandon

LEMMA OpenerStep ==
  ASSUME PInv, OpenerIsRequest, [ProxyNext]_proxyVars, CliBoots = FALSE
  PROVE  OpenerIsRequest'
<1>1. ASSUME NEW r \in Reqs, Acts(r)
      PROVE  OpenerIsRequest'
  <2>1. RequestStep(r)
    BY <1>1, RequestSteps DEF PInv
  <2>2. CASE Opens(r)
    <3>1. opening' = None
      BY <1>1, <2>2
         DEF Opens, Acts, Proceed, Arrive, Resting, EnterGate, CheckState, ProxyUp,
             ProxyUpFails, ProxyUpRecord, UpRecord, ProxyUpAbandon, UpAbandon,
             ReadState, ProbeOk, ProbeAgain, BootTimeout, TouchIdle, Forward,
             Finish, HangUp
    <3>2. QED
      BY <3>1 DEF OpenerIsRequest
  <2>3. CASE ProxyUp(r)
    BY <2>3 DEF ProxyUp, Moves, OpenerIsRequest, Opens, PInv, Shaped, Request
  <2>4. CASE ~Opens(r) /\ ~ProxyUp(r)
    <3>1. UNCHANGED opening
      BY <1>1, <2>4, RequestDrives DEF PInv, vars, Touch, ProxyUpRecord, Opens
    <3>2. QED
      BY <2>1, <2>4, <3>1 DEF OpenerIsRequest, RequestStep, Opens
  <2>5. QED
    BY <2>2, <2>3, <2>4
<1>2. ASSUME ~\E r \in Reqs : Acts(r)
      PROVE  OpenerIsRequest'
  <2>1. ~CliUpEnds /\ ~\E a \in Apps : CliUp(a)
    BY DEF CliUp, CliUpEnds, OpenerIsRequest, Opens, UpRecord, UpAbandon
  <2>2. UNCHANGED opening
    BY <1>2, <2>1, OthersAside
       DEF ProxyNext, Acts, WindowPasses, WindowElapses, Aside, PInv, proxyVars
  <2>3. \A o \in Reqs : req'[o].at = req[o].at
    <3>1. CASE \E a \in Apps : WindowPasses(a)
      BY <3>1 DEF WindowPasses, PInv, Shaped, Request
    <3>2. CASE ~\E a \in Apps : WindowPasses(a)
      BY <1>2, <2>1, <3>2 DEF ProxyNext, Acts, Others, proxyVars
    <3>3. QED
      BY <3>1, <3>2
  <2>4. QED
    BY <2>2, <2>3 DEF OpenerIsRequest, Opens
<1>3. QED
  BY <1>1, <1>2

LEMMA BInvStep ==
  ASSUME BInv, [ProxyNext]_proxyVars, CliBoots = FALSE,
         \A v, w \in Listeners : v = w
  PROVE  BInv'
<1>1. PInv' /\ OpenerIsRequest'
  BY PInvStep, OpenerStep DEF BInv
<1>2. \A o \in Reqs : req[o].at = "up" => req[o].app \in Apps
  BY DEF BInv, PInv, Shaped, Shape, Resting
<1>3. ASSUME NEW r \in Reqs, Acts(r)
      PROVE  BootsShared'
  <2> SUFFICES ASSUME NEW o \in Reqs, req'[o].at = "up", Runs(o)'
               PROVE  FALSE
    BY DEF BootsShared, Runs
  <2>1. RequestStep(r)
    BY <1>3, RequestSteps DEF BInv, PInv
  <2>2. req'[o].app \in Apps
    BY <1>1 DEF PInv, Shaped, Shape, Resting
  <2>3. ~Running(req'[o].app)
    <3>1. CASE o # r
      BY <2>1, <3>1 DEF RequestStep, BInv, BootsShared
    <3>2. CASE o = r
      BY <2>1, <3>2 DEF RequestStep, SameApp, Gated, BInv, BootsShared
    <3>3. QED
      BY <3>1, <3>2
  <2>4. \A a \in Apps : Running(a)' /\ ~Running(a) =>
                            ProxyUpRecord(r) /\ a = req[r].app
    BY <1>3, RequestRuns DEF BInv
  <2>5. ProxyUpRecord(r) /\ req'[o].app = req[r].app
    BY <2>2, <2>3, <2>4 DEF Running, Runs
  <2>6. o # r
    BY <2>5 DEF ProxyUpRecord, Moves, BInv, PInv, Shaped, Request
  <2>7. req[o].at = "up" /\ req[o].app = req[r].app /\ req[r].at = "opening"
    BY <2>1, <2>5, <2>6 DEF RequestStep, ProxyUpRecord
  <2>8. req[o].via = req[r].via
    BY <2>7 DEF BInv, PInv, Shaped, Shape, Gated
  <2>9. QED
    BY <2>6, <2>7, <2>8 DEF BInv, PInv, GateHeld, Gated
<1>4. ASSUME ~\E r \in Reqs : Acts(r)
      PROVE  BootsShared'
  <2>1. ~CliUpEnds /\ ~\E a \in Apps : CliUp(a)
    BY DEF CliUp, CliUpEnds, BInv, OpenerIsRequest, Opens, UpRecord, UpAbandon
  <2>2. \A a \in Apps : Running(a)' => Running(a)
    <3>1. CASE \E a \in Apps : WindowPasses(a)
      BY <3>1 DEF WindowPasses, WindowElapses, Running, BInv, PInv, IInv, TypeOK, AppRuntime
    <3>2. CASE ~\E a \in Apps : WindowPasses(a)
      BY <1>4, <2>1, <3>2, OthersAside
         DEF ProxyNext, Acts, Aside, BInv, PInv, proxyVars, Running
    <3>3. QED
      BY <3>1, <3>2
  <2>3. \A o \in Reqs : req'[o].at = req[o].at /\ req'[o].app = req[o].app
    <3>1. CASE \E a \in Apps : WindowPasses(a)
      BY <3>1 DEF WindowPasses, BInv, PInv, Shaped, Request
    <3>2. CASE ~\E a \in Apps : WindowPasses(a)
      BY <1>4, <2>1, <3>2 DEF ProxyNext, Acts, Others, proxyVars
    <3>3. QED
      BY <3>1, <3>2
  <2>4. QED
    BY <1>2, <2>2, <2>3 DEF BInv, BootsShared, Running
<1>5. QED
  BY <1>1, <1>3, <1>4 DEF BInv

(* "concurrent requests during boot wait on the same start" (README.md:17): *)
(* with one listener and no `adj up` beside it, a request that decided to   *)
(* boot its app never finds it booted already, however many requests there  *)
(* are and whichever of them hang up during the boot.                       *)
THEOREM BootsSharedHolds ==
  ASSUME CliBoots = FALSE, \A v, w \in Listeners : v = w
  PROVE  ProxySpec => []BootsShared
<1>1. ProxyInit => BInv
  <2> SUFFICES ASSUME ProxyInit PROVE OpenerIsRequest /\ BootsShared
    BY PInvInit DEF BInv
  <2>1. OpenerIsRequest
    BY DEF ProxyInit, Init, OpenerIsRequest
  <2>2. BootsShared
    BY AnsweredShape DEF ProxyInit, BootsShared, Resting
  <2>3. QED
    BY <2>1, <2>2
<1>2. BInv /\ [ProxyNext]_proxyVars => BInv'
  BY BInvStep
<1>3. BInv => BootsShared
  BY DEF BInv
<1>4. QED
  BY <1>1, <1>2, <1>3, PTL DEF ProxySpec

-----------------------------------------------------------------------------
(* The gate.  Proxy has requests wait and boot as SingleFlight lets them,   *)
(* with a name for each app and listener; that BootGate keeps this promise  *)
(* for one listener is BootGateProofs' GateImplementsFlight.                *)

Name(r) == <<req[r].app, req[r].via>>

Flight == INSTANCE SingleFlight WITH
  Names <- Apps \X Listeners, None <- <<>>,
  waiting <- [r \in Reqs |-> IF req[r].at = "gate" THEN Name(r) ELSE <<>>],
  holding <- [r \in Reqs |-> IF req[r].at \in Gated THEN Name(r) ELSE <<>>]

LEMMA NotWaiting ==
  ASSUME Shaped, NEW r \in Reqs, Proceed(r) \/ Finish(r) \/ HangUp(r)
  PROVE  req'[r].at # "gate"
<1>1. Shape(req[r]) /\ req \in [Reqs -> Request]
  BY DEF Shaped
<1>2. ASSUME NEW result \in Resting, Answers(r, result)
      PROVE  req'[r].at # "gate"
  BY <1>1, <1>2 DEF Answers, Answered, Resting
<1>3. ASSUME NEW to \in Gated, Moves(r, to)
      PROVE  req'[r].at # "gate"
  BY <1>1, <1>3 DEF Moves, Gated, Request
<1>4. CASE \/ EnterGate(r) \/ CheckState(r) \/ ProxyUp(r) \/ ProxyUpRecord(r)
  BY <1>3, <1>4 DEF EnterGate, CheckState, ProxyUp, ProxyUpRecord, Gated
<1>5. CASE \/ ProxyUpFails(r) \/ ProxyUpAbandon(r) \/ BootTimeout(r)
           \/ Finish(r) \/ HangUp(r)
  BY <1>2, <1>5 DEF ProxyUpFails, ProxyUpAbandon, BootTimeout, Finish, HangUp, Resting
<1>6. CASE ReadState(r)
  BY <1>1, <1>2, <1>6 DEF ReadState, Resting, Request
<1>7. CASE Forward(r)
  BY <1>1, <1>2, <1>7 DEF Forward, Resting, Request
<1>8. CASE ProbeOk(r) \/ ProbeAgain(r) \/ TouchIdle(r)
  BY <1>1, <1>8 DEF ProbeOk, ProbeAgain, TouchIdle, Request
<1>9. QED
  BY <1>4, <1>5, <1>6, <1>7, <1>8 DEF Proceed

LEMMA FlightStep ==
  ASSUME PInv, NEW r \in Reqs, Acts(r)
  PROVE  [Flight!FlightNext]_(Flight!flightVars)
<1> DEFINE W(o) == IF req[o].at = "gate" THEN Name(o) ELSE <<>>
           H(o) == IF req[o].at \in Gated THEN Name(o) ELSE <<>>
           waiting == [o \in Reqs |-> W(o)]
           holding == [o \in Reqs |-> H(o)]
<1>1. RequestStep(r) /\ Shape(req[r])
  BY RequestSteps DEF PInv, Shaped
<1>2. \A o \in Reqs \ {r} : W(o)' = W(o) /\ H(o)' = H(o)
  BY <1>1 DEF RequestStep, Name
<1>3. /\ waiting' = [waiting EXCEPT ![r] = W(r)']
      /\ holding' = [holding EXCEPT ![r] = H(r)']
  BY <1>2
<1>4. "gate" \notin Gated
  BY DEF Gated
<1>5. ASSUME NEW a \in Apps, NEW via \in Listeners, Arrive(r, a, via)
      PROVE  Flight!FlightNext
  <2>1. req'[r].at = "gate" /\ req'[r].app = a /\ req'[r].via = via
    BY <1>5 DEF Arrive, Answered, PInv, Shaped
  <2>2. W(r)' = <<a, via>> /\ H(r)' = <<>>
    BY <1>4, <2>1 DEF Name
  <2>3. W(r) = <<>> /\ H(r) = <<>>
    BY <1>5 DEF Arrive, Resting, Gated
  <2>4. holding' = holding /\ waiting' = [waiting EXCEPT ![r] = <<a, via>>]
    BY <1>3, <2>2, <2>3
  <2>5. Flight!Knock(r, <<a, via>>)
    BY <2>3, <2>4 DEF Flight!Knock
  <2>6. QED
    BY <2>5 DEF Flight!FlightNext
<1>6. CASE EnterGate(r)
  <2>1. req[r].at = "gate" /\ req'[r].at = "check" /\ Name(r)' = Name(r)
        /\ Name(r) \in Apps \X Listeners
    BY <1>1, <1>6 DEF EnterGate, Moves, Name, PInv, Shaped, Shape, Request, Resting
  <2>2. PICK n \in Apps \X Listeners : n = Name(r)
    BY <2>1
  <2>3. W(r)' = <<>> /\ H(r)' = n /\ W(r) = n
    BY <2>1, <2>2 DEF Gated
  <2>4. \A o \in Reqs : H(o) # n
    BY <1>6, <2>1, <2>2 DEF EnterGate, Name
  <2>5. Flight!Enter(r, n)
    BY <1>3, <2>3, <2>4 DEF Flight!Enter
  <2>6. QED
    BY <2>5 DEF Flight!FlightNext
<1>7. CASE Proceed(r) \/ Finish(r) \/ HangUp(r)
  <2>1. W(r)' = <<>>
    BY <1>7, NotWaiting DEF PInv
  <2>2. CASE req'[r].at \notin Gated
    <3>1. H(r)' = <<>>
      BY <2>2
    <3>2. Flight!Quit(r)
      BY <1>3, <2>1, <3>1 DEF Flight!Quit
    <3>3. QED
      BY <3>2 DEF Flight!FlightNext
  <2>3. CASE req'[r].at \in Gated /\ ~EnterGate(r)
    <3>1. req[r].at \in Gated /\ Name(r)' = Name(r)
      BY <1>1, <2>3 DEF RequestStep, SameApp, Name
    <3>2. W(r) = <<>> /\ H(r)' = H(r)
      BY <1>4, <2>3, <3>1
    <3>3. waiting' = waiting /\ holding' = holding
      BY <1>3, <2>1, <3>2
    <3>4. QED
      BY <3>3 DEF Flight!flightVars
  <2>4. QED
    BY <1>6, <2>2, <2>3
<1>8. QED
  BY <1>5, <1>7 DEF Acts

(* Requests use the gate as SingleFlight promises it: a request waits for   *)
(* the others of its app and listener only, boots alone, and leaves the     *)
(* gate when it is routed, answered or hung up on, even in the middle of a  *)
(* boot (proxy.rs:336-366).                                                 *)
THEOREM ProxyImplementsFlight == ProxySpec => Flight!FlightSpec
<1>1. ProxyInit => Flight!FlightInit
  BY DEF ProxyInit, Answered, Gated, Flight!FlightInit
<1>2. PInv /\ [ProxyNext]_proxyVars => [Flight!FlightNext]_(Flight!flightVars)
  <2> SUFFICES ASSUME PInv, [ProxyNext]_proxyVars
               PROVE  [Flight!FlightNext]_(Flight!flightVars)
    OBVIOUS
  <2>1. CASE \E r \in Reqs : Acts(r)
    BY <2>1, FlightStep
  <2>2. CASE UNCHANGED req
    BY <2>2 DEF Flight!flightVars, Name
  <2>3. ASSUME NEW a \in Apps, WindowPasses(a)
        PROVE  UNCHANGED Flight!flightVars
    <3>1. \A r \in Reqs : /\ req'[r].at = req[r].at /\ req'[r].app = req[r].app
                          /\ req'[r].via = req[r].via
      BY <2>3 DEF WindowPasses, PInv, Shaped, Request
    <3>2. QED
      BY <3>1 DEF Flight!flightVars, Name
  <2>4. QED
    BY <2>1, <2>2, <2>3 DEF ProxyNext, Acts, CliUp, CliUpEnds, Others, proxyVars
<1>3. QED
  BY <1>1, <1>2, PInvHolds, PTL DEF ProxySpec, Flight!FlightSpec
=============================================================================
