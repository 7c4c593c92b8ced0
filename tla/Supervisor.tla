----------------------------- MODULE Supervisor -----------------------------
(***************************************************************************)
(* The process supervisor of the daemon (crates/adj/src/supervisor.rs):     *)
(* the table of supervised apps, the ports handed to their children, the    *)
(* operating system's process groups, and the calls that are stopping an    *)
(* app.  One tokio Mutex guards the table and the reservations; `up` holds  *)
(* it across an await (opening the log file), every other critical section  *)
(* is one atomic step taken when the mutex is free.                         *)
(*                                                                          *)
(* The callers are left as general as they can be: any app may be booted,   *)
(* stopped, touched or forgotten at any time by any of the Tasks.           *)
(***************************************************************************)
CONSTANTS
  Apps,    \* routing keys: `<app>` or `<label>.<app>`
  Pids,    \* process ids; the pid of a shell is also its process group id
  Ports,   \* loopback TCP ports the kernel may return for a bind of `:0`
  Tasks,   \* daemon tasks running `down` or `down_if_idle`
  Forks,   \* whether a shell may fork its server, and may exec it
  None     \* no app, no pid, no port

ASSUME NoneAssumption == None \notin Apps \cup Pids \cup Ports
ASSUME ForksAssumption == Forks \subseteq BOOLEAN

VARIABLES
  apps,      \* Inner.apps; a missing entry has the state "Absent"
  reserved,  \* Inner.reserved_ports
  procs,     \* process groups of the operating system, by pid
  opening,   \* the child whose `up` is opening the log, holding the mutex
  stop       \* the stop a task is carrying out, if any

vars == <<apps, reserved, procs, opening, stop>>

(* How a shell ended: exit 0, any other code or signal, our own SIGKILL.    *)
ExitCodes == {"zero", "nonzero", "killed"}

(* AppRuntime.  pid and port are those of AppState::Running; `quiet` says   *)
(* that last_request is at least the idle window ago.                       *)
AppRuntime ==
  [state: {"Absent", "Running", "Stopped", "Crashed"},
   pid: Pids \cup {None}, port: Ports \cup {None},
   intentional: BOOLEAN, quiet: BOOLEAN]

(* A process group: its leader is the `sh -c` the daemon spawned ("none"    *)
(* once it is reaped), `tree` says that a descendant of it is alive,        *)
(* `bound` that the group listens on its port, `watched` that the detached  *)
(* wait task has it.  `asked` is history: a stop was begun on this run.     *)
ProcessGroup ==
  [app: Apps \cup {None}, port: Ports \cup {None},
   leader: {"none", "alive"} \cup ExitCodes,
   tree: BOOLEAN, bound: BOOLEAN, watched: BOOLEAN, asked: BOOLEAN]

(* A call in begin_intentional_stop / finish_stop: "grace" after SIGTERM,   *)
(* "kill" when the grace is over, "last" after SIGKILL, then its result.    *)
Stopping == {"grace", "kill", "last"}
StopCall ==
  [phase: Stopping \cup {"idle", "ok", "err"},
   app: Apps \cup {None}, pid: Pids \cup {None}]

TypeOK ==
  /\ apps \in [Apps -> AppRuntime]
  /\ reserved \in SUBSET Ports
  /\ procs \in [Pids -> ProcessGroup]
  /\ opening \in Pids \cup {None}
  /\ stop \in [Tasks -> StopCall]

Entry(s) ==
  [state |-> s, pid |-> None, port |-> None,
   intentional |-> FALSE, quiet |-> FALSE]

Vacant ==
  [app |-> None, port |-> None, leader |-> "none",
   tree |-> FALSE, bound |-> FALSE, watched |-> FALSE, asked |-> FALSE]

NoCall(result) == [phase |-> result, app |-> None, pid |-> None]

Init ==
  /\ apps = [a \in Apps |-> Entry("Absent")]
  /\ reserved = {}
  /\ procs = [p \in Pids |-> Vacant]
  /\ opening = None
  /\ stop = [t \in Tasks |-> NoCall("idle")]

-----------------------------------------------------------------------------
LockFree == opening = None

Running(a) == apps[a].state = "Running"

(* The group is forgotten by the kernel once no member of it is left.       *)
Settled(g) == IF g.leader = "none" /\ ~g.tree THEN Vacant ELSE g

Exited(p) == procs[p].leader \in ExitCodes

(* The kernel gives a new child a pid that names no process group.  It is   *)
(* also taken not to come round again while a stop still holds it.          *)
FreshPid(p) ==
  /\ procs[p].leader = "none" /\ ~procs[p].tree
  /\ \A t \in Tasks : stop[t].phase \in Stopping => stop[t].pid # p

Listening(q) == \E p \in Pids : procs[p].bound /\ procs[p].port = q

(* allocate_free_port: what a bind of `:0` may return and is not reserved.  *)
(* Mutant: the draw is not compared with reserved_ports.                    *)
UnreservedPorts == {q \in Ports : ~Listening(q)}
FreePorts == {q \in Ports : ~Listening(q) /\ q \notin reserved}

-----------------------------------------------------------------------------
(* `up` as far as LogWriter::open: with the mutex taken and the app not     *)
(* Running, reserve a port and spawn the shell in a group of its own.  The  *)
(* error paths before the spawn, and the failed spawn, leave the state as   *)
(* they found it.                                                           *)
UpSpawn(a, p, q) ==
  /\ LockFree
  /\ ~Running(a)
  /\ FreshPid(p)
  /\ q \in FreePorts
  /\ \E forks \in Forks :
       procs' = [procs EXCEPT ![p] =
         [Vacant EXCEPT !.app = a, !.port = q, !.leader = "alive", !.tree = forks]]
  /\ reserved' = reserved \cup {q}
  /\ opening' = p
  /\ UNCHANGED <<apps, stop>>

(* The rest of `up`: record a fresh Running entry, detach the wait task and *)
(* release the mutex.                                                       *)
UpRecord ==
  /\ opening # None
  /\ apps' = [apps EXCEPT ![procs[opening].app] =
       [state |-> "Running", pid |-> opening, port |-> procs[opening].port,
        intentional |-> FALSE, quiet |-> FALSE]]
  /\ procs' = [procs EXCEPT ![opening].watched = TRUE]
  /\ opening' = None
  /\ UNCHANGED <<reserved, stop>>

(* LogWriter::open fails, or the future of `up` is dropped while it waits   *)
(* (the proxy drops it with its client's connection): the `?` returns       *)
(* without releasing the reservation, and nothing watches the child.        *)
UpAbandon ==
  /\ opening # None
  /\ opening' = None
  /\ UNCHANGED <<apps, reserved, procs, stop>>

-----------------------------------------------------------------------------
(* The operating system: the group's server listens, the shell ends, the    *)
(* descendants end.  A server whose shell forked it outlives the shell.     *)
Bind(p) ==
  /\ procs[p].leader = "alive" \/ procs[p].tree
  /\ ~procs[p].bound /\ ~Listening(procs[p].port)
  /\ procs' = [procs EXCEPT ![p].bound = TRUE]
  /\ UNCHANGED <<apps, reserved, opening, stop>>

LeaderExits(p, code) ==
  /\ procs[p].leader = "alive"
  /\ procs' = [procs EXCEPT ![p].leader = code,
                            ![p].bound = @ /\ procs[p].tree]
  /\ UNCHANGED <<apps, reserved, opening, stop>>

TreeExits(p) ==
  /\ procs[p].tree
  /\ procs' = [procs EXCEPT ![p] = Settled([@ EXCEPT !.tree = FALSE, !.bound = FALSE])]
  /\ UNCHANGED <<apps, reserved, opening, stop>>

(* A child whose handle was dropped is reaped by tokio's orphan queue.      *)
ReapOrphan(p) ==
  /\ Exited(p) /\ ~procs[p].watched /\ opening # p
  /\ procs' = [procs EXCEPT ![p] = Settled([@ EXCEPT !.leader = "none"])]
  /\ UNCHANGED <<apps, reserved, opening, stop>>

(* Mutant of Verdict: the exit code is taken for the state.                 *)
RawVerdict(rt, code) == IF rt.intentional THEN "Stopped" ELSE code

Verdict(rt, code) ==
  IF rt.intentional \/ code = "zero" THEN "Stopped" ELSE "Crashed"

(* The wait task after child.wait(): it finds the entry by the app's name,  *)
(* records how the run ended, resets the flag and releases the port.        *)
Watch(p) ==
  LET a == procs[p].app IN
  /\ LockFree
  /\ procs[p].watched /\ Exited(p)
  /\ apps' = IF apps[a].state = "Absent" THEN apps
             ELSE [apps EXCEPT ![a] = Entry(Verdict(@, procs[p].leader))]
  /\ reserved' = reserved \ {procs[p].port}
  /\ procs' = [procs EXCEPT ![p] =
       Settled([@ EXCEPT !.leader = "none", !.watched = FALSE])]
  /\ UNCHANGED <<opening, stop>>

-----------------------------------------------------------------------------
(* Mutant of BeginStop: the exit is not flagged as intentional.             *)
BeginStopUnflagged(t, a, min_idle) ==
  /\ LockFree
  /\ stop[t].phase \notin Stopping
  /\ Running(a)
  /\ min_idle => apps[a].quiet
  /\ procs' = [procs EXCEPT ![apps[a].pid].asked = TRUE]
  /\ stop' = [stop EXCEPT ![t] =
       [phase |-> "grace", app |-> a, pid |-> apps[a].pid]]
  /\ UNCHANGED <<apps, reserved, opening>>

(* begin_intentional_stop and the SIGTERM of finish_stop.  min_idle is TRUE *)
(* for down_if_idle, which leaves an app alone whose window has not         *)
(* elapsed.  A group may end at any time, so SIGTERM adds no behaviour.     *)
BeginStop(t, a, min_idle) ==
  /\ LockFree
  /\ stop[t].phase \notin Stopping
  /\ Running(a)
  /\ min_idle => apps[a].quiet
  /\ apps' = [apps EXCEPT ![a].intentional = TRUE]
  /\ procs' = [procs EXCEPT ![apps[a].pid].asked = TRUE]
  /\ stop' = [stop EXCEPT ![t] =
       [phase |-> "grace", app |-> a, pid |-> apps[a].pid]]
  /\ UNCHANGED <<reserved, opening>>

(* Mutant of StopEnds: the signal is taken for the end. *)
StopEndsUnseen(t) ==
  /\ LockFree
  /\ stop[t].phase \in {"grace", "last"}
  /\ stop' = [stop EXCEPT ![t] = NoCall("ok")]
  /\ UNCHANGED <<apps, reserved, procs, opening>>

(* A poll, in either loop of finish_stop, that finds the app not Running.   *)
StopEnds(t) ==
  /\ LockFree
  /\ stop[t].phase \in {"grace", "last"}
  /\ ~Running(stop[t].app)
  /\ stop' = [stop EXCEPT ![t] = NoCall("ok")]
  /\ UNCHANGED <<apps, reserved, procs, opening>>

(* Mutant of GraceOver: no SIGKILL follows the grace window.                *)
GraceOverGivesUp(t) ==
  /\ LockFree
  /\ stop[t].phase = "grace"
  /\ Running(stop[t].app)
  /\ stop' = [stop EXCEPT ![t] = NoCall("err")]
  /\ UNCHANGED <<apps, reserved, procs, opening>>

(* The poll at the deadline still finds the app Running. *)
GraceOver(t) ==
  /\ LockFree
  /\ stop[t].phase = "grace"
  /\ Running(stop[t].app)
  /\ stop' = [stop EXCEPT ![t].phase = "kill"]
  /\ UNCHANGED <<apps, reserved, procs, opening>>

Killed(g) ==
  [g EXCEPT !.leader = IF g.leader = "alive" THEN "killed" ELSE g.leader,
            !.tree = FALSE, !.bound = FALSE]

(* Mutant of SigKill: the pid is looked up again under the app's name.      *)
SigKillByName(t) ==
  LET p == apps[stop[t].app].pid IN
  /\ stop[t].phase = "kill"
  /\ procs' = IF p = None THEN procs
              ELSE [procs EXCEPT ![p] = Settled(Killed(@))]
  /\ stop' = [stop EXCEPT ![t].phase = "last"]
  /\ UNCHANGED <<apps, reserved, opening>>

(* SIGKILL to the group the stop began with, without the mutex.             *)
SigKill(t) ==
  /\ stop[t].phase = "kill"
  /\ procs' = [procs EXCEPT ![stop[t].pid] = Settled(Killed(@))]
  /\ stop' = [stop EXCEPT ![t].phase = "last"]
  /\ UNCHANGED <<apps, reserved, opening>>

(* Mutant of StopFails: the polls after SIGKILL are not counted.            *)
StopPollsOn(t) ==
  /\ LockFree
  /\ stop[t].phase = "last"
  /\ Running(stop[t].app)
  /\ UNCHANGED vars

(* The last of the polls after SIGKILL still finds the app Running.         *)
StopFails(t) ==
  /\ LockFree
  /\ stop[t].phase = "last"
  /\ Running(stop[t].app)
  /\ stop' = [stop EXCEPT ![t] = NoCall("err")]
  /\ UNCHANGED <<apps, reserved, procs, opening>>

-----------------------------------------------------------------------------
(* Mutant of Forget: a Running entry is dropped as well. *)
ForgetRunning(a) ==
  /\ LockFree
  /\ apps[a].state # "Absent"
  /\ apps' = [apps EXCEPT ![a] = Entry("Absent")]
  /\ UNCHANGED <<reserved, procs, opening, stop>>

Forget(a) ==
  /\ LockFree
  /\ apps[a].state \in {"Stopped", "Crashed"}
  /\ apps' = [apps EXCEPT ![a] = Entry("Absent")]
  /\ UNCHANGED <<reserved, procs, opening, stop>>

(* touch_idle: the proxy routes a request to the app. *)
Touch(a) ==
  /\ LockFree
  /\ Running(a)
  /\ apps' = [apps EXCEPT ![a].quiet = FALSE]
  /\ UNCHANGED <<reserved, procs, opening, stop>>

(* Time passes: the app's last request is now an idle window ago.           *)
WindowElapses(a) ==
  /\ Running(a)
  /\ apps' = [apps EXCEPT ![a].quiet = TRUE]
  /\ UNCHANGED <<reserved, procs, opening, stop>>

-----------------------------------------------------------------------------
Poll(t) == StopEnds(t) \/ GraceOver(t) \/ StopFails(t)

Boot == \E a \in Apps, p \in Pids, q \in Ports : UpSpawn(a, p, q)

System ==
  \E p \in Pids :
    \/ Bind(p)
    \/ \E code \in {"zero", "nonzero"} : LeaderExits(p, code)
    \/ TreeExits(p)
    \/ ReapOrphan(p)

Stops ==
  \E t \in Tasks :
    \/ \E a \in Apps, min_idle \in BOOLEAN : BeginStop(t, a, min_idle)
    \/ Poll(t)
    \/ SigKill(t)

Next ==
  \/ Boot
  \/ UpRecord
  \/ UpAbandon
  \/ System
  \/ \E p \in Pids : Watch(p)
  \/ Stops
  \/ \E a \in Apps : Forget(a) \/ Touch(a) \/ WindowElapses(a)

Spec == Init /\ [][Next]_vars

(* The runtime goes on with every task that can run.  Steps that take the   *)
(* mutex are strongly fair: tokio's Mutex serves its waiters in order, so   *)
(* one that keeps finding it free gets it.  Nothing makes a child exit.     *)
Fairness ==
  /\ WF_vars(UpRecord \/ UpAbandon)
  /\ \A p \in Pids : SF_vars(Watch(p))
  /\ \A t \in Tasks : SF_vars(Poll(t)) /\ WF_vars(SigKill(t))

FairSpec == Spec /\ Fairness

-----------------------------------------------------------------------------
(* The table and the operating system agree: an app is Running exactly when *)
(* the wait task of the very process group its entry names is still         *)
(* pending, so no run is supervised twice, replaced, or lost while          *)
(* supervised.  The code relates them only through the app's name (the      *)
(* wait task, supervisor.rs:284) and the Running checks of up and forget.   *)
SupervisedRuns ==
  /\ \A a \in Apps : Running(a) =>
       /\ apps[a].pid \in Pids
       /\ procs[apps[a].pid].watched
       /\ procs[apps[a].pid].app = a
       /\ procs[apps[a].pid].port = apps[a].port
  /\ \A p \in Pids : procs[p].watched =>
       /\ procs[p].app \in Apps
       /\ Running(procs[p].app)
       /\ apps[procs[p].app].pid = p

(* A child that is being booted or supervised keeps the reservation of its  *)
(* port until its own exit is recorded, and shares the port with no other   *)
(* such child (supervisor.rs:115-118, "avoid collisions between             *)
(* Adjacent-supervised processes"), even before it has bound it.            *)
Holder(p) == procs[p].watched \/ opening = p

PortsExclusive ==
  \A p \in Pids : Holder(p) =>
    /\ procs[p].port \in reserved
    /\ \A o \in Pids \ {p} : Holder(o) => procs[o].port # procs[p].port

(* A run is killed only if a stop was begun on that run: a stop that        *)
(* outlives its run (the app was booted again meanwhile, and finish_stop    *)
(* polls by name) never signals the new one.                                *)
KilledOnlyIfAsked ==
  \A p \in Pids : procs[p].leader = "killed" => procs[p].asked

(* When a stop returns Ok, the shell it was begun on has exited and its end *)
(* has been recorded (finish_stop, supervisor.rs:390-424), although the     *)
(* poll only looks at the state under the app's name.                       *)
Returns(t, result) == stop[t].phase \in Stopping /\ stop'[t].phase = result

OkOnlyWhenEnded ==
  \A t \in Tasks : Returns(t, "ok") =>
    /\ procs[stop[t].pid].leader # "alive"
    /\ ~procs[stop[t].pid].watched

StopOkMeansEnded == [][OkOnlyWhenEnded]_vars

(* Every stop returns, Ok or Err: no poll waits for ever, for the mutex or  *)
(* for the app, not even for an app that is booted again meanwhile.         *)
StopReturns ==
  \A t \in Tasks : stop[t].phase \in Stopping ~> stop[t].phase \in {"ok", "err"}

(* The supervisor implements AppLife: what the table says of an app, the    *)
(* truth about the run its entry names, and the stops begun on that run.    *)
LifeStatus ==
  [a \in Apps |-> IF apps[a].state = "Absent" THEN "Stopped" ELSE apps[a].state]
LifeRun ==
  [a \in Apps |-> IF Running(a) THEN procs[apps[a].pid].leader ELSE "none"]
LifeAsked ==
  [a \in Apps |-> Running(a) /\ procs[apps[a].pid].asked]

Life == INSTANCE AppLife
          WITH status <- LifeStatus, run <- LifeRun, asked <- LifeAsked

(* Each run is reported once, by its own end and its own stops: Crashed     *)
(* exactly when it ended non-zero and no stop was begun on it.              *)
ImplementsLife == Life!LifeSpec

(* Moreover every end is reported, and every run a stop was begun on ends,  *)
(* by itself or by the SIGKILL after the grace window.                      *)
ImplementsFairLife == Life!LifeFairSpec
=============================================================================
