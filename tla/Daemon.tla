-------------------------------- MODULE Daemon --------------------------------
(***************************************************************************)
(* The control plane (crates/adj/src/daemon.rs): the tasks that serve `adj` *)
(* commands and the registry reads of lazily booting proxy requests, the    *)
(* idle scanner, the registry file (crates/adj/src/registry.rs) and the     *)
(* registry lock.                                                           *)
(*                                                                          *)
(* The supervisor appears as the AppLife it implements: `down` asks a run   *)
(* to end and waits until the app is no longer Running, or gives up.        *)
(* Commands that only read (ping, list, status, logs, wait-ready) change    *)
(* none of this state and are left out.                                     *)
(***************************************************************************)
EXTENDS AppLife

CONSTANTS
  Handlers,  \* tasks serving a command, or a proxy request that boots
  Scanner,   \* the idle scanner's task
  Timed,     \* apps whose idle_timeout is not "off"
  Active,    \* apps that boot; the others are only added, removed and
             \* pruned (a bound for TLC)
  Commands,  \* the commands in use
  Faults,    \* what may go wrong: the daemon dies, a write fails
  None

ASSUME DaemonAssumption ==
  /\ Scanner \notin Handlers
  /\ None \notin Apps \cup Handlers \cup {Scanner}
  /\ Timed \subseteq Apps /\ Active \subseteq Apps
  /\ Commands \subseteq {"add", "remove", "prune", "up", "down", "restart"}
  /\ Faults \subseteq {"crash", "disk"}

VARIABLES
  file,   \* the keys a reader of registry.toml finds
  lock,   \* the task that holds registry_lock, or None
  path,   \* what try_exists() says of each key's directory
  task    \* where each task is

daemonVars == <<status, run, asked, file, lock, path, task>>

Tasks == Handlers \cup {Scanner}
PathStates == {"there", "unknown", "gone"}

(* `todo` are the apps still to be looked at, `reg` the registry as the     *)
(* task loaded it and, under the lock, changed it in memory.                *)
Task ==
  [at: {"idle", "lock", "next", "stop", "wait", "forget", "save", "torn",
        "reload", "load", "boot", "look", "sweep"},
   op: Commands \cup {"none", "reap", "idle"},
   app: Apps \cup {None}, todo: SUBSET Apps, reg: SUBSET Apps]

DaemonTypeOK ==
  /\ status \in [Apps -> {"Stopped", "Running", "Crashed"}]
  /\ run \in [Apps -> {"none", "alive"} \cup Ends]
  /\ asked \in [Apps -> BOOLEAN]
  /\ file \in SUBSET Apps
  /\ lock \in Handlers \cup {None}
  /\ path \in [Apps -> PathStates]
  /\ task \in [Tasks -> Task]

Rest == [at |-> "idle", op |-> "none", app |-> None, todo |-> {}, reg |-> {}]

DaemonInit ==
  /\ LifeInit
  /\ file = {} /\ lock = None
  /\ path = [a \in Apps |-> "there"]
  /\ task = [t \in Tasks |-> Rest]

Goes(t, at) == task' = [task EXCEPT ![t].at = at]
Returns(t) == task' = [task EXCEPT ![t] = Rest]

-----------------------------------------------------------------------------
(* dispatch.  A command waits for the registry lock, loads the registry     *)
(* without it, or goes to the supervisor; `add` has seen its directory.     *)
Entrance(op) ==
  CASE op \in {"add", "remove", "prune"} -> "lock"
    [] op = "up" -> "load"
    [] op \in {"down", "restart"} -> "stop"

Receive(h, op, a) ==
  /\ task[h].at = "idle"
  /\ op = "add" => path[a] = "there"
  /\ task' = [task EXCEPT ![h] = [Rest EXCEPT
       !.at = Entrance(op), !.op = op, !.app = IF op = "prune" THEN None ELSE a]]
  /\ UNCHANGED <<lifeVars, file, lock, path>>

(* An error reply before anything is changed: the key is registered         *)
(* already or not at all, its directory or manifest is missing, nothing is  *)
(* stale, the registry cannot be read, `up` fails; or a client hung up.     *)
Refuse(h) ==
  /\ \/ task[h].at = "lock" /\ lock = None
     \/ task[h].at \in {"load", "boot"}
  /\ Returns(h)
  /\ UNCHANGED <<lifeVars, file, lock, path>>

(* The changed registry `reg` and the apps to stop before it is saved.      *)
Locks(h, at, todo, reg) ==
  /\ lock' = h
  /\ task' = [task EXCEPT ![h].at = at, ![h].todo = todo, ![h].reg = reg]
  /\ UNCHANGED <<lifeVars, file, path>>

AddLocked(h) ==
  /\ task[h].at = "lock" /\ task[h].op = "add" /\ lock = None
  /\ task[h].app \notin file
  /\ Locks(h, "save", {}, file \cup {task[h].app})

RemoveLocked(h) ==
  /\ task[h].at = "lock" /\ task[h].op = "remove" /\ lock = None
  /\ task[h].app \in file
  /\ Locks(h, "next", {task[h].app}, file \ {task[h].app})

(* Mutant of Stale: bare exists(), for which "can't tell" is "gone".        *)
StaleIfUnsure == {a \in file : path[a] # "there"}
Stale == {a \in file : path[a] = "gone"}

PruneLocked(h) ==
  /\ task[h].at = "lock" /\ task[h].op = "prune" /\ lock = None
  /\ Stale # {}
  /\ Locks(h, "next", Stale, file \ Stale)

-----------------------------------------------------------------------------
(* Stopping, forgetting and saving, by remove, prune, down, restart and the *)
(* scanner.  Running is read, and the stop begun, in critical sections of   *)
(* their own; an app that ends or is booted between them ends or is booted  *)
(* before or after as well.                                                 *)
AskIfRunning(a) ==
  IF status[a] = "Running" THEN Ask(a) ELSE UNCHANGED lifeVars

StopNext(h) ==
  /\ task[h].at = "next"
  /\ \E a \in task[h].todo :
       /\ AskIfRunning(a)
       /\ task' = [task EXCEPT ![h].app = a,
            ![h].at = IF status[a] = "Running" THEN "wait" ELSE "forget"]
  /\ UNCHANGED <<file, lock, path>>

(* down: an app that is not Running is an error; restart goes on to boot.   *)
StopApp(h) ==
  LET a == task[h].app IN
  /\ task[h].at = "stop"
  /\ AskIfRunning(a)
  /\ IF status[a] = "Running" THEN Goes(h, "wait")
     ELSE IF task[h].op = "restart" THEN Goes(h, "load") ELSE Returns(h)
  /\ UNCHANGED <<file, lock, path>>

(* Where a stop leads: its failure is only logged by remove, prune and the  *)
(* scanner, but ends a restart.                                             *)
Afterwards(op, ended) ==
  CASE op \in {"remove", "prune", "reap"} -> "forget"
    [] op = "idle" -> "sweep"
    [] op = "restart" /\ ended -> "load"
    [] OTHER -> "idle"

(* finish_stop: the app is seen not Running, or the grace window is over    *)
(* and it is still Running.                                                 *)
StopReturns(t) ==
  LET then == Afterwards(task[t].op, status[task[t].app] # "Running") IN
  /\ task[t].at = "wait"
  /\ IF then = "idle" THEN Returns(t) ELSE Goes(t, then)
  /\ UNCHANGED <<lifeVars, file, lock, path>>

(* Supervisor::forget drops an entry that is not Running. *)
Forget(t) ==
  LET a == task[t].app
      left == task[t].todo \ {a} IN
  /\ task[t].at = "forget"
  /\ IF status[a] = "Crashed" THEN Drop(a) ELSE UNCHANGED lifeVars
  /\ task' = [task EXCEPT ![t].todo = left,
       ![t].at = IF task[t].op = "reap" THEN "sweep"
                 ELSE IF left = {} THEN "save" ELSE "next"]
  /\ UNCHANGED <<file, lock, path>>

(* Registry::save is std::fs::write, which truncates and then writes: an    *)
(* empty file is an empty registry to those who read it without the lock.   *)
Truncate(h) ==
  /\ task[h].at = "save"
  /\ file' = {}
  /\ Goes(h, "torn")
  /\ UNCHANGED <<lifeVars, lock, path>>

Write(h) ==
  /\ task[h].at = "torn"
  /\ file' = task[h].reg
  /\ Goes(h, "reload")
  /\ UNCHANGED <<lifeVars, lock, path>>

(* The certificate is re-issued, if need be, before the guard is dropped: a *)
(* synchronous call into the keychain, which may stall on a prompt.  What   *)
(* becomes of the certificate is TlsLeaf's to tell.                         *)
(* Mutant: the lock is not released. *)
ReloadLocked(h) ==
  /\ task[h].at = "reload"
  /\ Returns(h)
  /\ UNCHANGED <<lifeVars, file, lock, path>>

Reload(h) ==
  /\ task[h].at = "reload"
  /\ lock' = None
  /\ Returns(h)
  /\ UNCHANGED <<lifeVars, file, path>>

SaveFails(h) ==
  /\ "disk" \in Faults
  /\ task[h].at \in {"save", "torn"}
  /\ lock' = None
  /\ Returns(h)
  /\ UNCHANGED <<lifeVars, file, path>>

-----------------------------------------------------------------------------
(* up, restart and the proxy read the registry without the lock, and the    *)
(* proxy may then wait long at its boot gate before it boots.               *)
Load(h) ==
  /\ task[h].at = "load"
  /\ task[h].app \in file /\ path[task[h].app] = "there"
  /\ Goes(h, "boot")
  /\ UNCHANGED <<lifeVars, file, lock, path>>

Boot(h) ==
  /\ task[h].at = "boot" /\ task[h].app \in Active
  /\ Start(task[h].app)
  /\ Returns(h)
  /\ UNCHANGED <<file, lock, path>>

-----------------------------------------------------------------------------
(* idle_scanner *)

Candidates == {a \in Apps : status[a] = "Running"}

Snapshot ==
  /\ task[Scanner].at = "idle" /\ Candidates # {}
  /\ task' = [task EXCEPT ![Scanner] =
       [Rest EXCEPT !.at = "look", !.todo = Candidates]]
  /\ UNCHANGED <<lifeVars, file, lock, path>>

Look ==
  /\ task[Scanner].at = "look"
  /\ task' = [task EXCEPT ![Scanner].at = "sweep", ![Scanner].reg = file]
  /\ UNCHANGED <<lifeVars, file, lock, path>>

(* Mutant of LookFails: the error is kept in the place of the keys.         *)
LookFailsKept ==
  /\ task[Scanner].at = "look"
  /\ task' = [task EXCEPT ![Scanner].at = "sweep", ![Scanner].reg = {None}]
  /\ UNCHANGED <<lifeVars, file, lock, path>>

(* "A load error must NOT be read as nothing is registered."                *)
LookFails ==
  /\ task[Scanner].at = "look"
  /\ task' = [task EXCEPT ![Scanner].at = "sweep", ![Scanner].reg = Apps]
  /\ UNCHANGED <<lifeVars, file, lock, path>>

Reap(a) ==
  /\ a \notin task[Scanner].reg
  /\ AskIfRunning(a)
  /\ task' = [task EXCEPT ![Scanner].app = a, ![Scanner].op = "reap",
       ![Scanner].todo = @ \ {a},
       ![Scanner].at = IF status[a] = "Running" THEN "wait" ELSE "forget"]

(* down_if_idle.  Whether the window has elapsed is Proxy's to tell.        *)
StopIdle(a) ==
  /\ a \in task[Scanner].reg \cap Timed
  /\ Ask(a)
  /\ task' = [task EXCEPT ![Scanner].app = a, ![Scanner].op = "idle",
       ![Scanner].todo = @ \ {a}, ![Scanner].at = "wait"]

Skip(a) ==
  /\ a \in task[Scanner].reg
  /\ task' = [task EXCEPT ![Scanner].todo = @ \ {a}]
  /\ UNCHANGED lifeVars

(* Mutant of Sweep: only the idle windows are looked at. *)
SweepIdle ==
  /\ task[Scanner].at = "sweep"
  /\ \/ \E a \in task[Scanner].todo :
          \/ StopIdle(a)
          \/ task' = [task EXCEPT ![Scanner].todo = @ \ {a}] /\ UNCHANGED lifeVars
     \/ task[Scanner].todo = {} /\ Returns(Scanner) /\ UNCHANGED lifeVars
  /\ UNCHANGED <<file, lock, path>>

Sweep ==
  /\ task[Scanner].at = "sweep"
  /\ \/ \E a \in task[Scanner].todo : Reap(a) \/ StopIdle(a) \/ Skip(a)
     \/ task[Scanner].todo = {} /\ Returns(Scanner) /\ UNCHANGED lifeVars
  /\ UNCHANGED <<file, lock, path>>

-----------------------------------------------------------------------------
PathChanges(a) ==
  /\ \E s \in PathStates : path' = [path EXCEPT ![a] = s]
  /\ UNCHANGED <<lifeVars, file, lock, task>>

RunGoesOn(a) ==
  /\ End(a) \/ Report(a)
  /\ UNCHANGED <<file, lock, path, task>>

(* The daemon dies, at Ctrl-C or otherwise, and is started again: it        *)
(* remembers the registry file and nothing else.  The children live on,     *)
(* unsupervised.                                                            *)
Crash ==
  /\ "crash" \in Faults
  /\ status' = [a \in Apps |-> "Stopped"]
  /\ run' = [a \in Apps |-> "none"]
  /\ asked' = [a \in Apps |-> FALSE]
  /\ lock' = None
  /\ task' = [t \in Tasks |-> Rest]
  /\ UNCHANGED <<file, path>>

(* What a handler does by itself, without the keychain. *)
Proceed(h) ==
  \/ Refuse(h)
  \/ AddLocked(h) \/ RemoveLocked(h) \/ PruneLocked(h)
  \/ StopNext(h) \/ StopApp(h) \/ StopReturns(h) \/ Forget(h)
  \/ Truncate(h) \/ Write(h) \/ SaveFails(h)
  \/ Load(h) \/ Boot(h)

Scan ==
  \/ Snapshot \/ Look \/ LookFails \/ Sweep
  \/ StopReturns(Scanner) \/ Forget(Scanner)

DaemonNext ==
  \/ \E h \in Handlers :
       \/ \E op \in Commands, a \in Apps : Receive(h, op, a)
       \/ Proceed(h) \/ Reload(h)
  \/ Scan
  \/ \E a \in Apps : PathChanges(a) \/ RunGoesOn(a)
  \/ Crash

DaemonSpec == DaemonInit /\ [][DaemonNext]_daemonVars

(* Every task runs on, the registry lock serves its waiters in order, the   *)
(* registry can be read now and then, and the supervisor keeps AppLife's    *)
(* promise that a run it was asked to end ends and is reported.  Nothing    *)
(* makes the keychain answer.                                               *)
DaemonFairness ==
  /\ \A h \in Handlers : SF_daemonVars(Proceed(h))
  /\ WF_daemonVars(Scan) /\ SF_daemonVars(Look)
  /\ \A a \in Apps :
       /\ WF_daemonVars(Report(a) /\ RunGoesOn(a))
       /\ WF_daemonVars(asked[a] /\ End(a) /\ RunGoesOn(a))

DaemonFairSpec == DaemonSpec /\ DaemonFairness

(* No prompt of the keychain stays open for good. *)
KeychainAnswers == \A h \in Handlers : WF_daemonVars(Reload(h))

-----------------------------------------------------------------------------
(* The registry, as its commands see it one after the other: a command      *)
(* takes effect when it gets the lock, and its file is the registry again   *)
(* once it is saved.                                                        *)
Registered ==
  IF lock = None \/ task[lock].at = "reload" THEN file ELSE task[lock].reg

Keys == INSTANCE Registry WITH registered <- Registered

(* No command loses the update of another, although each rewrites the whole *)
(* file from what it loaded, seconds before it saves (remove and prune      *)
(* stop apps meanwhile); and prune deletes only what is gone for certain.   *)
ImplementsRegistry == Keys!RegistrySpec

(* A running app that is not registered is not left running: the scanner    *)
(* is the backstop of the races between remove, prune and the boots that    *)
(* read the registry without the lock (daemon.rs:265-272, 525-530), "off"   *)
(* included.                                                                *)
OrphansReaped ==
  \A a \in Apps :
    status[a] = "Running" /\ a \notin Registered
      ~> status[a] # "Running" \/ a \in Registered

(* Every command returns, though it waits for the registry lock behind      *)
(* commands that stop apps, and re-issue the certificate, while holding it: *)
(* unless one of those waits for the keychain forever.                      *)
CommandsReturn ==
  KeychainAnswers =>
    \A h \in Handlers : task[h].at = "lock" ~> task[h].at = "idle"

-----------------------------------------------------------------------------
(* A statement of the documentation that the code does not keep.            *)

(* daemon.rs:270-272: what a failing load must not do, "that would reap     *)
(* every running app", a load that succeeds must not do either: reap an     *)
(* app that is registered.                                                  *)
ReapSparesRegistered ==
  [][\A a \in Apps :
       task[Scanner].at = "sweep" /\ Reap(a) => a \notin Registered]_daemonVars
=============================================================================
