----------------------------- MODULE DaemonProofs -----------------------------
(***************************************************************************)
(* Proofs about Daemon, for any apps, handlers and commands: type           *)
(* correctness whatever fails; as long as nothing does, that the registry   *)
(* file implements Registry; and that apps are used as AppLife promises.    *)
(***************************************************************************)
EXTENDS Daemon, TLAPS

(* The places of a command that has the registry lock. *)
Keeps(r) ==
  \/ r.at \in {"next", "forget", "save", "torn", "reload"}
  \/ r.at = "wait" /\ r.op \in {"remove", "prune"}

(* Where a handler can be with the command it serves. *)
Serves(r) ==
  /\ r.op \in Commands \cup {"none"}
  /\ r.at \notin {"look", "sweep"}
  /\ r.at \in {"next", "forget"} => r.op \in {"remove", "prune"}
  /\ r.at = "stop" => r.op \in {"down", "restart"}
  /\ r.at = "lock" /\ r.op = "add" => r.app \in Apps

(* The lock is with the one handler whose place says so. *)
LockInv ==
  \A h \in Handlers : Serves(task[h]) /\ (lock = h <=> Keeps(task[h]))

DInv == DaemonTypeOK /\ LockInv

LEMMA InitDInv == DaemonInit => DInv
BY DaemonAssumption
   DEF DaemonInit, LifeInit, DInv, DaemonTypeOK, LockInv, Serves, Keeps, Rest,
       Task, PathStates, Tasks, Ends

-----------------------------------------------------------------------------
(* What a step may do to the apps keeps their types. *)
LifeTypeOK ==
  /\ status \in [Apps -> {"Stopped", "Running", "Crashed"}]
  /\ run \in [Apps -> {"none", "alive"} \cup Ends]
  /\ asked \in [Apps -> BOOLEAN]

LEMMA LifeTypes ==
  ASSUME LifeTypeOK, NEW a,
         \/ Start(a) \/ Ask(a) \/ End(a) \/ Report(a) \/ Drop(a)
         \/ AskIfRunning(a)
         \/ UNCHANGED lifeVars
  PROVE  LifeTypeOK'
<1>1. CASE Start(a)
  BY <1>1 DEF LifeTypeOK, Start, Ends
<1>2. CASE Ask(a) \/ AskIfRunning(a) \/ UNCHANGED lifeVars
  BY <1>2 DEF LifeTypeOK, Ask, AskIfRunning, lifeVars
<1>3. CASE End(a)
  <2>1. PICK e \in Ends : run' = [run EXCEPT ![a] = e]
    BY <1>3 DEF End
  <2>2. QED
    BY <1>3, <2>1 DEF LifeTypeOK, End
<1>4. CASE Report(a)
  BY <1>4 DEF LifeTypeOK, Report
<1>5. CASE Drop(a)
  BY <1>5 DEF LifeTypeOK, Drop
<1>6. QED
  BY <1>1, <1>2, <1>3, <1>4, <1>5

LEMMA TypesSplit ==
  DaemonTypeOK <=>
    /\ LifeTypeOK
    /\ file \in SUBSET Apps
    /\ lock \in Handlers \cup {None}
    /\ path \in [Apps -> PathStates]
    /\ task \in [Tasks -> Task]
BY DEF DaemonTypeOK, LifeTypeOK

(* A step that moves one handler keeps the invariant if the handler's new   *)
(* place is a legal one and agrees with the lock.                           *)
LEMMA OneHandler ==
  ASSUME DInv, NEW h \in Handlers, NEW r \in Task,
         task' = [task EXCEPT ![h] = r], Serves(r),
         LifeTypeOK', path' \in [Apps -> PathStates], file' \in SUBSET Apps,
         \/ lock' = lock /\ (Keeps(r) <=> Keeps(task[h]))
         \/ lock' = h /\ lock = None /\ Keeps(r)
         \/ lock' = None /\ Keeps(task[h]) /\ ~Keeps(r)
  PROVE  DInv'
<1> USE DaemonAssumption
<1>1. task' \in [Tasks -> Task] /\ lock' \in Handlers \cup {None}
  BY DEF DInv, DaemonTypeOK, Tasks
<1>2. \A o \in Handlers : task'[o] = IF o = h THEN r ELSE task[o]
  BY DEF DInv, DaemonTypeOK, Tasks
<1>3. \A o \in Handlers : Serves(task'[o])
  BY <1>2 DEF DInv, LockInv
<1>4. \A o \in Handlers : lock' = o <=> Keeps(task'[o])
  BY <1>2 DEF DInv, LockInv
<1>5. DaemonTypeOK'
  BY <1>1 DEF DaemonTypeOK, LifeTypeOK
<1>6. LockInv'
  BY <1>3, <1>4 DEF LockInv, Serves, Keeps
<1>7. QED
  BY <1>5, <1>6 DEF DInv

(* The scanner holds no lock: it may go anywhere. *)
LEMMA OneScanner ==
  ASSUME DInv, NEW r \in Task, task' = [task EXCEPT ![Scanner] = r],
         LifeTypeOK', UNCHANGED <<file, lock, path>>
  PROVE  DInv'
<1> USE DaemonAssumption
<1>1. task' \in [Tasks -> Task] /\ \A h \in Handlers : task'[h] = task[h]
  BY DEF DInv, DaemonTypeOK, Tasks
<1>2. DaemonTypeOK'
  BY <1>1 DEF DInv, DaemonTypeOK, LifeTypeOK
<1>3. LockInv'
  BY <1>1 DEF DInv, LockInv, Serves, Keeps
<1>4. QED
  BY <1>2, <1>3 DEF DInv

LEMMA ReceiveDInv ==
  ASSUME DInv, NEW h \in Handlers, NEW op \in Commands, NEW a \in Apps,
         Receive(h, op, a)
  PROVE  DInv'
<1> DEFINE r == [Rest EXCEPT !.at = Entrance(op), !.op = op,
                             !.app = IF op = "prune" THEN None ELSE a]
<1> USE DaemonAssumption
<1>1. r \in Task /\ Serves(r) /\ ~Keeps(r)
  BY DEF Task, Rest, Entrance, Serves, Keeps
<1>2. task' = [task EXCEPT ![h] = r] /\ ~Keeps(task[h])
  BY DEF Receive, Keeps
<1>3. LifeTypeOK' /\ path' \in [Apps -> PathStates] /\ file' \in SUBSET Apps
      /\ lock' = lock
  BY TypesSplit DEF Receive, DInv, LifeTypeOK, lifeVars
<1> HIDE DEF r
<1>4. QED
  BY <1>1, <1>2, <1>3, OneHandler

LEMMA RestServes == Rest \in Task /\ Serves(Rest) /\ ~Keeps(Rest)
BY DEF Rest, Task, Serves, Keeps

LEMMA ProceedDInv ==
  ASSUME DInv, NEW h \in Handlers, Proceed(h) \/ Reload(h)
  PROVE  DInv'
<1> USE DaemonAssumption
<1> DEFINE t == task[h]
<1>1. /\ LifeTypeOK /\ file \in SUBSET Apps /\ path \in [Apps -> PathStates]
      /\ task \in [Tasks -> Task] /\ h \in Tasks /\ t \in Task /\ Serves(t)
      /\ (lock = h <=> Keeps(t)) /\ lock \in Handlers \cup {None}
  BY TypesSplit DEF DInv, LockInv, Tasks
<1>2. UNCHANGED lifeVars => LifeTypeOK'
  BY <1>1 DEF LifeTypeOK, lifeVars
<1>3. CASE Refuse(h)
  <2>1. ~Keeps(t)
    BY <1>1, <1>3 DEF Refuse, Keeps
  <2>2. QED
    BY <1>1, <1>2, <1>3, <2>1, RestServes, OneHandler DEF Refuse, Returns
<1>4. ASSUME NEW at \in {"next", "save"}, NEW todo \in SUBSET Apps,
             NEW reg \in SUBSET Apps, Locks(h, at, todo, reg), lock = None,
             at = "next" => t.op \in {"remove", "prune"}
      PROVE  DInv'
  <2> DEFINE r == [t EXCEPT !.at = at, !.todo = todo, !.reg = reg]
  <2>1. r \in Task /\ Serves(r) /\ Keeps(r)
    BY <1>1, <1>4 DEF Task, Serves, Keeps
  <2>2. task' = [task EXCEPT ![h] = r]
    BY <1>1, <1>4 DEF Locks
  <2> HIDE DEF r
  <2>3. QED
    BY <1>1, <1>2, <1>4, <2>1, <2>2, OneHandler DEF Locks
<1>5. CASE AddLocked(h)
  <2>1. t.app \in Apps
    BY <1>1, <1>5 DEF AddLocked, Serves
  <2>2. QED
    BY <1>1, <1>4, <1>5, <2>1 DEF AddLocked
<1>6. CASE RemoveLocked(h)
  <2>1. t.app \in Apps
    BY <1>1, <1>6 DEF RemoveLocked
  <2>2. QED
    BY <1>1, <1>4, <1>6, <2>1 DEF RemoveLocked
<1>7. CASE PruneLocked(h)
  BY <1>1, <1>4, <1>7 DEF PruneLocked, Stale
<1>8. CASE StopNext(h)
  <2>1. PICK a \in t.todo :
          /\ AskIfRunning(a)
          /\ task' = [task EXCEPT ![h].app = a,
               ![h].at = IF status[a] = "Running" THEN "wait" ELSE "forget"]
    BY <1>8 DEF StopNext
  <2> DEFINE r == [t EXCEPT !.app = a,
                     !.at = IF status[a] = "Running" THEN "wait" ELSE "forget"]
  <2>2. r \in Task /\ Serves(r) /\ Keeps(r) /\ Keeps(t)
    BY <1>1, <1>8 DEF StopNext, Task, Serves, Keeps
  <2>3. task' = [task EXCEPT ![h] = r]
    BY <1>1, <2>1
  <2>4. LifeTypeOK'
    BY <1>1, <2>1, LifeTypes
  <2> HIDE DEF r
  <2>5. QED
    BY <1>1, <1>8, <2>2, <2>3, <2>4, OneHandler DEF StopNext
(* The remaining steps of a handler go somewhere, or return. *)
<1>9. ASSUME NEW at \in {"wait", "load", "boot", "forget", "torn", "reload"}, Goes(h, at),
             at = "forget" => t.op \in {"remove", "prune"}, t.at # "lock",
             Keeps(t) <=> Keeps([t EXCEPT !.at = at]),
             LifeTypeOK', lock' = lock, file' \in SUBSET Apps, path' = path
      PROVE  DInv'
  <2> DEFINE r == [t EXCEPT !.at = at]
  <2>1. r \in Task /\ Serves(r)
    BY <1>1, <1>9 DEF Task, Serves
  <2>2. task' = [task EXCEPT ![h] = r]
    BY <1>1, <1>9 DEF Goes
  <2>3. Keeps(t) <=> Keeps(r)
    BY <1>9
  <2> HIDE DEF r
  <2>4. QED
    BY <1>1, <1>9, <2>1, <2>2, <2>3, OneHandler
<1>10. ASSUME Returns(h), LifeTypeOK', file' \in SUBSET Apps, path' = path,
              \/ ~Keeps(t) /\ lock' = lock
              \/ Keeps(t) /\ lock' = None
       PROVE  DInv'
  BY <1>1, <1>10, RestServes, OneHandler DEF Returns
<1>11. CASE StopApp(h)
  <2>1. LifeTypeOK' /\ ~Keeps(t) /\ t.op \in {"down", "restart"}
    BY <1>1, <1>11, LifeTypes DEF StopApp, Keeps, Serves
  <2>2. ~Keeps([t EXCEPT !.at = "wait"]) /\ ~Keeps([t EXCEPT !.at = "load"])
    BY <1>1, <2>1 DEF Keeps, Task
  <2>3. QED
    BY <1>1, <1>9, <1>10, <1>11, <2>1, <2>2 DEF StopApp
<1>12. CASE StopReturns(h)
  <2> DEFINE then == Afterwards(t.op, status[t.app] # "Running")
  <2>1. t.at = "wait" /\ LifeTypeOK' /\ UNCHANGED <<file, lock, path>>
    BY <1>1, <1>2, <1>12 DEF StopReturns
  <2>2. t.op \in {"remove", "prune"} => then = "forget"
    BY DEF Afterwards
  <2>3. t.op \notin {"remove", "prune"} => then \in {"load", "idle"}
    BY <1>1 DEF Afterwards, Serves, Task
  <2>4. CASE t.op \in {"remove", "prune"}
    <3>1. Goes(h, "forget")
      BY <1>12, <2>2, <2>4 DEF StopReturns
    <3>2. Keeps(t) /\ Keeps([t EXCEPT !.at = "forget"])
      BY <1>1, <2>1, <2>4 DEF Keeps, Task
    <3>3. QED
      BY <1>1, <1>9, <2>1, <2>4, <3>1, <3>2
  <2>5. CASE t.op \notin {"remove", "prune"}
    <3>1. ~Keeps(t) /\ ~Keeps([t EXCEPT !.at = "load"])
      BY <1>1, <2>1, <2>5 DEF Keeps, Task
    <3>2. Goes(h, "load") \/ Returns(h)
      BY <1>12, <2>3, <2>5 DEF StopReturns
    <3>3. QED
      BY <1>1, <1>9, <1>10, <2>1, <3>1, <3>2
  <2>6. QED
    BY <2>4, <2>5
<1>13. CASE Forget(h)
  <2> DEFINE left == t.todo \ {t.app}
             at == IF left = {} THEN "save" ELSE "next"
             r == [t EXCEPT !.todo = left, !.at = at]
  <2>1. t.at = "forget" /\ t.op \in {"remove", "prune"} /\ Keeps(t)
    BY <1>1, <1>13 DEF Forget, Serves, Keeps
  <2>2. r \in Task /\ Serves(r) /\ Keeps(r)
    BY <1>1, <2>1 DEF Task, Serves, Keeps
  <2>3. task' = [task EXCEPT ![h] = r]
    BY <1>1, <1>13, <2>1 DEF Forget
  <2>4. LifeTypeOK' /\ UNCHANGED <<file, lock, path>>
    BY <1>1, <1>2, <1>13, LifeTypes DEF Forget
  <2> HIDE DEF r
  <2>5. QED
    BY <1>1, <2>1, <2>2, <2>3, <2>4, OneHandler
<1>14. CASE Truncate(h) \/ Write(h)
  <2>1. Keeps(t) /\ \A at \in {"torn", "reload"} : Keeps([t EXCEPT !.at = at])
    BY <1>1, <1>14 DEF Truncate, Write, Keeps, Task
  <2>2. LifeTypeOK' /\ lock' = lock /\ path' = path /\ file' \in SUBSET Apps
    BY <1>1, <1>2, <1>14 DEF Truncate, Write, Task
  <2>3. \E at \in {"torn", "reload"} : Goes(h, at)
    BY <1>14 DEF Truncate, Write
  <2>4. t.at # "lock"
    BY <1>14 DEF Truncate, Write
  <2>5. QED
    BY <1>9, <2>1, <2>2, <2>3, <2>4
<1>15. CASE Reload(h) \/ SaveFails(h)
  <2>1. Keeps(t) /\ Returns(h) /\ lock' = None /\ path' = path
    BY <1>15 DEF Reload, SaveFails, Keeps
  <2>2. LifeTypeOK' /\ file' \in SUBSET Apps
    BY <1>1, <1>2, <1>15 DEF Reload, SaveFails
  <2>3. QED
    BY <1>10, <2>1, <2>2
<1>16. CASE Load(h)
  <2>1. ~Keeps(t) /\ ~Keeps([t EXCEPT !.at = "boot"])
    BY <1>1, <1>16 DEF Load, Keeps, Task
  <2>2. QED
    BY <1>1, <1>2, <1>9, <1>16, <2>1 DEF Load
<1>17. CASE Boot(h)
  BY <1>1, <1>10, <1>17, LifeTypes DEF Boot, Keeps
<1>18. QED
  BY <1>3, <1>5, <1>6, <1>7, <1>8, <1>11, <1>12, <1>13, <1>14, <1>15, <1>16, <1>17
     DEF Proceed

LEMMA ScanDInv ==
  ASSUME DInv, Scan
  PROVE  DInv'
<1> DEFINE t == task[Scanner]
<1>1. LifeTypeOK /\ t \in Task /\ file \in SUBSET Apps /\ Scanner \in Tasks
  BY TypesSplit DEF DInv, Tasks
<1>2. UNCHANGED lifeVars => LifeTypeOK'
  BY <1>1 DEF LifeTypeOK, lifeVars
<1>3. CASE Snapshot \/ Look \/ LookFails
  <2>1. \E r \in Task : task' = [task EXCEPT ![Scanner] = r]
    <3>1. CASE Snapshot
      <4>1. [Rest EXCEPT !.at = "look", !.todo = Candidates] \in Task
        BY DEF Rest, Task, Candidates
      <4>2. QED
        BY <3>1, <4>1 DEF Snapshot
    <3>2. CASE Look \/ LookFails
      <4>1. \A ks \in SUBSET Apps : [t EXCEPT !.at = "sweep", !.reg = ks] \in Task
        BY <1>1 DEF Task
      <4>2. \E ks \in SUBSET Apps :
              task' = [task EXCEPT ![Scanner] = [t EXCEPT !.at = "sweep", !.reg = ks]]
        BY <1>1, <3>2 DEF Look, LookFails
      <4>3. QED
        BY <4>1, <4>2
    <3>3. QED
      BY <1>3, <3>1, <3>2
  <2>2. LifeTypeOK' /\ UNCHANGED <<file, lock, path>>
    BY <1>2, <1>3 DEF Snapshot, Look, LookFails
  <2>3. QED
    BY <2>1, <2>2, OneScanner
<1>4. CASE Sweep
  <2>1. UNCHANGED <<file, lock, path>>
    BY <1>4 DEF Sweep
  <2>2. ASSUME NEW a \in t.todo, Reap(a) \/ StopIdle(a) \/ Skip(a)
        PROVE  LifeTypeOK' /\ \E r \in Task : task' = [task EXCEPT ![Scanner] = r]
    <3>1. LifeTypeOK'
      BY <1>1, <1>2, <2>2, LifeTypes DEF Reap, StopIdle, Skip
    <3>2. CASE Reap(a)
      <4> DEFINE at == IF status[a] = "Running" THEN "wait" ELSE "forget"
      <4>1. [t EXCEPT !.app = a, !.op = "reap", !.todo = @ \ {a}, !.at = at] \in Task
        BY <1>1 DEF Task
      <4>2. QED
        BY <1>1, <3>1, <3>2, <4>1 DEF Reap
    <3>3. CASE StopIdle(a)
      <4>1. [t EXCEPT !.app = a, !.op = "idle", !.todo = @ \ {a}, !.at = "wait"]
              \in Task
        BY <1>1 DEF Task
      <4>2. QED
        BY <1>1, <3>1, <3>3, <4>1 DEF StopIdle
    <3>4. CASE Skip(a)
      <4>1. [t EXCEPT !.todo = @ \ {a}] \in Task
        BY <1>1 DEF Task
      <4>2. QED
        BY <1>1, <3>1, <3>4, <4>1 DEF Skip
    <3>5. QED
      BY <2>2, <3>2, <3>3, <3>4
  <2>3. CASE Returns(Scanner) /\ UNCHANGED lifeVars
    BY <1>2, <2>1, <2>3, RestServes, OneScanner DEF Returns
  <2>4. QED
    BY <1>4, <2>1, <2>2, <2>3, OneScanner DEF Sweep
<1>5. CASE StopReturns(Scanner)
  <2> DEFINE then == Afterwards(t.op, status[t.app] # "Running")
             r == [t EXCEPT !.at = then]
  <2>1. LifeTypeOK' /\ UNCHANGED <<file, lock, path>>
    BY <1>2, <1>5 DEF StopReturns
  <2>2. then \in {"forget", "sweep", "load", "idle"}
    BY <1>1 DEF Afterwards, Task
  <2>3. r \in Task
    BY <1>1, <2>2 DEF Task
  <2>4. task' = [task EXCEPT ![Scanner] = r] \/ Returns(Scanner)
    BY <1>1, <1>5 DEF StopReturns, Goes
  <2> HIDE DEF r
  <2>5. QED
    BY <2>1, <2>3, <2>4, RestServes, OneScanner DEF Returns
<1>6. CASE Forget(Scanner)
  <2> DEFINE left == t.todo \ {t.app}
             at == IF t.op = "reap" THEN "sweep"
                   ELSE IF left = {} THEN "save" ELSE "next"
             r == [t EXCEPT !.todo = left, !.at = at]
  <2>1. r \in Task /\ task' = [task EXCEPT ![Scanner] = r]
    BY <1>1, <1>6 DEF Forget, Task
  <2>2. LifeTypeOK' /\ UNCHANGED <<file, lock, path>>
    BY <1>1, <1>2, <1>6, LifeTypes DEF Forget
  <2> HIDE DEF r
  <2>3. QED
    BY <2>1, <2>2, OneScanner
<1>7. QED
  BY <1>3, <1>4, <1>5, <1>6 DEF Scan

LEMMA EnvironmentDInv ==
  ASSUME DInv, \/ \E a \in Apps : PathChanges(a)
               \/ \E a \in Apps : RunGoesOn(a)
               \/ Crash
               \/ UNCHANGED daemonVars
  PROVE  DInv'
<1> USE DaemonAssumption
<1>1. ASSUME NEW a \in Apps, PathChanges(a)
      PROVE  DInv'
  <2>1. path' \in [Apps -> PathStates]
    BY <1>1 DEF PathChanges, DInv, DaemonTypeOK
  <2>2. QED
    BY <1>1, <2>1 DEF PathChanges, DInv, DaemonTypeOK, LockInv, Serves, Keeps, lifeVars
<1>2. ASSUME NEW a \in Apps, RunGoesOn(a)
      PROVE  DInv'
  <2>1. LifeTypeOK' /\ UNCHANGED <<file, lock, path, task>>
    BY <1>2, LifeTypes, TypesSplit DEF RunGoesOn, DInv
  <2>2. QED
    BY <2>1, TypesSplit DEF DInv, DaemonTypeOK, LifeTypeOK, LockInv, Serves, Keeps
<1>3. CASE Crash
  <2>1. DaemonTypeOK'
    BY <1>3, RestServes DEF Crash, DInv, DaemonTypeOK
  <2>2. \A h \in Handlers : task'[h] = Rest /\ lock' # h
    BY <1>3 DEF Crash, Tasks
  <2>3. LockInv'
    BY <2>2, RestServes DEF LockInv, Serves, Keeps
  <2>4. QED
    BY <2>1, <2>3 DEF DInv
<1>4. CASE UNCHANGED daemonVars
  BY <1>4 DEF daemonVars, lifeVars, DInv, DaemonTypeOK, LockInv, Serves, Keeps
<1>5. QED
  BY <1>1, <1>2, <1>3, <1>4

LEMMA NextDInv == DInv /\ [DaemonNext]_daemonVars => DInv'
BY ReceiveDInv, ProceedDInv, ScanDInv, EnvironmentDInv DEF DaemonNext

LEMMA DInvHolds == DaemonSpec => []DInv
BY InitDInv, NextDInv, PTL DEF DaemonSpec

(* Every variable keeps its type, whatever fails (DaemonTypeOK). *)
THEOREM DaemonTypeCorrect == DaemonSpec => []DaemonTypeOK
<1>1. DInv => DaemonTypeOK
  BY DEF DInv
<1>2. QED
  BY <1>1, DInvHolds, PTL

-----------------------------------------------------------------------------
(* The registry as its commands see it moves only when the lock is taken.   *)
LEMMA RegistryStays ==
  ASSUME DInv, UNCHANGED <<file, lock, path>>,
         lock # None =>
           \/ task'[lock] = task[lock]
           \/ /\ task'[lock].reg = task[lock].reg
              /\ "reload" \notin {task[lock].at, task'[lock].at}
  PROVE  UNCHANGED Keys!registryVars
BY DEF Keys!registryVars, Registered

LEMMA HandlerKeysStep ==
  ASSUME DInv, Faults = {}, NEW h \in Handlers, Proceed(h) \/ Reload(h)
  PROVE  Keys!RegistryNext \/ UNCHANGED Keys!registryVars
<1> USE DaemonAssumption
<1> DEFINE t == task[h]
<1>1. /\ task \in [Tasks -> Task] /\ h \in Tasks /\ t \in Task /\ Serves(t)
      /\ (lock = h <=> Keeps(t)) /\ lock \in Handlers \cup {None}
      /\ file \in SUBSET Apps /\ \A o \in Handlers : o \in Tasks
  BY DEF DInv, DaemonTypeOK, LockInv, Tasks
<1>2. ASSUME NEW at \in {"save", "next"}, NEW todo, NEW reg, Locks(h, at, todo, reg),
             lock = None
      PROVE  Registered = file /\ Registered' = reg /\ path' = path
  BY <1>1, <1>2 DEF Locks, Registered, Task
<1>3. CASE AddLocked(h)
  <2>1. t.app \in Apps /\ t.app \notin file
    BY <1>1, <1>3 DEF AddLocked, Serves
  <2>2. Keys!Register(t.app)
    BY <1>2, <1>3, <2>1 DEF AddLocked, Keys!Register
  <2>3. QED
    BY <2>1, <2>2 DEF Keys!RegistryNext
<1>4. CASE RemoveLocked(h)
  <2>1. t.app \in Apps /\ t.app \in file
    BY <1>1, <1>4 DEF RemoveLocked
  <2>2. Keys!Deregister(t.app)
    BY <1>2, <1>4, <2>1 DEF RemoveLocked, Keys!Deregister
  <2>3. QED
    BY <2>1, <2>2 DEF Keys!RegistryNext
<1>5. CASE PruneLocked(h)
  <2>1. file \ Stale = {a \in file : path[a] # "gone"}
    BY DEF Stale
  <2>2. Keys!PruneGone
    BY <1>2, <1>5, <2>1 DEF PruneLocked, Keys!PruneGone
  <2>3. QED
    BY <2>2 DEF Keys!RegistryNext
<1>6. CASE Truncate(h)
  <2>1. lock = h /\ lock' = h /\ path' = path
    BY <1>1, <1>6 DEF Truncate, Keeps
  <2>2. task'[h].reg = t.reg /\ "reload" \notin {t.at, task'[h].at}
    BY <1>1, <1>6 DEF Truncate, Goes, Task
  <2>3. QED
    BY <2>1, <2>2 DEF Registered, Keys!registryVars
<1>7. CASE Write(h)
  <2>1. lock = h /\ lock' = h /\ path' = path /\ file' = t.reg /\ t.at = "torn"
    BY <1>1, <1>7 DEF Write, Keeps
  <2>2. task'[h].at = "reload"
    BY <1>1, <1>7 DEF Write, Goes, Task
  <2>3. QED
    BY <2>1, <2>2 DEF Registered, Keys!registryVars
<1>8. ASSUME UNCHANGED <<file, lock, path>>,
             \A o \in Handlers \ {h} : task'[o] = task[o],
             \/ ~Keeps(t)
             \/ task'[h].reg = t.reg /\ "reload" \notin {t.at, task'[h].at}
      PROVE  UNCHANGED Keys!registryVars
  BY <1>1, <1>8, RegistryStays
<1>9. CASE Refuse(h) \/ StopApp(h) \/ Load(h) \/ Boot(h)
  <2>1. ~Keeps(t)
    BY <1>1, <1>9 DEF Refuse, StopApp, Load, Boot, Keeps
  <2>2. /\ UNCHANGED <<file, lock, path>>
        /\ \A o \in Handlers \ {h} : task'[o] = task[o]
    BY <1>1, <1>9 DEF Refuse, StopApp, Load, Boot, Goes, Returns
  <2>3. QED
    BY <1>8, <2>1, <2>2
<1>10. CASE StopNext(h) \/ Forget(h)
  <2>1. UNCHANGED <<file, lock, path>>
    BY <1>10 DEF StopNext, Forget
  <2>2. /\ task'[h].reg = t.reg /\ "reload" \notin {t.at, task'[h].at}
        /\ \A o \in Handlers \ {h} : task'[o] = task[o]
    <3>1. CASE StopNext(h)
      <4>1. PICK a \in t.todo :
              task' = [task EXCEPT ![h].app = a,
                ![h].at = IF status[a] = "Running" THEN "wait" ELSE "forget"]
        BY <3>1 DEF StopNext
      <4>2. QED
        BY <1>1, <3>1, <4>1 DEF StopNext, Task
    <3>2. CASE Forget(h)
      BY <1>1, <3>2 DEF Forget, Task
    <3>3. QED
      BY <1>10, <3>1, <3>2
  <2>3. QED
    BY <1>8, <2>1, <2>2
<1>11. CASE StopReturns(h)
  <2>1. UNCHANGED <<file, lock, path>>
    BY <1>11 DEF StopReturns
  <2>2. \A o \in Handlers \ {h} : task'[o] = task[o]
    BY <1>1, <1>11 DEF StopReturns, Goes, Returns
  <2>3. Keeps(t) => task'[h].reg = t.reg /\ "reload" \notin {t.at, task'[h].at}
    BY <1>1, <1>11 DEF StopReturns, Afterwards, Goes, Keeps, Task
  <2>4. QED
    BY <1>8, <2>1, <2>2, <2>3
<1>12. CASE SaveFails(h)
  BY <1>12 DEF SaveFails
<1>13. CASE Reload(h)
  <2>1. lock = h /\ lock' = None /\ UNCHANGED <<file, path>> /\ t.at = "reload"
    BY <1>1, <1>13 DEF Reload, Keeps
  <2>2. QED
    BY <2>1 DEF Registered, Keys!registryVars
<1>14. QED
  BY <1>3, <1>4, <1>5, <1>6, <1>7, <1>9, <1>10, <1>11, <1>12, <1>13 DEF Proceed

LEMMA OthersKeysStep ==
  ASSUME DInv, Faults = {},
         \/ \E h \in Handlers, op \in Commands, a \in Apps : Receive(h, op, a)
         \/ Scan
         \/ \E a \in Apps : PathChanges(a)
         \/ \E a \in Apps : RunGoesOn(a)
         \/ Crash
         \/ UNCHANGED daemonVars
  PROVE  Keys!RegistryNext \/ UNCHANGED Keys!registryVars
<1> USE DaemonAssumption
<1>1. /\ task \in [Tasks -> Task] /\ \A o \in Handlers : o \in Tasks
      /\ lock # None => lock \in Handlers /\ Keeps(task[lock])
  BY DEF DInv, DaemonTypeOK, LockInv, Tasks
<1>2. ASSUME NEW h \in Handlers, NEW op \in Commands, NEW a \in Apps,
             Receive(h, op, a)
      PROVE  UNCHANGED Keys!registryVars
  <2>1. lock # h /\ UNCHANGED <<file, lock, path>>
    BY <1>1, <1>2 DEF Receive, Keeps
  <2>2. lock # None => task'[lock] = task[lock]
    BY <1>1, <1>2, <2>1 DEF Receive
  <2>3. QED
    BY <2>1, <2>2, RegistryStays
<1>3. CASE Scan
  <2>1. /\ UNCHANGED <<file, lock, path>>
        /\ \A o \in Handlers : task'[o] = task[o]
    BY <1>1, <1>3
       DEF Scan, Snapshot, Look, LookFails, Sweep, Reap, StopIdle, Skip,
           StopReturns, Forget, Goes, Returns
  <2>2. QED
    BY <1>1, <2>1, RegistryStays
<1>4. ASSUME NEW a \in Apps, PathChanges(a)
      PROVE  Keys!PathChanges(a) /\ a \in Apps
  BY <1>4 DEF PathChanges, Keys!PathChanges, Registered, PathStates, Keys!PathStates
<1>5. ASSUME NEW a \in Apps, RunGoesOn(a)
      PROVE  UNCHANGED Keys!registryVars
  BY <1>5 DEF RunGoesOn, Keys!registryVars, Registered
<1>6. CASE Crash
  BY <1>6 DEF Crash
<1>7. CASE UNCHANGED daemonVars
  BY <1>7 DEF daemonVars, Keys!registryVars, Registered
<1>8. QED
  BY <1>2, <1>3, <1>4, <1>5, <1>6, <1>7 DEF Keys!RegistryNext

(* As long as the daemon does not die and no write fails, the registry is   *)
(* what its commands made it, one after the other (ImplementsRegistry):     *)
(* however long a command stops apps between loading and saving the file,   *)
(* nobody's registration is lost and nothing else is deregistered.          *)
THEOREM DaemonImplementsRegistry ==
  ASSUME Faults = {}
  PROVE  DaemonSpec => ImplementsRegistry
<1>1. DaemonInit => Keys!RegistryInit
  BY DEF DaemonInit, Keys!RegistryInit, Registered
<1>2. DInv /\ [DaemonNext]_daemonVars =>
        [Keys!RegistryNext]_(Keys!registryVars)
  BY HandlerKeysStep, OthersKeysStep DEF DaemonNext
<1>3. QED
  BY <1>1, <1>2, DInvHolds, PTL
     DEF DaemonSpec, ImplementsRegistry, Keys!RegistrySpec

-----------------------------------------------------------------------------
(* The apps.  A task that stops, forgets or boots knows of an app.          *)
Busy == {"stop", "wait", "forget", "load", "boot"}

AppKnown == \A t \in Tasks : task[t].at \in Busy => task[t].app \in Apps

LEMMA OneTaskApp ==
  ASSUME DaemonTypeOK, AppKnown, NEW t \in Tasks, NEW r,
         task' = [task EXCEPT ![t] = r], r.at \in Busy => r.app \in Apps
  PROVE  AppKnown'
BY DEF DaemonTypeOK, AppKnown

LEMMA ProceedApp ==
  ASSUME DaemonTypeOK, AppKnown, NEW t \in Tasks,
         Proceed(t) \/ Reload(t) \/ StopReturns(t) \/ Forget(t)
  PROVE  AppKnown'
<1>1. task \in [Tasks -> Task] /\ task[t] \in Task /\ task[t].todo \subseteq Apps
      /\ (task[t].at \in Busy => task[t].app \in Apps)
  BY DEF DaemonTypeOK, AppKnown, Task
<1>2. ASSUME Returns(t)
      PROVE  AppKnown'
  BY <1>2, OneTaskApp DEF Returns, Rest, Busy
<1>3. ASSUME NEW at, Goes(t, at), at \in Busy => task[t].app \in Apps
      PROVE  AppKnown'
  <2> DEFINE r == [task[t] EXCEPT !.at = at]
  <2>1. r.at = at /\ r.app = task[t].app
    BY <1>1 DEF Task
  <2>2. task' = [task EXCEPT ![t] = r]
    BY <1>3 DEF Goes
  <2>3. QED
    BY <1>3, <2>1, <2>2, OneTaskApp
<1>4. CASE Refuse(t) \/ Reload(t) \/ SaveFails(t) \/ Boot(t)
  BY <1>2, <1>4 DEF Refuse, Reload, SaveFails, Boot
<1>5. ASSUME NEW at \in {"save", "next"}, NEW todo, NEW reg, Locks(t, at, todo, reg)
      PROVE  AppKnown'
  <2> DEFINE r == [task[t] EXCEPT !.at = at, !.todo = todo, !.reg = reg]
  <2>1. r.at \notin Busy
    BY <1>1 DEF Task, Busy
  <2>2. task' = [task EXCEPT ![t] = r]
    BY <1>5 DEF Locks
  <2>3. QED
    BY <2>1, <2>2, OneTaskApp
<1>6. CASE AddLocked(t) \/ RemoveLocked(t) \/ PruneLocked(t)
  BY <1>5, <1>6 DEF AddLocked, RemoveLocked, PruneLocked
<1>7. CASE StopNext(t)
  <2>1. PICK a \in Apps :
          task' = [task EXCEPT ![t].app = a,
            ![t].at = IF status[a] = "Running" THEN "wait" ELSE "forget"]
    BY <1>1, <1>7 DEF StopNext
  <2> DEFINE r == [task[t] EXCEPT !.app = a,
                     !.at = IF status[a] = "Running" THEN "wait" ELSE "forget"]
  <2>2. r.app = a
    BY <1>1 DEF Task
  <2>3. task' = [task EXCEPT ![t] = r]
    BY <2>1
  <2>4. QED
    BY <2>2, <2>3, OneTaskApp
<1>8. CASE StopApp(t)
  <2>1. task[t].app \in Apps
    BY <1>1, <1>8 DEF StopApp, Busy
  <2>2. QED
    BY <1>2, <1>3, <1>8, <2>1 DEF StopApp
<1>9. CASE StopReturns(t)
  <2>1. task[t].app \in Apps
    BY <1>1, <1>9 DEF StopReturns, Busy
  <2>2. QED
    BY <1>2, <1>3, <1>9, <2>1 DEF StopReturns
<1>10. CASE Forget(t)
  <2> DEFINE left == task[t].todo \ {task[t].app}
             r == [task[t] EXCEPT !.todo = left,
                     !.at = IF task[t].op = "reap" THEN "sweep"
                            ELSE IF left = {} THEN "save" ELSE "next"]
  <2>1. r.at \notin Busy
    BY <1>1 DEF Task, Busy
  <2>2. task' = [task EXCEPT ![t] = r]
    BY <1>10 DEF Forget
  <2>3. QED
    BY <2>1, <2>2, OneTaskApp
<1>11. CASE Truncate(t) \/ Write(t) \/ Load(t)
  <2>1. Goes(t, "torn") \/ Goes(t, "reload") \/ task[t].app \in Apps
    BY <1>1, <1>11 DEF Truncate, Write, Load, Busy
  <2>2. QED
    BY <1>3, <1>11, <2>1 DEF Truncate, Write, Load, Busy
<1>12. QED
  BY <1>4, <1>6, <1>7, <1>8, <1>9, <1>10, <1>11 DEF Proceed

LEMMA AppKnownStep == DaemonTypeOK /\ AppKnown /\ [DaemonNext]_daemonVars => AppKnown'
<1> SUFFICES ASSUME DaemonTypeOK, AppKnown, [DaemonNext]_daemonVars PROVE AppKnown'
  OBVIOUS
<1>1. task \in [Tasks -> Task] /\ Scanner \in Tasks /\ Handlers \subseteq Tasks
      /\ task[Scanner].todo \subseteq Apps
  BY DEF DaemonTypeOK, Task, Tasks
<1>2. ASSUME NEW h \in Handlers, NEW op \in Commands, NEW a \in Apps, Receive(h, op, a)
      PROVE  AppKnown'
  <2> DEFINE r == [Rest EXCEPT !.at = Entrance(op), !.op = op,
                     !.app = IF op = "prune" THEN None ELSE a]
  <2>1. r.at = Entrance(op) /\ (op # "prune" => r.app = a)
    BY DEF Rest
  <2>2. op = "prune" => Entrance(op) \notin Busy
    BY DEF Entrance, Busy
  <2>3. task' = [task EXCEPT ![h] = r]
    BY <1>2 DEF Receive
  <2>4. QED
    BY <1>1, <2>1, <2>2, <2>3, OneTaskApp
<1>3. ASSUME NEW h \in Handlers, Proceed(h) \/ Reload(h)
      PROVE  AppKnown'
  BY <1>1, <1>3, ProceedApp
<1>4. CASE StopReturns(Scanner) \/ Forget(Scanner)
  BY <1>1, <1>4, ProceedApp
<1>5. CASE Snapshot \/ Look \/ LookFails
  <2>1. CASE Snapshot
    <3>1. [Rest EXCEPT !.at = "look", !.todo = Candidates].at \notin Busy
      BY DEF Rest, Busy
    <3>2. QED
      BY <1>1, <2>1, <3>1, OneTaskApp DEF Snapshot
  <2>2. ASSUME NEW reg, task' = [task EXCEPT ![Scanner].at = "sweep", ![Scanner].reg = reg]
        PROVE  AppKnown'
    <3> DEFINE r == [task[Scanner] EXCEPT !.at = "sweep", !.reg = reg]
    <3>1. r.at \notin Busy
      BY <1>1 DEF Task, Busy
    <3>2. task' = [task EXCEPT ![Scanner] = r]
      BY <2>2
    <3>3. QED
      BY <1>1, <3>1, <3>2, OneTaskApp
  <2>3. QED
    BY <1>5, <2>1, <2>2 DEF Look, LookFails
<1>6. CASE Sweep
  <2>1. ASSUME NEW a \in task[Scanner].todo, NEW at, NEW op,
               task' = [task EXCEPT ![Scanner].app = a, ![Scanner].op = op,
                          ![Scanner].todo = @ \ {a}, ![Scanner].at = at]
        PROVE  AppKnown'
    <3> DEFINE r == [task[Scanner] EXCEPT !.app = a, !.op = op,
                       !.todo = @ \ {a}, !.at = at]
    <3>1. r.app = a
      BY <1>1 DEF Task
    <3>2. task' = [task EXCEPT ![Scanner] = r]
      BY <2>1
    <3>3. QED
      BY <1>1, <3>1, <3>2, OneTaskApp
  <2>2. ASSUME NEW a \in task[Scanner].todo, task[Scanner].at = "sweep", Skip(a)
        PROVE  AppKnown'
    BY <1>1, <2>2 DEF Skip, AppKnown, Task, Busy
  <2>3. CASE Returns(Scanner)
    BY <1>1, <2>3, OneTaskApp DEF Returns, Rest, Busy
  <2>4. ASSUME NEW a \in task[Scanner].todo, Reap(a)
        PROVE  AppKnown'
    BY <2>1, <2>4 DEF Reap
  <2>5. ASSUME NEW a \in task[Scanner].todo, StopIdle(a)
        PROVE  AppKnown'
    BY <2>1, <2>5 DEF StopIdle
  <2>6. QED
    BY <1>6, <2>2, <2>3, <2>4, <2>5 DEF Sweep
<1>7. CASE UNCHANGED task
  BY <1>7 DEF AppKnown
<1>8. CASE Crash
  BY <1>8 DEF Crash, AppKnown, Rest, Busy
<1>9. QED
  BY <1>2, <1>3, <1>4, <1>5, <1>6, <1>7, <1>8
     DEF DaemonNext, Scan, PathChanges, RunGoesOn, daemonVars

(* What a step does to the apps is one of the steps AppLife has.            *)
LEMMA DaemonDrives ==
  ASSUME DaemonTypeOK, AppKnown, [DaemonNext]_daemonVars, "crash" \notin Faults
  PROVE  [LifeNext]_lifeVars
<1>1. task[Scanner].todo \subseteq Apps /\ Scanner \in Tasks /\ Handlers \subseteq Tasks
      /\ \A t \in Tasks : task[t].todo \subseteq Apps
  BY DEF DaemonTypeOK, Task, Tasks
<1>2. ASSUME NEW a \in Apps,
             \/ Start(a) \/ Ask(a) \/ End(a) \/ Report(a) \/ Drop(a)
             \/ AskIfRunning(a)
      PROVE  [LifeNext]_lifeVars
  BY <1>2 DEF LifeNext, AskIfRunning
<1>3. ASSUME NEW t \in Tasks, Proceed(t) \/ Reload(t) \/ StopReturns(t) \/ Forget(t)
      PROVE  [LifeNext]_lifeVars
  <2>1. CASE StopNext(t)
    BY <1>1, <1>2, <2>1 DEF StopNext
  <2>2. CASE StopApp(t) \/ Boot(t)
    BY <1>2, <2>2 DEF StopApp, Boot, AppKnown, Busy
  <2>3. CASE Forget(t)
    BY <1>2, <2>3 DEF Forget, AppKnown, Busy
  <2>4. CASE \/ Refuse(t) \/ AddLocked(t) \/ RemoveLocked(t) \/ PruneLocked(t)
             \/ StopReturns(t) \/ Truncate(t) \/ Write(t) \/ SaveFails(t)
             \/ Reload(t) \/ Load(t)
    BY <2>4 DEF Refuse, AddLocked, RemoveLocked, PruneLocked, Locks, StopReturns,
                Truncate, Write, SaveFails, Reload, Load
  <2>5. QED
    BY <1>3, <2>1, <2>2, <2>3, <2>4 DEF Proceed
<1>4. CASE Scan
  <2>1. CASE Sweep
    <3>1. ASSUME NEW a \in task[Scanner].todo, Reap(a) \/ StopIdle(a) \/ Skip(a)
          PROVE  [LifeNext]_lifeVars
      BY <1>1, <1>2, <3>1 DEF Reap, StopIdle, Skip
    <3>2. QED
      BY <2>1, <3>1 DEF Sweep
  <2>2. CASE Snapshot \/ Look \/ LookFails
    BY <2>2 DEF Snapshot, Look, LookFails
  <2>3. QED
    BY <1>1, <1>3, <1>4, <2>1, <2>2 DEF Scan
<1>5. ASSUME NEW h \in Handlers, NEW op \in Commands, NEW a \in Apps, Receive(h, op, a)
      PROVE  [LifeNext]_lifeVars
  BY <1>5 DEF Receive
<1>6. ASSUME NEW a \in Apps, PathChanges(a) \/ RunGoesOn(a)
      PROVE  [LifeNext]_lifeVars
  BY <1>2, <1>6 DEF PathChanges, RunGoesOn
<1>7. CASE UNCHANGED daemonVars
  BY <1>7 DEF daemonVars, lifeVars
<1>8. QED
  BY <1>1, <1>3, <1>4, <1>5, <1>6, <1>7 DEF DaemonNext, Crash

(* The control plane and the idle scanner start, stop and forget apps only  *)
(* as the supervisor, of which they know AppLife alone, lets them, and what *)
(* they start, stop or forget is an app, whatever write fails.  A daemon    *)
(* that dies leaves its apps behind, which is no step of theirs.            *)
THEOREM DaemonImplementsLife ==
  ASSUME "crash" \notin Faults
  PROVE  DaemonSpec => LifeSpec
<1>1. DaemonInit => LifeInit /\ AppKnown
  BY DEF DaemonInit, AppKnown, Rest, Busy
<1>2. DaemonTypeOK /\ AppKnown /\ [DaemonNext]_daemonVars => AppKnown' /\ [LifeNext]_lifeVars
  BY AppKnownStep, DaemonDrives
<1>3. QED
  BY <1>1, <1>2, DaemonTypeCorrect, PTL DEF DaemonSpec, LifeSpec
=============================================================================
