-------------------------- MODULE SupervisorProofs --------------------------
(***************************************************************************)
(* Proofs about Supervisor, for any sets of apps, pids, ports and tasks:    *)
(* the table and the operating system agree, ports are exclusive, a stop    *)
(* kills only the run it was begun on and returns Ok only after its end,    *)
(* and the supervisor implements AppLife.                                   *)
(***************************************************************************)
EXTENDS Supervisor, TLAPS

(* The child whose log is being opened: nobody watches it or has asked it   *)
(* to stop, and its app is not Running.                                     *)
OpeningInv ==
  opening # None =>
    /\ procs[opening].app \in Apps
    /\ procs[opening].port \in Ports
    /\ procs[opening].leader \in {"alive", "zero", "nonzero"}
    /\ ~procs[opening].watched
    /\ ~procs[opening].asked
    /\ ~Running(procs[opening].app)

(* A watched shell has not been reaped. *)
WatchedInv ==
  \A p \in Pids : procs[p].watched => procs[p].leader # "none"

(* The flag of a Running entry tells whether its own run was asked to stop. *)
FlagInv ==
  \A a \in Apps : Running(a) => apps[a].intentional = procs[apps[a].pid].asked

(* The pid a stop holds still names the run it was begun on, or no shell.   *)
StopInv ==
  \A t \in Tasks : stop[t].phase \in Stopping =>
    /\ stop[t].app \in Apps
    /\ stop[t].pid \in Pids
    /\ procs[stop[t].pid].leader # "none" =>
         /\ procs[stop[t].pid].watched
         /\ procs[stop[t].pid].asked
         /\ procs[stop[t].pid].app = stop[t].app

IInv ==
  /\ TypeOK
  /\ SupervisedRuns
  /\ PortsExclusive
  /\ KilledOnlyIfAsked
  /\ OpeningInv
  /\ WatchedInv
  /\ FlagInv
  /\ StopInv

-----------------------------------------------------------------------------
(* A settled group keeps every field while a member of it is left. *)
LEMMA SettledGroup ==
  ASSUME NEW g \in ProcessGroup
  PROVE  /\ Settled(g) \in ProcessGroup
         /\ Settled(g).leader = g.leader
         /\ Settled(g).watched => g.watched
         /\ g.leader # "none" => Settled(g) = g
BY DEF Settled, Vacant, ProcessGroup, ExitCodes

LEMMA InitIInv == Init => IInv
<1> SUFFICES ASSUME Init PROVE IInv
  OBVIOUS
<1>1. TypeOK
  BY DEF Init, TypeOK, Entry, Vacant, NoCall, AppRuntime, ProcessGroup,
         StopCall, Stopping, ExitCodes
<1>2. \A a \in Apps : ~Running(a)
  BY DEF Init, Running, Entry
<1>3. \A p \in Pids : ~procs[p].watched /\ procs[p].leader = "none"
  BY DEF Init, Vacant
<1>4. opening = None /\ \A p \in Pids : opening # p
  BY NoneAssumption DEF Init
<1>5. \A t \in Tasks : stop[t].phase \notin Stopping
  BY DEF Init, NoCall, Stopping
<1>6. QED
  BY <1>1, <1>2, <1>3, <1>4, <1>5
     DEF IInv, SupervisedRuns, PortsExclusive, KilledOnlyIfAsked, OpeningInv,
         WatchedInv, FlagInv, StopInv, Holder

LEMMA UpSpawnIInv ==
  ASSUME IInv, NEW a \in Apps, NEW p \in Pids, NEW q \in Ports, UpSpawn(a, p, q)
  PROVE  IInv'
<1> USE NoneAssumption
<1>1. PICK forks \in Forks :
        procs' = [procs EXCEPT ![p] =
          [app |-> a, port |-> q, leader |-> "alive", tree |-> forks,
           bound |-> FALSE, watched |-> FALSE, asked |-> FALSE]]
  BY DEF UpSpawn, Vacant
<1>2. TypeOK'
  BY <1>1, ForksAssumption DEF IInv, TypeOK, UpSpawn, ProcessGroup, ExitCodes
<1>3. /\ ~procs[p].watched
      /\ opening = None
      /\ \A b \in Apps : Running(b) => apps[b].pid # p
  BY DEF IInv, UpSpawn, LockFree, FreshPid, WatchedInv, SupervisedRuns
<1>4. SupervisedRuns'
  BY <1>1, <1>3 DEF IInv, TypeOK, SupervisedRuns, UpSpawn, Running
<1>5. PortsExclusive'
  BY <1>1, <1>3 DEF IInv, TypeOK, PortsExclusive, Holder, UpSpawn, FreePorts
<1>6. KilledOnlyIfAsked'
  BY <1>1 DEF IInv, TypeOK, KilledOnlyIfAsked
<1>7. OpeningInv'
  BY <1>1 DEF IInv, TypeOK, OpeningInv, UpSpawn, Running
<1>8. WatchedInv'
  BY <1>1 DEF IInv, TypeOK, WatchedInv
<1>9. FlagInv'
  BY <1>1, <1>3 DEF IInv, TypeOK, FlagInv, SupervisedRuns, UpSpawn, Running
<1>10. StopInv'
  BY <1>1 DEF IInv, TypeOK, StopInv, UpSpawn, FreshPid
<1>11. QED
  BY <1>2, <1>4, <1>5, <1>6, <1>7, <1>8, <1>9, <1>10 DEF IInv

LEMMA UpRecordIInv ==
  ASSUME IInv, UpRecord
  PROVE  IInv'
<1> USE NoneAssumption
<1> DEFINE o == opening
<1>1. /\ o \in Pids
      /\ procs[o].app \in Apps /\ procs[o].port \in Ports
      /\ procs[o].leader \in {"alive", "zero", "nonzero"}
      /\ ~procs[o].watched /\ ~procs[o].asked
      /\ ~Running(procs[o].app)
      /\ opening' = None
  BY DEF IInv, TypeOK, UpRecord, OpeningInv
<1>2. /\ apps' = [apps EXCEPT ![procs[o].app] =
           [state |-> "Running", pid |-> o, port |-> procs[o].port,
            intentional |-> FALSE, quiet |-> FALSE]]
      /\ procs' = [procs EXCEPT ![o] = [procs[o] EXCEPT !.watched = TRUE]]
      /\ reserved' = reserved /\ stop' = stop
  BY DEF UpRecord
<1>3. TypeOK'
  <2>1. apps' \in [Apps -> AppRuntime]
    BY <1>1, <1>2 DEF IInv, TypeOK, AppRuntime
  <2>2. procs' \in [Pids -> ProcessGroup]
    BY <1>1, <1>2 DEF IInv, TypeOK, ProcessGroup
  <2>3. QED
    BY <1>1, <1>2, <2>1, <2>2 DEF IInv, TypeOK
<1>4. SupervisedRuns'
  BY <1>1, <1>2 DEF IInv, TypeOK, SupervisedRuns, Running, ProcessGroup
<1>5. PortsExclusive'
  BY <1>1, <1>2 DEF IInv, TypeOK, PortsExclusive, Holder, ProcessGroup
<1>6. KilledOnlyIfAsked'
  BY <1>1, <1>2 DEF IInv, TypeOK, KilledOnlyIfAsked, ProcessGroup
<1>7. OpeningInv'
  BY <1>1 DEF OpeningInv
<1>8. WatchedInv'
  BY <1>1, <1>2 DEF IInv, TypeOK, WatchedInv, ProcessGroup
<1>9. FlagInv'
  <2>1. \A p \in Pids : procs'[p].asked = procs[p].asked
    BY <1>1, <1>2 DEF IInv, TypeOK, ProcessGroup
  <2>2. \A a \in Apps : a # procs[o].app => apps'[a] = apps[a]
    BY <1>1, <1>2 DEF IInv, TypeOK
  <2>3. /\ apps'[procs[o].app].pid = o
        /\ apps'[procs[o].app].intentional = FALSE
    BY <1>1, <1>2 DEF IInv, TypeOK
  <2>4. SUFFICES ASSUME NEW a \in Apps, Running(a)'
                 PROVE  (apps[a].intentional = procs[apps[a].pid].asked)'
    BY DEF FlagInv
  <2>5. CASE a = procs[o].app
    <3>1. procs[o].asked = FALSE
      BY <1>1 DEF IInv, TypeOK, ProcessGroup
    <3>2. procs'[apps'[a].pid].asked = FALSE
      BY <1>1, <2>1, <2>3, <2>5, <3>1
    <3>3. QED
      BY <2>3, <2>5, <3>2
  <2>6. CASE a # procs[o].app
    <3>1. apps'[a] = apps[a] /\ Running(a)
      BY <2>2, <2>4, <2>6 DEF Running
    <3>2. apps[a].pid \in Pids /\ apps[a].intentional = procs[apps[a].pid].asked
      BY <3>1 DEF IInv, FlagInv, SupervisedRuns
    <3>3. QED
      BY <2>1, <3>1, <3>2
  <2>7. QED
    BY <2>5, <2>6
<1>10. StopInv'
  BY <1>1, <1>2 DEF IInv, TypeOK, StopInv, ProcessGroup
<1>11. QED
  BY <1>3, <1>4, <1>5, <1>6, <1>7, <1>8, <1>9, <1>10 DEF IInv

LEMMA UpAbandonIInv ==
  ASSUME IInv, UpAbandon
  PROVE  IInv'
<1>1. PortsExclusive'
  BY NoneAssumption DEF IInv, TypeOK, PortsExclusive, Holder, UpAbandon
<1>2. QED
  BY <1>1 DEF IInv, TypeOK, SupervisedRuns, KilledOnlyIfAsked, OpeningInv,
              WatchedInv, FlagInv, StopInv, Running, UpAbandon

-----------------------------------------------------------------------------
(* Steps of the operating system change only leader, tree and bound, never  *)
(* revive a shell, and reap only one that nobody watches.                   *)
SystemStep ==
  /\ UNCHANGED <<apps, reserved, opening>>
  /\ procs' \in [Pids -> ProcessGroup]
  /\ \A p \in Pids :
       /\ procs[p].leader # "none" /\ (procs[p].watched \/ opening = p) =>
            /\ procs'[p].leader # "none"
            /\ procs'[p].watched = procs[p].watched
            /\ procs'[p].asked = procs[p].asked
            /\ procs'[p].app = procs[p].app
            /\ procs'[p].port = procs[p].port
       /\ procs'[p].watched => procs[p].watched
       /\ procs[p].leader = "none" => procs'[p].leader = "none"
       /\ procs'[p].leader # "none" =>
            /\ procs'[p].asked = procs[p].asked
            /\ procs'[p].watched = procs[p].watched
            /\ procs'[p].app = procs[p].app
       /\ procs'[p].leader = "killed" => procs[p].leader = "killed" \/ procs[p].asked

LEMMA SystemStepIInv ==
  ASSUME IInv, SystemStep, stop' \in [Tasks -> StopCall],
         \A t \in Tasks : stop'[t].phase \in Stopping =>
           /\ stop[t].phase \in Stopping
           /\ stop'[t].app = stop[t].app /\ stop'[t].pid = stop[t].pid
  PROVE  IInv'
<1> USE NoneAssumption
<1>1. TypeOK'
  BY DEF IInv, TypeOK, SystemStep
<1>2. \A p \in Pids : procs[p].watched =>
        /\ procs'[p].watched /\ procs'[p].asked = procs[p].asked
        /\ procs'[p].app = procs[p].app /\ procs'[p].port = procs[p].port
        /\ procs'[p].leader # "none"
  BY DEF IInv, WatchedInv, SystemStep
<1>3. SupervisedRuns'
  <2>1. \A p \in Pids : procs'[p].watched => procs[p].watched
    BY DEF SystemStep
  <2>2. QED
    BY <1>2, <2>1 DEF IInv, SupervisedRuns, Running, SystemStep
<1>4. OpeningInv'
  BY DEF IInv, TypeOK, OpeningInv, Running, SystemStep, ProcessGroup, ExitCodes
<1>5. PortsExclusive'
  <2>1. \A p \in Pids : Holder(p)' => Holder(p) /\ procs'[p].port = procs[p].port
    BY <1>2 DEF IInv, Holder, OpeningInv, SystemStep
  <2>2. QED
    BY <2>1 DEF IInv, PortsExclusive, SystemStep
<1>6. KilledOnlyIfAsked'
  BY DEF IInv, KilledOnlyIfAsked, SystemStep
<1>7. WatchedInv'
  BY <1>2 DEF IInv, WatchedInv, SystemStep
<1>8. FlagInv'
  BY <1>2 DEF IInv, FlagInv, SupervisedRuns, Running, SystemStep
<1>9. StopInv'
  BY DEF IInv, StopInv, SystemStep
<1>10. QED
  BY <1>1, <1>3, <1>4, <1>5, <1>6, <1>7, <1>8, <1>9 DEF IInv

LEMMA SystemIInv ==
  ASSUME IInv, System
  PROVE  IInv'
<1>1. \A t \in Tasks : stop'[t] = stop[t]
  BY DEF System, Bind, LeaderExits, TreeExits, ReapOrphan
<1>2. stop' \in [Tasks -> StopCall]
  BY DEF IInv, TypeOK, System, Bind, LeaderExits, TreeExits, ReapOrphan
<1>3. SystemStep
  <2>1. PICK p \in Pids :
          \/ Bind(p)
          \/ \E code \in {"zero", "nonzero"} : LeaderExits(p, code)
          \/ TreeExits(p)
          \/ ReapOrphan(p)
    BY DEF System
  <2>2. procs[p] \in ProcessGroup
    BY DEF IInv, TypeOK
  <2>3. CASE Bind(p)
    BY <2>2, <2>3 DEF SystemStep, Bind, IInv, TypeOK, ProcessGroup
  <2>4. ASSUME NEW code \in {"zero", "nonzero"}, LeaderExits(p, code)
        PROVE  SystemStep
    BY <2>2, <2>4 DEF SystemStep, LeaderExits, IInv, TypeOK, ProcessGroup, ExitCodes
  <2>5. CASE TreeExits(p)
    <3> DEFINE g == [procs[p] EXCEPT !.tree = FALSE, !.bound = FALSE]
    <3>1. /\ g \in ProcessGroup /\ g.leader = procs[p].leader
          /\ g.watched = procs[p].watched /\ g.asked = procs[p].asked
          /\ g.app = procs[p].app /\ g.port = procs[p].port
      BY <2>2 DEF ProcessGroup
    <3>2. procs' = [procs EXCEPT ![p] = Settled(g)]
      BY <2>5 DEF TreeExits
    <3>3. /\ Settled(g) \in ProcessGroup /\ Settled(g).leader = procs[p].leader
          /\ Settled(g).watched => procs[p].watched
          /\ procs[p].leader # "none" => Settled(g) = g
      BY <3>1, SettledGroup
    <3>4. /\ procs' \in [Pids -> ProcessGroup]
          /\ procs'[p] = Settled(g)
          /\ \A r \in Pids \ {p} : procs'[r] = procs[r]
      BY <3>2, <3>3 DEF IInv, TypeOK
    <3>5. UNCHANGED <<apps, reserved, opening>>
      BY <2>5 DEF TreeExits
    <3>6. QED
      BY <3>1, <3>3, <3>4, <3>5 DEF SystemStep
  <2>6. CASE ReapOrphan(p)
    <3> DEFINE g == [procs[p] EXCEPT !.leader = "none"]
    <3>1. g \in ProcessGroup /\ g.leader = "none" /\ g.watched = procs[p].watched
      BY <2>2 DEF ProcessGroup
    <3>2. procs' = [procs EXCEPT ![p] = Settled(g)]
      BY <2>6 DEF ReapOrphan
    <3>3. /\ Settled(g) \in ProcessGroup /\ Settled(g).leader = "none"
          /\ ~Settled(g).watched
      BY <2>6, <3>1, SettledGroup DEF ReapOrphan
    <3>4. /\ procs' \in [Pids -> ProcessGroup]
          /\ procs'[p] = Settled(g)
          /\ \A r \in Pids \ {p} : procs'[r] = procs[r]
      BY <3>2, <3>3 DEF IInv, TypeOK
    <3>5. /\ UNCHANGED <<apps, reserved, opening>>
          /\ ~procs[p].watched /\ opening # p
      BY <2>6 DEF ReapOrphan
    <3>6. QED
      BY <3>3, <3>4, <3>5 DEF SystemStep
  <2>7. QED
    BY <2>1, <2>3, <2>4, <2>5, <2>6
<1>4. QED
  BY <1>1, <1>2, <1>3, SystemStepIInv

LEMMA WatchIInv ==
  ASSUME IInv, NEW p \in Pids, Watch(p)
  PROVE  IInv'
<1> USE NoneAssumption
<1> DEFINE a == procs[p].app
           g == [procs[p] EXCEPT !.leader = "none", !.watched = FALSE]
<1>1. /\ procs[p] \in ProcessGroup /\ procs[p].watched
      /\ a \in Apps /\ Running(a) /\ apps[a].pid = p
      /\ opening = None /\ opening' = None /\ stop' = stop
  BY DEF IInv, TypeOK, SupervisedRuns, Watch, LockFree
<1>2. PICK s \in {"Stopped", "Crashed"} : apps' = [apps EXCEPT ![a] = Entry(s)]
  <2>1. apps[a].state # "Absent"
    BY <1>1 DEF Running
  <2>2. QED
    BY <2>1 DEF Watch, Verdict
<1>3. /\ g \in ProcessGroup /\ g.leader = "none" /\ ~g.watched
      /\ Settled(g) \in ProcessGroup /\ Settled(g).leader = "none"
      /\ ~Settled(g).watched
  <2>1. g \in ProcessGroup /\ g.leader = "none" /\ ~g.watched
    BY <1>1 DEF ProcessGroup
  <2>2. QED
    BY <2>1, SettledGroup
<1>4. /\ procs' \in [Pids -> ProcessGroup]
      /\ procs'[p] = Settled(g)
      /\ \A r \in Pids \ {p} : procs'[r] = procs[r]
  BY <1>3 DEF Watch, IInv, TypeOK
<1>5. /\ apps' \in [Apps -> AppRuntime]
      /\ apps'[a].state # "Running"
      /\ \A b \in Apps \ {a} : apps'[b] = apps[b]
  <2>1. Entry(s) \in AppRuntime /\ Entry(s).state # "Running"
    BY DEF Entry, AppRuntime
  <2>2. QED
    BY <1>1, <1>2, <2>1 DEF IInv, TypeOK
<1>6. reserved' = reserved \ {procs[p].port}
  BY DEF Watch
<1>7. TypeOK'
  BY <1>1, <1>4, <1>5, <1>6 DEF IInv, TypeOK
<1>8. SupervisedRuns'
  <2>1. \A b \in Apps : Running(b)' => b # a /\ Running(b) /\ apps'[b] = apps[b]
    BY <1>5 DEF Running
  <2>2. \A b \in Apps : Running(b)' => apps[b].pid \in Pids \ {p}
    BY <1>1, <2>1 DEF IInv, SupervisedRuns
  <2>3. \A r \in Pids : procs'[r].watched =>
          r # p /\ procs'[r] = procs[r] /\ procs[r].app # a
    BY <1>1, <1>3, <1>4 DEF IInv, SupervisedRuns
  <2>4. QED
    BY <1>4, <1>5, <2>1, <2>2, <2>3 DEF IInv, SupervisedRuns, Running
<1>9. PortsExclusive'
  <2>1. \A r \in Pids : Holder(r)' =>
          r # p /\ Holder(r) /\ procs'[r].port = procs[r].port
    BY <1>1, <1>3, <1>4 DEF Holder
  <2>2. \A r \in Pids : Holder(r)' => procs[r].port # procs[p].port
    BY <1>1, <2>1 DEF IInv, PortsExclusive, Holder
  <2>3. QED
    BY <1>6, <2>1, <2>2 DEF IInv, PortsExclusive
<1>10. KilledOnlyIfAsked'
  BY <1>3, <1>4 DEF IInv, KilledOnlyIfAsked
<1>11. OpeningInv'
  BY <1>1 DEF OpeningInv
<1>12. WatchedInv'
  BY <1>3, <1>4 DEF IInv, WatchedInv
<1>13. FlagInv'
  <2>1. \A b \in Apps : Running(b)' => b # a /\ Running(b) /\ apps'[b] = apps[b]
    BY <1>5 DEF Running
  <2>2. \A b \in Apps : Running(b)' => apps[b].pid \in Pids \ {p}
    BY <1>1, <2>1 DEF IInv, SupervisedRuns
  <2>3. QED
    BY <1>4, <2>1, <2>2 DEF IInv, FlagInv
<1>14. StopInv'
  BY <1>1, <1>3, <1>4 DEF IInv, StopInv
<1>15. QED
  BY <1>7, <1>8, <1>9, <1>10, <1>11, <1>12, <1>13, <1>14 DEF IInv

LEMMA BeginStopIInv ==
  ASSUME IInv, NEW t \in Tasks, NEW a \in Apps, NEW min_idle \in BOOLEAN,
         BeginStop(t, a, min_idle)
  PROVE  IInv'
<1> USE NoneAssumption
<1> DEFINE p == apps[a].pid
<1>1. /\ apps[a] \in AppRuntime /\ Running(a) /\ p \in Pids
      /\ procs[p] \in ProcessGroup /\ procs[p].watched /\ procs[p].app = a
      /\ opening = None /\ opening' = None /\ reserved' = reserved
  BY DEF IInv, TypeOK, SupervisedRuns, BeginStop, LockFree
<1>2. /\ apps' \in [Apps -> AppRuntime]
      /\ apps'[a].intentional = TRUE
      /\ \A b \in Apps :
           /\ apps'[b].state = apps[b].state
           /\ apps'[b].pid = apps[b].pid
           /\ apps'[b].port = apps[b].port
           /\ b # a => apps'[b] = apps[b]
  BY <1>1 DEF BeginStop, IInv, TypeOK, AppRuntime
<1>3. /\ procs' \in [Pids -> ProcessGroup]
      /\ procs'[p].asked = TRUE
      /\ \A r \in Pids :
           /\ procs'[r].watched = procs[r].watched
           /\ procs'[r].leader = procs[r].leader
           /\ procs'[r].app = procs[r].app
           /\ procs'[r].port = procs[r].port
           /\ procs[r].asked => procs'[r].asked
           /\ r # p => procs'[r] = procs[r]
  BY <1>1 DEF BeginStop, IInv, TypeOK, ProcessGroup
<1>4. /\ stop' \in [Tasks -> StopCall]
      /\ stop'[t] = [phase |-> "grace", app |-> a, pid |-> p]
      /\ \A u \in Tasks \ {t} : stop'[u] = stop[u]
  BY <1>1 DEF BeginStop, IInv, TypeOK, StopCall, Stopping
<1>5. TypeOK'
  BY <1>1, <1>2, <1>3, <1>4 DEF IInv, TypeOK
<1>6. SupervisedRuns'
  BY <1>2, <1>3 DEF IInv, SupervisedRuns, Running
<1>7. PortsExclusive'
  BY <1>1, <1>3 DEF IInv, PortsExclusive, Holder
<1>8. KilledOnlyIfAsked'
  BY <1>3 DEF IInv, KilledOnlyIfAsked
<1>9. OpeningInv' /\ WatchedInv'
  BY <1>1, <1>3 DEF IInv, OpeningInv, WatchedInv
<1>10. FlagInv'
  <2>1. \A b \in Apps \ {a} : Running(b) => apps[b].pid # p
    BY <1>1 DEF IInv, SupervisedRuns
  <2>2. SUFFICES ASSUME NEW b \in Apps, Running(b)'
                 PROVE  (apps[b].intentional = procs[apps[b].pid].asked)'
    BY DEF FlagInv
  <2>3. CASE b = a
    BY <1>2, <1>3, <2>3
  <2>4. CASE b # a
    <3>1. apps'[b] = apps[b] /\ Running(b)
      BY <1>2, <2>2, <2>4 DEF Running
    <3>2. apps[b].pid \in Pids \ {p}
      BY <2>1, <2>4, <3>1 DEF IInv, SupervisedRuns
    <3>3. procs'[apps[b].pid] = procs[apps[b].pid]
      BY <1>3, <3>2
    <3>4. QED
      BY <3>1, <3>3 DEF IInv, FlagInv
  <2>5. QED
    BY <2>3, <2>4
<1>11. StopInv'
  <2>1. procs'[p].asked
    BY <1>3
  <2>2. \A r \in Pids : procs[r].asked => procs'[r].asked
    BY <1>3
  <2>3. QED
    BY <1>1, <1>3, <1>4, <2>1, <2>2 DEF IInv, StopInv
<1>12. QED
  BY <1>5, <1>6, <1>7, <1>8, <1>9, <1>10, <1>11 DEF IInv

LEMMA PollIInv ==
  ASSUME IInv, NEW t \in Tasks, Poll(t)
  PROVE  IInv'
<1>1. UNCHANGED <<apps, reserved, procs, opening>>
  BY DEF Poll, StopEnds, GraceOver, StopFails
<1>2. /\ stop' \in [Tasks -> StopCall]
      /\ \A u \in Tasks : stop'[u].phase \in Stopping =>
           /\ stop[u].phase \in Stopping
           /\ stop'[u].app = stop[u].app /\ stop'[u].pid = stop[u].pid
  BY DEF Poll, StopEnds, GraceOver, StopFails, IInv, TypeOK, StopCall, Stopping, NoCall
<1>3. SystemStep
  BY <1>1 DEF SystemStep, IInv, TypeOK
<1>4. QED
  BY <1>2, <1>3, SystemStepIInv

LEMMA KilledGroup ==
  ASSUME NEW g \in ProcessGroup
  PROVE  /\ Killed(g) \in ProcessGroup
         /\ (Killed(g).leader = "none") <=> (g.leader = "none")
         /\ Killed(g).leader = "killed" => g.leader \in {"alive", "killed"}
         /\ Killed(g).leader # "alive"
         /\ Killed(g).app = g.app /\ Killed(g).port = g.port
         /\ Killed(g).watched = g.watched /\ Killed(g).asked = g.asked
         /\ g.leader \in ExitCodes => Killed(g).leader = g.leader
         /\ g.leader = "alive" => Killed(g).leader = "killed"
BY DEF Killed, ProcessGroup, ExitCodes

(* A SIGKILL finds the run its stop was begun on, or no shell at all.       *)
LEMMA SigKillStep ==
  ASSUME IInv, NEW t \in Tasks, SigKill(t)
  PROVE  LET p == stop[t].pid IN
         /\ p \in Pids
         /\ procs' \in [Pids -> ProcessGroup]
         /\ \A r \in Pids \ {p} : procs'[r] = procs[r]
         /\ procs'[p].watched => procs[p].watched
         /\ procs[p].leader = "none" => procs'[p].leader = "none"
         /\ procs[p].leader # "none" =>
              /\ procs[p].watched /\ procs[p].asked /\ procs[p].app = stop[t].app
              /\ procs'[p] = Killed(procs[p])
<1> DEFINE p == stop[t].pid
           g == Killed(procs[p])
<1>1. p \in Pids /\ procs[p] \in ProcessGroup
  BY DEF IInv, TypeOK, StopInv, SigKill, Stopping
<1>2. procs[p].leader # "none" =>
        procs[p].watched /\ procs[p].asked /\ procs[p].app = stop[t].app
  BY DEF IInv, StopInv, SigKill, Stopping
<1>3. /\ g \in ProcessGroup
      /\ g.watched = procs[p].watched
      /\ (g.leader = "none") <=> (procs[p].leader = "none")
  BY <1>1, KilledGroup
<1>4. /\ Settled(g) \in ProcessGroup /\ Settled(g).leader = g.leader
      /\ Settled(g).watched => g.watched
      /\ g.leader # "none" => Settled(g) = g
  BY <1>3, SettledGroup
<1>5. /\ procs' \in [Pids -> ProcessGroup] /\ procs'[p] = Settled(g)
      /\ \A r \in Pids \ {p} : procs'[r] = procs[r]
  BY <1>1, <1>4 DEF IInv, TypeOK, SigKill
<1>6. QED
  BY <1>1, <1>2, <1>3, <1>4, <1>5

LEMMA SigKillIInv ==
  ASSUME IInv, NEW t \in Tasks, SigKill(t)
  PROVE  IInv'
<1> DEFINE p == stop[t].pid
<1>1. /\ p \in Pids
      /\ procs' \in [Pids -> ProcessGroup]
      /\ \A r \in Pids \ {p} : procs'[r] = procs[r]
      /\ procs'[p].watched => procs[p].watched
      /\ procs[p].leader = "none" => procs'[p].leader = "none"
      /\ procs[p].leader # "none" =>
           /\ procs[p].watched /\ procs[p].asked /\ procs[p].app = stop[t].app
           /\ procs'[p] = Killed(procs[p])
  BY SigKillStep
<1>2. procs[p].leader # "none" =>
        /\ procs'[p].leader # "none" /\ procs'[p].watched = procs[p].watched
        /\ procs'[p].asked = procs[p].asked /\ procs'[p].app = procs[p].app
        /\ procs'[p].port = procs[p].port
  BY <1>1, KilledGroup DEF IInv, TypeOK
<1>3. SystemStep
  BY <1>1, <1>2 DEF SystemStep, SigKill
<1>4. /\ stop' \in [Tasks -> StopCall]
      /\ \A u \in Tasks : stop'[u].phase \in Stopping =>
           /\ stop[u].phase \in Stopping
           /\ stop'[u].app = stop[u].app /\ stop'[u].pid = stop[u].pid
  BY DEF SigKill, IInv, TypeOK, StopCall, Stopping
<1>5. QED
  BY <1>3, <1>4, SystemStepIInv

(* Forget, Touch and WindowElapses only change entries that are not Running *)
(* or the mark of the last request.                                         *)
LEMMA EntryIInv ==
  ASSUME IInv, NEW a \in Apps, Forget(a) \/ Touch(a) \/ WindowElapses(a)
  PROVE  IInv'
<1>1. /\ UNCHANGED <<reserved, procs, opening, stop>>
      /\ apps' \in [Apps -> AppRuntime]
      /\ \A b \in Apps :
           /\ Running(b)' <=> Running(b)
           /\ Running(b) => /\ apps'[b].pid = apps[b].pid
                            /\ apps'[b].port = apps[b].port
                            /\ apps'[b].intentional = apps[b].intentional
  <2>1. CASE Forget(a)
    BY <2>1 DEF Forget, Running, Entry, IInv, TypeOK, AppRuntime
  <2>2. CASE Touch(a)
    BY <2>2 DEF Touch, Running, IInv, TypeOK, AppRuntime
  <2>3. CASE WindowElapses(a)
    BY <2>3 DEF WindowElapses, Running, IInv, TypeOK, AppRuntime
  <2>4. QED
    BY <2>1, <2>2, <2>3
<1>2. SupervisedRuns' /\ FlagInv'
  BY <1>1 DEF IInv, SupervisedRuns, FlagInv
<1>3. OpeningInv'
  BY <1>1 DEF IInv, OpeningInv
<1>4. QED
  BY <1>1, <1>2, <1>3 DEF IInv, TypeOK, PortsExclusive, KilledOnlyIfAsked,
     WatchedInv, StopInv, Holder

-----------------------------------------------------------------------------
LEMMA NextIInv == IInv /\ [Next]_vars => IInv'
<1> SUFFICES ASSUME IInv, [Next]_vars PROVE IInv'
  OBVIOUS
<1>1. CASE Boot
  <2>1. PICK a \in Apps, p \in Pids, q \in Ports : UpSpawn(a, p, q)
    BY <1>1 DEF Boot
  <2>2. QED
    BY <2>1, UpSpawnIInv
<1>2. CASE UpRecord
  BY <1>2, UpRecordIInv
<1>3. CASE UpAbandon
  BY <1>3, UpAbandonIInv
<1>4. CASE System
  BY <1>4, SystemIInv
<1>5. CASE \E p \in Pids : Watch(p)
  BY <1>5, WatchIInv
<1>6. CASE Stops
  <2>1. PICK t \in Tasks :
          \/ \E a \in Apps, min_idle \in BOOLEAN : BeginStop(t, a, min_idle)
          \/ Poll(t)
          \/ SigKill(t)
    BY <1>6 DEF Stops
  <2>2. QED
    BY <2>1, BeginStopIInv, PollIInv, SigKillIInv
<1>7. CASE \E a \in Apps : Forget(a) \/ Touch(a) \/ WindowElapses(a)
  BY <1>7, EntryIInv
<1>8. CASE UNCHANGED vars
  BY <1>8 DEF vars, IInv, TypeOK, SupervisedRuns, PortsExclusive, KilledOnlyIfAsked,
              OpeningInv, WatchedInv, FlagInv, StopInv, Running, Holder
<1>9. QED
  BY <1>1, <1>2, <1>3, <1>4, <1>5, <1>6, <1>7, <1>8 DEF Next

LEMMA IInvHolds == Spec => []IInv
BY InitIInv, NextIInv, PTL DEF Spec

(* The types of the supervisor's state. *)
THEOREM TypeCorrect == Spec => []TypeOK
<1>1. IInv => TypeOK
  BY DEF IInv
<1>2. QED
  BY <1>1, IInvHolds, PTL

(* An app is Running exactly when the wait task of the process group its    *)
(* entry names is pending, with any number of apps, boots and stops.        *)
THEOREM SupervisedRunsHold == Spec => []SupervisedRuns
<1>1. IInv => SupervisedRuns
  BY DEF IInv
<1>2. QED
  BY <1>1, IInvHolds, PTL

(* No two children share a port, and each keeps its reservation (up,        *)
(* allocate_free_port and the wait task of supervisor.rs).                  *)
THEOREM PortsExclusiveHold == Spec => []PortsExclusive
<1>1. IInv => PortsExclusive
  BY DEF IInv
<1>2. QED
  BY <1>1, IInvHolds, PTL

(* finish_stop never kills a run no stop was begun on. *)
THEOREM KilledOnlyIfAskedHolds == Spec => []KilledOnlyIfAsked
<1>1. IInv => KilledOnlyIfAsked
  BY DEF IInv
<1>2. QED
  BY <1>1, IInvHolds, PTL

-----------------------------------------------------------------------------
LEMMA StopOkStep ==
  ASSUME IInv, [Next]_vars, NEW t \in Tasks,
         stop[t].phase \in Stopping, stop'[t].phase = "ok"
  PROVE  procs[stop[t].pid].leader # "alive" /\ ~procs[stop[t].pid].watched
<1> DEFINE p == stop[t].pid
<1>1. StopEnds(t)
  <2>1. stop' # stop
    BY DEF Stopping
  <2>2. PICK u \in Tasks :
          \/ \E a \in Apps, min_idle \in BOOLEAN : BeginStop(u, a, min_idle)
          \/ Poll(u)
          \/ SigKill(u)
    BY <2>1 DEF Next, vars, Boot, UpSpawn, UpRecord, UpAbandon, System, Bind,
                LeaderExits, TreeExits, ReapOrphan, Watch, Stops, Forget, Touch,
                WindowElapses
  <2>3. stop \in [Tasks -> StopCall]
    BY DEF IInv, TypeOK
  <2>4. CASE \E a \in Apps, min_idle \in BOOLEAN : BeginStop(u, a, min_idle)
    BY <2>3, <2>4 DEF BeginStop, Stopping
  <2>5. CASE SigKill(u)
    BY <2>3, <2>5 DEF SigKill, Stopping, StopCall
  <2>6. CASE Poll(u)
    BY <2>3, <2>6 DEF Poll, StopEnds, GraceOver, StopFails, NoCall, Stopping, StopCall
  <2>7. QED
    BY <2>2, <2>4, <2>5, <2>6
<1>2. p \in Pids /\ ~Running(stop[t].app)
  BY <1>1 DEF StopEnds, IInv, StopInv
<1>3. procs[p].leader # "none" => procs[p].watched /\ procs[p].app = stop[t].app
  BY DEF IInv, StopInv
<1>4. ~(procs[p].watched /\ procs[p].app = stop[t].app)
  BY <1>2 DEF IInv, SupervisedRuns
<1>5. procs[p].leader = "none"
  BY <1>3, <1>4
<1>6. QED
  BY <1>2, <1>5 DEF IInv, WatchedInv

(* Although finish_stop polls the state under the app's name, it returns Ok *)
(* only when the shell the stop was begun on is gone and reported.          *)
THEOREM StopOkMeansEndedHolds == Spec => StopOkMeansEnded
<1>1. IInv /\ [Next]_vars => [OkOnlyWhenEnded]_vars
  BY StopOkStep DEF OkOnlyWhenEnded, Returns
<1>2. QED
  BY <1>1, IInvHolds, PTL DEF Spec, StopOkMeansEnded

-----------------------------------------------------------------------------
(* The refinement.  A step that leaves alone what the entries say and the   *)
(* shells of the runs they name is a stutter of AppLife.                    *)
LEMMA LifeStutter ==
  ASSUME \A a \in Apps :
           /\ apps'[a].state = apps[a].state
           /\ Running(a) => /\ procs'[apps'[a].pid].leader = procs[apps[a].pid].leader
                            /\ procs'[apps'[a].pid].asked <=> procs[apps[a].pid].asked
  PROVE  UNCHANGED <<LifeStatus, LifeRun, LifeAsked>>
BY DEF LifeStatus, LifeRun, LifeAsked, Running

LEMMA LifeInitial == Init => Life!LifeInit
<1> SUFFICES ASSUME Init PROVE Life!LifeInit
  OBVIOUS
<1>1. \A a \in Apps : apps[a].state = "Absent" /\ ~Running(a)
  BY DEF Init, Entry, Running
<1>2. LifeStatus = [a \in Apps |-> "Stopped"]
  BY <1>1 DEF LifeStatus
<1>3. LifeRun = [a \in Apps |-> "none"]
  BY <1>1 DEF LifeRun
<1>4. LifeAsked = [a \in Apps |-> FALSE]
  BY <1>1, Zenon DEF LifeAsked
<1>5. QED
  BY <1>2, <1>3, <1>4 DEF Life!LifeInit

LEMMA UpSpawnLife ==
  ASSUME IInv, NEW a \in Apps, NEW p \in Pids, NEW q \in Ports, UpSpawn(a, p, q)
  PROVE  UNCHANGED <<LifeStatus, LifeRun, LifeAsked>>
<1>1. apps' = apps /\ \A r \in Pids \ {p} : procs'[r] = procs[r]
  BY DEF UpSpawn, IInv, TypeOK
<1>2. procs[p].leader = "none"
  BY DEF UpSpawn, FreshPid
<1>3. \A b \in Apps : Running(b) => apps[b].pid \in Pids \ {p}
  BY <1>2 DEF IInv, SupervisedRuns, WatchedInv
<1>4. QED
  BY <1>1, <1>3, LifeStutter

LEMMA UpRecordLife ==
  ASSUME IInv, UpRecord
  PROVE  \E a \in Apps : Life!Start(a)
<1> DEFINE o == opening
           a == procs[o].app
<1>1. /\ o \in Pids /\ a \in Apps /\ ~Running(a)
      /\ procs[o].leader \in {"alive", "zero", "nonzero"} /\ ~procs[o].asked
  BY DEF IInv, TypeOK, UpRecord, OpeningInv
<1>2. /\ apps'[a].state = "Running" /\ apps'[a].pid = o
      /\ \A b \in Apps \ {a} : apps'[b] = apps[b]
  BY <1>1 DEF UpRecord, IInv, TypeOK
<1>3. \A r \in Pids : /\ procs'[r].leader = procs[r].leader
                      /\ procs'[r].asked = procs[r].asked
  BY <1>1 DEF UpRecord, IInv, TypeOK, ProcessGroup
<1>4. \A b \in Apps : Running(b) => apps[b].pid \in Pids
  BY DEF IInv, SupervisedRuns
<1>5. LifeStatus' = [LifeStatus EXCEPT ![a] = "Running"]
  BY <1>1, <1>2 DEF LifeStatus
<1>6. LifeRun' = [LifeRun EXCEPT ![a] = procs[o].leader]
  BY <1>1, <1>2, <1>3, <1>4 DEF LifeRun, Running
<1>7. LifeAsked' = LifeAsked
  <2>1. \A b \in Apps :
          (Running(b) /\ procs[apps[b].pid].asked)'
            <=> (Running(b) /\ procs[apps[b].pid].asked)
    BY <1>1, <1>2, <1>3, <1>4 DEF Running
  <2>2. QED
    BY <2>1 DEF LifeAsked
<1>8. LifeStatus[a] # "Running"
  BY <1>1 DEF LifeStatus, Running
<1>9. QED
  BY <1>1, <1>5, <1>6, <1>7, <1>8 DEF Life!Start

LEMMA SystemLife ==
  ASSUME IInv, System
  PROVE  Life!LifeNext \/ UNCHANGED <<LifeStatus, LifeRun, LifeAsked>>
<1>1. PICK p \in Pids :
        \/ Bind(p)
        \/ \E code \in {"zero", "nonzero"} : LeaderExits(p, code)
        \/ TreeExits(p)
        \/ ReapOrphan(p)
  BY DEF System
<1>2. procs[p] \in ProcessGroup
  BY DEF IInv, TypeOK
<1>3. \A b \in Apps : Running(b) =>
        /\ apps[b].pid \in Pids
        /\ procs[apps[b].pid].watched /\ procs[apps[b].pid].leader # "none"
        /\ b # procs[p].app => apps[b].pid # p
  BY DEF IInv, SupervisedRuns, WatchedInv
<1>4. CASE Bind(p)
  <2>1. /\ apps' = apps
        /\ \A r \in Pids : /\ procs'[r].leader = procs[r].leader
                           /\ procs'[r].asked = procs[r].asked
    BY <1>2, <1>4 DEF Bind, IInv, TypeOK, ProcessGroup
  <2>2. QED
    BY <1>3, <2>1, LifeStutter
<1>5. CASE TreeExits(p)
  <2> DEFINE g == [procs[p] EXCEPT !.tree = FALSE, !.bound = FALSE]
  <2>1. /\ g \in ProcessGroup /\ g.leader = procs[p].leader
        /\ g.asked = procs[p].asked
    BY <1>2 DEF ProcessGroup
  <2>2. procs[p].leader # "none" => Settled(g) = g
    BY <2>1, SettledGroup
  <2>3. /\ apps' = apps /\ procs'[p] = Settled(g)
        /\ \A r \in Pids \ {p} : procs'[r] = procs[r]
    BY <1>5 DEF TreeExits, IInv, TypeOK
  <2>4. QED
    BY <1>3, <2>1, <2>2, <2>3, LifeStutter
<1>6. CASE ReapOrphan(p)
  <2>1. /\ apps' = apps /\ ~procs[p].watched
        /\ \A r \in Pids \ {p} : procs'[r] = procs[r]
    BY <1>6 DEF ReapOrphan, IInv, TypeOK
  <2>2. \A b \in Apps : Running(b) => procs'[apps[b].pid] = procs[apps[b].pid]
    BY <1>3, <2>1
  <2>3. QED
    BY <2>1, <2>2, LifeStutter
<1>7. ASSUME NEW code \in {"zero", "nonzero"}, LeaderExits(p, code)
      PROVE  Life!LifeNext \/ UNCHANGED <<LifeStatus, LifeRun, LifeAsked>>
  <2> DEFINE a == procs[p].app
  <2>1. /\ apps' = apps /\ procs[p].leader = "alive"
        /\ procs'[p].leader = code /\ procs'[p].asked = procs[p].asked
        /\ \A r \in Pids \ {p} : procs'[r] = procs[r]
    BY <1>2, <1>7 DEF LeaderExits, IInv, TypeOK, ProcessGroup
  <2>2. CASE ~procs[p].watched
    <3>1. \A b \in Apps : Running(b) => procs'[apps[b].pid] = procs[apps[b].pid]
      BY <1>3, <2>1, <2>2
    <3>2. QED
      BY <2>1, <3>1, LifeStutter
  <2>3. CASE procs[p].watched
    <3>1. a \in Apps /\ Running(a) /\ apps[a].pid = p
      BY <2>3 DEF IInv, SupervisedRuns
    <3>2. LifeStatus' = LifeStatus
      BY <2>1 DEF LifeStatus
    <3>3. LifeRun' = [LifeRun EXCEPT ![a] = code]
      BY <1>3, <2>1, <3>1 DEF LifeRun, Running
    <3>4. LifeAsked' = LifeAsked
      <4>1. \A b \in Apps : Running(b) =>
              (procs'[apps[b].pid].asked <=> procs[apps[b].pid].asked)
        BY <1>3, <2>1
      <4>2. QED
        BY <2>1, <4>1 DEF LifeAsked, Running
    <3>5. LifeRun[a] = "alive"
      BY <2>1, <3>1 DEF LifeRun
    <3>6. Life!End(a)
      BY <3>2, <3>3, <3>4, <3>5 DEF Life!End, Life!Ends
    <3>7. QED
      BY <3>1, <3>6 DEF Life!LifeNext
  <2>4. QED
    BY <2>2, <2>3
<1>8. QED
  BY <1>1, <1>4, <1>5, <1>6, <1>7

LEMMA WatchLife ==
  ASSUME IInv, NEW p \in Pids, Watch(p)
  PROVE  \E a \in Apps : Life!Report(a)
<1> DEFINE a == procs[p].app
           g == [procs[p] EXCEPT !.leader = "none", !.watched = FALSE]
           s == Verdict(apps[a], procs[p].leader)
<1>1. /\ procs[p] \in ProcessGroup /\ a \in Apps /\ Running(a) /\ apps[a].pid = p
      /\ procs[p].leader \in ExitCodes
  BY DEF IInv, TypeOK, SupervisedRuns, Watch, Exited
<1>2. \A b \in Apps \ {a} : Running(b) => apps[b].pid \in Pids \ {p}
  BY <1>1 DEF IInv, SupervisedRuns
<1>3. apps' = [apps EXCEPT ![a] = Entry(s)]
  BY <1>1 DEF Watch, Running
<1>4. s = IF procs[p].asked \/ procs[p].leader = "zero" THEN "Stopped" ELSE "Crashed"
  BY <1>1 DEF Verdict, IInv, FlagInv
<1>5. /\ apps'[a].state = s /\ s \in {"Stopped", "Crashed"}
      /\ \A b \in Apps \ {a} : apps'[b] = apps[b]
  BY <1>1, <1>3, <1>4 DEF IInv, TypeOK, Entry
<1>6. \A r \in Pids \ {p} : procs'[r] = procs[r]
  BY DEF Watch, IInv, TypeOK
<1>7. LifeRun[a] = procs[p].leader /\ (LifeAsked[a] <=> procs[p].asked)
  BY <1>1 DEF LifeRun, LifeAsked
<1>8. LifeStatus' = [LifeStatus EXCEPT ![a] = s]
  BY <1>1, <1>5 DEF LifeStatus
<1>9. /\ apps'[a].state # "Running"
      /\ \A b \in Apps \ {a} :
           /\ Running(b)' <=> Running(b)
           /\ Running(b) => procs'[apps'[b].pid] = procs[apps[b].pid]
  BY <1>2, <1>5, <1>6 DEF Running
<1>10. LifeRun' = [LifeRun EXCEPT ![a] = "none"]
  BY <1>1, <1>9 DEF LifeRun, Running
<1>11. LifeAsked' = [LifeAsked EXCEPT ![a] = FALSE]
  <2>1. /\ LifeAsked'[a] = FALSE
        /\ \A b \in Apps \ {a} : LifeAsked'[b] = LifeAsked[b]
    BY <1>1, <1>9 DEF LifeAsked, Running
  <2>2. QED
    BY <1>1, <2>1 DEF LifeAsked
<1>12. QED
  BY <1>1, <1>4, <1>7, <1>8, <1>10, <1>11 DEF Life!Report, Life!Ends, ExitCodes

LEMMA BeginStopLife ==
  ASSUME IInv, NEW t \in Tasks, NEW a \in Apps, NEW min_idle \in BOOLEAN,
         BeginStop(t, a, min_idle)
  PROVE  Life!Ask(a)
<1> DEFINE p == apps[a].pid
<1>1. Running(a) /\ p \in Pids /\ procs[p] \in ProcessGroup /\ apps[a] \in AppRuntime
  BY DEF IInv, TypeOK, SupervisedRuns, BeginStop
<1>2. \A b \in Apps : Running(b) => apps[b].pid \in Pids /\ (b # a => apps[b].pid # p)
  BY <1>1 DEF IInv, SupervisedRuns
<1>3. \A b \in Apps : apps'[b].state = apps[b].state /\ apps'[b].pid = apps[b].pid
  BY <1>1 DEF BeginStop, IInv, TypeOK, AppRuntime
<1>4. /\ procs'[p].asked = TRUE /\ procs'[p].leader = procs[p].leader
      /\ \A r \in Pids \ {p} : procs'[r] = procs[r]
  BY <1>1 DEF BeginStop, IInv, TypeOK, ProcessGroup
<1>5. LifeStatus' = LifeStatus
  BY <1>3 DEF LifeStatus
<1>6. LifeRun' = LifeRun
  BY <1>2, <1>3, <1>4 DEF LifeRun, Running
<1>7. LifeAsked' = [LifeAsked EXCEPT ![a] = TRUE]
  <2>1. /\ (Running(a)' /\ procs'[apps'[a].pid].asked) = TRUE
        /\ \A b \in Apps \ {a} :
             (Running(b)' /\ procs'[apps'[b].pid].asked)
               = (Running(b) /\ procs[apps[b].pid].asked)
    BY <1>1, <1>2, <1>3, <1>4 DEF Running
  <2>2. QED
    BY <2>1 DEF LifeAsked
<1>8. LifeStatus[a] = "Running"
  BY <1>1 DEF LifeStatus, Running
<1>9. QED
  BY <1>5, <1>6, <1>7, <1>8 DEF Life!Ask

LEMMA SigKillLife ==
  ASSUME IInv, NEW t \in Tasks, SigKill(t)
  PROVE  Life!LifeNext \/ UNCHANGED <<LifeStatus, LifeRun, LifeAsked>>
<1> DEFINE p == stop[t].pid
           a == stop[t].app
<1>1. /\ p \in Pids
      /\ \A r \in Pids \ {p} : procs'[r] = procs[r]
      /\ procs[p].leader # "none" =>
           /\ procs[p].watched /\ procs[p].asked /\ procs[p].app = a
           /\ procs'[p] = Killed(procs[p])
  BY SigKillStep
<1>2. /\ apps' = apps
      /\ procs[p] \in ProcessGroup
  BY <1>1 DEF SigKill, IInv, TypeOK
<1>3. \A b \in Apps : Running(b) =>
        apps[b].pid \in Pids /\ procs[apps[b].pid].leader # "none"
  BY DEF IInv, SupervisedRuns, WatchedInv
<1>4. procs[p].leader # "none" => procs'[p].asked = procs[p].asked
  BY <1>1, <1>2, KilledGroup
<1>5. CASE procs[p].leader # "alive"
  <2>1. procs[p].leader # "none" => procs'[p].leader = procs[p].leader
    BY <1>1, <1>2, <1>5, KilledGroup DEF ProcessGroup
  <2>2. QED
    BY <1>1, <1>2, <1>3, <1>4, <2>1, LifeStutter
<1>6. CASE procs[p].leader = "alive"
  <2>1. procs[p].watched /\ procs[p].asked /\ procs[p].app = a
    BY <1>1, <1>6
  <2>2. /\ a \in Apps /\ Running(a) /\ apps[a].pid = p
        /\ \A b \in Apps \ {a} : Running(b) => apps[b].pid # p
    BY <1>1, <2>1 DEF IInv, SupervisedRuns
  <2>3. procs'[p].leader = "killed"
    BY <1>1, <1>2, <1>6, KilledGroup
  <2>4. LifeStatus' = LifeStatus
    BY <1>2 DEF LifeStatus
  <2>5. LifeRun' = [LifeRun EXCEPT ![a] = "killed"]
    BY <1>1, <1>2, <1>3, <2>2, <2>3 DEF LifeRun, Running
  <2>6. LifeAsked' = LifeAsked
    <3>1. \A b \in Apps : Running(b) =>
            (procs'[apps[b].pid].asked <=> procs[apps[b].pid].asked)
      BY <1>1, <1>3, <1>4, <1>6
    <3>2. QED
      BY <1>2, <3>1 DEF LifeAsked, Running
  <2>7. LifeRun[a] = "alive" /\ LifeAsked[a]
    BY <1>6, <2>1, <2>2 DEF LifeRun, LifeAsked
  <2>8. Life!End(a)
    BY <2>4, <2>5, <2>6, <2>7 DEF Life!End, Life!Ends
  <2>9. QED
    BY <2>2, <2>8 DEF Life!LifeNext
<1>7. QED
  BY <1>5, <1>6

LEMMA EntryLife ==
  ASSUME IInv, NEW a \in Apps, Forget(a) \/ Touch(a) \/ WindowElapses(a)
  PROVE  Life!LifeNext \/ UNCHANGED <<LifeStatus, LifeRun, LifeAsked>>
<1>1. CASE Touch(a) \/ WindowElapses(a)
  <2>1. /\ procs' = procs
        /\ \A b \in Apps : apps'[b].state = apps[b].state /\ apps'[b].pid = apps[b].pid
    BY <1>1 DEF Touch, WindowElapses, IInv, TypeOK, AppRuntime
  <2>2. QED
    BY <2>1, LifeStutter
<1>2. CASE Forget(a)
  <2>1. /\ procs' = procs /\ apps[a].state \in {"Stopped", "Crashed"}
        /\ apps'[a].state = "Absent"
        /\ \A b \in Apps \ {a} : apps'[b] = apps[b]
    BY <1>2 DEF Forget, Entry, IInv, TypeOK
  <2>2. LifeRun' = LifeRun /\ LifeAsked' = LifeAsked
    <3>1. \A b \in Apps : /\ Running(b)' <=> Running(b)
                          /\ Running(b) => apps'[b] = apps[b]
      BY <2>1 DEF Running
    <3>2. QED
      BY <2>1, <3>1 DEF LifeRun, LifeAsked
  <2>3. LifeStatus' = [LifeStatus EXCEPT ![a] = "Stopped"]
    BY <2>1 DEF LifeStatus
  <2>4. LifeStatus[a] = apps[a].state
    BY <2>1 DEF LifeStatus
  <2>5. CASE apps[a].state = "Crashed"
    BY <2>2, <2>3, <2>4, <2>5 DEF Life!LifeNext, Life!Drop
  <2>6. CASE apps[a].state = "Stopped"
    <3>1. LifeStatus' = LifeStatus
      BY <2>3, <2>4, <2>6 DEF LifeStatus
    <3>2. QED
      BY <2>2, <3>1
  <2>7. QED
    BY <2>1, <2>5, <2>6
<1>3. QED
  BY <1>1, <1>2

LEMMA LifeStep ==
  IInv /\ [Next]_vars => [Life!LifeNext]_(Life!lifeVars)
<1> SUFFICES ASSUME IInv, [Next]_vars
             PROVE  Life!LifeNext \/ UNCHANGED <<LifeStatus, LifeRun, LifeAsked>>
  BY DEF Life!lifeVars
<1>1. CASE Boot
  BY <1>1, UpSpawnLife DEF Boot
<1>2. CASE UpRecord
  BY <1>2, UpRecordLife DEF Life!LifeNext
<1>3. CASE UpAbandon \/ UNCHANGED vars
  <2>1. apps' = apps /\ procs' = procs
    BY <1>3 DEF UpAbandon, vars
  <2>2. QED
    BY <2>1, LifeStutter
<1>4. CASE System
  BY <1>4, SystemLife
<1>5. CASE \E p \in Pids : Watch(p)
  BY <1>5, WatchLife DEF Life!LifeNext
<1>6. CASE Stops
  <2>1. PICK t \in Tasks :
          \/ \E a \in Apps, min_idle \in BOOLEAN : BeginStop(t, a, min_idle)
          \/ Poll(t)
          \/ SigKill(t)
    BY <1>6 DEF Stops
  <2>2. CASE \E a \in Apps, min_idle \in BOOLEAN : BeginStop(t, a, min_idle)
    BY <2>2, BeginStopLife DEF Life!LifeNext
  <2>3. CASE Poll(t)
    <3>1. apps' = apps /\ procs' = procs
      BY <2>3 DEF Poll, StopEnds, GraceOver, StopFails
    <3>2. QED
      BY <3>1, LifeStutter
  <2>4. CASE SigKill(t)
    BY <2>4, SigKillLife
  <2>5. QED
    BY <2>1, <2>2, <2>3, <2>4
<1>7. CASE \E a \in Apps : Forget(a) \/ Touch(a) \/ WindowElapses(a)
  BY <1>7, EntryLife
<1>8. QED
  BY <1>1, <1>2, <1>3, <1>4, <1>5, <1>6, <1>7 DEF Next

(* The supervisor implements AppLife: every run is reported once, Crashed   *)
(* exactly when it ended non-zero and no stop was begun on that very run.   *)
THEOREM SupervisorImplementsLife == Spec => ImplementsLife
BY LifeInitial, LifeStep, IInvHolds, PTL DEF Spec, ImplementsLife, Life!LifeSpec
=============================================================================
