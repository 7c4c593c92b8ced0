------------------------------- MODULE AppLife -------------------------------
(***************************************************************************)
(* What the supervisor promises about one app, whatever happens to the      *)
(* others: a run is booted, ends by itself or because it was asked to, and  *)
(* is reported once, `crashed` exactly when it "exited non-zero and was     *)
(* not intentionally stopped" (crates/adj/JSON.md:15).  Nothing here knows  *)
(* of pids, ports, names or mutexes.                                        *)
(***************************************************************************)
CONSTANT Apps

VARIABLES
  status,  \* what `adj status` says of the app
  run,     \* the truth about the supervised run: "none", "alive" or its end
  asked    \* whether a stop was begun on the supervised run

lifeVars == <<status, run, asked>>

Ends == {"zero", "nonzero", "killed"}

LifeInit ==
  /\ status = [a \in Apps |-> "Stopped"]
  /\ run = [a \in Apps |-> "none"]
  /\ asked = [a \in Apps |-> FALSE]

(* A boot; the run may have ended by the time it is recorded. *)
Start(a) ==
  /\ status[a] # "Running"
  /\ status' = [status EXCEPT ![a] = "Running"]
  /\ \E r \in {"alive", "zero", "nonzero"} : run' = [run EXCEPT ![a] = r]
  /\ UNCHANGED asked

Ask(a) ==
  /\ status[a] = "Running"
  /\ asked' = [asked EXCEPT ![a] = TRUE]
  /\ UNCHANGED <<status, run>>

(* Only a run that was asked to stop is killed. *)
End(a) ==
  /\ run[a] = "alive"
  /\ \E e \in Ends :
       /\ e = "killed" => asked[a]
       /\ run' = [run EXCEPT ![a] = e]
  /\ UNCHANGED <<status, asked>>

Report(a) ==
  /\ run[a] \in Ends
  /\ status' = [status EXCEPT ![a] =
       IF asked[a] \/ run[a] = "zero" THEN "Stopped" ELSE "Crashed"]
  /\ run' = [run EXCEPT ![a] = "none"]
  /\ asked' = [asked EXCEPT ![a] = FALSE]

(* The entry of a deregistered app is dropped. *)
Drop(a) ==
  /\ status[a] = "Crashed"
  /\ status' = [status EXCEPT ![a] = "Stopped"]
  /\ UNCHANGED <<run, asked>>

LifeNext ==
  \E a \in Apps : Start(a) \/ Ask(a) \/ End(a) \/ Report(a) \/ Drop(a)

LifeSpec == LifeInit /\ [][LifeNext]_lifeVars

(* Every end is reported, and a run that was asked to stop ends. *)
LifeFairness ==
  \A a \in Apps : WF_lifeVars(Report(a)) /\ WF_lifeVars(asked[a] /\ End(a))

LifeFairSpec == LifeSpec /\ LifeFairness
=============================================================================
