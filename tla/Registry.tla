------------------------------- MODULE Registry -------------------------------
(***************************************************************************)
(* What registry.toml promises the user: the registered keys change by one  *)
(* `adj add` or `adj remove` at a time, or by an `adj prune` of entries     *)
(* whose directory is gone for certain.  "The registry never mutates        *)
(* behind the user's back; a temporarily missing path" stays registered     *)
(* (docs/superpowers/specs/2026-06-11-worktree-instances-design.md:84).     *)
(***************************************************************************)
CONSTANT Apps

VARIABLES
  registered,  \* the keys of the registry
  path         \* what try_exists() says of each key's directory

registryVars == <<registered, path>>

PathStates == {"there", "unknown", "gone"}

RegistryInit ==
  /\ registered = {}
  /\ path = [a \in Apps |-> "there"]

Register(a) ==
  /\ a \notin registered
  /\ registered' = registered \cup {a}
  /\ UNCHANGED path

Deregister(a) ==
  /\ a \in registered
  /\ registered' = registered \ {a}
  /\ UNCHANGED path

(* All entries that are gone go at once, and no other. *)
PruneGone ==
  /\ registered' = {a \in registered : path[a] # "gone"}
  /\ UNCHANGED path

PathChanges(a) ==
  /\ \E s \in PathStates : path' = [path EXCEPT ![a] = s]
  /\ UNCHANGED registered

RegistryNext ==
  \/ \E a \in Apps : Register(a) \/ Deregister(a) \/ PathChanges(a)
  \/ PruneGone

RegistrySpec == RegistryInit /\ [][RegistryNext]_registryVars
=============================================================================
