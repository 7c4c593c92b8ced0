------------------------------- MODULE TlsLeaf -------------------------------
(****************************************************************************)
(* The certificate of the HTTPS listener (crates/adj/src/tls.rs): the leaf  *)
(* on disk, the LeafResolver that serves it and re-issues it when the       *)
(* registry changes, and `adj install-ca`, a process of its own that makes  *)
(* and removes the CA the leaf is signed with.                              *)
(*                                                                          *)
(* A leaf is issued by two kinds of task: the one that builds the resolver  *)
(* when the daemon starts, without the registry lock, and the handlers of   *)
(* add, remove and prune, which reload the resolver while they hold it.     *)
(* They block in the keychain (a prompt may wait for the user), on worker   *)
(* threads of their own.  Cryptography is left out: a certificate is known  *)
(* by its names, its issuer, its signer and the key pair it is for.         *)
(****************************************************************************)
EXTENDS Naturals, Sequences

CONSTANTS
  Keys,      \* registry keys, as sequences of labels: <<app>> or <<label, app>>
  Handlers,  \* tasks that carry out a registry change
  Start,     \* the task that builds the resolver
  CaKeys,    \* key pairs of the CA; a CA certificate is known by its key
  LeafKeys,  \* key pairs of the leaf
  Faults,    \* "crash": the daemon dies at work; "interrupt": install-ca does;
             \* "disk": a write fails, perhaps after it has truncated the file
  None,      \* no file, no key, no resolver, no handler
  Torn       \* a file whose write has failed, or was cut short

ASSUME KeysAssumption ==
  \A k \in Keys : k \in Seq(STRING) /\ Len(k) \in {1, 2}
ASSUME TasksAssumption ==
  /\ Start \notin Handlers /\ None \notin Handlers \cup CaKeys \cup LeafKeys
  /\ Torn \notin CaKeys

VARIABLES
  file,    \* registry.toml
  lock,    \* the handler that holds the registry lock
  ca,      \* ca.crt, and the key in the login keychain
  disk,    \* cert.crt and cert.key
  cell,    \* the LeafState of the published resolver
  task,    \* what each task is at
  cli,     \* the next step of `adj install-ca`
  missed,  \* history: a registry change has not been followed by a re-issue
  crossed, \* history: the CA has changed while a leaf was being issued
  spoiled  \* history: a certificate was written and its key was not

tlsVars == <<file, lock, ca, disk, cell, task, cli, missed, crossed, spoiled>>

Tasks == Handlers \cup {Start}

-----------------------------------------------------------------------------
(* Names, without their suffix `.adj.ac`.                                   *)

base_name(key) == key[Len(key)]

Apex == <<>>
Wildcard == <<"*">>

(* Mutant of registry_sans: the keys' own hosts, v1 without instances. *)
registry_sans_flat(reg) == {Apex, Wildcard}

registry_sans(reg) == {Apex, Wildcard} \cup {<<"*", base_name(k)>> : k \in reg}

(* A wildcard stands for exactly one label. *)
Matches(san, host) ==
  /\ Len(san) = Len(host)
  /\ \A i \in 1..Len(san) : san[i] \in {"*", host[i]}

Sans == {registry_sans(reg) : reg \in SUBSET Keys}

-----------------------------------------------------------------------------
Leaf ==
  [sans: Sans, issuer: CaKeys, signer: CaKeys, pair: LeafKeys]

CertFile == Leaf \cup {None, Torn}
KeyFile == LeafKeys \cup {None, Torn}

ASSUME LeafAssumption == {None, Torn} \cap Leaf = {}

(* A handler waits for the lock, saves ("save", "torn"), looks for the      *)
(* resolver ("saved") and compares; the start checks for a CA and loads.    *)
(* Both then go from "ensure" to "install", by way of issue_leaf or not.    *)
Issuing == {"sign", "cert", "key"}
Places ==
  {"idle", "off", "save", "torn", "saved", "compare", "exists", "load",
   "ensure", "issue", "install"} \cup Issuing

Task ==
  [at: Places, reg: SUBSET Keys, sans: Sans \cup {{}},
   issuer: CaKeys \cup {None}, cert: Leaf \cup {None}, key: KeyFile]

CliSteps == {"key", "cert", "rmkey", "rmca", "rmleaf", "rmleafkey"}

TlsTypeOK ==
  /\ file \in SUBSET Keys /\ lock \in Handlers \cup {None}
  /\ ca \in [cert: CaKeys \cup {None, Torn}, key: CaKeys \cup {None}]
  /\ disk \in [cert: CertFile, key: KeyFile]
  /\ cell \in [sans: Sans, cert: Leaf, key: LeafKeys] \cup {None}
  /\ task \in [Tasks -> Task]
  /\ cli \in Seq(CliSteps)
  /\ missed \in BOOLEAN /\ crossed \in BOOLEAN /\ spoiled \in BOOLEAN

Rest(at) ==
  [at |-> at, reg |-> {}, sans |-> {}, issuer |-> None, cert |-> None, key |-> None]

TlsInit ==
  /\ file = {} /\ lock = None
  /\ ca = [cert |-> None, key |-> None]
  /\ disk = [cert |-> None, key |-> None]
  /\ cell = None
  /\ task = [t \in Tasks |-> Rest(IF t = Start THEN "exists" ELSE "idle")]
  /\ cli = <<>>
  /\ missed = FALSE /\ crossed = FALSE /\ spoiled = FALSE

Goes(t, at) == task' = [task EXCEPT ![t].at = at]

(* A handler is done and drops its guard; the start leaves HTTPS off or on. *)
Ends(t, at) ==
  /\ task' = [task EXCEPT ![t] = Rest(IF t = Start THEN at ELSE "idle")]
  /\ lock' = IF t = Start THEN lock ELSE None

-----------------------------------------------------------------------------
(* add, remove and prune, as far as the registry and the resolver go.       *)
Change(h, reg) ==
  /\ task[h].at = "idle" /\ lock = None
  /\ reg # file
  /\ lock' = h
  /\ task' = [task EXCEPT ![h].at = "save", ![h].reg = reg]
  /\ UNCHANGED <<file, ca, disk, cell, cli, missed, crossed, spoiled>>

Truncate(h) ==
  /\ task[h].at = "save"
  /\ file' = {}
  /\ Goes(h, "torn")
  /\ UNCHANGED <<lock, ca, disk, cell, cli, missed, crossed, spoiled>>

Write(h) ==
  /\ task[h].at = "torn"
  /\ file' = task[h].reg
  /\ Goes(h, "saved")
  /\ UNCHANGED <<lock, ca, disk, cell, cli, missed, crossed, spoiled>>

(* The write fails: the command answers with the error and drops its guard, *)
(* before it comes to the resolver.                                         *)
SaveFails(h) ==
  /\ "disk" \in Faults /\ task[h].at \in {"save", "torn"}
  /\ Ends(h, "idle")
  /\ missed' = (missed \/ task[h].at = "torn")
  /\ UNCHANGED <<file, ca, disk, cell, cli, crossed, spoiled>>

(* resolver.get(): no resolver, no re-issue. *)
Get(h) ==
  /\ task[h].at = "saved"
  /\ IF cell = None THEN Ends(h, "idle") /\ missed' = TRUE
     ELSE Goes(h, "compare") /\ UNCHANGED <<lock, missed>>
  /\ UNCHANGED <<file, ca, disk, cell, cli, crossed, spoiled>>

(* reload: the registry is loaded again and its names compared.             *)
Compare(h) ==
  LET sans == registry_sans(file) IN
  /\ task[h].at = "compare"
  /\ IF cell.sans = sans THEN Ends(h, "idle") /\ missed' = FALSE
     ELSE /\ task' = [task EXCEPT ![h].at = "ensure", ![h].sans = sans]
          /\ UNCHANGED <<lock, missed>>
  /\ UNCHANGED <<file, ca, disk, cell, cli, crossed, spoiled>>

-----------------------------------------------------------------------------
(* LeafResolver::new, in the task the daemon spawns when it starts.         *)
CaExists(t) ==
  /\ t = Start /\ task[t].at = "exists"
  /\ IF None \in {ca.cert, ca.key} THEN Ends(t, "off") ELSE Goes(t, "load") /\ UNCHANGED lock
  /\ UNCHANGED <<file, ca, disk, cell, cli, missed, crossed, spoiled>>

(* The registry is read without the lock, perhaps in the middle of a save.  *)
Load(t) ==
  /\ t = Start /\ task[t].at = "load"
  /\ task' = [task EXCEPT ![t].at = "ensure", ![t].sans = registry_sans(file)]
  /\ missed' = FALSE
  /\ UNCHANGED <<file, lock, ca, disk, cell, cli, crossed, spoiled>>

-----------------------------------------------------------------------------
(* ensure_leaf.  Others only remove the two files, so that they are read    *)
(* one after the other makes no difference.                                 *)
(* Mutant of leaf_covers: a certificate with more names than asked for is   *)
(* good enough.                                                             *)
leaf_covers_more(cert, sans) == cert \in Leaf /\ sans \subseteq cert.sans

leaf_covers(cert, sans) == cert \in Leaf /\ cert.sans = sans

(* Mutant of Ensure: that there is a key on disk as well is not checked.    *)
EnsureCertOnly(t) ==
  /\ task[t].at = "ensure"
  /\ task' = IF leaf_covers(disk.cert, task[t].sans)
             THEN [task EXCEPT ![t].at = "install",
                               ![t].cert = disk.cert, ![t].key = disk.key]
             ELSE [task EXCEPT ![t].at = "issue"]
  /\ UNCHANGED <<file, lock, ca, disk, cell, cli, missed, crossed, spoiled>>

Ensure(t) ==
  /\ task[t].at = "ensure"
  /\ task' = IF disk.key # None /\ leaf_covers(disk.cert, task[t].sans)
             THEN [task EXCEPT ![t].at = "install",
                               ![t].cert = disk.cert, ![t].key = disk.key]
             ELSE [task EXCEPT ![t].at = "issue"]
  /\ UNCHANGED <<file, lock, ca, disk, cell, cli, missed, crossed, spoiled>>

(* issue_leaf reads the CA certificate, then gets the key from the keychain *)
(* and signs, then writes the certificate, then its key.                    *)
ReadCa(t) ==
  /\ task[t].at = "issue" /\ ca.cert \in CaKeys
  /\ task' = [task EXCEPT ![t].at = "sign", ![t].issuer = ca.cert]
  /\ UNCHANGED <<file, lock, ca, disk, cell, cli, missed, crossed, spoiled>>

InUse == {disk.key} \cup {task[t].key : t \in Tasks}
  \cup (IF cell = None THEN {} ELSE {cell.key})
  \cup (IF disk.cert \in Leaf THEN {disk.cert.pair} ELSE {})

Sign(t) ==
  /\ task[t].at = "sign" /\ ca.key # None
  /\ \E p \in LeafKeys \ InUse :
       task' = [task EXCEPT ![t].at = "cert", ![t].key = p, ![t].cert =
         [sans |-> task[t].sans, issuer |-> task[t].issuer,
          signer |-> ca.key, pair |-> p]]
  /\ UNCHANGED <<file, lock, ca, disk, cell, cli, missed, crossed, spoiled>>

WriteCert(t) ==
  /\ task[t].at = "cert"
  /\ disk' = [disk EXCEPT !.cert = task[t].cert]
  /\ Goes(t, "key")
  /\ UNCHANGED <<file, lock, ca, cell, cli, missed, crossed, spoiled>>

WriteKey(t) ==
  /\ task[t].at = "key"
  /\ disk' = [disk EXCEPT !.key = task[t].key]
  /\ Goes(t, "install")
  /\ UNCHANGED <<file, lock, ca, cell, cli, missed, crossed, spoiled>>

(* The key is parsed and the pair swapped in, or the resolver published.    *)
Install(t) ==
  /\ task[t].at = "install" /\ task[t].key # Torn
  /\ cell' = [sans |-> task[t].sans, cert |-> task[t].cert, key |-> task[t].key]
  /\ Ends(t, "idle")
  /\ missed' = IF t = Start THEN missed ELSE FALSE
  /\ UNCHANGED <<file, ca, disk, cli, crossed, spoiled>>

(* fs::write truncates a file before it writes it.                          *)
Written(place, content) ==
  {content} \cup {Torn : t \in {u \in Tasks : task[u].at = place}}

PerhapsTorn ==
  disk' \in [cert: Written("cert", disk.cert), key: Written("key", disk.key)]

(* No CA certificate, no key in the keychain or no permission for it, a key *)
(* that does not parse, a failing write: a handler logs it, and the start   *)
(* gives HTTPS up.                                                          *)
Failing ==
  {"issue", "sign"} \cup (IF "disk" \in Faults THEN {"cert", "key"} ELSE {})

Fails(t) ==
  /\ \/ task[t].at \in Failing
     \/ task[t].at = "install" /\ task[t].key = Torn
  /\ PerhapsTorn
  /\ Ends(t, "off")
  /\ missed' = TRUE
  /\ spoiled' = (spoiled \/ task[t].at = "key")
  /\ UNCHANGED <<file, ca, cell, cli, crossed>>

-----------------------------------------------------------------------------
(* adj install-ca, and adj install-ca --reset: the steps to take.           *)
(* Mutant of generate_ca: the old leaf is left on disk. *)
generate_ca_only == <<"key", "cert">>

generate_ca == <<"key", "cert", "rmleaf", "rmleafkey">>
delete_ca == <<"rmkey", "rmca", "rmleaf", "rmleafkey">>

InstallCa ==
  /\ cli = <<>>
  /\ \/ cli' = delete_ca
     \/ None \in {ca.cert, ca.key} /\ cli' = generate_ca
  /\ UNCHANGED <<file, lock, ca, disk, cell, task, missed, crossed, spoiled>>

Issued == {disk.cert} \cup {task[t].cert : t \in Tasks}
  \cup (IF cell = None THEN {} ELSE {cell.cert})

(* keychain::generate replaces the key; a new one was never used before.    *)
FreshCaKey(k) ==
  /\ k \notin {ca.cert, ca.key} \cup {task[t].issuer : t \in Tasks}
  /\ \A c \in Issued \cap Leaf : k \notin {c.issuer, c.signer}

(* The steps of install-ca, after each of which it may be interrupted.      *)
(* That the old key cannot be deleted is ignored.                           *)
CaAfter(step) ==
  CASE step = "key" ->
         {[ca EXCEPT !.key = k] : k \in {fresh \in CaKeys : FreshCaKey(fresh)}}
    [] step = "cert" -> {[ca EXCEPT !.cert = ca.key]}
    [] step = "rmkey" -> {ca, [ca EXCEPT !.key = None]}
    [] step = "rmca" -> {[ca EXCEPT !.cert = None]}
    [] OTHER -> {ca}

CliStep ==
  /\ cli # <<>>
  /\ cli' \in {Tail(cli)} \cup (IF "interrupt" \in Faults THEN {<<>>} ELSE {})
  /\ ca' \in CaAfter(Head(cli))
  /\ disk' = CASE Head(cli) = "rmleaf" -> [disk EXCEPT !.cert = None]
               [] Head(cli) = "rmleafkey" -> [disk EXCEPT !.key = None]
               [] OTHER -> disk
  /\ crossed' = (crossed \/ \E t \in Tasks : task[t].at \in Issuing)
  /\ UNCHANGED <<file, lock, cell, task, missed, spoiled>>

(* The error returns of generate_ca: the old key was deleted and there is   *)
(* no new one, or there is one and the certificate cannot be self-signed or *)
(* written.  The old leaf stays.                                            *)
CliFails ==
  /\ cli # <<>> /\ cli' = <<>>
  /\ \/ Head(cli) = "key" /\ ca' \in {ca, [ca EXCEPT !.key = None]}
     \/ Head(cli) = "cert" /\ ca' = ca
     \/ Head(cli) = "cert" /\ "disk" \in Faults /\ ca' = [ca EXCEPT !.cert = Torn]
  /\ crossed' = (crossed \/ \E t \in Tasks : task[t].at \in Issuing)
  /\ UNCHANGED <<file, lock, disk, cell, task, missed, spoiled>>

(* The user removes the key in Keychain Access, not while install-ca runs.  *)
KeychainLost ==
  /\ cli = <<>>
  /\ ca' = [ca EXCEPT !.key = None]
  /\ UNCHANGED <<file, lock, disk, cell, task, cli, missed, crossed, spoiled>>

-----------------------------------------------------------------------------
(* The daemon is stopped and started again, when it is at rest; or it dies  *)
(* at any time.                                                             *)
Quiet == \A t \in Tasks : task[t].at \in {"idle", "off"}

Restart ==
  /\ Quiet \/ "crash" \in Faults
  /\ PerhapsTorn
  /\ cell' = None /\ lock' = None
  /\ task' = [t \in Tasks |-> Rest(IF t = Start THEN "exists" ELSE "idle")]
  /\ missed' = FALSE
  /\ spoiled' = (spoiled \/ \E t \in Tasks : task[t].at = "key")
  /\ UNCHANGED <<file, ca, cli, crossed>>

Issue(t) ==
  \/ Ensure(t) \/ ReadCa(t) \/ Sign(t) \/ WriteCert(t) \/ WriteKey(t)
  \/ Install(t) \/ Fails(t)

TlsNext ==
  \/ \E h \in Handlers :
       \/ \E reg \in SUBSET Keys : Change(h, reg)
       \/ Truncate(h) \/ Write(h) \/ SaveFails(h) \/ Get(h) \/ Compare(h)
  \/ CaExists(Start) \/ Load(Start)
  \/ \E t \in Tasks : Issue(t)
  \/ InstallCa \/ CliStep \/ CliFails \/ KeychainLost
  \/ Restart

TlsSpec == TlsInit /\ [][TlsNext]_tlsVars

-----------------------------------------------------------------------------
(* The names the resolver compares with are those of the certificate it     *)
(* serves, and the key is the certificate's (tls.rs:133-136, "a reader can  *)
(* never observe a key paired with the wrong SAN set"): also when the leaf  *)
(* comes from the two files, written one after the other, while install-ca  *)
(* removes them, a save or a write fails, or the daemon dies.  Only that a  *)
(* certificate was left without its key is never noticed (against           *)
(* tls.rs:222, "A corrupt cached leaf should heal via re-issue"): the old   *)
(* or truncated key beside it is taken at every further start.              *)
ServedLeafWhole ==
  cell # None /\ ~spoiled =>
    cell.sans = cell.cert.sans /\ cell.key = cell.cert.pair

(* Once no registry change is under way, the served certificate is valid    *)
(* for the host of every registered app and instance, unless the last       *)
(* change truncated the file and failed, found no resolver yet, or could    *)
(* not re-issue the leaf ("HTTPS serves the previous SAN set until the next *)
(* registry change", daemon.rs:376-377): the next change that can makes up  *)
(* for all three.                                                           *)
EveryAppCovered ==
  cell # None /\ lock = None /\ ~missed =>
    /\ cell.sans = registry_sans(file)
    /\ \A k \in file : \E san \in cell.cert.sans : Matches(san, k)

(* A CA whose certificate is of its key.  ca_exists does not ask for that:  *)
(* the old certificate and a new key pass for a CA, though not for "a       *)
(* usable signing handle" (tls.rs:120-122).                                 *)
CaWhole == ca.cert # None /\ ca.cert = ca.key

(* What the next start finds on disk chains to the CA, if that is whole     *)
(* (tls.rs:114-118: what was signed by the previous CA is dropped), however *)
(* often it was rotated and reset, and although generate_ca may have failed *)
(* half way, which leaves the old leaf.  That the deletion "covers          *)
(* fresh-install, post-rotation, and SAN-drift paths" (tls.rs:216-217) is   *)
(* not so when a leaf was being issued while install-ca ran: it is written  *)
(* after the old one was deleted, and stays.  Nor is it when install-ca is  *)
(* interrupted between the new certificate and the deletion ("interrupt").  *)
LeafChains ==
  /\ cli = <<>> /\ ~crossed /\ CaWhole
  /\ disk.cert \in Leaf /\ disk.key # None
  => disk.cert.issuer = ca.cert /\ disk.cert.signer = ca.cert
=============================================================================
