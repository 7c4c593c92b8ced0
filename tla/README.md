# adjacent: models, checks and proofs

TLA+ models of `adj` (crates/adj), the local process manager that boots a
developer's apps on the first request for `<app>.adj.ac`, proxies to them, and
stops them when they are idle. TLC checks the models on small instances; TLAPS
proves the theorems of the `*Proofs` modules for every value of the constants.

## The system

One daemon process, tokio tasks inside it, `sh -c <cmd>` children outside it,
and a command line client that sends one request per connection over a Unix
socket.

| component | state | operations | talks to |
|---|---|---|---|
| supervisor (`supervisor.rs`) | table of apps (`Inner.apps`), reserved ports, one mutex | `up`, wait task, `down`, `down_if_idle`, `forget`, `touch_idle`, `state` | the OS: spawn, wait, signals |
| boot gate (`proxy.rs`) | map name -> `Weak<Mutex>` | `lock_for`, lock, drop | each request of its listener |
| proxy (`proxy.rs`) | none of its own but the requests in flight | `handle`, `ensure_running`, `forward` | gate, supervisor, registry, upstreams |
| readiness probe (`readiness.rs`) | a deadline | `wait_ready` | supervisor, upstreams |
| control plane (`daemon.rs`) | the registry lock, a task per client | `add`, `remove`, `prune`, `up`, `down`, `restart` and queries | registry, supervisor, resolver |
| idle scanner (`daemon.rs`) | a snapshot of the running apps | sweep: reap, stop idle | registry (no lock), supervisor |
| registry (`registry.rs`) | `registry.toml` | `load`, `save` | - |
| certificates (`tls.rs`) | `ca.crt`, keychain key, `cert.crt`, `cert.key`, the resolver's `LeafState` | `LeafResolver::new`, `reload`, `issue_leaf`, `generate_ca`, `delete_ca` | registry; `install-ca` is another process |
| daemon start, socket (`daemon.rs`, `client.rs`) | the socket file, the proxy port, connections | probe, unlink, bind, listen, Ctrl-C | other daemons, clients |
| log pipeline (`supervisor.rs`, `client.rs`) | a log file per app, a mutex and two pipes per run | a task per stream; `logs --tail` | the child's pipes |
| names (`worktree.rs`, `scaffold.rs`, `registry.rs`, `proxy.rs`, `agent_docs.rs`) | manifests, registry keys | `adj add`, validation, host parsing | registry, proxy, client |
| environment (`env.rs`, `supervisor.rs`) | none | dotenv parsing, layering | manifest, port files |
| dashboard, doctor, port forwarding | none | read and render, write one file | - |

What makes it hard:

* **Interleaving.** The supervisor's mutex is released between `state` and `up`,
  between the idle snapshot and the stop, between the polls of a stop; the wait
  task and the stops find an app by its name, not by the run they are about.
* **Cancellation.** A request is a future that hyper drops at any `await` when its
  client hangs up, also while it boots an app.
* **The OS is another actor.** A child ends by itself before, during or after it
  is told to; it binds its port late; its descendants outlive it.
* **Processes beside each other.** Nothing but the socket file tells two daemons
  apart; runs of one app may overlap in its log; a client follows that log.
* **Texts in several places.** A branch or a directory becomes a label, a key, a host,
  a URL and a certificate name, each made or taken apart by other code.
* **Reads without a lock.** The proxy, `up`, the scanner and the start of HTTPS
  read `registry.toml` while `add`, `remove` and `prune` rewrite it.
* **Failure in between.** `registry.toml` is truncated before it is written, a leaf is
  written before its key, and the CA's key is replaced before its certificate.
* **Liveness.** Stops, requests and commands wait for two kinds of mutex, for
  deadlines, for apps that may come back, and for a keychain that may ask the user.

## Modules

| module | what it is | code |
|---|---|---|
| `AppLife` | abstract: what an observer is promised about one app's runs | `JSON.md:15`, `adj_protocol::AppState` |
| `Supervisor` | the table, ports, process groups and stops; implements `AppLife` | `supervisor.rs` |
| `SingleFlight` | abstract: one fair mutex per name | what `ensure_running` needs of its gate |
| `BootGate` | the map of weak references; implements `SingleFlight` | `proxy.rs:40-79, 336-345` |
| `Proxy` | requests over `Supervisor` (EXTENDS), with the gate as `SingleFlight` promises it | `proxy.rs`, `readiness.rs` |
| `Registry` | abstract: add, remove and prune one after the other | `registry.rs`, `daemon.rs` |
| `Daemon` | handlers, registry file and lock, idle scanner, over `AppLife` (EXTENDS); implements `Registry` | `daemon.rs` |
| `TlsLeaf` | the leaf on disk and in the resolver, `install-ca` | `tls.rs`, `installca.rs`, `daemon.rs:68-96` |
| `DaemonStart` | daemons that start and end around one socket, and the commands that reach them | `daemon.rs:23-186`, `client.rs:14-42` |
| `Names` | from a directory and a branch over manifest, label and key to the host of a request | `worktree.rs`, `scaffold.rs`, `client.rs:51-111`, `daemon.rs:313-395`, `registry.rs`, `proxy.rs:208-340, 522-545`, `agent_docs.rs` |
| `Environment` | what a booted app is told, over `Names` (EXTENDS) | `env.rs`, `supervisor.rs:28-105, 163-212` |
| `LogPipeline` | from a child's pipes to its log and a tailing client | `supervisor.rs:241-250, 614-691`, `client.rs:230-345` |
| `SupervisorProofs`, `BootGateProofs`, `ProxyProofs`, `DaemonProofs`, `DaemonStartProofs`, `TlsLeafProofs`, `LogPipelineProofs`, `NamesProofs` | theorems; `ProxyProofs` extends `SupervisorProofs`, `NamesProofs` is about `Names` and `Environment` | |
| `MC*` | symmetry sets and small constants for TLC | |

The composition is by promise: `Proxy` uses the gate that `BootGate` is shown to
implement, and `Daemon` uses the apps that `Supervisor` is shown to implement; that they
use them as promised is proved (`ProxyImplementsFlight`, `DaemonImplementsLife`). That
one process holds the registry lock, as `Daemon` has it, is `DaemonStart`'s
`OneRegistryLock`; that a handler gets to its reply, as `DaemonStart` has it, is
`Daemon`'s `CommandsReturn`, which assumes that the keychain answers.

### How state and actions correspond to the code

*Supervisor.* `apps` is `Inner.apps` (a missing entry is the state "Absent"),
`reserved` is `reserved_ports`. `procs` is the OS: per process group its shell
(`leader`), whether a descendant is alive (`tree`), whether it listens (`bound`),
and whether the wait task has it (`watched`). One critical section of the mutex is
one action. `up` holds the mutex across the await that opens the log, so it is two
actions, `UpSpawn` and `UpRecord`, with `UpAbandon` for a failing open or a dropped
future; `opening` is the child in between, and `LockFree` says the mutex is free.
`finish_stop` is `BeginStop`, polls (`StopEnds`, `GraceOver`, `StopFails`) and
`SigKill`, which is outside the mutex.

*Proxy.* `req[r].at` is the await a request is at: the gate, `check` (state read),
`up`, `opening`, `probe` and `connect` (the loop of `wait_ready`), `ready` (routed,
not stamped), `forward`, `stream`. `HangUp` drops the future at any of them.

*Daemon.* `task[t].at` is the next critical section of a handler or of the scanner:
`lock`, `next`/`wait`/`forget` (stopping the apps of a removal while the lock is
held), `save` and `torn` (the file truncated, not yet written), `reload` (the certificate
is re-issued, still under the lock), `load`, `boot`; the scanner's `look` and `sweep`. Commands that only read (`list`, `state`, `wait`,
`ping`, `logs`) change nothing and are left out; `restart` is a stop and a boot.

*TlsLeaf.* A registry key is a sequence of labels. `Change`/`Truncate`/`Write`/
`Get`/`Compare` are a command and `reload`, `SaveFails` is its save returning an error;
`CaExists`/`Load` are `LeafResolver::new`; `Ensure` to `Install` are shared by both. `cli`
holds the steps `install-ca` has still to take (`CliStep`), until it is done or
`generate_ca` returns an error at one of them (`CliFails`). A certificate is its names, issuer, signer and key
pair.

*DaemonStart.* `at[d]` is the next system call of a process: the existence check,
the probe, the removal, bind(2), listen(2), then serving; `leave` is between the
removal of the socket by the Ctrl-C task and `process::exit`. `sock` is who bound the
file, dead or alive; `web` is who has the proxy port. `conn[c]` is where a command's
request and reply are.

*Names.* A text is a sequence of characters (`Chars`), a run of letters that is never
cut being one of them. A handler is one step (its interleavings are `Daemon`'s): `ClientAdd` is
`adj add` up to its request, with what it writes, `Add` the daemon's side. `handle` is
where the proxy sends a host. In `Environment`, `child_env` is the layers of `up`, the
later ones first: of the layers that set a variable the first counts (`Layered`).

*LogPipeline.* `reader[s].at` is the await a stream's task is at: the pipe (`read`),
the mutex (`wait`), the `first` and the `second` write of a record. `done` and `gone`
are tasks that ended by themselves and with their daemon. A line is a number, and
whether it is UTF-8. `seen` is how far the client is.

## Runs

| run | shows | instance |
|---|---|---|
| `supervisor` | table and processes agree; ports are shared by no two supervised children; SIGKILL only reaches runs a stop was begun on; a stop's Ok means that run's end was recorded; each run is reported once with the right verdict, and if asked to end, does (`ImplementsFairLife`); every stop returns | 2 apps, 2 pids, 2 ports, 1 stop at a time; shells that fork and that exec |
| `boot_gate` | one lock per name, a bounded map, a fair mutex per name | 3 requests, 4 names, 5 locks |
| `proxy` | requests share a boot; a routed request's server was seen listening; a stamped request keeps the scanner off for a window | 1 app, 3 requests, one listener |
| `proxy_live` | every request at the gate is answered or reaches its upstream | 1 app, 2 requests, `adj up` beside them |
| `daemon` | the registry file changes as if its commands ran one after the other | 2 apps, 2 handlers and the scanner |
| `daemon_live` | running apps that are not registered are reaped; if the keychain answers, every command gets the lock and returns | 1 app, 2 handlers, crashes and failing saves |
| `daemon_start` | daemons that start one after the other: one serves, on one socket, with one lock, and nothing left behind blocks the next; whatever overlaps, every command returns | 2 processes, each started any number of times, 2 clients |
| `names` | a registered key is reached by the spellings of its host and by nothing else; what the client derives is well-formed; agent-docs names the key that is then added; the URLs and the port an app is told are its own | 2 directories, all branches of up to 4 characters, labels of up to 2, 13 manifests, the hosts around these labels, 4-bit numbers |
| `logs` | a stream's log has no holes; a run's records are not mixed; lines get to who follows the log | 2 runs that may overlap, 2 lines, pipes of 1 line |
| `tls_leaf` | whatever dies or fails: the served certificate has the names it is compared by and its own key, unless a certificate was left without its key; it covers every registered app, unless the last write of the registry was not followed by a re-issue; a leaf on disk chains to a CA that is whole, unless one was being issued while `install-ca` ran | an app and an instance, 3 CA keys, 3 leaf keys, crashes, failing writes, 1 handler |
| `routed_requests_spared` | violated: the scanner stops an app between a request's probe and its stamp | 1 app, 2 requests |
| `reap_spares_registered` | violated: the scanner reads the truncated registry and reaps a registered app | 2 apps |

All runs but `names` say `CHECK_DEADLOCK FALSE`: the system may stop having anything
to do.

**Bounds.** The code hardly counts: pids, ports, key pairs and processes come from
finite sets and are reused when free. Two apps are enough for one app to be taken for
another, one stop for it to outlive its run and meet the next (the theorems are for
any number), two pids for a run and its successor, two ports for one to be handed out while the
other is bound late. Three requests are enough for one to hold the gate, one to
wait and one to arrive. Two commands and the scanner cover every pair of holders of
the registry lock. In `daemon` only one of the two apps ever boots (`Active`), with an
idle timeout (`Timed`); the other is the one whose registration could be lost.
`names` cuts labels at `MaxLabel` = 2 instead of 63, so that a cut falls before,
within and after a run of hyphens, takes numbers modulo `Word` = 16 instead of 2^64,
so that minutes wrap to zero, and has at most `MaxApps` = 2 keys. In `logs`, `MaxRuns`,
`MaxLines` and `PipeSize` (2, 2 and 1) are enough for two runs to write to one file,
for the two streams of a run to compete, and for a pipe to be full and to hold a line
when its task ends. `tls_leaf` has one handler, since the lock admits one and a handler at
rest keeps nothing, and three leaf keys, of which two at most are in use when a third is
generated. Symmetry is used in safety runs only.

**What is taken for granted.** A pid is not reused while a stop still holds it or a
request talks to its server. SIGTERM adds no behaviour, because a group may end at
any time, and one that ignores it may not. `add`'s look at its directory, made before
it waits for the lock, is taken at arrival. A truncated `registry.toml` is an empty,
valid registry (every field has a serde default); a save that
stops in the middle of the text leaves one as well. `install-ca` can remove files (an error of
`remove_file` is ignored in the code, and would leave the old leaf), and when `generate`
cannot delete the old key, it makes no second one beside it. `Daemon`'s `Faults` and
`TlsLeaf`'s `Faults` name the failures a run allows: "crash" (the daemon dies, for
instance at `process::exit` in the Ctrl-C task), "interrupt" (`install-ca` is stopped
between two steps; no run has it, see below) and "disk" (a write fails). Errors that the
keychain or a self-signing returns need no fault: they may always happen (`Fails`,
`CliFails`).

**Fairness.** A task of the runtime that can run does (weak fairness); a step that
takes a tokio mutex is strongly fair, because tokio's `Mutex` serves its waiters in
order. The boot deadline and the grace window come (`BootTimeout`, `GraceOver`).
Nothing makes a child exit, listen, or a response end, nor the keychain answer:
`CommandsReturn` names that as its premise (`KeychainAnswers`), because the code has no
deadline for it. `Daemon`'s fairness of
`Report` and of `End` for an app that was asked is the promise `supervisor`
checks (`ImplementsFairLife`). `StartFairness` lets processes, handlers and clients go
on, and makes nobody start a daemon; `LogFairness` lets the tasks of a log and the
client go on, with strong fairness for its mutex, and makes nobody print.

## Proofs

| theorem | says |
|---|---|
| `TypeCorrect`, `SupervisedRunsHold`, `PortsExclusiveHold`, `KilledOnlyIfAskedHolds` | invariants of `Supervisor` |
| `StopOkMeansEndedHolds` | an action property of `Supervisor` |
| `SupervisorImplementsLife` | `Supervisor` refines `AppLife` |
| `GateTypeCorrect`, `OneLockPerNameHolds`, `MapBoundedHolds`, `GateImplementsFlight` | `BootGate` |
| `ProxyTypeCorrect`, `FreshRequestsSparedHolds` | `Proxy`, for any requests, apps, listeners and ports |
| `RoutedRunsListenHolds` | `Proxy`, where commands exec their server |
| `BootsSharedHolds` | `Proxy`, with one listener and no `adj up` beside it |
| `ProxyImplementsSupervisor`, `ProxySupervisesRuns` | `Proxy` is a `Supervisor` with particular callers |
| `ProxyImplementsFlight` | `Proxy` uses its gates as `SingleFlight` promises them |
| `DaemonTypeCorrect`, `DaemonImplementsRegistry` | `Daemon` |
| `DaemonImplementsLife` | `Daemon`, which never dies, treats its apps as `AppLife` allows |
| `StartTypeCorrect`, `OneDaemonHolds`, `OneRegistryLockHolds`, `NextBootUnblockedHolds` | `DaemonStart`, for any number of processes and clients |
| `LogTypeCorrect`, `NoHolesHold`, `RecordsWholeHold` | `LogPipeline`, for any number of runs and lines, whatever fails |
| `TlsTypeCorrect`, `ServedLeafWholeHolds`, `EveryAppCoveredHolds` | `TlsLeaf`, whatever dies or fails |
| `LeafChainsHolds` | `TlsLeaf`, unless `install-ca` is interrupted, whatever else dies or fails |
| `NamesTypeCorrect`, `HostsRouteHolds`, `DerivedNamesValidHolds`, `DocKeyAddedHolds` | `Names`, for any directories, branches, labels, hosts and manifests, any `MaxLabel` and `Word` |
| `AppsAddressedHolds` | `Environment`, for any dotenv files, variables and ports |

*Supervisor.* None of its invariants is inductive alone. The inductive one is
`IInv`: types, `SupervisedRuns`, `PortsExclusive`, `KilledOnlyIfAsked`, and what they
need of each other: the child being opened is no supervised one (`OpeningInv`); a
watched group is not forgotten by the kernel before its wait task has it
(`WatchedInv`); the intentional flag is set exactly on running entries whose run was
asked to stop (`FlagInv`); a stop under way holds a pid that is its own run's or
nobody's (`StopInv`). `StopOkMeansEnded` and the refinement follow from `IInv` and
one step. That `StopInv` survives a reboot under the same name is the argument why a
stop that polls by name still never kills the new run.

*BootGate.* `GateInv` says that whoever holds or waits for a lock holds a strong
reference to the one its name maps to, so that `retain` cannot drop it.

*Proxy.* `PInv` is the supervisor's `IInv` and what a request needs of it: it has an app,
a listener and a peer where its next step uses them (`Shaped`), one request of an app and
listener is past the gate (`GateHeld`), one is having its log opened, of its own app
(`OpenerKnown`), and what was stamped within the window is not quiet (`StampsKept`),
which gives `FreshRequestsSpared`. Each step is one of `Supervisor`'s or leaves it alone
(`ProxyDrives`), so `IInv` needs no second proof. Two properties take assumptions,
because without them they are false (below): `LInv` adds, for commands that exec
(`Forks` without TRUE), that no descendant outlives its shell (`NoTrees`), so that a pid
seen listening listens until its run ends; `BInv` adds, for one listener and no
`adj up`, that every child being opened is a request's (`OpenerIsRequest`).
`ProxyImplementsFlight` has a name for each app and listener; a request waits while it is
at "gate" and holds while it is past it.

*Daemon.* `DInv` adds to the types that a command past the lock is its holder and
that the file is what the last holder loaded. The refinement assumes `Faults = {}`:
with a crash in a save the registry is lost. `DaemonImplementsLife` needs that a task that
stops, forgets or boots knows of an app (`AppKnown`).

*DaemonStart.* However starts overlap, who has the proxy's port is up (`WebHeld`), and a
connection leads to a daemon that is up (`ConnHeld`). The rest of `SInv` is said of a
history without overlaps (`clean`): one process at most is on its way up or down
(`BusyAlone`), a daemon that serves is the one the path leads to (`ServesThere`), none
serves beside one that has found the socket dead (`Committed`), and the path is free when
that one binds it (`PathTaken`), so no bind fails (`NoneFailed`).

*LogPipeline.* `LInv` relates the pipe to the file: a pipe holds the lines printed
last, in order (`PipesHold`), what is in the file was taken from it (`FileTaken`), and
where a task is says which halves of the line it took last it has written
(`TaskWrote`). `HalfLast` is the mutex's part: the half record of a task that holds it
is the last write of its run. Steps that leave the file alone are one lemma
(`TasksMove`), writes another (`HalfWritten`, `Extended`).

*TlsLeaf.* Types need `Prepared` (a task has what its next step uses: `TInv`).
`Serial` says that at most one task issues a leaf (the start while no resolver is
published, then the holder of the registry lock), and `Whole` that what a task is about to
write or serve belongs together (`Own`), and so do the two files, except while the key of
a new certificate has to be written (`AtKey`, `DiskWhole`). A crash or a failing write
spares `Whole` unless it comes there, because a truncated certificate is none: `SInv` has
`Whole` until then (`spoiled`). `CInv`, for `EveryAppCovered`, has no such proviso: a
certificate has the names it was looked for or issued by (`Named`), and these are the
registry file's for the holder of the lock, and for the start and the resolver when nobody
holds it, or its holder has not touched the file yet (`Settled`), and no change has been
missed (`Current`). A change is
missed when the file was truncated or rewritten and no re-issue has followed: the save
failed in between, there was no resolver, or the re-issue failed. `Chain`, for
`LeafChains`, lists what `install-ca` may have left to do (`Scripts`). Between its new key
and its new certificate the two differ (`Unpaired`), so that an error there leaves a CA
that is not whole, of which `LeafChains` says nothing. Unless `install-ca` went on while a
leaf was being issued, what a task has signed with a whole CA chains to it
(`TasksChained`), and so does a leaf on disk that is not to be removed (`DiskChained`).

*Names.* `NInv` says where each name in the system comes from: a registered key is a DNS
label or two with a dot, and not reserved (`KeysInv`), a manifest was written by the user
or by `adj add` (`ManifestsInv`), a request was made of one of them (`SentInv`). The rest
is about operators on texts of any length. `Picked` is a recursive function, and what it
returns is proved by a least counterexample (`NatMin`, from the library's well-foundedness
of the naturals), which needs no operator parameter: for every place the function has a
value (`PickedExists`), and the value is a text over the characters picked (`PickedSeq`).
`SanitizedLabel` and `SanitizedName` follow through `TrimmedSeq` and `CappedSeq`.
`HostsRoute` is the two directions `Reached` (a host that leads to an app spells its key)
and `Spelled` (one that spells it, in any case, with any port, leads to it).
`AppsAddressed` puts `Spelled` after two facts about the layers: what the daemon sets is
found (`Found`, from `FirstLayer`), and the authority of a URL it sets spells the key
(`Given`, `AddressSpells`, `AuthorityOfUrl`). `DocKeyAdded` compares two derivations made
in different steps, the client's request and what agent-docs prints: `BaseName` (a key
ends in the name of the manifest it was made from) and `NInv`, which knows what the
request was made of, make them agree. `TextAssumption` and `PortAssumption` are
what the operating system and the user's configuration guarantee: texts are texts, and a
configured port is a number.

Every invariant and every `[][A]_v` of a passing run is proved. Only model-checked:
everything temporal beyond `[]` (`StopReturns`, the liveness of `ImplementsFairLife` and
`ImplementsFairFlight`, `RequestsAnswered`, `OrphansReaped`, `CommandsReturn`,
`CallsReturn`, `LinesShown`), because fairness and ENABLED are beyond the prover; and the
violated properties, which are false.

## Where the code and its documentation disagree

The two violated runs above, of which PROJECT.json quotes the lines: an app stopped under
a routed request, and a registered app reaped. Besides, the models show behaviours that no
property covers, or that a property has to exclude:

* `Reload`: a re-issue asks the keychain, synchronously, while its command holds the
  registry lock (`daemon.rs:377-382, 536-540, 583-587`). If that waits for the user, so do
  all commands behind it, against the care taken at the start (`daemon.rs:70-73`, "a
  stalled prompt would hang the control socket and proxy too"). `CommandsReturn` assumes
  `KeychainAnswers` for it.
* `WriteCert` after "rmleaf": a leaf that is being issued while `install-ca` runs is
  written after the old one was deleted and stays, signed by the former CA (against
  `tls.rs:114-117`, "Drop it eagerly", and `216-217`, "this single mechanism covers
  fresh-install, post-rotation, and SAN-drift paths"). `LeafChains` excludes it
  (`crossed`).
* `CliFails`, or `CliStep` with "interrupt": a `generate_ca` that ends after it has
  replaced the key leaves the old certificate, or a truncated one, and the old leaf
  beside it (`tls.rs:101-118`). `ca_exists` finds both halves and is content
  (`tls.rs:120-128`, against its comment that a torn CA is no CA), so the next
  `install-ca` does not regenerate. `LeafChains` is about a CA that is whole (`CaWhole`);
  an interruption between the new certificate and "rmleaf" is not excluded by that, and
  would break it.
* `WriteCert` and "crash" or "disk": a certificate left without its key is taken, with
  the old or truncated key, by every further start (`tls.rs:218-235, 297-300`, against
  `tls.rs:222`, "A corrupt cached leaf should heal via re-issue, not wedge HTTPS
  forever"), because only its names are looked at. `ServedLeafWhole` excludes it
  (`spoiled`).
* `UpAbandon`: when the log cannot be opened, or the client hangs up at that await,
  `up` returns without releasing the port reservation (`supervisor.rs:245`, against
  `221-222`), and nobody watches the child.
* `StopEnds` beside `TreeExits`: a stop returns Ok when the shell has exited; a
  descendant that ignores SIGTERM is never sent SIGKILL (`supervisor.rs:401-404`,
  against `README.md:61`), and its port is handed out again.
* `StopFails` after a reboot under the same name: a stop reports "failed to terminate"
  although its run has ended (`supervisor.rs:415`).
* Two listeners, two gates (`proxy.rs:112, 153`): an HTTP and an HTTPS request may boot
  one app at once, and one is answered 502 "already running" (against `README.md:17`).
  `BootsShared` holds for one listener without `adj up` beside it.
* `TouchIdle` stamps a request once: a response longer than the idle window is cut
  (against `proxy.rs:276-277`).
* `Boot` after `Forget`: an app that a request boots back during its removal and that
  crashes leaves a Crashed entry for its next registration (against `daemon.rs:522-523`).
* `Truncate` and "crash" in `Daemon`: a daemon that dies between the truncation and the
  write of `registry.toml` comes back with no registrations (`registry.rs:64-71`).
* Starts that overlap (`DaemonStart` without `clean`): two daemons may serve, one of them
  out of reach; Ctrl-C of one removes the socket of the other (`daemon.rs:33-54`).
* `Complete` in `Names`: the placeholder `name = "app"` that `adj add` writes when it
  finds no name is registered by a second `adj add`, which finds a manifest
  (`client.rs:65-91`, against its comment that a name is not guessed); it is a name like
  any other to the daemon. Two branches whose names differ in dropped characters get one
  label, and the second `adj add` is refused.
* `Window`: a product that wraps is a window shorter than was asked for, if it is not
  zero, which is refused (`registry.rs:189-196`).
* `child_env`: a `port_env` that names one of the six `ADJ_*` variables costs the app its
  port (against `README.md:21`); a variable of that namespace that the daemon leaves out,
  as `ADJ_URL_DIRECT` without HTTPS, passes through from the user's layers. `ProxyPort`:
  where the kernel chooses the ports, the `https.port` of a former daemon is taken for
  this one's (`supervisor.rs:64-79`, against `supervisor.rs:73-76` and `paths.rs:39`).
* `WriteFails` and `Crash` in `LogPipeline`: a torn record is followed by the next one
  on the same line, although the log is one record per line (`JSON.md`); `RecordsWhole`
  is about one run, since runs that overlap have a mutex each. `Follow` may stop within
  a record, which `adj logs --tail` prints in two pieces.

## Not modelled, and the plan

Left out for good: the rendering of replies, the dashboard (it reads what `list` reads
and changes nothing), the doctor's checks of the host, port forwarding (sequential
I/O), the text of templates and agent docs, HTTP header rewriting, TOML and JSON
syntax, cryptography.

Next, in this order:

1. `Proxy` with two apps and shells that fork: a port found ready that is another app's
   by the time the request is forwarded.
2. The migration of a CA key from a file to the keychain (`installca.rs`).
