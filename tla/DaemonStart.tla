----------------------------- MODULE DaemonStart -----------------------------
(***************************************************************************)
(* Processes of `adj daemon` that start, serve and end around one socket    *)
(* file and one proxy port, and the commands that reach them                *)
(* (crates/adj/src/daemon.rs:23-186, client.rs:14-42, proxy.rs:99-110).     *)
(*                                                                          *)
(* Nothing stops a user from starting two daemons at once, and nothing but  *)
(* the socket tells one of another.  Each system call of a start is a step  *)
(* of its own.  What a handler does between its request and its reply is    *)
(* the subject of Daemon.tla, which takes for granted that one process      *)
(* holds the registry lock.                                                 *)
(***************************************************************************)
CONSTANTS
  Daemons,  \* processes; one that has ended may be started again
  Clients,  \* invocations of the command line client
  None      \* no daemon

ASSUME StartAssumption == None \notin Daemons

VARIABLES
  sock,   \* the daemon that bound the socket file, though it be dead, or None
  at,     \* the next system call of a daemon
  web,    \* the daemon that has the proxy's TCP port, or None
  proxy,  \* the proxy task of a daemon
  exit,   \* why a daemon's last start gave up
  conn,   \* the connection of a client
  clean   \* history: no start has overlapped another start or an exit

startVars == <<sock, at, web, proxy, exit, conn, clean>>

(* "look" is before the existence check, "listen" between bind(2) and       *)
(* listen(2), "leave" between the removal of the socket and process::exit.  *)
Starting == {"look", "probe", "unlink", "bind", "listen"}
Alive == Starting \cup {"serve", "leave"}

(* "call" is before connect(2); a request is "sent", then its handler has   *)
(* read it, and the reply is in the socket's buffer before it is read.      *)
Connected == {"connected", "sent", "handling", "replied"}
Pending == Connected \cup {"call"}

Closed(result) == [at |-> result, to |-> None]

StartTypes ==
  /\ sock \in Daemons \cup {None} /\ web \in Daemons \cup {None}
  /\ at \in [Daemons -> Alive \cup {"down"}]
  /\ proxy \in [Daemons -> {"todo", "up", "failed"}]
  /\ exit \in [Daemons -> {"none", "already", "inuse"}]
  /\ conn \in [Clients -> [at: {"idle", "call", "done", "failed"}, to: {None}]
                            \cup [at: Connected, to: Daemons]]
  /\ clean \in BOOLEAN

(* ... and who has the proxy's port is past the socket (daemon.rs:59-66): a *)
(* start that gives up has not held it, not even for a moment.              *)
StartTypeOK ==
  /\ StartTypes
  /\ web # None => at[web] \in {"serve", "leave"} /\ proxy[web] = "up"

(* A socket file may be left from long ago. *)
StartInit ==
  /\ sock \in Daemons \cup {None} /\ web = None
  /\ at = [d \in Daemons |-> "down"]
  /\ proxy = [d \in Daemons |-> "todo"]
  /\ exit = [d \in Daemons |-> "none"]
  /\ conn = [c \in Clients |-> Closed("idle")]
  /\ clean = TRUE

-----------------------------------------------------------------------------
Goes(d, place) == at' = [at EXCEPT ![d] = place]

(* The kernel closes what a process had open: a client that has no reply in *)
(* its buffer reads the end of the stream.                                  *)
HungUp(d) ==
  [c \in Clients |->
     IF conn[c].to = d /\ conn[c].at \in {"connected", "sent", "handling"}
     THEN Closed("failed") ELSE conn[c]]

Ended(d) ==
  /\ Goes(d, "down")
  /\ web' = IF web = d THEN None ELSE web
  /\ conn' = HungUp(d)

Busy(d) == at[d] \in Starting \cup {"leave"}

(* `adj daemon` is run, by the user or by launchd. *)
Launch(d) ==
  /\ at[d] = "down"
  /\ Goes(d, "look")
  /\ proxy' = [proxy EXCEPT ![d] = "todo"]
  /\ exit' = [exit EXCEPT ![d] = "none"]
  /\ clean' = (clean /\ \A e \in Daemons : ~Busy(e))
  /\ UNCHANGED <<sock, web, conn>>

Look(d) ==
  /\ at[d] = "look"
  /\ Goes(d, IF sock = None THEN "bind" ELSE "probe")
  /\ UNCHANGED <<sock, web, proxy, exit, conn, clean>>

Answers == sock # None /\ at[sock] = "serve"

(* probe_existing_daemon: a connection accepted by the kernel is enough.    *)
(* Mutant: the answer is not looked at. *)
ProbeIgnored(d) ==
  /\ at[d] = "probe"
  /\ Goes(d, "unlink")
  /\ UNCHANGED <<sock, web, proxy, exit, conn, clean>>

Probe(d) ==
  /\ at[d] = "probe"
  /\ IF Answers
     THEN Goes(d, "down") /\ exit' = [exit EXCEPT ![d] = "already"]
     ELSE Goes(d, "unlink") /\ UNCHANGED exit
  /\ UNCHANGED <<sock, web, proxy, conn, clean>>

(* Whatever file is there by now is removed. *)
(* Mutant: the stale file is left. *)
UnlinkNot(d) ==
  /\ at[d] = "unlink"
  /\ Goes(d, "bind")
  /\ UNCHANGED <<sock, web, proxy, exit, conn, clean>>

Unlink(d) ==
  /\ at[d] = "unlink"
  /\ sock' = None
  /\ Goes(d, "bind")
  /\ UNCHANGED <<web, proxy, exit, conn, clean>>

Bind(d) ==
  /\ at[d] = "bind"
  /\ IF sock = None
     THEN sock' = d /\ Goes(d, "listen") /\ UNCHANGED exit
     ELSE Goes(d, "down") /\ exit' = [exit EXCEPT ![d] = "inuse"] /\ UNCHANGED sock
  /\ UNCHANGED <<web, proxy, conn, clean>>

Listen(d) ==
  /\ at[d] = "listen"
  /\ Goes(d, "serve")
  /\ UNCHANGED <<sock, web, proxy, exit, conn, clean>>

(* The task of the proxy binds once; a failure is logged and never retried. *)
BindsProxy(d) ==
  /\ proxy[d] = "todo"
  /\ IF web = None
     THEN web' = d /\ proxy' = [proxy EXCEPT ![d] = "up"]
     ELSE UNCHANGED web /\ proxy' = [proxy EXCEPT ![d] = "failed"]
  /\ UNCHANGED <<sock, at, exit, conn, clean>>

(* Mutant: the proxy is started before the socket is taken. *)
StartProxyEarly(d) == at[d] \in Alive /\ BindsProxy(d)

StartProxy(d) == at[d] \in {"serve", "leave"} /\ BindsProxy(d)

(* The Ctrl-C task: the path is removed, whoever bound it, and then the     *)
(* process exits under its other tasks.                                     *)
(* Mutant: without process::exit. *)
CtrlCStays(d) ==
  /\ at[d] = "serve"
  /\ sock' = None
  /\ UNCHANGED <<at, web, proxy, exit, conn, clean>>

CtrlC(d) ==
  /\ at[d] = "serve"
  /\ sock' = None
  /\ Goes(d, "leave")
  /\ clean' = (clean /\ \A e \in Daemons : ~Busy(e))
  /\ UNCHANGED <<web, proxy, exit, conn>>

ProcessExit(d) == at[d] = "leave" /\ Ended(d) /\ UNCHANGED <<sock, proxy, exit, clean>>

(* It is killed, or panics, and leaves its socket file behind. *)
Crash(d) == at[d] \in Alive /\ Ended(d) /\ UNCHANGED <<sock, proxy, exit, clean>>

-----------------------------------------------------------------------------
Reaches(c, place) == conn' = [conn EXCEPT ![c].at = place]
ByClient == UNCHANGED <<sock, at, web, proxy, exit, clean>>

Call(c) ==
  /\ conn[c].at \in {"idle", "done", "failed"}
  /\ conn' = [conn EXCEPT ![c] = Closed("call")]
  /\ ByClient

(* Mutant: a daemon that is not there yet is waited for. *)
ConnectWaits(c) ==
  /\ conn[c].at = "call" /\ Answers
  /\ conn' = [conn EXCEPT ![c] = [at |-> "connected", to |-> sock]]
  /\ ByClient

Connect(c) ==
  /\ conn[c].at = "call"
  /\ conn' = [conn EXCEPT ![c] =
       IF Answers THEN [at |-> "connected", to |-> sock] ELSE Closed("failed")]
  /\ ByClient

Send(c) == conn[c].at = "connected" /\ Reaches(c, "sent") /\ ByClient

(* The accept loop hands each connection to a task of its own. *)
Handle(c) == conn[c].at = "sent" /\ Reaches(c, "handling") /\ ByClient

(* send_response, an error being a response as well. *)
Reply(c) == conn[c].at = "handling" /\ Reaches(c, "replied") /\ ByClient

Receive(c) ==
  /\ conn[c].at = "replied"
  /\ conn' = [conn EXCEPT ![c] = Closed("done")]
  /\ ByClient

(* The client is interrupted; its handler goes on, for nobody.              *)
GiveUp(c) ==
  /\ conn[c].at \in Pending
  /\ conn' = [conn EXCEPT ![c] = Closed("failed")]
  /\ ByClient

-----------------------------------------------------------------------------
StartStep(d) ==
  \/ Look(d) \/ Probe(d) \/ Unlink(d) \/ Bind(d) \/ Listen(d)
  \/ ProcessExit(d)

CallStep(c) == Connect(c) \/ Send(c) \/ Handle(c) \/ Reply(c) \/ Receive(c)

StartNext ==
  \/ \E d \in Daemons :
       Launch(d) \/ StartStep(d) \/ StartProxy(d) \/ CtrlC(d) \/ Crash(d)
  \/ \E c \in Clients : Call(c) \/ CallStep(c) \/ GiveUp(c)

StartSpec == StartInit /\ [][StartNext]_startVars

(* Processes and tasks that can run do; nothing makes anyone start a        *)
(* daemon.  That a handler gets to its reply is Daemon's CommandsReturn, as *)
(* long as the keychain answers.                                            *)
StartFairness ==
  /\ \A d \in Daemons : WF_startVars(StartStep(d)) /\ WF_startVars(StartProxy(d))
  /\ \A c \in Clients : WF_startVars(CallStep(c))

StartFairSpec == StartSpec /\ StartFairness

-----------------------------------------------------------------------------
(* Daemons that start one after the other (daemon.rs:33-41): one that       *)
(* serves is the only one, and the socket file leads to it, whatever died   *)
(* and whatever files were left before.  Starts that overlap may leave two  *)
(* daemons serving, one of them out of reach.                               *)
OneDaemon ==
  clean => \A d \in Daemons : at[d] = "serve" =>
    /\ sock = d
    /\ \A e \in Daemons \ {d} : at[e] # "serve"

(* The registry lock is a mutex of one process: commands are serialised by  *)
(* it only while all of them that are being handled are handled by one      *)
(* daemon, which Daemon.tla takes for granted.                              *)
OneRegistryLock ==
  clean => \A b, c \in Clients :
    conn[b].at = "handling" /\ conn[c].at = "handling" => conn[b].to = conn[c].to

(* "so subsequent boots aren't blocked" (daemon.rs:50): what an earlier     *)
(* daemon left behind, by Ctrl-C or by dying at any point, never makes a    *)
(* later start fail, and never costs it its proxy.                          *)
NextBootUnblocked ==
  clean => \A d \in Daemons : exit[d] # "inuse" /\ proxy[d] # "failed"

(* Every command returns, with a reply or an error, although the daemon it  *)
(* reached may exit, be displaced or die before, while or after handling it *)
(* (client.rs:16-38).                                                       *)
CallsReturn ==
  \A c \in Clients : conn[c].at = "call" ~> conn[c].at \in {"done", "failed"}
=============================================================================
