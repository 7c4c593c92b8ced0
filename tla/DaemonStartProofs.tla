-------------------------- MODULE DaemonStartProofs --------------------------
(***************************************************************************)
(* Theorems about DaemonStart, for any processes and clients: types, one    *)
(* daemon, one registry lock, and starts that nothing left behind can       *)
(* block.                                                                   *)
(***************************************************************************)
EXTENDS DaemonStart, TLAPS

Up(d) == at[d] \in {"serve", "leave"}

(* Who has the proxy's port is up and knows it; a connection leads to a     *)
(* daemon that is up.  Both hold however the starts overlap.                *)
WebHeld == web # None => Up(web) /\ proxy[web] = "up"

ConnHeld ==
  \A c \in Clients : conn[c].at \in {"connected", "sent", "handling"} =>
    conn[c].to \in Daemons /\ Up(conn[c].to)

(* While no start has overlapped another start or an exit: one process at   *)
(* most is on its way up or down, none serves beside it once it has found   *)
(* the socket dead, and the path is its own from the moment it is free.     *)
BusyAlone == \A d, e \in Daemons : Busy(d) /\ Busy(e) => d = e
ServesThere == \A d \in Daemons : at[d] = "serve" => sock = d
Committed ==
  \A d, e \in Daemons :
    at[d] \in {"unlink", "bind", "listen", "leave"} => at[e] # "serve"
PathTaken ==
  \A d \in Daemons : /\ at[d] = "bind" => sock = None
                     /\ at[d] = "listen" => sock = d
NoneFailed == \A d \in Daemons : exit[d] # "inuse" /\ proxy[d] # "failed"

CleanInv == BusyAlone /\ ServesThere /\ Committed /\ PathTaken /\ NoneFailed

SInv == StartTypes /\ WebHeld /\ ConnHeld /\ (clean => CleanInv)

-----------------------------------------------------------------------------
LEMMA UpAlone ==
  ASSUME StartTypes, CleanInv, NEW d \in Daemons, NEW e \in Daemons, Up(d), Up(e)
  PROVE  d = e
<1>1. CASE at[d] = "serve" /\ at[e] = "serve"
  BY <1>1, StartAssumption DEF CleanInv, ServesThere, StartTypes
<1>2. CASE at[d] = "leave" /\ at[e] = "leave"
  BY <1>2 DEF CleanInv, BusyAlone, Busy
<1>3. CASE at[d] = "serve" /\ at[e] = "leave"
  BY <1>3 DEF CleanInv, Committed
<1>4. CASE at[d] = "leave" /\ at[e] = "serve"
  BY <1>4 DEF CleanInv, Committed
<1>5. QED  BY <1>1, <1>2, <1>3, <1>4 DEF Up

LEMMA SInvInit == StartInit => SInv
  BY StartAssumption DEF StartInit, SInv, StartTypes, WebHeld, ConnHeld, CleanInv, BusyAlone,
     ServesThere, Committed, PathTaken, NoneFailed, Busy, Up, Closed, Alive,
     Starting, Connected

(* A step that only moves the connection of c, to place x and daemon t,     *)
(* keeps what it says of daemons.                                           *)
Moves(c, x, t) == conn' = [conn EXCEPT ![c] = [at |-> x, to |-> t]]

LEMMA ByClientKeeps ==
  ASSUME SInv, ByClient, NEW c \in Clients,
         NEW x, NEW t, Moves(c, x, t),
         \/ x \in {"idle", "call", "done", "failed"} /\ t = None
         \/ x \in Connected /\ t \in Daemons,
         x \in {"connected", "sent", "handling"} => Up(t)
  PROVE  SInv'
<1>1. StartTypes'
  <2>1. [at |-> x, to |-> t] \in [at: {"idle", "call", "done", "failed"}, to: {None}]
                               \cup [at: Connected, to: Daemons]
    OBVIOUS
  <2>2. QED  BY <2>1 DEF SInv, StartTypes, ByClient, Moves
<1>2. WebHeld' /\ (clean => CleanInv)'
  BY DEF SInv, WebHeld, CleanInv, BusyAlone, ServesThere, Committed, PathTaken,
         NoneFailed, Busy, Up, ByClient
<1>3. ConnHeld'
  BY DEF SInv, ConnHeld, StartTypes, ByClient, Up, Moves
<1>4. QED  BY <1>1, <1>2, <1>3 DEF SInv

LEMMA CallsKeep ==
  ASSUME SInv, NEW c \in Clients, Call(c) \/ CallStep(c) \/ GiveUp(c)
  PROVE  SInv'
<1>1. ASSUME NEW x \in {"call", "done", "failed"}, Moves(c, x, None), ByClient
      PROVE  SInv'
  BY <1>1, ByClientKeeps
<1>2. CASE Call(c)
  <2>1. Moves(c, "call", None) /\ ByClient  BY <1>2 DEF Call, Closed, Moves
  <2>2. QED  BY <1>1, <2>1
<1>3. CASE Connect(c)
  <2>1. CASE Answers
    <3>1. sock \in Daemons /\ Up(sock)
      BY <2>1 DEF Answers, Up, SInv, StartTypes
    <3>2. Moves(c, "connected", sock) /\ ByClient
      BY <1>3, <2>1 DEF Connect, Moves
    <3>3. QED  BY <3>1, <3>2, ByClientKeeps DEF Connected
  <2>2. CASE ~Answers
    <3>1. Moves(c, "failed", None) /\ ByClient
      BY <1>3, <2>2 DEF Connect, Closed, Moves
    <3>2. QED  BY <1>1, <3>1
  <2>3. QED  BY <2>1, <2>2
<1>4. ASSUME NEW here \in {"connected", "sent", "handling"}, conn[c].at = here,
             NEW there \in Connected, Reaches(c, there), ByClient
      PROVE  SInv'
  <2>1. conn[c].to \in Daemons /\ Up(conn[c].to)
    BY <1>4 DEF SInv, ConnHeld
  <2>2. conn[c] = [at |-> conn[c].at, to |-> conn[c].to]
    BY DEF SInv, StartTypes
  <2>3. [conn[c] EXCEPT !.at = there] = [at |-> there, to |-> conn[c].to]
    BY <2>2
  <2>4. Moves(c, there, conn[c].to)
    BY <1>4, <2>3 DEF Reaches, Moves
  <2>5. QED  BY <1>4, <2>1, <2>4, ByClientKeeps
<1>5. CASE Send(c)
  BY <1>4, <1>5 DEF Send, Connected
<1>6. CASE Handle(c)
  BY <1>4, <1>6 DEF Handle, Connected
<1>7. CASE Reply(c)
  BY <1>4, <1>7 DEF Reply, Connected
<1>8. CASE Receive(c)
  <2>1. Moves(c, "done", None) /\ ByClient  BY <1>8 DEF Receive, Closed, Moves
  <2>2. QED  BY <1>1, <2>1
<1>9. CASE GiveUp(c)
  <2>1. Moves(c, "failed", None) /\ ByClient  BY <1>9 DEF GiveUp, Closed, Moves
  <2>2. QED  BY <1>1, <2>1
<1>10. QED
  BY <1>2, <1>3, <1>5, <1>6, <1>7, <1>8, <1>9 DEF CallStep

-----------------------------------------------------------------------------
(* The steps of a start that move one daemon from one place to another and  *)
(* touch no connection.                                                     *)
LEMMA LaunchKeeps ==
  ASSUME SInv, NEW d \in Daemons, Launch(d)
  PROVE  SInv'
<1> USE DEF Launch, Goes, SInv
<1>1. StartTypes'
  BY DEF StartTypes, Alive, Starting
<1>2. WebHeld' /\ ConnHeld'
  BY DEF WebHeld, ConnHeld, Up, StartTypes
<1>3. clean' => CleanInv'
  BY DEF CleanInv, BusyAlone, ServesThere, Committed, PathTaken, NoneFailed, Busy,
         Starting, StartTypes
<1>4. QED  BY <1>1, <1>2, <1>3

LEMMA StartingKeeps ==
  ASSUME SInv, NEW d \in Daemons,
         Look(d) \/ Probe(d) \/ Unlink(d) \/ Bind(d) \/ Listen(d)
  PROVE  SInv'
<1> USE DEF Look, Probe, Unlink, Bind, Listen, Goes, SInv
<1>1. StartTypes'
  BY DEF StartTypes, Alive, Starting
<1>2. at[d] \in Starting /\ ~Up(d) /\ UNCHANGED <<web, proxy, conn, clean>>
  BY DEF Starting, Up
<1>3. \A e \in Daemons : Up(e) => Up(e)'
  BY <1>2 DEF Up, StartTypes
<1>4. WebHeld' /\ ConnHeld'
  BY <1>2, <1>3 DEF WebHeld, ConnHeld, StartTypes
<1>5. ASSUME clean PROVE CleanInv'
  <2>1. \A e \in Daemons \ {d} : ~Busy(e) /\ at'[e] = at[e]
    BY <1>2, <1>5 DEF CleanInv, BusyAlone, Busy, StartTypes
  <2>2. BusyAlone'
    BY <2>1 DEF BusyAlone, Busy
  <2>3. CASE Look(d)
    BY <1>5, <2>1, <2>2, <2>3, StartAssumption DEF CleanInv, ServesThere, Committed,
       PathTaken, NoneFailed, Busy, Starting, StartTypes
  <2>4. CASE Probe(d)
    <3>1. CASE Answers
      BY <1>5, <2>1, <2>2, <2>4, <3>1 DEF CleanInv, ServesThere, Committed, PathTaken,
         NoneFailed, Starting, StartTypes
    <3>2. CASE ~Answers
      <4>1. \A e \in Daemons : at[e] # "serve"
        BY <1>5, <3>2, StartAssumption DEF CleanInv, ServesThere, Answers, StartTypes
      <4>2. QED
        BY <1>5, <2>1, <2>2, <2>4, <3>2, <4>1 DEF CleanInv, ServesThere, Committed,
           PathTaken, NoneFailed, Starting, StartTypes
    <3>3. QED  BY <3>1, <3>2
  <2>5. CASE Unlink(d)
    BY <1>5, <2>1, <2>2, <2>5 DEF CleanInv, ServesThere, Committed, PathTaken,
       NoneFailed, Busy, Starting, StartTypes
  <2>6. CASE Bind(d)
    BY <1>5, <2>1, <2>2, <2>6 DEF CleanInv, ServesThere, Committed, PathTaken,
       NoneFailed, Busy, Starting, StartTypes
  <2>7. CASE Listen(d)
    BY <1>5, <2>1, <2>2, <2>7 DEF CleanInv, ServesThere, Committed, PathTaken,
       NoneFailed, Busy, Starting, StartTypes
  <2>8. QED  BY <2>3, <2>4, <2>5, <2>6, <2>7
<1>6. QED  BY <1>1, <1>2, <1>4, <1>5

LEMMA StartProxyKeeps ==
  ASSUME SInv, NEW d \in Daemons, StartProxy(d)
  PROVE  SInv'
<1> USE DEF StartProxy, BindsProxy, SInv
<1>1. StartTypes'
  BY DEF StartTypes
<1>2. WebHeld' /\ ConnHeld'
  BY DEF WebHeld, ConnHeld, Up, StartTypes
<1>3. ASSUME clean PROVE CleanInv'
  <2>1. web = None
    <3>1. SUFFICES ASSUME web # None PROVE FALSE  OBVIOUS
    <3>2. web \in Daemons /\ Up(web) /\ proxy[web] = "up"
      BY <3>1 DEF StartTypes, WebHeld
    <3>3. web = d
      BY <1>3, <3>2, UpAlone DEF Up
    <3>4. QED  BY <3>2, <3>3
  <2>2. QED
    BY <1>3, <2>1 DEF CleanInv, BusyAlone, ServesThere, Committed, PathTaken,
       NoneFailed, Busy, StartTypes
<1>4. QED  BY <1>1, <1>2, <1>3

LEMMA CtrlCKeeps ==
  ASSUME SInv, NEW d \in Daemons, CtrlC(d)
  PROVE  SInv'
<1> USE DEF CtrlC, Goes, SInv
<1>1. StartTypes'
  BY DEF StartTypes, Alive
<1>2. WebHeld' /\ ConnHeld'
  BY DEF WebHeld, ConnHeld, Up, StartTypes
<1>3. ASSUME clean' PROVE CleanInv'
  <2>1. \A e \in Daemons : ~Busy(e)
    BY <1>3
  <2>2. \A e \in Daemons \ {d} : at[e] # "serve"
    BY <1>3, StartAssumption DEF CleanInv, ServesThere, StartTypes
  <2>3. QED
    BY <1>3, <2>1, <2>2 DEF CleanInv, BusyAlone, ServesThere, Committed, PathTaken,
       NoneFailed, Busy, Starting, StartTypes
<1>4. QED  BY <1>1, <1>2, <1>3

LEMMA EndKeeps ==
  ASSUME SInv, NEW d \in Daemons, ProcessExit(d) \/ Crash(d)
  PROVE  SInv'
<1> USE DEF ProcessExit, Crash, Ended, Goes, HungUp, SInv
<1>1. StartTypes'
  BY DEF StartTypes, Closed, Alive
<1>2. WebHeld'
  BY DEF WebHeld, Up, StartTypes
<1>3. ConnHeld'
  BY DEF ConnHeld, Up, StartTypes, Closed
<1>4. \A e \in Daemons : at'[e] = IF e = d THEN "down" ELSE at[e]
  BY DEF StartTypes
<1>5. clean' => CleanInv'
  BY <1>4 DEF CleanInv, BusyAlone, ServesThere, Committed, PathTaken, NoneFailed, Busy,
     Starting
<1>6. QED  BY <1>1, <1>2, <1>3, <1>5

-----------------------------------------------------------------------------
LEMMA SInvStep == SInv /\ [StartNext]_startVars => SInv'
<1> SUFFICES ASSUME SInv, [StartNext]_startVars PROVE SInv'  OBVIOUS
<1>1. CASE UNCHANGED startVars
  BY <1>1 DEF startVars, SInv, StartTypes, WebHeld, ConnHeld, CleanInv, BusyAlone,
     ServesThere, Committed, PathTaken, NoneFailed, Busy, Up
<1>2. CASE StartNext
  BY <1>2, CallsKeep, LaunchKeeps, StartingKeeps, StartProxyKeeps, CtrlCKeeps, EndKeeps
  DEF StartNext, StartStep
<1>3. QED  BY <1>1, <1>2

LEMMA SInvHolds == StartSpec => []SInv
  BY SInvInit, SInvStep, PTL DEF StartSpec

(* Types, and the proxy's port is with a daemon that got past the socket,   *)
(* however many starts overlap and whatever dies.                           *)
THEOREM StartTypeCorrect == StartSpec => []StartTypeOK
<1>1. SInv => StartTypeOK  BY DEF SInv, StartTypeOK, WebHeld, Up
<1>2. QED  BY <1>1, SInvHolds, PTL

(* One daemon serves at a time, behind the socket file (daemon.rs:33-41),   *)
(* for any number of processes, as long as starts do not overlap.           *)
THEOREM OneDaemonHolds == StartSpec => []OneDaemon
<1>1. SInv => OneDaemon
  BY StartAssumption DEF SInv, OneDaemon, CleanInv, ServesThere, StartTypes
<1>2. QED  BY <1>1, SInvHolds, PTL

(* All commands that are being handled are handled by one process, so its   *)
(* registry lock serialises them (daemon.rs:48).                            *)
THEOREM OneRegistryLockHolds == StartSpec => []OneRegistryLock
<1>1. SInv => OneRegistryLock
  <2>1. SUFFICES ASSUME SInv, clean, NEW b \in Clients, NEW c \in Clients,
                        conn[b].at = "handling", conn[c].at = "handling"
                 PROVE  conn[b].to = conn[c].to
    BY DEF OneRegistryLock
  <2>2. /\ conn[b].to \in Daemons /\ Up(conn[b].to)
        /\ conn[c].to \in Daemons /\ Up(conn[c].to)
    BY <2>1 DEF SInv, ConnHeld
  <2>3. QED  BY <2>1, <2>2, UpAlone DEF SInv
<1>2. QED  BY <1>1, SInvHolds, PTL

(* What was left behind never makes a start fail, nor its proxy             *)
(* (daemon.rs:50).                                                          *)
THEOREM NextBootUnblockedHolds == StartSpec => []NextBootUnblocked
<1>1. SInv => NextBootUnblocked
  BY DEF SInv, NextBootUnblocked, CleanInv, NoneFailed
<1>2. QED  BY <1>1, SInvHolds, PTL
=============================================================================
