---------------------------- MODULE TlsLeafProofs ----------------------------
(* Theorems about TlsLeaf, for any keys, handlers and key pairs. *)
EXTENDS TlsLeaf, TLAPS

-----------------------------------------------------------------------------
(* Types.  They are inductive together with what a task has prepared for    *)
(* its next step: no certificate is signed for no names or without issuer.  *)

Signed == {"cert", "key", "install"}

Prepared(k) ==
  /\ k.at \in {"ensure", "issue", "sign"} \cup Signed => k.sans \in Sans
  /\ k.at = "sign" => k.issuer \in CaKeys
  /\ k.at \in Signed => k.cert \in Leaf /\ k.key # None

TInv == TlsTypeOK /\ \A t \in Tasks : Prepared(task[t])

(* How much of TInv is about the tasks. *)
TasksTyped == task \in [Tasks -> Task] /\ \A t \in Tasks : Prepared(task[t])

LEMMA SansTyped ==
  ASSUME NEW reg \in SUBSET Keys
  PROVE  registry_sans(reg) \in Sans
BY DEF Sans

LEMMA RestTyped ==
  ASSUME NEW at \in {"idle", "off", "exists"}
  PROVE  Rest(at) \in Task /\ Prepared(Rest(at))
BY DEF Rest, Task, Places, KeyFile, Prepared, Signed

(* A step that changes the record of one task to a prepared one. *)
LEMMA TaskStep ==
  ASSUME TInv, NEW t \in Tasks, NEW k \in Task, Prepared(k),
         task' = [task EXCEPT ![t] = k]
  PROVE  TasksTyped'
BY DEF TInv, TlsTypeOK, TasksTyped

LEMMA EndsTyped ==
  ASSUME TInv, NEW t \in Tasks, NEW at \in {"idle", "off"}, Ends(t, at)
  PROVE  TasksTyped' /\ lock' \in Handlers \cup {None}
<1>1. TasksTyped'
  BY RestTyped, TaskStep DEF Ends
<1>2. QED
  BY <1>1 DEF Ends, TInv, TlsTypeOK

LEMMA GoesTyped ==
  ASSUME TInv, NEW t \in Tasks,
         NEW at \in {"load", "save", "torn", "saved", "compare"}, Goes(t, at)
  PROVE  TasksTyped'
<1> DEFINE k == [task[t] EXCEPT !.at = at]
<1>1. k \in Task /\ Prepared(k)
  BY DEF TInv, TlsTypeOK, Task, Places, Prepared, Signed
<1>2. QED
  BY <1>1, TaskStep DEF Goes

LEMMA TInvInit == TlsInit => TInv
<1> SUFFICES ASSUME TlsInit PROVE TInv
  OBVIOUS
<1>1. task \in [Tasks -> Task] /\ \A t \in Tasks : Prepared(task[t])
  BY RestTyped DEF TlsInit
<1>2. disk \in [cert: CertFile, key: KeyFile]
  BY DEF TlsInit, CertFile, KeyFile
<1>3. cli \in Seq(CliSteps)
  BY DEF TlsInit
<1>4. QED
  BY <1>1, <1>2, <1>3 DEF TlsInit, TInv, TlsTypeOK

-----------------------------------------------------------------------------
(* Every step keeps the types.                                              *)

LEMMA CommandTInv ==
  ASSUME TInv, NEW h \in Handlers,
         \/ \E reg \in SUBSET Keys : Change(h, reg)
         \/ Truncate(h) \/ Write(h) \/ SaveFails(h) \/ Get(h) \/ Compare(h)
  PROVE  TInv'
<1>1. h \in Tasks /\ task[h] \in Task
  BY DEF Tasks, TInv, TlsTypeOK
<1>2. ASSUME NEW reg \in SUBSET Keys, Change(h, reg)
      PROVE  TInv'
  <2> DEFINE k == [task[h] EXCEPT !.at = "save", !.reg = reg]
  <2>1. k \in Task /\ Prepared(k)
    BY <1>1 DEF Task, Places, Prepared, Signed
  <2>2. TasksTyped'
    BY <1>1, <1>2, <2>1, TaskStep DEF Change
  <2>3. QED
    BY <1>2, <2>2 DEF Change, TInv, TlsTypeOK, TasksTyped
<1>3. CASE Truncate(h)
  BY <1>1, <1>3, GoesTyped DEF Truncate, TInv, TlsTypeOK, TasksTyped
<1>4. CASE Write(h)
  <2>1. TasksTyped'
    BY <1>1, <1>4, GoesTyped DEF Write
  <2>2. file' \in SUBSET Keys
    BY <1>1, <1>4 DEF Write, Task
  <2>3. QED
    BY <1>4, <2>1, <2>2 DEF Write, TInv, TlsTypeOK, TasksTyped
<1>5. CASE Get(h)
  <2>1. TasksTyped' /\ lock' \in Handlers \cup {None}
    <3>1. CASE cell = None
      BY <1>1, <1>5, <3>1, EndsTyped DEF Get
    <3>2. CASE cell # None
      BY <1>1, <1>5, <3>2, GoesTyped DEF Get, TInv, TlsTypeOK
    <3>3. QED
      BY <3>1, <3>2
  <2>2. missed' \in BOOLEAN
    BY <1>5 DEF Get, TInv, TlsTypeOK
  <2>3. QED
    BY <1>5, <2>1, <2>2 DEF Get, TInv, TlsTypeOK, TasksTyped
<1>6. CASE Compare(h)
  <2> DEFINE sans == registry_sans(file)
             k == [task[h] EXCEPT !.at = "ensure", !.sans = sans]
  <2>1. k \in Task /\ Prepared(k)
    BY <1>1, SansTyped DEF TInv, TlsTypeOK, Task, Places, Prepared, Signed
  <2>2. TasksTyped' /\ lock' \in Handlers \cup {None}
    <3>1. CASE cell.sans = sans
      BY <1>1, <1>6, <3>1, EndsTyped DEF Compare
    <3>2. CASE cell.sans # sans
      <4>1. task' = [task EXCEPT ![h] = k] /\ UNCHANGED lock
        BY <1>6, <3>2 DEF Compare
      <4>2. QED
        BY <1>1, <2>1, <4>1, TaskStep DEF TInv, TlsTypeOK
    <3>3. QED
      BY <3>1, <3>2
  <2>3. missed' \in BOOLEAN
    BY <1>6 DEF Compare, TInv, TlsTypeOK
  <2>4. QED
    BY <1>6, <2>2, <2>3 DEF Compare, TInv, TlsTypeOK, TasksTyped
<1>7. CASE SaveFails(h)
  <2>1. TasksTyped' /\ lock' \in Handlers \cup {None}
    BY <1>1, <1>7, EndsTyped DEF SaveFails
  <2>2. missed' \in BOOLEAN
    BY <1>7 DEF SaveFails, TInv, TlsTypeOK
  <2>3. QED
    BY <1>7, <2>1, <2>2 DEF SaveFails, TInv, TlsTypeOK, TasksTyped
<1>8. QED
  BY <1>2, <1>3, <1>4, <1>5, <1>6, <1>7

LEMMA StartTInv ==
  ASSUME TInv, CaExists(Start) \/ Load(Start)
  PROVE  TInv'
<1>1. Start \in Tasks /\ task[Start] \in Task
  BY DEF Tasks, TInv, TlsTypeOK
<1>2. CASE CaExists(Start)
  <2>1. TasksTyped' /\ lock' \in Handlers \cup {None}
    <3>1. CASE Ends(Start, "off")
      BY <1>1, <3>1, EndsTyped
    <3>2. CASE Goes(Start, "load") /\ UNCHANGED lock
      BY <1>1, <3>2, GoesTyped DEF TInv, TlsTypeOK
    <3>3. QED
      BY <1>2, <3>1, <3>2 DEF CaExists
  <2>2. QED
    BY <1>2, <2>1 DEF CaExists, TInv, TlsTypeOK, TasksTyped
<1>3. CASE Load(Start)
  <2> DEFINE k == [task[Start] EXCEPT !.at = "ensure", !.sans = registry_sans(file)]
  <2>1. k \in Task /\ Prepared(k)
    BY <1>1, SansTyped DEF TInv, TlsTypeOK, Task, Places, Prepared, Signed
  <2>2. TasksTyped'
    BY <1>1, <1>3, <2>1, TaskStep DEF Load
  <2>3. QED
    BY <1>3, <2>2 DEF Load, TInv, TlsTypeOK, TasksTyped
<1>4. QED
  BY <1>2, <1>3

LEMMA TornTyped ==
  ASSUME TlsTypeOK, PerhapsTorn
  PROVE  disk' \in [cert: CertFile, key: KeyFile]
BY DEF TlsTypeOK, PerhapsTorn, Written, CertFile, KeyFile

LEMMA IssueTInv ==
  ASSUME TInv, NEW t \in Tasks, Issue(t)
  PROVE  TInv'
<1>1. /\ task[t] \in Task /\ Prepared(task[t])
      /\ disk.cert \in CertFile /\ disk.key \in KeyFile
  BY DEF TInv, TlsTypeOK
<1>2. CASE Ensure(t)
  <2> DEFINE found == disk.key # None /\ leaf_covers(disk.cert, task[t].sans)
             i == [task[t] EXCEPT !.at = "issue"]
             k == [task[t] EXCEPT !.at = "install", !.cert = disk.cert, !.key = disk.key]
  <2>1. i \in Task /\ Prepared(i)
    BY <1>1, <1>2 DEF Ensure, Task, Places, Prepared, Signed
  <2>2. found => k \in Task /\ Prepared(k)
    <3>1. found => disk.cert \in Leaf
      BY DEF leaf_covers
    <3>2. QED
      BY <1>1, <1>2, <3>1 DEF Ensure, Task, Places, Prepared, Signed
  <2>3. task' = IF found THEN [task EXCEPT ![t] = k] ELSE [task EXCEPT ![t] = i]
    BY <1>2 DEF Ensure
  <2>4. TasksTyped'
    BY <2>1, <2>2, <2>3, TaskStep
  <2>5. QED
    BY <1>2, <2>4 DEF Ensure, TInv, TlsTypeOK, TasksTyped
<1>3. CASE ReadCa(t)
  <2> DEFINE k == [task[t] EXCEPT !.at = "sign", !.issuer = ca.cert]
  <2>1. ca.cert \in CaKeys
    BY <1>3 DEF ReadCa
  <2>2. k \in Task /\ Prepared(k)
    BY <1>1, <1>3, <2>1 DEF ReadCa, Task, Places, Issuing, Prepared, Signed
  <2>3. TasksTyped'
    BY <1>3, <2>2, TaskStep DEF ReadCa
  <2>4. QED
    BY <1>3, <2>3 DEF ReadCa, TInv, TlsTypeOK, TasksTyped
<1>4. CASE Sign(t)
  <2>1. ca.key \in CaKeys
    BY <1>4 DEF Sign, TInv, TlsTypeOK
  <2>2. PICK p \in LeafKeys : task' = [task EXCEPT ![t].at = "cert", ![t].key = p,
          ![t].cert = [sans |-> task[t].sans, issuer |-> task[t].issuer,
                       signer |-> ca.key, pair |-> p]]
    BY <1>4 DEF Sign
  <2> DEFINE cert == [sans |-> task[t].sans, issuer |-> task[t].issuer,
                      signer |-> ca.key, pair |-> p]
             k == [task[t] EXCEPT !.at = "cert", !.key = p, !.cert = cert]
  <2>3. cert \in Leaf
    BY <1>1, <1>4, <2>1 DEF Sign, Prepared, Leaf
  <2>4. k \in Task /\ Prepared(k)
    BY <1>1, <1>4, <2>3, TasksAssumption
       DEF Sign, Task, Places, Issuing, KeyFile, Prepared, Signed
  <2>5. TasksTyped'
    BY <2>2, <2>4, TaskStep
  <2>6. QED
    BY <1>4, <2>5 DEF Sign, TInv, TlsTypeOK, TasksTyped
<1>5. CASE WriteCert(t)
  <2> DEFINE k == [task[t] EXCEPT !.at = "key"]
  <2>1. k \in Task /\ Prepared(k)
    BY <1>1, <1>5 DEF WriteCert, Task, Places, Issuing, Prepared, Signed
  <2>2. TasksTyped'
    BY <1>5, <2>1, TaskStep DEF WriteCert, Goes
  <2>3. disk' \in [cert: CertFile, key: KeyFile]
    BY <1>1, <1>5 DEF WriteCert, Prepared, Signed, CertFile, TInv, TlsTypeOK
  <2>4. QED
    BY <1>5, <2>2, <2>3 DEF WriteCert, TInv, TlsTypeOK, TasksTyped
<1>6. CASE WriteKey(t)
  <2> DEFINE k == [task[t] EXCEPT !.at = "install"]
  <2>1. k \in Task /\ Prepared(k)
    BY <1>1, <1>6 DEF WriteKey, Task, Places, Prepared, Signed
  <2>2. TasksTyped'
    BY <1>6, <2>1, TaskStep DEF WriteKey, Goes
  <2>3. disk' \in [cert: CertFile, key: KeyFile]
    BY <1>1, <1>6 DEF WriteKey, Task, TInv, TlsTypeOK
  <2>4. QED
    BY <1>6, <2>2, <2>3 DEF WriteKey, TInv, TlsTypeOK, TasksTyped
<1>7. CASE Install(t)
  <2>1. TasksTyped' /\ lock' \in Handlers \cup {None}
    BY <1>7, EndsTyped DEF Install
  <2>2. cell' \in [sans: Sans, cert: Leaf, key: LeafKeys]
    BY <1>1, <1>7 DEF Install, Prepared, Signed, Task, KeyFile
  <2>3. missed' \in BOOLEAN
    BY <1>7 DEF Install, TInv, TlsTypeOK
  <2>4. QED
    BY <1>7, <2>1, <2>2, <2>3 DEF Install, TInv, TlsTypeOK, TasksTyped
<1>8. CASE Fails(t)
  <2>1. TasksTyped' /\ lock' \in Handlers \cup {None}
    BY <1>8, EndsTyped DEF Fails
  <2>2. disk' \in [cert: CertFile, key: KeyFile]
    BY <1>8, TornTyped DEF Fails, TInv
  <2>3. missed' \in BOOLEAN /\ spoiled' \in BOOLEAN
    BY <1>8 DEF Fails
  <2>4. QED
    BY <1>8, <2>1, <2>2, <2>3 DEF Fails, TInv, TlsTypeOK, TasksTyped
<1>9. QED
  BY <1>2, <1>3, <1>4, <1>5, <1>6, <1>7, <1>8 DEF Issue

LEMMA StepsTyped ==
  ASSUME NEW S, NEW a \in S, NEW b \in S, NEW c \in S, NEW d \in S
  PROVE  <<a, b, c, d>> \in Seq(S)
OBVIOUS

LEMMA CliStepsAre ==
  /\ "key" \in CliSteps /\ "cert" \in CliSteps /\ "rmkey" \in CliSteps
  /\ "rmca" \in CliSteps /\ "rmleaf" \in CliSteps /\ "rmleafkey" \in CliSteps
BY DEF CliSteps

LEMMA OthersTInv ==
  ASSUME TInv,
         \/ InstallCa \/ CliStep \/ CliFails \/ KeychainLost \/ Restart
         \/ UNCHANGED tlsVars
  PROVE  TInv'
<1>1. /\ ca \in [cert: CaKeys \cup {None, Torn}, key: CaKeys \cup {None}]
      /\ disk \in [cert: CertFile, key: KeyFile]
  BY DEF TInv, TlsTypeOK
<1>2. CASE InstallCa
  <2>1. generate_ca \in Seq(CliSteps)
    BY StepsTyped, CliStepsAre DEF generate_ca
  <2>2. delete_ca \in Seq(CliSteps)
    BY StepsTyped, CliStepsAre DEF delete_ca
  <2>3. cli' \in Seq(CliSteps)
    BY <1>2, <2>1, <2>2 DEF InstallCa
  <2>4. QED
    BY <1>2, <2>3 DEF InstallCa, TInv, TlsTypeOK
<1>3. CASE CliStep
  <2>1. cli' \in Seq(CliSteps)
    <3>1. cli' = Tail(cli) \/ cli' = <<>>
      BY <1>3 DEF CliStep
    <3>2. cli \in Seq(CliSteps) /\ cli # <<>>
      BY <1>3 DEF CliStep, TInv, TlsTypeOK
    <3>3. Tail(cli) \in Seq(CliSteps)
      BY <3>2
    <3>4. <<>> \in Seq(CliSteps)
      OBVIOUS
    <3>5. QED
      BY <3>1, <3>3, <3>4
  <2>2. ca' \in [cert: CaKeys \cup {None, Torn}, key: CaKeys \cup {None}]
    BY <1>1, <1>3 DEF CliStep, CaAfter
  <2>3. disk' \in [cert: CertFile, key: KeyFile]
    BY <1>1, <1>3 DEF CliStep, CertFile, KeyFile
  <2>4. crossed' \in BOOLEAN
    BY <1>3 DEF CliStep
  <2>5. QED
    BY <1>3, <2>1, <2>2, <2>3, <2>4 DEF CliStep, TInv, TlsTypeOK
<1>4. CASE KeychainLost
  <2>1. ca' \in [cert: CaKeys \cup {None, Torn}, key: CaKeys \cup {None}]
    BY <1>1, <1>4 DEF KeychainLost
  <2>2. QED
    BY <1>4, <2>1 DEF KeychainLost, TInv, TlsTypeOK
<1>5. CASE Restart
  <2>1. TasksTyped'
    BY <1>5, RestTyped DEF Restart, TasksTyped
  <2>2. disk' \in [cert: CertFile, key: KeyFile]
    BY <1>5, TornTyped DEF Restart, TInv
  <2>3. missed' \in BOOLEAN /\ spoiled' \in BOOLEAN
    BY <1>5 DEF Restart
  <2>4. QED
    BY <1>5, <2>1, <2>2, <2>3 DEF Restart, TInv, TlsTypeOK, TasksTyped
<1>6. CASE UNCHANGED tlsVars
  BY <1>6 DEF tlsVars, TInv, TlsTypeOK
<1>7. CASE CliFails
  <2>1. ca' \in [cert: CaKeys \cup {None, Torn}, key: CaKeys \cup {None}]
    BY <1>1, <1>7 DEF CliFails
  <2>2. cli' \in Seq(CliSteps) /\ crossed' \in BOOLEAN
    BY <1>7 DEF CliFails
  <2>3. QED
    BY <1>7, <2>1, <2>2 DEF CliFails, TInv, TlsTypeOK
<1>8. QED
  BY <1>2, <1>3, <1>4, <1>5, <1>6, <1>7

LEMMA TInvStep == TInv /\ [TlsNext]_tlsVars => TInv'
BY CommandTInv, StartTInv, IssueTInv, OthersTInv DEF TlsNext

LEMMA TInvHolds == TlsSpec => []TInv
BY TInvInit, TInvStep, PTL DEF TlsSpec

(* The variables keep their types, whatever fails. *)
THEOREM TlsTypeCorrect == TlsSpec => []TlsTypeOK
<1>1. TInv => TlsTypeOK
  BY DEF TInv
<1>2. QED
  BY <1>1, TInvHolds, PTL

-----------------------------------------------------------------------------
(* One task at a time looks for a leaf or issues one: the start until there *)
(* is a resolver, the holder of the registry lock from then on.             *)

Early == {"idle", "save", "torn", "saved"}
Working == {"ensure", "issue"} \cup Issuing \cup {"install"}

Serial ==
  /\ cell = None => \A h \in Handlers : task[h].at \in Early
  /\ cell # None => task[Start].at = "idle"
  /\ \A h \in Handlers : task[h].at # "idle" => lock = h

LEMMA Alone ==
  ASSUME Serial, NEW t \in Tasks, NEW u \in Tasks,
         task[t].at \in Working, task[u].at \in Working
  PROVE  t = u
BY DEF Serial, Tasks, Working, Early, Issuing

(* A step within a task's work.  Without a resolver a handler's is short.   *)
LEMMA MoveSerial ==
  ASSUME Serial, NEW t \in Tasks, task[t].at # "idle",
         \A u \in Tasks \ {t} : task'[u] = task[u],
         t \in Handlers /\ cell = None => task'[t].at \in Early,
         UNCHANGED <<lock, cell>>
  PROVE  Serial'
BY TasksAssumption DEF Serial, Tasks

(* The end of a task's work, with a new resolver or the old one.            *)
LEMMA EndSerial ==
  ASSUME TInv, Serial, NEW t \in Tasks, NEW at, task[t].at # "idle", Ends(t, at),
         cell' = cell \/ (task[t].at = "install" /\ at = "idle")
  PROVE  Serial'
<1>1. \A u \in Tasks : task'[u] = IF u = t THEN Rest(IF t = Start THEN at ELSE "idle") ELSE task[u]
  BY DEF Ends, TInv, TlsTypeOK
<1>2. \A a : Rest(a).at = a
  BY DEF Rest
<1>3. CASE t = Start
  <2>1. cell = None /\ lock' = lock /\ Start \in Tasks
    BY <1>3 DEF Serial, Ends, Tasks
  <2>2. \A h \in Handlers : h # Start /\ h \in Tasks
    BY TasksAssumption DEF Tasks
  <2>3. \A h \in Handlers : task'[h] = task[h]
    BY <1>1, <1>3, <2>2
  <2>4. cell' # None => task'[Start].at = "idle"
    BY <1>1, <1>2, <1>3, <2>1
  <2>5. QED
    BY <2>1, <2>3, <2>4 DEF Serial
<1>4. CASE t # Start
  <2>1. t \in Handlers /\ lock = t /\ Start \in Tasks
    BY <1>4 DEF Serial, Tasks
  <2>2. \A h \in Handlers : h \in Tasks /\ task'[h].at = "idle"
    BY <1>1, <1>2, <1>4, <2>1 DEF Serial, Tasks
  <2>3. cell' # None => task'[Start].at = "idle"
    <3>1. cell = None => task[t].at \in Early
      BY <2>1 DEF Serial
    <3>2. task'[Start] = task[Start]
      BY <1>1, <1>4, <2>1
    <3>3. cell = None => cell' = cell
      BY <3>1 DEF Early
    <3>4. QED
      BY <3>2, <3>3 DEF Serial
  <2>4. QED
    BY <2>2, <2>3 DEF Serial, Early
<1>5. QED
  BY <1>3, <1>4

LEMMA SerialInit == TlsInit => Serial
BY TasksAssumption DEF TlsInit, Serial, Early, Rest, Tasks

LEMMA CommandSerial ==
  ASSUME TInv, Serial, NEW h \in Handlers,
         \/ \E reg \in SUBSET Keys : Change(h, reg)
         \/ Truncate(h) \/ Write(h) \/ SaveFails(h) \/ Get(h) \/ Compare(h)
  PROVE  Serial'
<1>1. h \in Tasks /\ h # Start /\ h # None
  BY TasksAssumption DEF Tasks
<1>2. ASSUME NEW reg \in SUBSET Keys, Change(h, reg)
      PROVE  Serial'
  <2>1. \A u \in Tasks : u # h => task'[u] = task[u]
    BY <1>2 DEF Change, TInv, TlsTypeOK
  <2>2. \A u \in Handlers : u # h => u \in Tasks /\ task'[u].at = "idle"
    BY <1>2, <2>1, TasksAssumption DEF Change, Serial, Tasks
  <2>3. task'[h].at = "save"
    BY <1>1, <1>2 DEF Change, TInv, TlsTypeOK, Task
  <2>4. task'[Start] = task[Start]
    BY <1>1, <2>1 DEF Tasks
  <2>5. lock' = h /\ cell' = cell
    BY <1>2 DEF Change
  <2>6. QED
    BY <2>2, <2>3, <2>4, <2>5 DEF Serial, Early
<1>3. CASE Truncate(h) \/ Write(h) \/ (Get(h) /\ cell # None)
  <2>1. \E a \in {"torn", "saved", "compare"} :
          Goes(h, a) /\ (cell = None => a \in Early)
    BY <1>3 DEF Truncate, Write, Get, Early
  <2>2. \A u \in Tasks \ {h} : task'[u] = task[u]
    BY <2>1 DEF Goes, TInv, TlsTypeOK
  <2>3. cell = None => task'[h].at \in Early
    BY <1>1, <2>1 DEF Goes, TInv, TlsTypeOK, Task
  <2>4. task[h].at # "idle" /\ UNCHANGED <<lock, cell>>
    BY <1>3 DEF Truncate, Write, Get
  <2>5. QED
    BY <1>1, <2>2, <2>3, <2>4, MoveSerial
<1>4. CASE SaveFails(h) \/ (Get(h) /\ cell = None) \/ (Compare(h) /\ Ends(h, "idle"))
  BY <1>1, <1>4, EndSerial DEF SaveFails, Get, Compare
<1>5. CASE Compare(h) /\ ~Ends(h, "idle")
  <2>1. cell # None
    BY <1>5 DEF Compare, Serial, Early
  <2>2. \A u \in Tasks \ {h} : task'[u] = task[u]
    BY <1>5 DEF Compare, TInv, TlsTypeOK
  <2>3. task[h].at # "idle" /\ UNCHANGED <<lock, cell>>
    BY <1>5 DEF Compare
  <2>4. QED
    BY <1>1, <2>1, <2>2, <2>3, MoveSerial
<1>6. QED
  BY <1>2, <1>3, <1>4, <1>5

LEMMA StartSerial ==
  ASSUME TInv, Serial, CaExists(Start) \/ Load(Start)
  PROVE  Serial'
<1>1. Start \in Tasks /\ Start \notin Handlers /\ task[Start].at # "idle"
  BY TasksAssumption DEF Tasks, CaExists, Load
<1>2. CASE Ends(Start, "off")
  BY <1>1, <1>2, EndSerial DEF CaExists, Load
<1>3. CASE ~Ends(Start, "off")
  <2>1. \A u \in Tasks \ {Start} : task'[u] = task[u]
    BY <1>3 DEF CaExists, Load, Goes, TInv, TlsTypeOK
  <2>2. UNCHANGED <<lock, cell>>
    BY <1>3 DEF CaExists, Load
  <2>3. QED
    BY <1>1, <2>1, <2>2, MoveSerial
<1>4. QED
  BY <1>2, <1>3

LEMMA IssueSerial ==
  ASSUME TInv, Serial, NEW t \in Tasks, Issue(t)
  PROVE  Serial'
<1>1. task[t].at \in Working /\ task[t].at # "idle"
  BY DEF Issue, Ensure, ReadCa, Sign, WriteCert, WriteKey, Install, Fails, Failing,
         Working, Issuing
<1>2. t \in Handlers => cell # None
  BY <1>1 DEF Serial, Working, Issuing, Early
<1>3. CASE Install(t) \/ Fails(t)
  <2>1. \E at \in {"idle", "off"} : Ends(t, at) /\
          (cell' = cell \/ (task[t].at = "install" /\ at = "idle"))
    BY <1>3 DEF Install, Fails
  <2>2. QED
    BY <1>1, <2>1, EndSerial
<1>4. CASE Ensure(t) \/ ReadCa(t) \/ Sign(t) \/ WriteCert(t) \/ WriteKey(t)
  <2>1. \A u \in Tasks \ {t} : task'[u] = task[u]
    BY <1>4 DEF Ensure, ReadCa, Sign, WriteCert, WriteKey, Goes, TInv, TlsTypeOK
  <2>2. UNCHANGED <<lock, cell>>
    BY <1>4 DEF Ensure, ReadCa, Sign, WriteCert, WriteKey
  <2>3. QED
    BY <1>1, <1>2, <2>1, <2>2, MoveSerial
<1>5. QED
  BY <1>3, <1>4 DEF Issue

LEMMA OthersSerial ==
  ASSUME TInv, Serial,
         \/ InstallCa \/ CliStep \/ CliFails \/ KeychainLost \/ Restart
         \/ UNCHANGED tlsVars
  PROVE  Serial'
<1>1. CASE UNCHANGED <<task, lock, cell>>
  BY <1>1 DEF Serial
<1>2. CASE Restart
  <2>1. \A h \in Handlers : task'[h].at = "idle"
    BY <1>2, TasksAssumption DEF Restart, Rest, Tasks
  <2>2. QED
    BY <1>2, <2>1 DEF Restart, Serial, Early
<1>3. QED
  BY <1>1, <1>2 DEF InstallCa, CliStep, CliFails, KeychainLost, tlsVars

-----------------------------------------------------------------------------
(* What a task is about to write or to serve belongs together; so do the    *)
(* two files, except while the key of a new certificate has to be written:  *)
(* until that was cut short, and a certificate left without its key.        *)

Own(k) == k.at \in Signed => k.cert.sans = k.sans /\ k.key = k.cert.pair

AtKey ==
  \A t \in Tasks : task[t].at = "key" /\ disk.cert \in Leaf => disk.cert = task[t].cert

DiskWhole ==
  disk.cert \in Leaf /\ disk.key # None /\ (\A t \in Tasks : task[t].at # "key")
  => disk.key = disk.cert.pair

Served ==
  cell # None => cell.sans = cell.cert.sans /\ cell.key = cell.cert.pair

Whole == (\A t \in Tasks : Own(task[t])) /\ AtKey /\ DiskWhole /\ Served

WInv == TInv /\ Serial /\ Whole

(* A step that changes what one task is at and writes neither file, but may *)
(* leave the certificate truncated.                                         *)
LEMMA MoveWhole ==
  ASSUME Whole, NEW t \in Tasks, \A u \in Tasks \ {t} : task'[u] = task[u],
         Own(task'[t]), task[t].at # "key", task'[t].at # "key",
         disk'.key = disk.key, disk'.cert = disk.cert \/ disk'.cert \notin Leaf, Served'
  PROVE  Whole'
<1>1. \A u \in Tasks : task'[u].at = "key" <=> task[u].at = "key"
  OBVIOUS
<1>2. \A u \in Tasks : Own(task'[u])
  BY DEF Whole
<1>3. AtKey' /\ DiskWhole'
  BY <1>1 DEF Whole, AtKey, DiskWhole
<1>4. QED
  BY <1>2, <1>3 DEF Whole

LEMMA Untorn ==
  ASSUME TlsTypeOK, PerhapsTorn, \A u \in Tasks : task[u].at # "key"
  PROVE  disk'.key = disk.key /\ (disk'.cert = disk.cert \/ disk'.cert \notin Leaf)
<1>1. Written("key", disk.key) = {disk.key}
  BY DEF Written
<1>2. disk'.cert \in {disk.cert, Torn}
  BY DEF PerhapsTorn, Written
<1>3. QED
  BY <1>1, <1>2, LeafAssumption DEF PerhapsTorn

LEMMA WholeInit == TlsInit => Whole
<1> SUFFICES ASSUME TlsInit PROVE Whole
  OBVIOUS
<1>1. \A t \in Tasks : task[t].at \in {"exists", "idle"}
  BY DEF TlsInit, Rest
<1>2. disk.cert \notin Leaf
  BY LeafAssumption DEF TlsInit
<1>3. QED
  BY <1>1, <1>2 DEF TlsInit, Whole, Own, Signed, AtKey, DiskWhole, Served

(* Commands do not touch the leaf before they come to issue it.             *)
LEMMA CommandWhole ==
  ASSUME WInv, NEW h \in Handlers,
         \/ \E reg \in SUBSET Keys : Change(h, reg)
         \/ Truncate(h) \/ Write(h) \/ SaveFails(h) \/ Get(h) \/ Compare(h)
  PROVE  Whole'
<1>1. h \in Tasks /\ task \in [Tasks -> Task]
  BY DEF Tasks, WInv, TInv, TlsTypeOK
<1>2. \A u \in Tasks \ {h} : task'[u] = task[u]
  BY <1>1 DEF Change, Truncate, Write, SaveFails, Get, Compare, Goes, Ends
<1>3. task[h].at \in {"idle", "save", "torn", "saved", "compare"}
  BY DEF Change, Truncate, Write, SaveFails, Get, Compare
<1>4. task'[h].at \in {"idle", "save", "torn", "saved", "compare", "ensure"}
  <2>1. CASE \E reg \in SUBSET Keys : Change(h, reg)
    BY <1>1, <2>1 DEF Change, Task
  <2>2. CASE Truncate(h) \/ Write(h)
    BY <1>1, <2>2 DEF Truncate, Write, Goes, Task
  <2>3. CASE SaveFails(h) \/ Get(h)
    BY <1>1, <2>3, TasksAssumption DEF SaveFails, Get, Goes, Ends, Rest, Task
  <2>4. CASE Compare(h)
    BY <1>1, <2>4, TasksAssumption DEF Compare, Ends, Rest, Task
  <2>5. QED
    BY <2>1, <2>2, <2>3, <2>4
<1>5. UNCHANGED <<disk, cell>>
  BY DEF Change, Truncate, Write, SaveFails, Get, Compare
<1>6. Served'
  BY <1>5 DEF WInv, Whole, Served
<1>7. QED
  BY <1>1, <1>2, <1>3, <1>4, <1>5, <1>6, MoveWhole DEF WInv, Own, Signed

LEMMA StartWhole ==
  ASSUME WInv, CaExists(Start) \/ Load(Start)
  PROVE  Whole'
<1>1. Start \in Tasks /\ task \in [Tasks -> Task]
  BY DEF Tasks, WInv, TInv, TlsTypeOK
<1>2. \A u \in Tasks \ {Start} : task'[u] = task[u]
  BY <1>1 DEF CaExists, Load, Goes, Ends
<1>3. task[Start].at \in {"exists", "load"}
  BY DEF CaExists, Load
<1>4. task'[Start].at \in {"off", "load", "ensure"}
  <2>1. CASE CaExists(Start)
    BY <1>1, <2>1 DEF CaExists, Goes, Ends, Rest, Task
  <2>2. CASE Load(Start)
    BY <1>1, <2>2 DEF Load, Task
  <2>3. QED
    BY <2>1, <2>2
<1>5. UNCHANGED <<disk, cell>>
  BY DEF CaExists, Load
<1>6. Served'
  BY <1>5 DEF WInv, Whole, Served
<1>7. QED
  BY <1>1, <1>2, <1>3, <1>4, <1>5, <1>6, MoveWhole DEF WInv, Own, Signed

(* The steps that look for a leaf, issue one and serve it.                  *)
LEMMA IssueWhole ==
  ASSUME WInv, NEW t \in Tasks, Issue(t), ~spoiled'
  PROVE  Whole'
<1>1. /\ TlsTypeOK /\ task \in [Tasks -> Task] /\ task[t] \in Task /\ Prepared(task[t])
      /\ Own(task[t]) /\ AtKey /\ DiskWhole /\ Served
  BY DEF WInv, TInv, TlsTypeOK, Whole
<1>2. task[t].at \in Working
  BY DEF Issue, Ensure, ReadCa, Sign, WriteCert, WriteKey, Install, Fails, Failing,
         Working, Issuing
<1>3. \A u \in Tasks \ {t} : task'[u] = task[u]
  BY <1>1 DEF Issue, Ensure, ReadCa, Sign, WriteCert, WriteKey, Install, Fails, Goes, Ends
<1>4. \A u \in Tasks \ {t} : task[u].at \notin Working
  BY <1>2, Alone DEF WInv
<1>5. CASE Ensure(t)
  <2>1. UNCHANGED disk /\ Served' /\ task[t].at = "ensure"
    BY <1>1, <1>5 DEF Ensure, Served
  <2>2. task'[t].at \in {"issue", "install"}
    BY <1>1, <1>5 DEF Ensure, Task
  <2>3. Own(task'[t])
    <3>1. \A u \in Tasks : task[u].at # "key"
      BY <1>4, <2>1 DEF Working, Issuing
    <3>2. CASE disk.key # None /\ leaf_covers(disk.cert, task[t].sans)
      <4>1. disk.cert.sans = task[t].sans /\ disk.key = disk.cert.pair
        BY <1>1, <3>1, <3>2 DEF DiskWhole, leaf_covers
      <4>2. task'[t] = [task[t] EXCEPT !.at = "install", !.cert = disk.cert,
                                       !.key = disk.key]
        BY <1>1, <1>5, <3>2 DEF Ensure
      <4>3. QED
        BY <1>1, <4>1, <4>2 DEF Own, Task
    <3>3. CASE ~(disk.key # None /\ leaf_covers(disk.cert, task[t].sans))
      <4>1. task'[t].at = "issue"
        BY <1>1, <1>5, <3>3 DEF Ensure, Task
      <4>2. QED
        BY <4>1 DEF Own, Signed
    <3>4. QED
      BY <3>2, <3>3
  <2>4. QED
    BY <1>3, <2>1, <2>2, <2>3, MoveWhole DEF WInv
<1>6. CASE ReadCa(t)
  <2>1. UNCHANGED disk /\ Served' /\ task[t].at = "issue"
    BY <1>1, <1>6 DEF ReadCa, Served
  <2>2. task'[t].at = "sign"
    BY <1>1, <1>6 DEF ReadCa, Task
  <2>3. QED
    BY <1>3, <2>1, <2>2, MoveWhole DEF WInv, Own, Signed
<1>7. CASE Sign(t)
  <2>1. UNCHANGED disk /\ Served' /\ task[t].at = "sign"
    BY <1>1, <1>7 DEF Sign, Served
  <2>2. PICK p \in LeafKeys : task' = [task EXCEPT ![t].at = "cert", ![t].key = p,
          ![t].cert = [sans |-> task[t].sans, issuer |-> task[t].issuer,
                       signer |-> ca.key, pair |-> p]]
    BY <1>7 DEF Sign
  <2>3. task'[t].at = "cert" /\ Own(task'[t])
    BY <1>1, <2>2 DEF Own, Task
  <2>4. QED
    BY <1>3, <2>1, <2>3, MoveWhole DEF WInv
<1>8. CASE WriteCert(t)
  <2>1. task'[t] = [task[t] EXCEPT !.at = "key"] /\ task[t].at = "cert"
    BY <1>1, <1>8 DEF WriteCert, Goes
  <2>2. task'[t].at = "key" /\ Own(task'[t])
    BY <1>1, <2>1 DEF Own, Signed, Task
  <2>3. disk'.cert = task'[t].cert
    BY <1>1, <1>8, <2>1 DEF WriteCert, Task, TlsTypeOK
  <2>4. \A u \in Tasks : task'[u].at = "key" => u = t
    BY <1>3, <1>4 DEF Working, Issuing
  <2>5. AtKey' /\ DiskWhole'
    BY <2>2, <2>3, <2>4 DEF AtKey, DiskWhole
  <2>6. Served' /\ \A u \in Tasks : Own(task'[u])
    BY <1>1, <1>3, <1>8, <2>2 DEF WriteCert, Served, WInv, Whole
  <2>7. QED
    BY <2>5, <2>6 DEF Whole
<1>9. CASE WriteKey(t)
  <2>1. task'[t] = [task[t] EXCEPT !.at = "install"] /\ task[t].at = "key"
    BY <1>1, <1>9 DEF WriteKey, Goes
  <2>2. task'[t].at = "install" /\ Own(task'[t])
    BY <1>1, <2>1 DEF Own, Signed, Task
  <2>3. disk'.cert = disk.cert /\ disk'.key = task[t].key
    BY <1>1, <1>9 DEF WriteKey, TlsTypeOK
  <2>4. \A u \in Tasks : task'[u].at # "key"
    BY <1>3, <1>4, <2>2 DEF Working, Issuing
  <2>5. disk.cert \in Leaf => task[t].key = disk.cert.pair
    BY <1>1, <2>1 DEF AtKey, Own, Signed
  <2>6. AtKey' /\ DiskWhole'
    BY <2>3, <2>4, <2>5 DEF AtKey, DiskWhole
  <2>7. Served' /\ \A u \in Tasks : Own(task'[u])
    BY <1>1, <1>3, <1>9, <2>2 DEF WriteKey, Served, WInv, Whole
  <2>8. QED
    BY <2>6, <2>7 DEF Whole
<1>10. CASE Install(t) \/ Fails(t)
  <2>1. task[t].at # "key"
    BY <1>10 DEF Install, Fails
  <2>2. disk'.key = disk.key /\ (disk'.cert = disk.cert \/ disk'.cert \notin Leaf)
    <3>1. \A u \in Tasks : task[u].at # "key"
      BY <1>4, <2>1 DEF Working, Issuing
    <3>2. QED
      BY <1>1, <1>10, <3>1, Untorn DEF Install, Fails
  <2>3. task'[t].at \in {"idle", "off"}
    <3>1. \E at \in {"idle", "off"} : Ends(t, at)
      BY <1>10 DEF Install, Fails
    <3>2. \E at \in {"idle", "off"} : task'[t] = Rest(at)
      BY <1>1, <3>1 DEF Ends
    <3>3. QED
      BY <3>2 DEF Rest
  <2>4. Served'
    <3>1. CASE Install(t)
      <4>1. task[t].cert.sans = task[t].sans /\ task[t].key = task[t].cert.pair
        BY <1>1, <3>1 DEF Install, Own, Signed
      <4>2. /\ cell'.sans = task[t].sans /\ cell'.cert = task[t].cert
            /\ cell'.key = task[t].key
        BY <3>1 DEF Install
      <4>3. QED
        BY <4>1, <4>2 DEF Served
    <3>2. CASE Fails(t)
      BY <1>1, <3>2 DEF Fails, Served
    <3>3. QED
      BY <1>10, <3>1, <3>2
  <2>5. QED
    BY <1>3, <2>1, <2>2, <2>3, <2>4, MoveWhole DEF WInv, Own, Signed
<1>11. QED
  BY <1>5, <1>6, <1>7, <1>8, <1>9, <1>10 DEF Issue

(* install-ca only removes the files; the daemon dies with no key to write.  *)
LEMMA OthersWhole ==
  ASSUME WInv, ~spoiled',
         \/ InstallCa \/ CliStep \/ CliFails \/ KeychainLost \/ Restart
         \/ UNCHANGED tlsVars
  PROVE  Whole'
<1>1. TlsTypeOK /\ AtKey /\ DiskWhole /\ Served
  BY DEF WInv, TInv, Whole
<1>2. CASE UNCHANGED <<disk, cell, task>>
  BY <1>2 DEF WInv, Whole, AtKey, DiskWhole, Served
<1>3. CASE CliStep
  <2>1. disk'.cert \in {disk.cert, None} /\ disk'.key \in {disk.key, None}
    BY <1>1, <1>3 DEF CliStep, TlsTypeOK
  <2>2. disk'.cert \in Leaf => disk'.cert = disk.cert
    BY <2>1, LeafAssumption
  <2>3. UNCHANGED <<cell, task>>
    BY <1>3 DEF CliStep
  <2>4. AtKey' /\ DiskWhole'
    BY <1>1, <2>1, <2>2, <2>3 DEF AtKey, DiskWhole
  <2>5. QED
    BY <2>3, <2>4 DEF WInv, Whole, Served
<1>4. CASE Restart
  <2>1. \A u \in Tasks : task[u].at # "key"
    BY <1>4 DEF Restart
  <2>2. /\ disk'.key = disk.key /\ (disk'.cert = disk.cert \/ disk'.cert \notin Leaf)
        /\ Served'
    BY <1>1, <1>4, <2>1, Untorn DEF Restart, Served
  <2>3. \A u \in Tasks : task'[u].at \in {"exists", "idle"}
    BY <1>4 DEF Restart, Rest
  <2>4. AtKey' /\ DiskWhole' /\ \A u \in Tasks : Own(task'[u])
    BY <1>1, <2>1, <2>2, <2>3 DEF AtKey, DiskWhole, Own, Signed
  <2>5. QED
    BY <2>2, <2>4 DEF Whole
<1>5. QED
  BY <1>2, <1>3, <1>4 DEF InstallCa, CliFails, KeychainLost, tlsVars

(* Until a certificate is left without its key, everything is whole.        *)
SInv == TInv /\ Serial /\ (~spoiled => Whole)

LEMMA SInvStep == SInv /\ [TlsNext]_tlsVars => SInv'
<1>1. TInv /\ Serial /\ [TlsNext]_tlsVars => Serial'
  BY CommandSerial, StartSerial, IssueSerial, OthersSerial DEF TlsNext
<1>2. [TlsNext]_tlsVars /\ ~spoiled' => ~spoiled
  BY DEF TlsNext, Change, Truncate, Write, SaveFails, Get, Compare, CaExists, Load,
         Issue, Ensure, ReadCa, Sign, WriteCert, WriteKey, Install, Fails,
         InstallCa, CliStep, CliFails, KeychainLost, Restart, tlsVars
<1>3. WInv /\ [TlsNext]_tlsVars /\ ~spoiled' => Whole'
  BY CommandWhole, StartWhole, IssueWhole, OthersWhole DEF TlsNext
<1>4. QED
  BY <1>1, <1>2, <1>3, TInvStep DEF SInv, WInv

(* The served certificate has the names it is compared by and its own key,  *)
(* whatever fails, short of a daemon that dies or cannot write between a    *)
(* certificate and its key: two files written one after the other, and      *)
(* removed by a process that takes no lock, are otherwise never paired      *)
(* wrongly; a truncated certificate is not taken for a leaf.                *)
THEOREM ServedLeafWholeHolds == TlsSpec => []ServedLeafWhole
<1>1. TlsInit => SInv
  BY TInvInit, SerialInit, WholeInit DEF SInv
<1>2. SInv => ServedLeafWhole
  BY DEF SInv, Whole, Served, ServedLeafWhole
<1>3. QED
  BY <1>1, <1>2, SInvStep, PTL DEF TlsSpec

-----------------------------------------------------------------------------
(* A certificate has the names it was looked for or issued by, and they are *)
(* those of the registry: of its file as it is, for the holder of the lock; *)
(* for the start and the resolver, when nobody holds the lock, or has it    *)
(* but not written yet, and no change has been missed.  So a save that      *)
(* fails before it truncates the file leaves what was so.                   *)

Named ==
  /\ \A t \in Tasks : task[t].at \in Signed => task[t].cert.sans = task[t].sans
  /\ cell # None => cell.cert.sans = cell.sans

Settled == lock = None \/ task[lock].at = "save"

Current ==
  /\ \A h \in Handlers : task[h].at \in Working => task[h].sans = registry_sans(file)
  /\ Settled /\ ~missed =>
       /\ cell # None => cell.sans = registry_sans(file)
       /\ task[Start].at \in Working => task[Start].sans = registry_sans(file)

CInv == TInv /\ Serial /\ Named /\ Current

(* The two wildcards of an app stand for its host and for its instances'.   *)
LEMMA SansMatch ==
  ASSUME NEW reg \in SUBSET Keys, NEW k \in reg
  PROVE  \E san \in registry_sans(reg) : Matches(san, k)
<1>1. k \in Seq(STRING) /\ Len(k) \in {1, 2}
  BY KeysAssumption
<1>2. CASE Len(k) = 1
  <2>1. <<"*">> \in registry_sans(reg)
    BY DEF registry_sans, Wildcard
  <2>2. Matches(<<"*">>, k)
    BY <1>1, <1>2 DEF Matches
  <2>3. QED
    BY <2>1, <2>2
<1>3. CASE Len(k) = 2
  <2>1. <<"*", base_name(k)>> \in registry_sans(reg)
    BY DEF registry_sans
  <2>2. Matches(<<"*", base_name(k)>>, k)
    BY <1>1, <1>3 DEF Matches, base_name
  <2>3. QED
    BY <2>1, <2>2
<1>4. QED
  BY <1>1, <1>2, <1>3

LEMMA CoversInit == TlsInit => Named /\ Current
<1> SUFFICES ASSUME TlsInit PROVE Named /\ Current
  OBVIOUS
<1>1. \A t \in Tasks : task[t].at \in {"exists", "idle"}
  BY DEF TlsInit, Rest
<1>2. \A t \in Tasks : task[t].at \notin Signed /\ task[t].at \notin Working
  BY <1>1 DEF Signed, Working, Issuing
<1>3. QED
  BY <1>2 DEF TlsInit, Named, Current, Tasks

(* A step of the start leaves the lock, and its holder where it is.         *)
LEMMA StartSettled ==
  ASSUME Settled', TInv, lock' = lock, \A h \in Handlers : task'[h] = task[h]
  PROVE  Settled
BY DEF Settled, TInv, TlsTypeOK

(* A registry change: until it has been saved the lock is held; then it is  *)
(* missed, or the names are compared with the file that only it may write.  *)
LEMMA CommandCovers ==
  ASSUME CInv, NEW h \in Handlers,
         \/ \E reg \in SUBSET Keys : Change(h, reg)
         \/ Truncate(h) \/ Write(h) \/ SaveFails(h) \/ Get(h) \/ Compare(h)
  PROVE  Named' /\ Current'
<1>1. /\ h \in Tasks /\ task \in [Tasks -> Task] /\ Start \in Tasks /\ h # Start
      /\ h # None
  BY TasksAssumption DEF Tasks, CInv, TInv, TlsTypeOK
<1>2. \A u \in Tasks \ {h} : task'[u] = task[u]
  BY <1>1 DEF Change, Truncate, Write, SaveFails, Get, Compare, Goes, Ends
<1>3. \A g \in Handlers \ {h} : task[g].at = "idle"
  <2>1. lock \in {h, None}
    BY DEF CInv, Serial, Change, Truncate, Write, SaveFails, Get, Compare
  <2>2. \A g \in Handlers : g # None
    BY TasksAssumption
  <2>3. QED
    BY <2>1, <2>2 DEF CInv, Serial
<1>4. task'[h].at \in {"idle", "save", "torn", "saved", "compare", "ensure"}
  <2>1. CASE \E reg \in SUBSET Keys : Change(h, reg)
    BY <1>1, <2>1 DEF Change, Task
  <2>2. CASE Truncate(h) \/ Write(h)
    BY <1>1, <2>2 DEF Truncate, Write, Goes, Task
  <2>3. CASE SaveFails(h) \/ Get(h)
    BY <1>1, <2>3 DEF SaveFails, Get, Goes, Ends, Rest, Task
  <2>4. CASE Compare(h)
    BY <1>1, <2>4 DEF Compare, Ends, Rest, Task
  <2>5. QED
    BY <2>1, <2>2, <2>3, <2>4
<1>5. Named'
  <2>1. UNCHANGED cell
    BY DEF Change, Truncate, Write, SaveFails, Get, Compare
  <2>2. QED
    BY <1>1, <1>2, <1>4, <2>1 DEF CInv, Named, Signed
<1>6. CASE task'[h].at \notin Working
  <2>1. \A g \in Handlers : task'[g].at \notin Working
    BY <1>2, <1>3, <1>6 DEF Tasks, Working, Issuing
  <2>2. CASE ~Settled' \/ missed'
    BY <1>5, <2>1, <2>2 DEF Current
  <2>3. CASE Compare(h) /\ Ends(h, "idle")
    <3>1. cell # None /\ cell.sans = registry_sans(file) /\ UNCHANGED <<file, cell>>
      <4>1. task[h].at = "compare" /\ cell # None
        BY <2>3 DEF CInv, Serial, Early, Compare
      <4>2. task'[h].at = "idle"
        BY <1>1, <2>3 DEF Ends, Rest
      <4>3. cell.sans = registry_sans(file)
        BY <1>1, <2>3, <4>2 DEF Compare, Task
      <4>4. QED
        BY <2>3, <4>1, <4>3 DEF Compare
    <3>2. task'[Start].at = "idle"
      BY <1>1, <1>2, <3>1 DEF CInv, Serial
    <3>3. QED
      BY <1>5, <2>1, <3>1, <3>2 DEF Current, Working, Issuing
  <2>4. CASE (\E reg \in SUBSET Keys : Change(h, reg)) \/ (SaveFails(h) /\ ~missed')
    <3>1. Settled
      BY <2>4 DEF CInv, Serial, Settled, Change, SaveFails
    <3>2. UNCHANGED <<file, cell, missed>>
      BY <2>4 DEF CInv, TInv, TlsTypeOK, Change, SaveFails
    <3>3. task'[Start] = task[Start]
      BY <1>1, <1>2
    <3>4. QED
      BY <1>5, <2>1, <3>1, <3>2, <3>3 DEF CInv, Current
  <2>5. Settled' /\ ~missed' =>
          \/ Compare(h) /\ Ends(h, "idle")
          \/ SaveFails(h)
          \/ \E reg \in SUBSET Keys : Change(h, reg)
    <3>1. SUFFICES ASSUME Settled', ~missed', ~SaveFails(h),
                          ~\E reg \in SUBSET Keys : Change(h, reg)
                   PROVE  Compare(h) /\ Ends(h, "idle")
      OBVIOUS
    <3>2. lock = h
      BY <3>1 DEF CInv, Serial, Truncate, Write, Get, Compare
    <3>3. CASE Truncate(h) \/ Write(h) \/ (Get(h) /\ cell # None)
      <4>1. lock' = h /\ task'[h].at \in {"torn", "saved", "compare"}
        BY <1>1, <3>2, <3>3 DEF Truncate, Write, Get, Goes, CInv, TInv, TlsTypeOK, Task
      <4>2. QED
        BY <1>1, <3>1, <4>1 DEF Settled
    <3>4. CASE Get(h) /\ cell = None
      BY <3>1, <3>4 DEF Get
    <3>5. CASE Compare(h)
      BY <1>1, <1>6, <3>5 DEF Compare, Working, Task
    <3>6. QED
      BY <3>1, <3>3, <3>4, <3>5
  <2>6. QED
    BY <2>2, <2>3, <2>4, <2>5
<1>7. CASE task'[h].at \in Working
  <2>1. Compare(h) /\ ~Ends(h, "idle")
    <3>1. task'[h].at = "ensure"
      BY <1>4, <1>7 DEF Working, Issuing
    <3>2. ~Ends(h, "idle")
      BY <1>1, <3>1 DEF Ends, Rest
    <3>3. QED
      BY <1>1, <3>1, <3>2 DEF Change, Truncate, Write, SaveFails, Get, Goes, Task
  <2>2. /\ task'[h].sans = registry_sans(file)
        /\ UNCHANGED <<file, lock>> /\ task[h].at = "compare"
    BY <1>1, <2>1 DEF Compare, Task
  <2>3. lock' = h
    BY <2>2 DEF CInv, Serial
  <2>4. \A g \in Handlers \ {h} : task'[g].at \notin Working
    BY <1>2, <1>3 DEF Tasks, Working, Issuing
  <2>5. ~Settled'
    BY <1>1, <1>7, <2>3 DEF Settled, Working, Issuing
  <2>6. QED
    BY <1>1, <1>5, <2>2, <2>4, <2>5 DEF Current
<1>8. QED
  BY <1>5, <1>6, <1>7

(* The start reads the file as it is; a handler that still holds the lock   *)
(* will find no resolver, or the one the start has published.               *)
LEMMA StartCovers ==
  ASSUME CInv, CaExists(Start) \/ Load(Start)
  PROVE  Named' /\ Current'
<1>1. /\ Start \in Tasks /\ task \in [Tasks -> Task]
      /\ \A h \in Handlers : h \in Tasks /\ h # Start
  BY TasksAssumption DEF Tasks, CInv, TInv, TlsTypeOK
<1>2. \A u \in Tasks \ {Start} : task'[u] = task[u]
  BY <1>1 DEF CaExists, Load, Goes, Ends
<1>3. UNCHANGED <<file, lock, cell>>
  BY DEF CaExists, Load, Ends
<1>4. cell = None
  BY DEF CInv, Serial, CaExists, Load
<1>5. CASE CaExists(Start)
  <2>1. task'[Start].at \in {"off", "load"} /\ UNCHANGED missed
    BY <1>1, <1>5 DEF CaExists, Goes, Ends, Rest, Task
  <2>2. QED
    BY <1>1, <1>2, <1>3, <1>4, <2>1 DEF CInv, Named, Current, Signed, Working, Issuing
<1>6. CASE Load(Start)
  <2>1. task'[Start].at = "ensure" /\ task'[Start].sans = registry_sans(file)
    BY <1>1, <1>6 DEF Load, Task
  <2>2. QED
    BY <1>1, <1>2, <1>3, <1>4, <2>1 DEF CInv, Named, Current, Signed
<1>7. QED
  BY <1>5, <1>6

(* Looking for a leaf, issuing one and serving it, for the names asked for. *)
LEMMA IssueCovers ==
  ASSUME CInv, NEW t \in Tasks, Issue(t)
  PROVE  Named' /\ Current'
<1>1. /\ task \in [Tasks -> Task] /\ task[t] \in Task /\ Prepared(task[t])
      /\ Start \in Tasks /\ \A h \in Handlers : h \in Tasks /\ h # Start
  BY TasksAssumption DEF Tasks, CInv, TInv, TlsTypeOK
<1>2. task[t].at \in Working
  BY DEF Issue, Ensure, ReadCa, Sign, WriteCert, WriteKey, Install, Fails, Failing,
         Working, Issuing
<1>3. \A u \in Tasks \ {t} : task'[u] = task[u]
  BY <1>1 DEF Issue, Ensure, ReadCa, Sign, WriteCert, WriteKey, Install, Fails, Goes, Ends
<1>4. \A u \in Tasks \ {t} : task[u].at \notin Working
  BY <1>2, Alone DEF CInv
<1>5. UNCHANGED file
  BY DEF Issue, Ensure, ReadCa, Sign, WriteCert, WriteKey, Install, Fails
<1>6. CASE Ensure(t) \/ ReadCa(t) \/ Sign(t) \/ WriteCert(t) \/ WriteKey(t)
  <2>1. UNCHANGED <<lock, cell, missed>>
    BY <1>6 DEF Ensure, ReadCa, Sign, WriteCert, WriteKey
  <2>2. /\ task'[t].sans = task[t].sans
        /\ task'[t].at \in Signed => task'[t].cert.sans = task'[t].sans
    <3>1. CASE Ensure(t)
      BY <1>1, <3>1 DEF Ensure, Task, Signed, leaf_covers
    <3>2. CASE ReadCa(t)
      BY <1>1, <3>2 DEF ReadCa, Task, Signed
    <3>3. CASE Sign(t)
      BY <1>1, <3>3 DEF Sign, Task, Signed
    <3>4. CASE WriteCert(t) \/ WriteKey(t)
      BY <1>1, <3>4 DEF WriteCert, WriteKey, Goes, Task, Signed, CInv, Named
    <3>5. QED
      BY <1>6, <3>1, <3>2, <3>3, <3>4
  <2>3. Named'
    BY <1>3, <2>1, <2>2 DEF CInv, Named
  <2>4. Settled' => Settled
    <3>1. CASE t = Start
      BY <1>1, <1>3, <2>1, <3>1, StartSettled DEF CInv
    <3>2. CASE t # Start
      <4>1. lock = t
        BY <1>2, <3>2 DEF CInv, Serial, Tasks, Working, Issuing
      <4>2. task'[t].at # "save" /\ t # None
        <5>1. CASE Sign(t)
          BY <1>1, <3>2, <5>1, TasksAssumption DEF Sign, Task, Tasks
        <5>2. CASE Ensure(t) \/ ReadCa(t) \/ WriteCert(t) \/ WriteKey(t)
          BY <1>1, <3>2, <5>2, TasksAssumption
             DEF Ensure, ReadCa, WriteCert, WriteKey, Goes, Task, Tasks
        <5>3. QED
          BY <1>6, <5>1, <5>2
      <4>3. QED
        BY <2>1, <4>1, <4>2 DEF Settled
    <3>3. QED
      BY <3>1, <3>2
  <2>5. Current'
    BY <1>1, <1>2, <1>3, <1>5, <2>1, <2>2, <2>4 DEF CInv, Current
  <2>6. QED
    BY <2>3, <2>5
<1>7. CASE Install(t) \/ Fails(t)
  <2>1. PICK at \in {"idle", "off"} : Ends(t, at) /\ (Install(t) => at = "idle")
    BY <1>7 DEF Install, Fails
  <2>2. task'[t].at \in {"idle", "off"}
    BY <1>1, <2>1 DEF Ends, Rest
  <2>3. \A u \in Tasks : task'[u].at \notin Working
    BY <1>3, <1>4, <2>2 DEF Working, Issuing
  <2>4. CASE Fails(t)
    <3>1. missed' /\ UNCHANGED cell
      BY <2>4 DEF Fails
    <3>2. Named'
      BY <1>3, <2>2, <3>1 DEF CInv, Named, Signed
    <3>3. Current'
      BY <1>1, <2>3, <3>1 DEF Current
    <3>4. QED
      BY <3>2, <3>3
  <2>5. CASE Install(t)
    <3>1. cell'.sans = task[t].sans /\ cell'.cert = task[t].cert /\ task[t].at = "install"
      BY <2>5 DEF Install
    <3>2. Named'
      BY <1>3, <2>2, <3>1 DEF CInv, Named, Signed
    <3>3. Settled' /\ ~missed' => task[t].sans = registry_sans(file)
      <4>1. CASE t = Start
        <5>1. lock' = lock /\ missed' = missed
          BY <2>1, <2>5, <4>1 DEF Install, Ends
        <5>2. Settled' => Settled
          BY <1>1, <1>3, <4>1, <5>1, StartSettled DEF CInv
        <5>3. QED
          BY <1>2, <4>1, <5>1, <5>2 DEF CInv, Current
      <4>2. CASE t # Start
        BY <1>2, <4>2 DEF CInv, Current, Tasks
      <4>3. QED
        BY <4>1, <4>2
    <3>4. Current'
      BY <1>1, <1>5, <2>3, <3>1, <3>3 DEF Current
    <3>5. QED
      BY <3>2, <3>4
  <2>6. QED
    BY <1>7, <2>4, <2>5
<1>8. QED
  BY <1>6, <1>7 DEF Issue

LEMMA OthersCovers ==
  ASSUME CInv,
         \/ InstallCa \/ CliStep \/ CliFails \/ KeychainLost \/ Restart
         \/ UNCHANGED tlsVars
  PROVE  Named' /\ Current'
<1>1. CASE UNCHANGED <<file, task, lock, cell, missed>>
  BY <1>1 DEF CInv, Named, Current, Settled
<1>2. CASE Restart
  <2>1. \A u \in Tasks : task'[u].at \in {"exists", "idle"}
    BY <1>2 DEF Restart, Rest
  <2>2. \A u \in Tasks : task'[u].at \notin Signed /\ task'[u].at \notin Working
    BY <2>1 DEF Signed, Working, Issuing
  <2>3. cell' = None
    BY <1>2 DEF Restart
  <2>4. QED
    BY <2>2, <2>3 DEF Named, Current, Tasks
<1>3. QED
  BY <1>1, <1>2 DEF InstallCa, CliStep, CliFails, KeychainLost, tlsVars

LEMMA CInvHolds == TlsSpec => []CInv
<1>1. TlsInit => CInv
  BY TInvInit, SerialInit, CoversInit DEF CInv
<1>2. CInv /\ [TlsNext]_tlsVars => Named' /\ Current'
  BY CommandCovers, StartCovers, IssueCovers, OthersCovers DEF TlsNext
<1>3. TInv /\ Serial /\ [TlsNext]_tlsVars => Serial'
  BY CommandSerial, StartSerial, IssueSerial, OthersSerial DEF TlsNext
<1>4. CInv /\ [TlsNext]_tlsVars => CInv'
  BY <1>2, <1>3, TInvStep DEF CInv
<1>5. QED
  BY <1>1, <1>4, PTL DEF TlsSpec

(* Whatever dies or fails to be written, registry.toml included: while      *)
(* nobody changes the registry, and the last write of its file was followed *)
(* by a re-issue, the certificate served is valid for the host of every     *)
(* registered app and instance.  The start, which reads the file without    *)
(* the lock and perhaps truncated, is no exception; nor is a save that      *)
(* fails before it has touched the file.                                    *)
THEOREM EveryAppCoveredHolds == TlsSpec => []EveryAppCovered
<1>1. CInv => EveryAppCovered
  <2>1. CInv => file \in SUBSET Keys
    BY DEF CInv, TInv, TlsTypeOK
  <2>2. QED
    BY <2>1, SansMatch DEF CInv, Named, Current, Settled, EveryAppCovered
<1>2. QED
  BY <1>1, CInvHolds, PTL

-----------------------------------------------------------------------------
(* A whole CA is one whose certificate is of its key: not between the two   *)
(* steps of generate_ca that replace them, nor after it has failed between  *)
(* them.  Unless install-ca goes on while a leaf is being issued, what is   *)
(* signed by a whole CA chains to it, and a leaf on disk that does not is   *)
(* yet to be removed.                                                       *)

Between == <<"cert", "rmleaf", "rmleafkey">>
Keyless == <<"rmca", "rmleaf", "rmleafkey">>
Dropping == <<"rmleaf", "rmleafkey">>
Last == <<"rmleafkey">>

Scripts ==
  {<<>>, generate_ca, Between, delete_ca, Keyless, Dropping, Last}

(* What is left to do does not remove the leaf, or nothing was done yet.    *)
Keeps(steps) == steps \in {<<>>, generate_ca, delete_ca, Last}

Chained(cert) == cert.issuer = ca.cert /\ cert.signer = ca.cert

Unpaired == cli = Between => ca.key # ca.cert

TaskChained(k) ==
  /\ k.at = "sign" => k.issuer = ca.cert
  /\ k.at \in {"cert", "key"} /\ CaWhole => Chained(k.cert)

TasksChained == ~crossed => \A t \in Tasks : TaskChained(task[t])

DiskChained ==
  ~crossed /\ Keeps(cli) /\ CaWhole /\ disk.cert \in Leaf => Chained(disk.cert)

Chain == cli \in Scripts /\ Unpaired /\ TasksChained /\ DiskChained

LEMMA ChainInit == TlsInit => Chain
<1> SUFFICES ASSUME TlsInit PROVE Chain
  OBVIOUS
<1>1. \A t \in Tasks : task[t].at \in {"exists", "idle"}
  BY DEF TlsInit, Rest
<1>2. disk.cert \notin Leaf
  BY LeafAssumption DEF TlsInit
<1>3. QED
  BY <1>1, <1>2
     DEF TlsInit, Chain, Scripts, Unpaired, Between, TasksChained, TaskChained, DiskChained

(* The steps of install-ca, from each script to the next.                   *)
LEMMA NextScript ==
  ASSUME cli \in Scripts, cli # <<>>
  PROVE  \/ cli = generate_ca /\ Head(cli) = "key" /\ Tail(cli) = Between
         \/ cli = Between /\ Head(cli) = "cert" /\ Tail(cli) = Dropping
         \/ cli = delete_ca /\ Head(cli) = "rmkey" /\ Tail(cli) = Keyless
         \/ cli = Keyless /\ Head(cli) = "rmca" /\ Tail(cli) = Dropping
         \/ cli = Dropping /\ Head(cli) = "rmleaf" /\ Tail(cli) = Last
         \/ cli = Last /\ Head(cli) = "rmleafkey" /\ Tail(cli) = <<>>
<1>1. /\ Head(generate_ca) = "key" /\ Tail(generate_ca) = Between
      /\ Head(delete_ca) = "rmkey" /\ Tail(delete_ca) = Keyless
  BY DEF generate_ca, delete_ca, Between, Keyless
<1>2. /\ Head(Between) = "cert" /\ Tail(Between) = Dropping
      /\ Head(Keyless) = "rmca" /\ Tail(Keyless) = Dropping
  BY DEF Between, Keyless, Dropping
<1>3. /\ Head(Dropping) = "rmleaf" /\ Tail(Dropping) = Last
      /\ Head(Last) = "rmleafkey" /\ Tail(Last) = <<>>
  BY DEF Dropping, Last
<1>4. QED
  BY <1>1, <1>2, <1>3 DEF Scripts

(* Scripts of different steps are different.                                *)
LEMMA ScriptsDiffer ==
  /\ <<>> \notin {generate_ca, delete_ca, Between, Last}
  /\ Between \notin {generate_ca, delete_ca, Keyless, Dropping, Last}
  /\ Keyless \notin {<<>>, generate_ca, delete_ca, Dropping, Last}
  /\ ~Keeps(Between) /\ ~Keeps(Keyless) /\ ~Keeps(Dropping)
<1>1. /\ Len(generate_ca) = 4 /\ Len(delete_ca) = 4 /\ Len(Between) = 3
      /\ Len(Keyless) = 3 /\ Len(Dropping) = 2 /\ Len(Last) = 1
  BY DEF generate_ca, delete_ca, Between, Keyless, Dropping, Last
<1>2. Between # Keyless
  BY DEF Between, Keyless
<1>3. QED
  BY <1>1, <1>2 DEF Keeps

(* Steps of install-ca that count find no task that issues a leaf.          *)
LEMMA CliTasks ==
  ASSUME TasksChained, UNCHANGED task,
         crossed' = (crossed \/ \E t \in Tasks : task[t].at \in Issuing)
  PROVE  TasksChained'
BY DEF TasksChained, TaskChained, Issuing

LEMMA CliChain ==
  ASSUME "interrupt" \notin Faults, TInv, Chain, CliStep
  PROVE  Chain'
<1>1. cli # <<>> /\ cli' = Tail(cli) /\ ca' \in CaAfter(Head(cli))
  BY DEF CliStep
<1>2. TasksChained' /\ (~crossed' => ~crossed)
  BY CliTasks DEF CliStep, Chain
<1>3. /\ ca \in [cert: CaKeys \cup {None, Torn}, key: CaKeys \cup {None}]
      /\ disk \in [cert: CertFile, key: KeyFile] /\ None \notin Leaf
  BY LeafAssumption DEF TInv, TlsTypeOK
<1>4. cli' \in Scripts
  BY <1>1, NextScript DEF Scripts, Chain
<1>5. CASE cli = generate_ca /\ Head(cli) = "key" /\ Tail(cli) = Between
  <2>1. ca'.key # ca'.cert
    BY <1>1, <1>3, <1>5 DEF CaAfter, FreshCaKey
  <2>2. QED
    BY <1>1, <1>2, <1>4, <1>5, <2>1, ScriptsDiffer DEF Chain, Unpaired, DiskChained
<1>6. CASE \/ cli = Between /\ Tail(cli) = Dropping
           \/ cli = Keyless /\ Tail(cli) = Dropping
           \/ cli = delete_ca /\ Tail(cli) = Keyless
  BY <1>1, <1>2, <1>4, <1>6, ScriptsDiffer DEF Chain, Unpaired, DiskChained
<1>7. CASE cli = Dropping /\ Head(cli) = "rmleaf" /\ Tail(cli) = Last
  <2>1. disk'.cert = None
    BY <1>1, <1>3, <1>7 DEF CliStep
  <2>2. QED
    BY <1>1, <1>2, <1>3, <1>4, <1>7, <2>1, ScriptsDiffer DEF Chain, Unpaired, DiskChained
<1>8. CASE cli = Last /\ Head(cli) = "rmleafkey" /\ Tail(cli) = <<>>
  <2>1. ca' = ca /\ disk'.cert = disk.cert
    BY <1>1, <1>3, <1>8 DEF CaAfter, CliStep
  <2>2. DiskChained'
    BY <1>2, <1>8, <2>1 DEF Chain, DiskChained, Chained, CaWhole, Keeps
  <2>3. QED
    BY <1>1, <1>2, <1>4, <1>8, <2>2, ScriptsDiffer DEF Chain, Unpaired
<1>9. QED
  BY <1>1, <1>5, <1>6, <1>7, <1>8, NextScript DEF Chain

(* generate_ca fails: before it has replaced the key, the CA is as it was,  *)
(* or without a key; after that, it is not whole.                           *)
LEMMA FailChain ==
  ASSUME TInv, Chain, CliFails
  PROVE  Chain'
<1>1. cli # <<>> /\ cli' = <<>> /\ UNCHANGED disk
  BY DEF CliFails
<1>2. TasksChained' /\ (~crossed' => ~crossed)
  BY CliTasks DEF CliFails, Chain
<1>3. /\ ca \in [cert: CaKeys \cup {None, Torn}, key: CaKeys \cup {None}]
      /\ Torn \notin CaKeys /\ None \notin CaKeys
  BY TasksAssumption DEF TInv, TlsTypeOK
<1>4. CASE Head(cli) = "key"
  <2>1. cli = generate_ca
    BY <1>1, <1>4, NextScript DEF Chain
  <2>2. CaWhole' => ca' = ca
    BY <1>3, <1>4 DEF CliFails, CaWhole
  <2>3. DiskChained'
    BY <1>1, <1>2, <2>1, <2>2 DEF Chain, DiskChained, Chained, CaWhole, Keeps
  <2>4. QED
    BY <1>1, <1>2, <2>3, ScriptsDiffer DEF Chain, Unpaired, Scripts
<1>5. CASE Head(cli) = "cert"
  <2>1. cli = Between
    BY <1>1, <1>5, NextScript DEF Chain
  <2>2. ca' = ca \/ ca' = [ca EXCEPT !.cert = Torn]
    BY <1>5 DEF CliFails
  <2>3. ~CaWhole'
    BY <1>3, <2>1, <2>2 DEF Chain, Unpaired, CaWhole
  <2>4. QED
    BY <1>1, <1>2, <2>3, ScriptsDiffer DEF Chain, Unpaired, Scripts, DiskChained
<1>6. QED
  BY <1>4, <1>5 DEF CliFails

(* install-ca begins, or the user removes the key between two of them.      *)
LEMMA UserChain ==
  ASSUME TInv, Chain, InstallCa \/ KeychainLost \/ UNCHANGED tlsVars
  PROVE  Chain'
<1>1. CASE InstallCa
  <2>1. /\ cli = <<>> /\ cli' \in {generate_ca, delete_ca}
        /\ UNCHANGED <<ca, disk, task, crossed>>
    BY <1>1 DEF InstallCa
  <2>2. cli' # Between
    BY <2>1, ScriptsDiffer
  <2>3. cli' \in Scripts
    BY <2>1 DEF Scripts
  <2>4. Unpaired' /\ TasksChained'
    BY <2>1, <2>2 DEF Chain, Unpaired, TasksChained, TaskChained, Chained, CaWhole
  <2>5. DiskChained'
    BY <2>1 DEF Chain, DiskChained, Chained, CaWhole, Keeps
  <2>6. QED
    BY <2>3, <2>4, <2>5 DEF Chain
<1>2. CASE KeychainLost
  <2>1. /\ cli = <<>> /\ ca'.key = None /\ ca'.cert = ca.cert
        /\ UNCHANGED <<cli, disk, task, crossed>>
    BY <1>2 DEF KeychainLost, TInv, TlsTypeOK
  <2>2. ~CaWhole'
    BY <2>1 DEF CaWhole
  <2>3. QED
    BY <2>1, <2>2, ScriptsDiffer DEF Chain, Unpaired, TasksChained, TaskChained, DiskChained
<1>3. CASE UNCHANGED tlsVars
  BY <1>3 DEF tlsVars, Chain, Unpaired, TasksChained, TaskChained, DiskChained, Chained,
              CaWhole
<1>4. QED
  BY <1>1, <1>2, <1>3

(* A step of one task, which may write the certificate it has signed, or    *)
(* tear the one on disk.                                                    *)
LEMMA TaskChain ==
  ASSUME TInv, Chain, NEW t \in Tasks, \A u \in Tasks \ {t} : task'[u] = task[u],
         UNCHANGED <<ca, cli, crossed>>,
         TaskChained(task[t]) => TaskChained(task'[t]),
         \/ disk'.cert = disk.cert \/ disk'.cert \notin Leaf
         \/ task[t].at = "cert" /\ disk'.cert = task[t].cert
  PROVE  Chain'
<1>1. Unpaired' /\ (CaWhole' <=> CaWhole)
  BY DEF Chain, Unpaired, CaWhole
<1>2. TasksChained'
  BY <1>1 DEF Chain, TasksChained, TaskChained, Chained
<1>3. DiskChained'
  <2>1. SUFFICES ASSUME ~crossed, Keeps(cli), CaWhole, disk'.cert \in Leaf
                 PROVE  Chained(disk'.cert)
    BY <1>1 DEF DiskChained, Chained
  <2>2. CASE task[t].at = "cert" /\ disk'.cert = task[t].cert
    <3>1. TaskChained(task[t])
      BY <2>1 DEF Chain, TasksChained
    <3>2. QED
      BY <2>1, <2>2, <3>1 DEF TaskChained
  <2>3. CASE disk'.cert = disk.cert
    BY <2>1, <2>3 DEF Chain, DiskChained
  <2>4. QED
    BY <2>1, <2>2, <2>3
<1>4. QED
  BY <1>1, <1>2, <1>3 DEF Chain

LEMMA RegistryChain ==
  ASSUME TInv, Chain,
         \/ \E h \in Handlers :
              \/ \E reg \in SUBSET Keys : Change(h, reg)
              \/ Truncate(h) \/ Write(h) \/ SaveFails(h) \/ Get(h) \/ Compare(h)
         \/ CaExists(Start) \/ Load(Start)
  PROVE  Chain'
<1>1. PICK t \in Tasks :
        \/ \E reg \in SUBSET Keys : Change(t, reg)
        \/ Truncate(t) \/ Write(t) \/ SaveFails(t) \/ Get(t) \/ Compare(t)
        \/ CaExists(t) \/ Load(t)
  BY DEF Tasks
<1>2. task \in [Tasks -> Task]
  BY DEF TInv, TlsTypeOK
<1>3. /\ \A u \in Tasks \ {t} : task'[u] = task[u]
      /\ UNCHANGED <<ca, cli, crossed, disk>>
  BY <1>1, <1>2
     DEF Change, Truncate, Write, SaveFails, Get, Compare, CaExists, Load, Goes, Ends
<1>4. task'[t].at \in {"idle", "off", "save", "torn", "saved", "compare", "load", "ensure"}
  <2>1. CASE \E reg \in SUBSET Keys : Change(t, reg)
    BY <1>2, <2>1 DEF Change, Task
  <2>2. CASE Truncate(t) \/ Write(t)
    BY <1>2, <2>2 DEF Truncate, Write, Goes, Task
  <2>3. CASE SaveFails(t) \/ Get(t) \/ CaExists(t)
    BY <1>2, <2>3 DEF SaveFails, Get, CaExists, Goes, Ends, Rest, Task
  <2>4. CASE Compare(t) \/ Load(t)
    BY <1>2, <2>4 DEF Compare, Load, Ends, Rest, Task
  <2>5. QED
    BY <1>1, <2>1, <2>2, <2>3, <2>4
<1>5. TaskChained(task'[t])
  BY <1>4 DEF TaskChained
<1>6. QED
  BY <1>3, <1>5, TaskChain

LEMMA IssueChain ==
  ASSUME TInv, Chain, NEW t \in Tasks, Issue(t)
  PROVE  Chain'
<1>1. /\ task \in [Tasks -> Task] /\ task[t] \in Task
      /\ disk \in [cert: CertFile, key: KeyFile] /\ Torn \notin Leaf
  BY LeafAssumption DEF TInv, TlsTypeOK
<1>2. \A u \in Tasks \ {t} : task'[u] = task[u]
  BY <1>1 DEF Issue, Ensure, ReadCa, Sign, WriteCert, WriteKey, Install, Fails, Goes, Ends
<1>3. UNCHANGED <<ca, cli, crossed>>
  BY DEF Issue, Ensure, ReadCa, Sign, WriteCert, WriteKey, Install, Fails
<1>4. TaskChained(task[t]) => TaskChained(task'[t])
  <2>1. CASE Ensure(t)
    <3>1. task'[t].at \in {"issue", "install"}
      BY <1>1, <2>1 DEF Ensure, Task
    <3>2. QED
      BY <3>1 DEF TaskChained
  <2>2. CASE ReadCa(t)
    BY <1>1, <2>2 DEF ReadCa, Task, TaskChained
  <2>3. CASE Sign(t)
    <3>1. PICK p \in LeafKeys :
            task'[t] = [task[t] EXCEPT !.at = "cert", !.key = p, !.cert =
              [sans |-> task[t].sans, issuer |-> task[t].issuer,
               signer |-> ca.key, pair |-> p]]
      BY <1>1, <2>3 DEF Sign
    <3>2. /\ task'[t].at = "cert" /\ task'[t].cert.issuer = task[t].issuer
          /\ task'[t].cert.signer = ca.key
      BY <1>1, <3>1 DEF Task
    <3>3. task[t].at = "sign"
      BY <2>3 DEF Sign
    <3>4. QED
      BY <3>2, <3>3 DEF TaskChained, Chained, CaWhole
  <2>4. CASE WriteCert(t) \/ WriteKey(t)
    BY <1>1, <2>4 DEF WriteCert, WriteKey, Goes, Task, TaskChained, Chained
  <2>5. CASE Install(t) \/ Fails(t)
    <3>1. \E at \in {"idle", "off"} : Ends(t, at)
      BY <2>5 DEF Install, Fails
    <3>2. task'[t].at \in {"idle", "off"}
      BY <1>1, <3>1 DEF Ends, Rest
    <3>3. QED
      BY <3>2 DEF TaskChained
  <2>6. QED
    BY <2>1, <2>2, <2>3, <2>4, <2>5 DEF Issue
<1>5. \/ disk'.cert = disk.cert \/ disk'.cert \notin Leaf
      \/ task[t].at = "cert" /\ disk'.cert = task[t].cert
  <2>1. CASE WriteCert(t) \/ WriteKey(t)
    BY <1>1, <2>1 DEF WriteCert, WriteKey
  <2>2. CASE Fails(t)
    BY <1>1, <2>2 DEF Fails, PerhapsTorn, Written
  <2>3. CASE Ensure(t) \/ ReadCa(t) \/ Sign(t) \/ Install(t)
    BY <2>3 DEF Ensure, ReadCa, Sign, Install
  <2>4. QED
    BY <2>1, <2>2, <2>3 DEF Issue
<1>6. QED
  BY <1>2, <1>3, <1>4, <1>5, TaskChain

LEMMA RestartChain ==
  ASSUME TInv, Chain, Restart
  PROVE  Chain'
<1>1. \A t \in Tasks : task'[t].at \in {"exists", "idle"}
  BY DEF Restart, Rest
<1>2. disk'.cert = disk.cert \/ disk'.cert \notin Leaf
  BY LeafAssumption DEF Restart, PerhapsTorn, Written
<1>3. UNCHANGED <<ca, cli, crossed>>
  BY DEF Restart
<1>4. QED
  BY <1>1, <1>2, <1>3
     DEF Chain, Unpaired, TasksChained, TaskChained, DiskChained, Chained, CaWhole

(* Unless install-ca is interrupted: a leaf that is found on disk chains to *)
(* the CA, if that has its own key, although the two processes take no      *)
(* notice of each other, the daemon may die and its writes fail, and        *)
(* generate_ca may return an error at any of its steps, so that the old     *)
(* leaf stays; as long as no leaf was being issued at a step of install-ca. *)
THEOREM LeafChainsHolds ==
  ASSUME "interrupt" \notin Faults
  PROVE  TlsSpec => []LeafChains
<1> DEFINE HInv == TInv /\ Chain
<1>1. TlsInit => HInv
  BY TInvInit, ChainInit
<1>2. HInv /\ [TlsNext]_tlsVars => HInv'
  <2>1. HInv /\ [TlsNext]_tlsVars => Chain'
    BY CliChain, FailChain, UserChain, RegistryChain, IssueChain, RestartChain DEF TlsNext
  <2>2. QED
    BY <2>1, TInvStep
<1>3. HInv => LeafChains
  BY DEF Chain, DiskChained, Chained, Keeps, LeafChains
<1>4. QED
  BY <1>1, <1>2, <1>3, PTL DEF TlsSpec
=============================================================================
