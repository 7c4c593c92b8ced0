-------------------------- MODULE LogPipelineProofs --------------------------
(***************************************************************************)
(* Theorems about LogPipeline, for any number of runs and lines and any     *)
(* size of a pipe: streams are logged without holes, and the records of a   *)
(* run are not mixed, whatever fails.                                       *)
(***************************************************************************)
EXTENDS LogPipeline, TLAPS

(* The last line a task took from its pipe, the rest being in the pipe.     *)
Taken(s) == sent[s] - Len(pipe[s])

Has(f, p) == \E i \in DOMAIN f : f[i] = p

(* The pipe of a source holds the lines printed last, in order; what is in  *)
(* the file was taken from it.                                              *)
PipesHold ==
  \A s \in Sources :
    /\ Len(pipe[s]) <= sent[s]
    /\ \A i \in 1 .. Len(pipe[s]) : pipe[s][i].n = Taken(s) + i
    /\ reader[s].at = "none" => sent[s] = 0

FileTaken ==
  \A j \in DOMAIN file : file[j].line \in 1 .. Taken(file[j].source)

(* Where a task is says what it has written of the line it took last.       *)
TaskWrote(s) ==
  /\ reader[s].at = "read" /\ Taken(s) > 0 => Has(file, Half(s, Taken(s), 2))
  /\ reader[s].at \in {"wait", "first"} =>
       /\ reader[s].line = Taken(s) /\ Taken(s) > 0
       /\ \A j \in DOMAIN file : file[j].source = s => file[j].line < Taken(s)
       /\ Taken(s) > 1 => Has(file, Half(s, Taken(s) - 1, 2))
  /\ reader[s].at = "second" =>
       /\ reader[s].line = Taken(s) /\ Taken(s) > 0
       /\ ~Has(file, Half(s, Taken(s), 2))

TasksWrote == \A s \in Sources : TaskWrote(s)

(* The half a record of a task that holds the mutex of its run is the last  *)
(* write of that run.                                                       *)
HalfLast(s) ==
  reader[s].at = "second" =>
    \E i \in DOMAIN file :
      /\ file[i] = Half(s, reader[s].line, 1)
      /\ \A k \in i + 1 .. Len(file) : file[k].source.run # s.run

SecondFollows == \A s \in Sources : HalfLast(s)

LInv ==
  /\ LogTypeOK /\ PipesHold /\ FileTaken /\ TasksWrote /\ SecondFollows
  /\ NoHoles /\ RecordsWhole

-----------------------------------------------------------------------------
LEMMA Appended ==
  ASSUME file \in Seq(Writes), NEW p \in Writes, file' = Append(file, p)
  PROVE  /\ file' \in Seq(Writes) /\ Len(file') = Len(file) + 1
         /\ DOMAIN file = 1 .. Len(file) /\ DOMAIN file' = 1 .. Len(file) + 1
         /\ \A i \in DOMAIN file : file'[i] = file[i]
         /\ file'[Len(file) + 1] = p
  OBVIOUS

LEMMA FileTyped ==
  ASSUME LInv
  PROVE  /\ file \in Seq(Writes) /\ Len(file) \in Nat /\ DOMAIN file = 1 .. Len(file)
         /\ \A j \in DOMAIN file : /\ file[j].source \in Sources /\ file[j].line \in Nat
                                    /\ file[j].half \in {1, 2}
<1>1. file \in Seq(Writes)
  BY DEF LInv, LogTypeOK
<1>2. Len(file) \in Nat /\ DOMAIN file = 1 .. Len(file)
  BY <1>1
<1>3. \A j \in DOMAIN file : file[j] \in Writes
  BY <1>1
<1>4. QED  BY <1>1, <1>2, <1>3 DEF Writes

LEMMA SourceTyped ==
  ASSUME LInv, NEW s \in Sources
  PROVE  /\ sent[s] \in Nat /\ pipe[s] \in Seq(Lines) /\ Len(pipe[s]) \in Nat
         /\ reader[s] \in Tasks /\ Taken(s) \in Nat
<1>1. sent[s] \in Nat /\ pipe[s] \in Seq(Lines) /\ reader[s] \in Tasks
  BY DEF LInv, LogTypeOK
<1>2. Len(pipe[s]) \in Nat /\ Len(pipe[s]) <= sent[s]
  BY <1>1 DEF LInv, PipesHold
<1>3. QED  BY <1>1, <1>2 DEF Taken

(* A step that leaves the file alone and takes back no line.                *)
LEMMA FileKept ==
  ASSUME LInv, UNCHANGED file, sent' \in [Sources -> Nat],
         \A s \in Sources : sent'[s] >= sent[s]
  PROVE  NoHoles' /\ RecordsWhole'
<1>1. ASSUME NEW j \in DOMAIN file, file[j].line \in 1 .. sent[file[j].source]
      PROVE  file[j].line \in 1 .. sent'[file[j].source]
  BY <1>1, FileTyped, SourceTyped
<1>2. NoHoles'
  BY <1>1 DEF LInv, NoHoles
<1>3. RecordsWhole'
  BY DEF LInv, RecordsWhole
<1>4. QED  BY <1>2, <1>3

LEMMA LInvInit == LogInit => LInv
<1> SUFFICES ASSUME LogInit PROVE LInv  OBVIOUS
<1> USE LogAssumption DEF LogInit
<1>1. \A s \in Sources : s.run \in Runs /\ s.run >= 1 /\ (s.run # 1 => 1 < s.run)
  BY DEF Sources, Runs
<1>2. LogTypeOK
  <2>1. reader \in [Sources -> Tasks]
    BY DEF Tasks, At
  <2>2. \A s \in Sources : reader[s].at \notin Writing /\ (reader[s].at = "none" <=> run < s.run)
    BY <1>1 DEF At, Writing
  <2>3. run \in Runs /\ open \subseteq 1 .. run /\ seen \in 0 .. Len(file)
        /\ file \in Seq(Writes) /\ sent \in [Sources -> Nat] /\ holder \in [Runs -> SUBSET Sources]
    BY DEF Runs
  <2>4. pipe \in [Sources -> Seq(Lines)] /\ \A s \in Sources : Len(pipe[s]) = 0
    OBVIOUS
  <2>5. \A r \in Runs : holder[r] = {}
    OBVIOUS
  <2>6. QED  BY <2>1, <2>2, <2>3, <2>4, <2>5 DEF LogTypeOK
<1>3. PipesHold /\ FileTaken /\ TasksWrote /\ SecondFollows
  BY DEF PipesHold, FileTaken, TasksWrote, TaskWrote, SecondFollows, HalfLast, Taken, At
<1>4. NoHoles /\ RecordsWhole
  BY DEF NoHoles, RecordsWhole
<1>5. QED  BY <1>2, <1>3, <1>4 DEF LInv

LEMMA PrintKeeps ==
  ASSUME LInv, NEW s \in Sources, NEW utf8 \in BOOLEAN, WriteOut(s, utf8)
  PROVE  LInv'
<1> DEFINE line == [n |-> sent[s] + 1, utf8 |-> utf8]
<1> USE DEF WriteOut
<1>1. /\ sent[s] \in Nat /\ pipe[s] \in Seq(Lines) /\ line \in Lines
      /\ sent'[s] = sent[s] + 1 /\ pipe'[s] = Append(pipe[s], line)
      /\ \A t \in Sources : t # s => sent'[t] = sent[t] /\ pipe'[t] = pipe[t]
      /\ sent' \in [Sources -> Nat]
  BY DEF LInv, LogTypeOK, Lines
<1>2. /\ Len(pipe'[s]) = Len(pipe[s]) + 1 /\ pipe'[s] \in Seq(Lines)
      /\ \A i \in 1 .. Len(pipe[s]) : pipe'[s][i] = pipe[s][i]
      /\ pipe'[s][Len(pipe[s]) + 1] = line
  BY <1>1
<1>3. \A t \in Sources : Taken(t)' = Taken(t) /\ Taken(t) \in Int
  <2>1. \A t \in Sources : sent[t] \in Nat /\ Len(pipe[t]) \in Nat
    BY DEF LInv, LogTypeOK
  <2>2. QED  BY <1>1, <1>2, <2>1 DEF Taken
<1>4. LogTypeOK'
  BY <1>1, <1>2, LogAssumption DEF LInv, LogTypeOK, Lines
<1>5. PipesHold'
  <2>1. SUFFICES ASSUME NEW t \in Sources
                 PROVE  /\ Len(pipe'[t]) <= sent'[t]
                        /\ \A i \in 1 .. Len(pipe'[t]) : pipe'[t][i].n = Taken(t)' + i
                        /\ reader'[t].at = "none" => sent'[t] = 0
    BY DEF PipesHold
  <2>2. CASE t = s
    <3>1. run >= s.run /\ reader[s].at # "none"
      BY DEF LInv, LogTypeOK, Runs, Sources
    <3>2. QED
      BY <1>1, <1>2, <1>3, <2>2, <3>1 DEF LInv, PipesHold, Taken
  <2>3. CASE t # s
    BY <1>1, <1>3, <2>3 DEF LInv, PipesHold
  <2>4. QED  BY <2>2, <2>3
<1>6. FileTaken' /\ TasksWrote' /\ SecondFollows'
  <2>1. \A j \in DOMAIN file : file[j].source \in Sources
    BY FileTyped
  <2>2. FileTaken'
    BY <1>3, <2>1 DEF LInv, FileTaken
  <2>3. TasksWrote'
    BY <1>3 DEF LInv, TasksWrote, TaskWrote, Has
  <2>4. SecondFollows'
    BY DEF LInv, SecondFollows, HalfLast
  <2>5. QED  BY <2>2, <2>3, <2>4
<1>7. NoHoles' /\ RecordsWhole'
  <2>1. \A t \in Sources : sent'[t] >= sent[t]
    BY <1>1 DEF LInv, LogTypeOK
  <2>2. QED  BY <1>1, <2>1, FileKept
<1>8. QED  BY <1>4, <1>5, <1>6, <1>7 DEF LInv

-----------------------------------------------------------------------------
(* What a step that leaves the file alone may do to a task: nothing much,   *)
(* end it, start it, or have it take a line.                                *)
Stays(t) ==
  /\ pipe'[t] = pipe[t]
  /\ \/ reader'[t] = reader[t]
     \/ /\ reader[t].at = "wait" /\ reader'[t].at = "first"
        /\ reader'[t].line = reader[t].line
Stops(t) == pipe'[t] = <<>> /\ reader'[t].at \in Ended
Begins(t) == pipe'[t] = pipe[t] /\ reader[t].at = "none" /\ reader'[t].at = "read"
Takes(t) ==
  /\ reader[t].at = "read" /\ pipe[t] # <<>> /\ pipe'[t] = Tail(pipe[t])
  /\ reader'[t].at = "wait" /\ reader'[t].line = Head(pipe[t]).n

(* A source, before and after such a step.                                  *)
LEMMA TaskMoves ==
  ASSUME LInv, NEW t \in Sources, sent'[t] = sent[t],
         Stays(t) \/ Stops(t) \/ Begins(t) \/ Takes(t)
  PROVE  /\ Taken(t)' \in Nat /\ Taken(t)' >= Taken(t)
         /\ Len(pipe'[t]) <= sent'[t]
         /\ \A i \in 1 .. Len(pipe'[t]) : pipe'[t][i].n = Taken(t)' + i
         /\ Stays(t) \/ Begins(t) => Taken(t)' = Taken(t)
         /\ Begins(t) => Taken(t) = 0
         /\ Takes(t) => Taken(t)' = Taken(t) + 1 /\ reader'[t].line = Taken(t)'
<1>1. /\ sent[t] \in Nat /\ pipe[t] \in Seq(Lines) /\ Len(pipe[t]) \in Nat
      /\ Taken(t) \in Nat
  BY SourceTyped
<1>2. /\ Len(pipe[t]) <= sent[t]
      /\ \A i \in 1 .. Len(pipe[t]) : pipe[t][i].n = Taken(t) + i
      /\ reader[t].at = "none" => sent[t] = 0
  BY DEF LInv, PipesHold
<1>3. CASE Stays(t)
  BY <1>1, <1>2, <1>3 DEF Stays, Begins, Takes, Taken
<1>4. CASE Stops(t)
  BY <1>1, <1>2, <1>4 DEF Stops, Stays, Begins, Takes, Taken, Ended
<1>5. CASE Begins(t)
  BY <1>1, <1>2, <1>5 DEF Stays, Begins, Takes, Taken
<1>6. CASE Takes(t)
  <2>1. /\ Len(pipe[t]) > 0 /\ Len(pipe'[t]) = Len(pipe[t]) - 1
        /\ \A i \in 1 .. Len(pipe'[t]) : pipe'[t][i] = pipe[t][i + 1]
        /\ Head(pipe[t]) = pipe[t][1]
    BY <1>1, <1>6 DEF Takes
  <2>2. Taken(t)' = Taken(t) + 1
    BY <1>1, <2>1 DEF Taken
  <2>3. reader'[t].line = Taken(t)'
    BY <1>1, <1>2, <1>6, <2>1, <2>2 DEF Takes
  <2>4. \A i \in 1 .. Len(pipe'[t]) : pipe'[t][i].n = Taken(t)' + i
    <3>1. SUFFICES ASSUME NEW i \in 1 .. Len(pipe'[t])
                   PROVE  pipe'[t][i].n = Taken(t)' + i
      OBVIOUS
    <3>2. i \in Nat /\ i + 1 \in 1 .. Len(pipe[t])
      BY <1>1, <2>1
    <3>3. pipe'[t][i] = pipe[t][i + 1]
      BY <2>1
    <3>4. pipe[t][i + 1].n = Taken(t) + (i + 1)
      BY <1>2, <3>2
    <3>5. QED  BY <1>1, <2>2, <3>2, <3>3, <3>4
  <2>5. ~Stays(t) /\ ~Begins(t)
    BY <1>6 DEF Takes, Stays, Begins
  <2>6. Len(pipe'[t]) <= sent'[t] /\ Taken(t)' \in Nat /\ Taken(t)' >= Taken(t)
    BY <1>1, <1>2, <2>1, <2>2
  <2>7. QED  BY <2>2, <2>3, <2>4, <2>5, <2>6
<1>7. QED  BY <1>3, <1>4, <1>5, <1>6

LEMMA TasksMove ==
  ASSUME LInv, LogTypeOK', UNCHANGED <<file, sent>>,
         \A t \in Sources : Stays(t) \/ Stops(t) \/ Begins(t) \/ Takes(t)
  PROVE  LInv'
<1>1. \A t \in Sources : Taken(t) \in Nat /\ Taken(t)' \in Nat /\ Taken(t)' >= Taken(t)
  BY TaskMoves, SourceTyped
<1>2. PipesHold'
  <2>1. SUFFICES ASSUME NEW t \in Sources
                 PROVE  reader'[t].at = "none" => sent'[t] = 0
    BY TaskMoves DEF PipesHold
  <2>2. reader'[t].at = "none" => reader[t].at = "none"
    BY DEF Stays, Stops, Begins, Takes, Ended
  <2>3. QED  BY <2>2 DEF LInv, PipesHold
<1>3. FileTaken'
  <2>1. SUFFICES ASSUME NEW j \in DOMAIN file
                 PROVE  file[j].line \in 1 .. Taken(file[j].source)'
    BY DEF FileTaken
  <2>2. file[j].line \in 1 .. Taken(file[j].source) /\ file[j].source \in Sources
    BY FileTyped DEF LInv, FileTaken
  <2>3. QED  BY <1>1, <2>2
<1>4. TasksWrote'
  <2>1. SUFFICES ASSUME NEW t \in Sources
                 PROVE  /\ reader'[t].at = "read" /\ Taken(t)' > 0
                             => Has(file, Half(t, Taken(t)', 2))
                        /\ reader'[t].at \in {"wait", "first"} =>
                             /\ reader'[t].line = Taken(t)' /\ Taken(t)' > 0
                             /\ \A j \in DOMAIN file :
                                  file[j].source = t => file[j].line < Taken(t)'
                             /\ Taken(t)' > 1 => Has(file, Half(t, Taken(t)' - 1, 2))
                        /\ reader'[t].at = "second" =>
                             /\ reader'[t].line = Taken(t)' /\ Taken(t)' > 0
                             /\ ~Has(file, Half(t, Taken(t)', 2))
    BY DEF TasksWrote, TaskWrote, Has, Half
  <2>2. CASE Stays(t)
    BY <2>2, TaskMoves DEF LInv, TasksWrote, TaskWrote, Stays
  <2>3. CASE Stops(t)
    BY <2>3 DEF Stops, Ended
  <2>4. CASE Begins(t)
    BY <2>4, TaskMoves DEF Begins
  <2>5. CASE Takes(t)
    <3>1. Taken(t)' = Taken(t) + 1 /\ reader'[t].line = Taken(t)'
      BY <2>5, TaskMoves
    <3>2. \A j \in DOMAIN file : file[j].source = t => file[j].line < Taken(t)'
      BY <1>1, <3>1, FileTyped DEF LInv, FileTaken
    <3>3. Taken(t) > 0 => Has(file, Half(t, Taken(t), 2))
      BY <2>5 DEF LInv, TasksWrote, TaskWrote, Takes
    <3>4. QED  BY <1>1, <2>5, <3>1, <3>2, <3>3 DEF Takes
  <2>6. QED  BY <2>2, <2>3, <2>4, <2>5
<1>5. SecondFollows'
  <2>1. \A t \in Sources : reader'[t].at = "second" => reader'[t] = reader[t]
    BY DEF Stays, Stops, Begins, Takes, Ended
  <2>2. QED  BY <2>1 DEF LInv, SecondFollows, HalfLast
<1>6. NoHoles' /\ RecordsWhole'
  <2>1. sent' \in [Sources -> Nat] /\ \A t \in Sources : sent'[t] >= sent[t]
    BY SourceTyped DEF LInv, LogTypeOK
  <2>2. QED  BY <2>1, FileKept
<1>7. QED  BY <1>2, <1>3, <1>4, <1>5, <1>6 DEF LInv

LEMMA ReadLineKeeps ==
  ASSUME LInv, NEW s \in Sources, ReadLine(s)
  PROVE  LInv'
<1> USE DEF ReadLine
<1>1. /\ pipe[s] \in Seq(Lines) /\ pipe[s] # <<>> /\ Len(pipe[s]) <= PipeSize
      /\ reader \in [Sources -> Tasks] /\ pipe \in [Sources -> Seq(Lines)]
  BY SourceTyped DEF LInv, LogTypeOK
<1>2. Head(pipe[s]) \in Lines /\ Tail(pipe[s]) \in Seq(Lines) /\ Len(Tail(pipe[s])) <= PipeSize
  BY <1>1, LogAssumption
<1>3. At("wait", Head(pipe[s]).n) \in Tasks /\ At("done", 0) \in Tasks
  BY <1>2 DEF At, Tasks, Lines, Ended
<1>4. \A t \in Sources : t # s => reader'[t] = reader[t] /\ pipe'[t] = pipe[t]
  BY <1>1
<1>5. Takes(s) \/ Stops(s)
  <2>1. CASE Head(pipe[s]).utf8
    <3>1. reader'[s] = At("wait", Head(pipe[s]).n) /\ pipe'[s] = Tail(pipe[s])
      BY <1>1, <2>1
    <3>2. QED  BY <3>1, <1>1 DEF Takes, At
  <2>2. CASE ~Head(pipe[s]).utf8
    <3>1. reader'[s] = At("done", 0) /\ pipe'[s] = <<>>
      BY <1>1, <2>2
    <3>2. QED  BY <3>1 DEF Stops, At, Ended
  <2>3. QED  BY <2>1, <2>2
<1>6. LogTypeOK'
  <2>1. reader' \in [Sources -> Tasks] /\ pipe' \in [Sources -> Seq(Lines)]
    BY <1>1, <1>2, <1>3
  <2>2. /\ reader'[s].at \notin Writing /\ reader[s].at \notin Writing
        /\ reader'[s].at # "none" /\ reader[s].at # "none" /\ Len(pipe'[s]) <= PipeSize
    BY <1>1, <1>2, <1>5, LogAssumption DEF Takes, Stops, Writing, Ended
  <2>3. QED  BY <1>4, <2>1, <2>2 DEF LInv, LogTypeOK
<1>7. \A t \in Sources : Stays(t) \/ Stops(t) \/ Begins(t) \/ Takes(t)
  BY <1>4, <1>5 DEF Stays
<1>8. QED  BY <1>6, <1>7, TasksMove

LEMMA ReadEndKeeps ==
  ASSUME LInv, NEW s \in Sources, ReadEnd(s)
  PROVE  LInv'
<1> USE DEF ReadEnd
<1>1. reader \in [Sources -> Tasks] /\ At("done", 0) \in Tasks
  BY DEF LInv, LogTypeOK, At, Tasks, Ended
<1>2. reader'[s].at = "done" /\ \A t \in Sources : t # s => reader'[t] = reader[t]
  BY <1>1 DEF At
<1>3. LogTypeOK'
  <2>1. reader' \in [Sources -> Tasks]
    BY <1>1
  <2>2. QED  BY <1>2, <2>1 DEF LInv, LogTypeOK, Writing
<1>4. \A t \in Sources : Stays(t) \/ Stops(t) \/ Begins(t) \/ Takes(t)
  BY <1>2 DEF Stays, Stops, Ended
<1>5. QED  BY <1>3, <1>4, TasksMove

LEMMA LockKeeps ==
  ASSUME LInv, NEW s \in Sources, Lock(s)
  PROVE  LInv'
<1> USE DEF Lock
<1>1. /\ reader \in [Sources -> Tasks] /\ reader[s] \in Tasks /\ s.run \in Runs
      /\ holder \in [Runs -> SUBSET Sources]
  BY DEF LInv, LogTypeOK, Sources
<1>2. /\ reader'[s].at = "first" /\ reader'[s].line = reader[s].line
      /\ \A t \in Sources : t # s => reader'[t] = reader[t]
      /\ reader' \in [Sources -> Tasks]
  BY <1>1 DEF Tasks, Writing
<1>3. LogTypeOK'
  <2>1. /\ holder'[s.run] = {s} /\ holder' \in [Runs -> SUBSET Sources]
        /\ \A r \in Runs : r # s.run => holder'[r] = holder[r]
    BY <1>1
  <2>2. \A t \in Sources : t # s => t \notin holder[s.run]
    OBVIOUS
  <2>3. ASSUME NEW t \in Sources, NEW r \in Runs
        PROVE  t \in holder'[r] <=> r = t.run /\ reader'[t].at \in Writing
    BY <1>1, <1>2, <2>1, <2>2, <2>3 DEF LInv, LogTypeOK, Writing
  <2>4. \A r \in Runs, t, u \in Sources : t \in holder'[r] /\ u \in holder'[r] => t = u
    BY <2>1 DEF LInv, LogTypeOK
  <2>5. \A t \in Sources : reader'[t].at = "none" <=> run < t.run
    BY <1>2 DEF LInv, LogTypeOK
  <2>6. QED  BY <1>2, <2>1, <2>3, <2>4, <2>5 DEF LInv, LogTypeOK
<1>4. \A t \in Sources : Stays(t) \/ Stops(t) \/ Begins(t) \/ Takes(t)
  BY <1>2 DEF Stays
<1>5. QED  BY <1>3, <1>4, TasksMove

LEMMA WriteFailsKeeps ==
  ASSUME LInv, NEW s \in Sources, WriteFails(s)
  PROVE  LInv'
<1> USE DEF WriteFails
<1>1. /\ reader \in [Sources -> Tasks] /\ At("done", 0) \in Tasks /\ s.run \in Runs
      /\ holder \in [Runs -> SUBSET Sources] /\ pipe \in [Sources -> Seq(Lines)]
  BY DEF LInv, LogTypeOK, Sources, At, Tasks, Ended
<1>2. /\ reader'[s].at = "done" /\ pipe'[s] = <<>>
      /\ \A t \in Sources : t # s => reader'[t] = reader[t] /\ pipe'[t] = pipe[t]
  BY <1>1 DEF At
<1>3. LogTypeOK'
  <2>1. /\ holder'[s.run] = {} /\ holder' \in [Runs -> SUBSET Sources]
        /\ \A r \in Runs : r # s.run => holder'[r] = holder[r]
    BY <1>1
  <2>2. s \in holder[s.run] /\ \A t \in Sources : t \in holder[s.run] => t = s
    BY <1>1 DEF LInv, LogTypeOK
  <2>3. ASSUME NEW t \in Sources, NEW r \in Runs
        PROVE  t \in holder'[r] <=> r = t.run /\ reader'[t].at \in Writing
    BY <1>1, <1>2, <2>1, <2>2, <2>3 DEF LInv, LogTypeOK, Writing
  <2>4. reader' \in [Sources -> Tasks] /\ pipe' \in [Sources -> Seq(Lines)]
    BY <1>1
  <2>5. \A t \in Sources : reader'[t].at = "none" <=> run < t.run
    BY <1>2 DEF LInv, LogTypeOK, Writing
  <2>6. \A t \in Sources : Len(pipe'[t]) <= PipeSize
    BY <1>2, LogAssumption DEF LInv, LogTypeOK
  <2>7. \A r \in Runs, t, u \in Sources : t \in holder'[r] /\ u \in holder'[r] => t = u
    BY <2>1 DEF LInv, LogTypeOK
  <2>8. QED  BY <2>1, <2>3, <2>4, <2>5, <2>6, <2>7 DEF LInv, LogTypeOK
<1>4. \A t \in Sources : Stays(t) \/ Stops(t) \/ Begins(t) \/ Takes(t)
  BY <1>2 DEF Stays, Stops, Ended
<1>5. QED  BY <1>3, <1>4, TasksMove

LEMMA CrashKeeps ==
  ASSUME LInv, Crash
  PROVE  LInv'
<1> USE DEF Crash
<1>1. /\ reader \in [Sources -> Tasks] /\ At("gone", 0) \in Tasks
      /\ pipe' = [t \in Sources |-> <<>>] /\ holder' = [r \in Runs |-> {}]
  BY DEF LInv, LogTypeOK, At, Tasks, Ended
<1>2. ASSUME NEW t \in Sources
      PROVE  \/ reader[t].at \in Ended /\ reader'[t] = reader[t]
             \/ reader[t].at = "none" /\ reader'[t] = reader[t]
             \/ reader[t].at \notin Ended \cup {"none"} /\ reader'[t] = At("gone", 0)
  OBVIOUS
<1>3. \A t \in Sources : reader'[t].at \notin Writing
  BY <1>2 DEF At, Ended, Writing
<1>4. \A t \in Sources : reader'[t].at = "none" <=> reader[t].at = "none"
  BY <1>2 DEF At, Ended
<1>5. LogTypeOK'
  <2>1. reader' \in [Sources -> Tasks]
    BY <1>1
  <2>2. pipe' \in [Sources -> Seq(Lines)] /\ \A t \in Sources : Len(pipe'[t]) = 0
    BY <1>1
  <2>3. holder' \in [Runs -> SUBSET Sources] /\ \A r \in Runs : holder'[r] = {}
    BY <1>1
  <2>4. QED
    BY <1>3, <1>4, <2>1, <2>2, <2>3, LogAssumption DEF LInv, LogTypeOK
<1>6. ASSUME NEW t \in Sources PROVE Stays(t) \/ Stops(t)
  <2>1. pipe'[t] = <<>>
    BY <1>1
  <2>2. CASE reader[t].at \in Ended
    BY <1>2, <2>1, <2>2 DEF Stops, Ended
  <2>3. CASE reader[t].at = "none"
    <3>1. sent[t] = 0 /\ Len(pipe[t]) <= sent[t] /\ pipe[t] \in Seq(Lines)
      BY <2>3, SourceTyped DEF LInv, PipesHold
    <3>2. pipe[t] = <<>>
      BY <3>1, SourceTyped
    <3>3. QED  BY <1>2, <2>1, <2>3, <3>2 DEF Stays, Ended
  <2>4. CASE reader[t].at \notin Ended \cup {"none"}
    BY <1>2, <2>1, <2>4 DEF Stops, At, Ended
  <2>5. QED  BY <2>2, <2>3, <2>4
<1>7. QED  BY <1>5, <1>6, TasksMove

LEMMA BootKeeps ==
  ASSUME LInv, Boot
  PROVE  LInv'
<1> USE DEF Boot
<1>1. /\ reader \in [Sources -> Tasks] /\ At("read", 0) \in Tasks
      /\ run \in Runs /\ run' = run + 1 /\ run' \in Runs
  BY LogAssumption DEF LInv, LogTypeOK, At, Tasks, Runs
<1>2. \A t \in Sources :
        /\ t.run \in Runs
        /\ t.run = run' => reader'[t] = At("read", 0) /\ reader[t].at = "none"
        /\ t.run # run' => reader'[t] = reader[t]
  <2>1. \A t \in Sources : t.run \in Runs  BY DEF Sources
  <2>2. QED  BY <1>1, <2>1 DEF LInv, LogTypeOK, Runs
<1>3. LogTypeOK'
  <2>1. reader' \in [Sources -> Tasks]
    BY <1>1
  <2>2. \A t \in Sources : reader'[t].at = "none" <=> run' < t.run
    BY <1>1, <1>2 DEF LInv, LogTypeOK, At, Runs
  <2>3. \A t \in Sources : reader'[t].at \in Writing <=> reader[t].at \in Writing
    BY <1>2 DEF At, Writing
  <2>4. open' \subseteq 1 .. run'
    BY <1>1 DEF LInv, LogTypeOK, Runs
  <2>5. QED  BY <1>1, <2>1, <2>2, <2>3, <2>4 DEF LInv, LogTypeOK
<1>4. \A t \in Sources : Stays(t) \/ Stops(t) \/ Begins(t) \/ Takes(t)
  BY <1>2 DEF Stays, Begins, At
<1>5. QED  BY <1>3, <1>4, TasksMove

LEMMA OthersKeep ==
  ASSUME LInv, (\E r \in Runs : CloseEnd(r)) \/ Follow
  PROVE  LInv'
<1>1. UNCHANGED <<run, sent, pipe, reader, holder, file>>
  BY DEF CloseEnd, Follow
<1>2. LogTypeOK'
  <2>1. open' \subseteq 1 .. run /\ seen' \in 0 .. Len(file)
    <3>1. open \subseteq 1 .. run /\ seen \in 0 .. Len(file) /\ Len(file) \in Nat
      BY FileTyped DEF LInv, LogTypeOK
    <3>2. CASE \E r \in Runs : CloseEnd(r)
      BY <3>1, <3>2 DEF CloseEnd
    <3>3. CASE Follow
      BY <3>1, <3>3 DEF Follow
    <3>4. QED  BY <3>2, <3>3
  <2>2. QED  BY <1>1, <2>1 DEF LInv, LogTypeOK
<1>3. QED  BY <1>1, <1>2, TasksMove DEF Stays

-----------------------------------------------------------------------------
(* Of one run, one task at a time writes.                                   *)
LEMMA OneWrites ==
  ASSUME LInv, NEW s \in Sources, NEW t \in Sources,
         reader[s].at \in Writing, reader[t].at \in Writing, s.run = t.run
  PROVE  s = t
<1>1. s.run \in Runs  BY DEF Sources
<1>2. s \in holder[s.run] /\ t \in holder[s.run]
  BY <1>1 DEF LInv, LogTypeOK
<1>3. QED  BY <1>1, <1>2 DEF LInv, LogTypeOK

(* The parts of the invariant that are about the other tasks, after a task  *)
(* has written a half of the line it took last.                             *)
LEMMA HalfWritten ==
  ASSUME LInv, NEW s \in Sources, reader[s].at \in Writing, NEW half \in {1, 2},
         file' = Append(file, Half(s, Taken(s), half)), UNCHANGED <<sent, pipe>>,
         \A t \in Sources : t # s => reader'[t] = reader[t]
  PROVE  /\ FileTaken' /\ file' \in Seq(Writes) /\ Len(file') = Len(file) + 1
         /\ \A i \in 1 .. Len(file) : file'[i] = file[i]
         /\ file'[Len(file) + 1] = Half(s, Taken(s), half)
         /\ \A q : Has(file', q) <=> Has(file, q) \/ q = Half(s, Taken(s), half)
         /\ \A t \in Sources : t # s => TaskWrote(t)' /\ HalfLast(t)'
<1> DEFINE p == Half(s, Taken(s), half)
<1>1. Taken(s) \in Nat /\ Taken(s) > 0 /\ Len(file) \in Nat
  BY SourceTyped, FileTyped DEF LInv, TasksWrote, TaskWrote, Writing
<1>2. p \in Writes /\ p.source = s /\ p.line = Taken(s) /\ p.half = half
  BY <1>1 DEF Half, Writes
<1>3. /\ file' \in Seq(Writes) /\ Len(file') = Len(file) + 1
      /\ DOMAIN file = 1 .. Len(file) /\ DOMAIN file' = 1 .. Len(file) + 1
      /\ \A i \in DOMAIN file : file'[i] = file[i]
      /\ file'[Len(file) + 1] = p
  <2>1. file \in Seq(Writes)  BY FileTyped
  <2>2. QED  BY <1>2, <2>1, Appended
<1> HIDE DEF p
<1>4. \A q : Has(file', q) <=> Has(file, q) \/ q = p
  <2>1. ASSUME NEW q PROVE Has(file', q) <=> Has(file, q) \/ q = p
    BY <1>1, <1>3 DEF Has
  <2>2. QED  BY <2>1
<1>5. \A t \in Sources : Taken(t)' = Taken(t)
  BY DEF Taken
<1>6. FileTaken'
  <2>1. ASSUME NEW j \in DOMAIN file'
        PROVE  file'[j].line \in 1 .. sent'[file'[j].source] - Len(pipe'[file'[j].source])
    <3>1. CASE j \in DOMAIN file
      <4>1. file'[j] = file[j] /\ file[j].line \in 1 .. Taken(file[j].source)
        BY <1>3, <3>1 DEF LInv, FileTaken
      <4>2. QED  BY <4>1 DEF Taken
    <3>2. CASE j = Len(file) + 1
      BY <1>1, <1>2, <1>3, <3>2 DEF Taken
    <3>3. QED  BY <1>1, <1>3, <3>1, <3>2
  <2>2. QED  BY <2>1 DEF FileTaken, Taken
<1>7. ASSUME NEW t \in Sources, t # s
      PROVE  TaskWrote(t)'
  <2>1. \A n : Half(t, n, 2) # p
    BY <1>2, <1>7 DEF Half
  <2>2. reader'[t] = reader[t] /\ Taken(t)' = Taken(t)
    BY <1>5, <1>7
  <2>3. \A n : Has(file', Half(t, n, 2)) <=> Has(file, Half(t, n, 2))
    BY <1>4, <2>1
  <2>4. TaskWrote(t)
    BY DEF LInv, TasksWrote
  <2>5. ASSUME reader[t].at \in {"wait", "first"}, NEW j \in DOMAIN file', file'[j].source = t
        PROVE  file'[j].line < Taken(t)
    <3>1. j \in DOMAIN file /\ file'[j] = file[j]
      BY <1>1, <1>2, <1>3, <1>7, <2>5
    <3>2. QED  BY <2>4, <2>5, <3>1 DEF TaskWrote
  <2>6. QED  BY <2>2, <2>3, <2>4, <2>5 DEF TaskWrote
<1>8. ASSUME NEW t \in Sources, t # s, reader'[t].at = "second"
      PROVE  HalfLast(t)'
  <2>1. reader'[t] = reader[t] /\ t.run # s.run
    BY <1>8, OneWrites DEF Writing
  <2>2. PICK i \in DOMAIN file :
          /\ file[i] = Half(t, reader[t].line, 1)
          /\ \A k \in i + 1 .. Len(file) : file[k].source.run # t.run
    BY <1>8, <2>1 DEF LInv, SecondFollows, HalfLast
  <2>3. \A k \in i + 1 .. Len(file') : file'[k].source.run # t.run
    BY <1>1, <1>2, <1>3, <2>1, <2>2
  <2>4. file'[i] = Half(t, reader'[t].line, 1) /\ i \in DOMAIN file'
    BY <1>1, <1>3, <2>1, <2>2
  <2>5. QED  BY <2>3, <2>4 DEF HalfLast
<1>9. \A t \in Sources : t # s => TaskWrote(t)' /\ HalfLast(t)'
  BY <1>7, <1>8 DEF HalfLast
<1>10. QED  BY <1>3, <1>4, <1>6, <1>9 DEF p

(* A write that follows the one before it, and for the second half of a     *)
(* record no other of its run, leaves the log without holes and whole.      *)
LEMMA Extended ==
  ASSUME LInv, NEW p \in Writes, file' = Append(file, p), UNCHANGED sent,
         p.line \in 1 .. sent[p.source],
         \A i \in DOMAIN file : file[i] # p,
         p.half = 2 => \E i \in DOMAIN file :
                         /\ file[i] = Half(p.source, p.line, 1)
                         /\ \A k \in i + 1 .. Len(file) : file[k].source.run # p.source.run,
         p.half = 1 /\ p.line > 1 => \E i \in DOMAIN file : file[i] = Half(p.source, p.line - 1, 2)
  PROVE  NoHoles' /\ RecordsWhole'
<1>1. /\ DOMAIN file = 1 .. Len(file) /\ DOMAIN file' = 1 .. Len(file) + 1
      /\ \A i \in DOMAIN file : file'[i] = file[i]
      /\ file'[Len(file) + 1] = p /\ Len(file) \in Nat
  <2>1. file \in Seq(Writes) /\ Len(file) \in Nat  BY FileTyped
  <2>2. QED  BY <2>1, Appended
<1>2. ASSUME NEW j \in DOMAIN file'
      PROVE  /\ file'[j].line \in 1 .. sent[file'[j].source]
             /\ \A i \in 1 .. j - 1 : file'[i] # file'[j]
             /\ file'[j].half = 2 =>
                  \E i \in 1 .. j - 1 : file'[i] = Half(file'[j].source, file'[j].line, 1)
             /\ file'[j].half = 1 /\ file'[j].line > 1 =>
                  \E i \in 1 .. j - 1 : file'[i] = Half(file'[j].source, file'[j].line - 1, 2)
  <2>1. CASE j \in DOMAIN file
    <3>1. file'[j] = file[j] /\ \A i \in 1 .. j - 1 : file'[i] = file[i]
      BY <1>1, <2>1
    <3>2. QED  BY <2>1, <3>1 DEF LInv, NoHoles
  <2>2. CASE j = Len(file) + 1
    <3>1. 1 .. j - 1 = DOMAIN file /\ file'[j] = p
      BY <1>1, <2>2
    <3>2. QED  BY <1>1, <3>1
  <2>3. QED  BY <1>1, <2>1, <2>2
<1>3. NoHoles'
  BY <1>2 DEF NoHoles
<1>4. ASSUME NEW j \in DOMAIN file', file'[j].half = 2
      PROVE  \E i \in 1 .. j - 1 :
               /\ file'[i] = Half(file'[j].source, file'[j].line, 1)
               /\ \A k \in i + 1 .. j - 1 : file'[k].source.run # file'[j].source.run
  <2>1. CASE j \in DOMAIN file
    <3>1. file'[j] = file[j] /\ \A i \in 1 .. j - 1 : file'[i] = file[i]
      BY <1>1, <2>1
    <3>2. PICK i \in 1 .. j - 1 :
            /\ file[i] = Half(file[j].source, file[j].line, 1)
            /\ \A k \in i + 1 .. j - 1 : file[k].source.run # file[j].source.run
      BY <1>4, <2>1, <3>1 DEF LInv, RecordsWhole
    <3>3. \A k \in i + 1 .. j - 1 : file'[k] = file[k]
      BY <1>1, <2>1, <3>1
    <3>4. QED  BY <3>1, <3>2, <3>3
  <2>2. CASE j = Len(file) + 1
    <3>1. 1 .. j - 1 = DOMAIN file /\ file'[j] = p /\ j - 1 = Len(file)
      BY <1>1, <2>2
    <3>2. PICK i \in DOMAIN file :
            /\ file[i] = Half(p.source, p.line, 1)
            /\ \A k \in i + 1 .. Len(file) : file[k].source.run # p.source.run
      BY <1>4, <3>1
    <3>3. \A k \in i + 1 .. j - 1 : file'[k] = file[k]
      BY <1>1, <3>1
    <3>4. QED  BY <1>1, <3>1, <3>2, <3>3
  <2>3. QED  BY <1>1, <2>1, <2>2
<1>5. RecordsWhole'
  BY <1>4 DEF RecordsWhole
<1>6. QED  BY <1>3, <1>5

LEMMA FirstHalfKeeps ==
  ASSUME LInv, NEW s \in Sources, WriteFirst(s)
  PROVE  LInv'
<1> USE DEF WriteFirst
<1>1. /\ reader \in [Sources -> Tasks] /\ reader[s] \in Tasks
      /\ Taken(s) \in Nat /\ Len(file) \in Nat
  BY SourceTyped, FileTyped DEF LInv, LogTypeOK
<1>2. /\ reader[s].line = Taken(s) /\ Taken(s) > 0 /\ Taken(s) <= sent[s]
      /\ \A j \in DOMAIN file : file[j].source = s => file[j].line < Taken(s)
      /\ Taken(s) > 1 => Has(file, Half(s, Taken(s) - 1, 2))
  BY SourceTyped DEF LInv, TasksWrote, TaskWrote, Taken
<1>3. /\ reader'[s].at = "second" /\ reader'[s].line = Taken(s)
      /\ \A t \in Sources : t # s => reader'[t] = reader[t]
      /\ reader' \in [Sources -> Tasks]
  BY <1>1, <1>2 DEF Tasks, Writing
<1>4. /\ FileTaken' /\ file' \in Seq(Writes) /\ Len(file') = Len(file) + 1
      /\ \A i \in 1 .. Len(file) : file'[i] = file[i]
      /\ file'[Len(file) + 1] = Half(s, Taken(s), 1)
      /\ \A q : Has(file', q) <=> Has(file, q) \/ q = Half(s, Taken(s), 1)
      /\ \A t \in Sources : t # s => TaskWrote(t)' /\ HalfLast(t)'
  <2>1. reader[s].at \in Writing /\ file' = Append(file, Half(s, Taken(s), 1))
    BY <1>2 DEF Writing
  <2>2. QED  BY <1>3, <2>1, HalfWritten
<1>5. LogTypeOK'
  <2>1. seen' \in 0 .. Len(file')
    BY <1>1, <1>4 DEF LInv, LogTypeOK
  <2>2. \A t \in Sources : /\ reader'[t].at \in Writing <=> reader[t].at \in Writing
                           /\ reader'[t].at = "none" <=> reader[t].at = "none"
    BY <1>3 DEF Writing
  <2>3. QED  BY <1>3, <1>4, <2>1, <2>2 DEF LInv, LogTypeOK
<1>6. PipesHold'
  <2>1. \A t \in Sources : Taken(t)' = Taken(t)
    BY DEF Taken
  <2>2. \A t \in Sources : reader'[t].at = "none" => reader[t].at = "none"
    BY <1>3
  <2>3. QED  BY <2>1, <2>2 DEF LInv, PipesHold
<1>7. TasksWrote'
  <2>1. ~Has(file, Half(s, Taken(s), 2))
    BY <1>1, <1>2, FileTyped DEF Has, Half
  <2>2. ~Has(file', Half(s, Taken(s), 2))
    BY <1>4, <2>1 DEF Half
  <2>3. TaskWrote(s)'
    BY <1>2, <1>3, <2>2 DEF TaskWrote, Taken
  <2>4. QED  BY <1>4, <2>3 DEF TasksWrote
<1>8. SecondFollows'
  <2>1. HalfLast(s)'
    BY <1>1, <1>3, <1>4 DEF HalfLast
  <2>2. QED  BY <1>4, <2>1 DEF SecondFollows
<1>9. NoHoles' /\ RecordsWhole'
  <2> DEFINE p == Half(s, Taken(s), 1)
  <2>1. p \in Writes /\ p.source = s /\ p.line = Taken(s) /\ p.half = 1
    BY <1>1 DEF Half, Writes
  <2>2. file' = Append(file, p)
    BY <1>2
  <2>3. \A i \in DOMAIN file : file[i] # p
    BY <1>1, <1>2, <2>1, FileTyped
  <2>4. p.line \in 1 .. sent[p.source]
    BY <1>1, <1>2, <2>1, SourceTyped
  <2>5. p.line > 1 => \E i \in DOMAIN file : file[i] = Half(p.source, p.line - 1, 2)
    BY <1>2, <2>1 DEF Has
  <2> HIDE DEF p
  <2>6. QED  BY <2>1, <2>2, <2>3, <2>4, <2>5, Extended
<1>10. QED  BY <1>4, <1>5, <1>6, <1>7, <1>8, <1>9 DEF LInv

LEMMA SecondHalfKeeps ==
  ASSUME LInv, NEW s \in Sources, WriteSecond(s)
  PROVE  LInv'
<1> USE DEF WriteSecond
<1>1. /\ reader \in [Sources -> Tasks] /\ reader[s] \in Tasks /\ At("read", 0) \in Tasks
      /\ Taken(s) \in Nat /\ Len(file) \in Nat
      /\ s.run \in Runs /\ holder \in [Runs -> SUBSET Sources]
  BY SourceTyped, FileTyped DEF LInv, LogTypeOK, At, Tasks, Sources
<1>2. /\ reader[s].line = Taken(s) /\ Taken(s) > 0 /\ Taken(s) <= sent[s]
      /\ ~Has(file, Half(s, Taken(s), 2))
  BY SourceTyped DEF LInv, TasksWrote, TaskWrote, Taken
<1>3. /\ reader'[s].at = "read"
      /\ \A t \in Sources : t # s => reader'[t] = reader[t]
      /\ reader' \in [Sources -> Tasks]
  BY <1>1 DEF At
<1>4. /\ FileTaken' /\ file' \in Seq(Writes) /\ Len(file') = Len(file) + 1
      /\ \A q : Has(file', q) <=> Has(file, q) \/ q = Half(s, Taken(s), 2)
      /\ \A t \in Sources : t # s => TaskWrote(t)' /\ HalfLast(t)'
  <2>1. reader[s].at \in Writing /\ file' = Append(file, Half(s, Taken(s), 2))
    BY <1>2 DEF Writing
  <2>2. QED  BY <1>3, <2>1, HalfWritten
<1>5. LogTypeOK'
  <2>1. /\ holder'[s.run] = {} /\ holder' \in [Runs -> SUBSET Sources]
        /\ \A r \in Runs : r # s.run => holder'[r] = holder[r]
    BY <1>1
  <2>2. s \in holder[s.run] /\ \A t \in Sources : t \in holder[s.run] => t = s
    BY <1>1 DEF LInv, LogTypeOK, Writing
  <2>3. ASSUME NEW t \in Sources, NEW r \in Runs
        PROVE  t \in holder'[r] <=> r = t.run /\ reader'[t].at \in Writing
    BY <1>1, <1>3, <2>1, <2>2, <2>3 DEF LInv, LogTypeOK, Writing
  <2>4. seen' \in 0 .. Len(file')
    BY <1>1, <1>4 DEF LInv, LogTypeOK
  <2>5. \A t \in Sources : reader'[t].at = "none" <=> run < t.run
    BY <1>3 DEF LInv, LogTypeOK
  <2>6. \A r \in Runs, t, u \in Sources : t \in holder'[r] /\ u \in holder'[r] => t = u
    BY <2>1 DEF LInv, LogTypeOK
  <2>7. QED  BY <1>3, <1>4, <2>1, <2>3, <2>4, <2>5, <2>6 DEF LInv, LogTypeOK
<1>6. PipesHold'
  <2>1. \A t \in Sources : Taken(t)' = Taken(t)
    BY DEF Taken
  <2>2. \A t \in Sources : reader'[t].at = "none" => reader[t].at = "none"
    BY <1>3
  <2>3. QED  BY <2>1, <2>2 DEF LInv, PipesHold
<1>7. TasksWrote'
  <2>1. Taken(s)' = Taken(s)
    BY DEF Taken
  <2>2. TaskWrote(s)'
    BY <1>3, <1>4, <2>1 DEF TaskWrote
  <2>3. QED  BY <1>4, <2>2 DEF TasksWrote
<1>8. SecondFollows'
  BY <1>3, <1>4 DEF SecondFollows, HalfLast
<1>9. NoHoles' /\ RecordsWhole'
  <2> DEFINE p == Half(s, Taken(s), 2)
  <2>1. p \in Writes /\ p.source = s /\ p.line = Taken(s) /\ p.half = 2
    BY <1>1 DEF Half, Writes
  <2>2. file' = Append(file, p)
    BY <1>2
  <2>3. \A i \in DOMAIN file : file[i] # p
    BY <1>2 DEF Has
  <2>4. p.line \in 1 .. sent[p.source]
    BY <1>1, <1>2, <2>1, SourceTyped
  <2>5. \E i \in DOMAIN file :
          /\ file[i] = Half(p.source, p.line, 1)
          /\ \A k \in i + 1 .. Len(file) : file[k].source.run # p.source.run
    BY <1>2, <2>1 DEF LInv, SecondFollows, HalfLast
  <2> HIDE DEF p
  <2>6. QED  BY <2>1, <2>2, <2>3, <2>4, <2>5, Extended
<1>10. QED  BY <1>4, <1>5, <1>6, <1>7, <1>8, <1>9 DEF LInv

-----------------------------------------------------------------------------
LEMMA LInvStep == LInv /\ [LogNext]_logVars => LInv'
<1> SUFFICES ASSUME LInv, [LogNext]_logVars PROVE LInv'  OBVIOUS
<1>1. ASSUME NEW s \in Sources, NEW utf8 \in BOOLEAN, WriteOut(s, utf8) PROVE LInv'
  BY <1>1, PrintKeeps
<1>2. ASSUME NEW s \in Sources, ReaderStep(s) PROVE LInv'
  BY <1>2, ReadLineKeeps, ReadEndKeeps, FirstHalfKeeps, SecondHalfKeeps DEF ReaderStep
<1>3. ASSUME NEW s \in Sources, Lock(s) \/ WriteFails(s) PROVE LInv'
  BY <1>3, LockKeeps, WriteFailsKeeps
<1>4. CASE Crash \/ Boot
  BY <1>4, CrashKeeps, BootKeeps
<1>5. CASE (\E r \in Runs : CloseEnd(r)) \/ Follow
  BY <1>5, OthersKeep
<1>6. CASE UNCHANGED logVars
  <2>1. LogTypeOK' /\ UNCHANGED <<file, sent, pipe, reader>>
    BY <1>6 DEF logVars, LInv, LogTypeOK
  <2>2. QED  BY <2>1, TasksMove DEF Stays
<1>7. QED  BY <1>1, <1>2, <1>3, <1>4, <1>5, <1>6 DEF LogNext

THEOREM LogInvariant == LogSpec => []LInv
<1>1. QED  BY LInvInit, LInvStep, PTL DEF LogSpec

(* The types of the pipes, the tasks and the log hold whatever is printed,  *)
(* whenever a run or the daemon ends: no two tasks of a run hold its mutex, *)
(* and a task that ended, however it did, does not (supervisor.rs:614-691). *)
THEOREM LogTypeCorrect == LogSpec => []LogTypeOK
<1>1. LInv => LogTypeOK  BY DEF LInv
<1>2. QED  BY <1>1, LogInvariant, PTL

(* Every log of a stream is a prefix of what was printed to it, for any     *)
(* number of runs and lines (supervisor.rs:663-690).                        *)
THEOREM NoHolesHold == LogSpec => []NoHoles
<1>1. LInv => NoHoles  BY DEF LInv
<1>2. QED  BY <1>1, LogInvariant, PTL

(* The records of a run are never mixed (supervisor.rs:614-616, 687).       *)
THEOREM RecordsWholeHold == LogSpec => []RecordsWhole
<1>1. LInv => RecordsWhole  BY DEF LInv
<1>2. QED  BY <1>1, LogInvariant, PTL
=============================================================================
