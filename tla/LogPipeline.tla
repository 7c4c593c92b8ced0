----------------------------- MODULE LogPipeline -----------------------------
(***************************************************************************)
(* How what an app prints gets into its log file and onto the terminal of   *)
(* `adj logs --tail` (crates/adj/src/supervisor.rs:241-250, 614-691;        *)
(* client.rs:230-345).                                                      *)
(*                                                                          *)
(* Each run of the app has two pipes, a task that reads each, and one mutex *)
(* around its handle of the log file, which all runs append to.  A record   *)
(* may take the kernel two writes, and the tailing client reads whatever is *)
(* there.  A descendant that outlives its shell keeps the pipes of its run  *)
(* open beside those of the next.                                           *)
(***************************************************************************)
EXTENDS Integers, Sequences, FiniteSets, Functions

CONSTANTS
  MaxRuns,   \* bound: boots of the app
  MaxLines,  \* bound: lines printed in all
  PipeSize   \* lines a pipe holds

ASSUME LogAssumption ==
  /\ MaxRuns \in Nat \ {0} /\ MaxLines \in Nat /\ PipeSize \in Nat \ {0}

Runs == 1 .. MaxRuns
Sources == [run: Runs, stream: {"stdout", "stderr"}]

VARIABLES
  run,     \* the latest boot
  sent,    \* how many lines each source has printed
  open,    \* the runs of which some process is left
  pipe,    \* the lines in each pipe, numbered
  reader,  \* the task that reads each pipe: its place, and the line it logs
  holder,  \* the source whose task holds the mutex of each run, as a set
  file,    \* the writes to the log file: of which source, line and half
  seen     \* how many of them the client has printed

logVars == <<run, sent, open, pipe, reader, holder, file, seen>>

Ended == {"done", "gone"}
Writing == {"first", "second"}

At(place, line) == [at |-> place, line |-> line]

Lines == [n: Nat, utf8: BOOLEAN]
Tasks == [at: {"none", "read", "wait"} \cup Writing \cup Ended, line: Nat]
Writes == [source: Sources, line: Nat, half: {1, 2}]

Half(s, n, half) == [source |-> s, line |-> n, half |-> half]

LogTypeOK ==
  /\ run \in Runs /\ open \subseteq 1 .. run
  /\ sent \in [Sources -> Nat]
  /\ pipe \in [Sources -> Seq(Lines)]
  /\ reader \in [Sources -> Tasks]
  /\ file \in Seq(Writes)
  /\ seen \in 0 .. Len(file)
  /\ holder \in [Runs -> SUBSET Sources]
  /\ \A s \in Sources :
       /\ Len(pipe[s]) <= PipeSize
       /\ reader[s].at = "none" <=> run < s.run
       /\ \A r \in Runs : s \in holder[r] <=> r = s.run /\ reader[s].at \in Writing
  /\ \A r \in Runs, s, t \in Sources : s \in holder[r] /\ t \in holder[r] => s = t

(* The first boot has its pipes and readers, and its app has said nothing.  *)
LogInit ==
  /\ run = 1
  /\ sent = [s \in Sources |-> 0]
  /\ open = {1}
  /\ pipe = [s \in Sources |-> <<>>]
  /\ reader = [s \in Sources |-> At(IF s.run = 1 THEN "read" ELSE "none", 0)]
  /\ holder = [r \in Runs |-> {}]
  /\ file = <<>>
  /\ seen = 0

-----------------------------------------------------------------------------
Printed == FoldFunction(+, 0, sent)

(* The app prints a line, in UTF-8 or not, when there is room for it. *)
WriteOut(s, utf8) ==
  /\ s.run \in open /\ reader[s].at \notin Ended
  /\ Len(pipe[s]) < PipeSize
  /\ Printed < MaxLines
  /\ sent' = [sent EXCEPT ![s] = @ + 1]
  /\ pipe' = [pipe EXCEPT ![s] = Append(@, [n |-> sent[s] + 1, utf8 |-> utf8])]
  /\ UNCHANGED <<run, open, reader, holder, file, seen>>

(* The last process with the pipes of a run ends, perhaps of EPIPE. *)
CloseEnd(r) ==
  /\ r \in open
  /\ open' = open \ {r}
  /\ UNCHANGED <<run, sent, pipe, reader, holder, file, seen>>

(* read_line, and the end of the task at the end of the file or at an error *)
(* Mutant: a line that is not UTF-8 is skipped. *)
ReadSkips(s) ==
  /\ reader[s].at = "read" /\ pipe[s] # <<>>
  /\ pipe' = [pipe EXCEPT ![s] = Tail(@)]
  /\ reader' = [reader EXCEPT ![s] =
                  IF Head(pipe[s]).utf8 THEN At("wait", Head(pipe[s]).n) ELSE @]
  /\ UNCHANGED <<run, sent, open, holder, file, seen>>

ReadLine(s) ==
  /\ reader[s].at = "read" /\ pipe[s] # <<>>
  /\ pipe' = [pipe EXCEPT ![s] = IF Head(@).utf8 THEN Tail(@) ELSE <<>>]
  /\ reader' = [reader EXCEPT ![s] =
                  IF Head(pipe[s]).utf8 THEN At("wait", Head(pipe[s]).n) ELSE At("done", 0)]
  /\ UNCHANGED <<run, sent, open, holder, file, seen>>

ReadEnd(s) ==
  /\ reader[s].at = "read" /\ pipe[s] = <<>> /\ s.run \notin open
  /\ reader' = [reader EXCEPT ![s] = At("done", 0)]
  /\ UNCHANGED <<run, sent, open, pipe, holder, file, seen>>

(* Mutant: the mutex is one of the stream. *)
LockOwn(s) ==
  /\ reader[s].at = "wait"
  /\ holder' = [holder EXCEPT ![s.run] = @ \cup {s}]
  /\ reader' = [reader EXCEPT ![s].at = "first"]
  /\ UNCHANGED <<run, sent, open, pipe, file, seen>>

Lock(s) ==
  /\ reader[s].at = "wait" /\ holder[s.run] = {}
  /\ holder' = [holder EXCEPT ![s.run] = {s}]
  /\ reader' = [reader EXCEPT ![s].at = "first"]
  /\ UNCHANGED <<run, sent, open, pipe, file, seen>>

WriteFirst(s) ==
  /\ reader[s].at = "first"
  /\ file' = Append(file, Half(s, reader[s].line, 1))
  /\ reader' = [reader EXCEPT ![s].at = "second"]
  /\ UNCHANGED <<run, sent, open, pipe, holder, seen>>

(* The rest of the record with its newline, and the guard is dropped.       *)
(* Mutant: the next line is read before the guard is dropped. *)
WriteSecondKeeps(s) ==
  /\ reader[s].at = "second"
  /\ file' = Append(file, Half(s, reader[s].line, 2))
  /\ reader' = [reader EXCEPT ![s] = At("read", 0)]
  /\ UNCHANGED <<run, sent, open, pipe, holder, seen>>

WriteSecond(s) ==
  /\ reader[s].at = "second"
  /\ file' = Append(file, Half(s, reader[s].line, 2))
  /\ reader' = [reader EXCEPT ![s] = At("read", 0)]
  /\ holder' = [holder EXCEPT ![s.run] = {}]
  /\ UNCHANGED <<run, sent, open, pipe, seen>>

(* The disk is full: the task ends, and drops its guard and its pipe.       *)
(* Mutant: the guard outlives the task. *)
WriteFailsHolding(s) ==
  /\ reader[s].at \in Writing
  /\ reader' = [reader EXCEPT ![s] = At("done", 0)]
  /\ pipe' = [pipe EXCEPT ![s] = <<>>]
  /\ UNCHANGED <<run, sent, open, holder, file, seen>>

WriteFails(s) ==
  /\ reader[s].at \in Writing
  /\ reader' = [reader EXCEPT ![s] = At("done", 0)]
  /\ pipe' = [pipe EXCEPT ![s] = <<>>]
  /\ holder' = [holder EXCEPT ![s.run] = {}]
  /\ UNCHANGED <<run, sent, open, file, seen>>

(* The daemon exits under its tasks. *)
Crash ==
  /\ \E s \in Sources : reader[s].at \notin Ended \cup {"none"}
  /\ reader' = [s \in Sources |->
                  IF reader[s].at \in Ended \cup {"none"} THEN reader[s] ELSE At("gone", 0)]
  /\ pipe' = [s \in Sources |-> <<>>]
  /\ holder' = [r \in Runs |-> {}]
  /\ UNCHANGED <<run, sent, open, file, seen>>

(* The app is booted again, by this daemon or the next.  Its shell has      *)
(* ended, the rest of its group perhaps not.                                *)
Boot ==
  /\ run < MaxRuns
  /\ run' = run + 1
  /\ open' = open \cup {run'}
  /\ reader' = [s \in Sources |-> IF s.run = run' THEN At("read", 0) ELSE reader[s]]
  /\ UNCHANGED <<sent, pipe, holder, file, seen>>

(* The client prints up to the end of a line or of the file. *)
Follow ==
  /\ seen < Len(file)
  /\ seen' \in seen + 1 .. Len(file)
  /\ UNCHANGED <<run, sent, open, pipe, reader, holder, file>>

-----------------------------------------------------------------------------
ReaderStep(s) == ReadLine(s) \/ ReadEnd(s) \/ WriteFirst(s) \/ WriteSecond(s)

LogNext ==
  \/ \E s \in Sources :
       \/ \E utf8 \in BOOLEAN : WriteOut(s, utf8)
       \/ ReaderStep(s) \/ Lock(s) \/ WriteFails(s)
  \/ \E r \in Runs : CloseEnd(r)
  \/ Crash \/ Boot \/ Follow

LogSpec == LogInit /\ [][LogNext]_logVars

(* The tasks are scheduled, the mutex of tokio is first come, first served, *)
(* and the client polls.  The app need not print or end.                    *)
LogFairness ==
  /\ \A s \in Sources : WF_logVars(ReaderStep(s)) /\ SF_logVars(Lock(s))
  /\ WF_logVars(Follow)

LogFairSpec == LogSpec /\ LogFairness

-----------------------------------------------------------------------------
(* The log of a stream is a prefix of what was printed to it, in order,     *)
(* without a hole or a repetition, whatever fails (supervisor.rs:663-690):  *)
(* each half is written once, after the half before it.                     *)
NoHoles ==
  \A j \in DOMAIN file :
    LET s == file[j].source  n == file[j].line IN
    /\ n \in 1 .. sent[s]
    /\ \A i \in 1 .. j - 1 : file[i] # file[j]
    /\ file[j].half = 2 => \E i \in 1 .. j - 1 : file[i] = Half(s, n, 1)
    /\ file[j].half = 1 /\ n > 1 => \E i \in 1 .. j - 1 : file[i] = Half(s, n - 1, 2)

(* The records of one run are never mixed, whichever of its two tasks       *)
(* writes (supervisor.rs:614-616): no write of the run comes between the    *)
(* halves of a record.                                                      *)
RecordsWhole ==
  \A j \in DOMAIN file : file[j].half = 2 =>
    \E i \in 1 .. j - 1 :
      /\ file[i] = Half(file[j].source, file[j].line, 1)
      /\ \A k \in i + 1 .. j - 1 : file[k].source.run # file[j].source.run

Shown(s, n) ==
  \E i \in 1 .. seen : file[i] = Half(s, n, 2)

(* A line that is printed is shown to who follows the log (supervisor.rs:   *)
(* 656-657), although the other stream's task, or one of another run, may   *)
(* end at any point; unless the task of the line's own stream does.         *)
LinesShown ==
  \A s \in Sources, n \in 1 .. MaxLines :
    sent[s] >= n ~> Shown(s, n) \/ reader[s].at \in Ended
=============================================================================
