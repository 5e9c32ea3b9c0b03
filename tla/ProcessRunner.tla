---- MODULE ProcessRunner ----
(***************************************************************************)
(* runBoundedProcess of rf_evidence on POSIX (process_runner.cpp): fork a  *)
(* child into a process group of its own, capture its two streams in       *)
(* files, poll it every 25 ms against a deadline and an output limit, kill *)
(* the group when one is passed, and read the captures back.               *)
(*                                                                         *)
(* Several tool processes do this at once under one capture root.  Each    *)
(* owns the leaf its process number and invocation count name; a tool that *)
(* dies leaves its leaf behind and the next process may get its number.    *)
(* The child, its descendants, the clock and the poll loop interleave      *)
(* freely; every path is looked up again by name.                          *)
(*                                                                         *)
(* SIGCHLD has its default disposition: waitpid does report the child.     *)
(***************************************************************************)
EXTENDS Naturals

CONSTANTS
  Runners,          \* tool processes
  Pids,             \* process numbers
  PidOf,            \* the number each of them has, in every life
  Streams,          \* "out" and "err"
  Limit,            \* maximumStandardOutputBytes and ...ErrorBytes
  MaxOutput,        \* bound: what a child writes to a stream
  MaxRuns,          \* bound: invocations of any runner
  RunsOf,           \* bound: invocations of each runner
  MaxCrashes,       \* bound: how often tools die
  NoFile            \* no capture files

ASSUME ProcessRunnerAssumption ==
  /\ PidOf \in [Runners -> Pids]
  /\ Limit \in Nat /\ MaxOutput \in Nat /\ MaxRuns \in Nat /\ MaxCrashes \in Nat
  /\ RunsOf \in [Runners -> 0..MaxRuns]

\* An open pair of capture files: the invocation that created it.
Files == [runner: Runners, run: 0..MaxRuns]
ASSUME NoFileIsNoFile == NoFile \notin Files

Leaves == [pid: Pids, ordinal: 0..MaxRuns]

VARIABLES
  capture,          \* the pair of files at each leaf
  size,             \* the bytes in the pair of the runner's last invocation
  pc,               \* where each runner is
  run,              \* its invocations, over all its lives
  ordinal,          \* its invocations in this life
  child,            \* its child
  status,           \* how the child ended, when it has
  spawned,          \* a descendant of the child is alive in its group
  expired,          \* the deadline has passed
  measured,         \* the sizes readCapture saw, and then read
  origin,           \* the files a completed run read
  result,           \* what runBoundedProcess returned
  crashes           \* tools that have died

files   == <<capture, size>>
counts  == <<run, ordinal, crashes>>
process == <<child, status, spawned, expired>>
answer  == <<measured, origin, result>>
vars    == <<pc, files, counts, process, answer>>

Sizes == [Streams -> 0..MaxOutput]
Empty == [s \in Streams |-> 0]

Polling == {"poll", "deadline", "limit"}
Places == Polling \union {"idle", "prepare", "open", "wait", "status", "measure",
                          "read", "release"}

Refusals == {"capture", "fork", "timed_out", "limit_exceeded", "abnormal"}

TypeOK ==
  /\ capture \in [Leaves -> Files \union {NoFile}]
  /\ size \in [Runners -> Sizes]
  /\ pc \in [Runners -> Places]
  /\ run \in [Runners -> 0..MaxRuns]
  /\ ordinal \in [Runners -> 0..MaxRuns]
  /\ child \in [Runners -> {"none", "forked", "grouped", "zombie", "reaped"}]
  /\ status \in [Runners -> {"exited", "signal"}]
  /\ spawned \in [Runners -> BOOLEAN]
  /\ expired \in [Runners -> BOOLEAN]
  /\ measured \in [Runners -> Sizes]
  /\ origin \in [Runners -> Files \union {NoFile}]
  /\ result \in [Runners -> Refusals \union {"none", "completed"}]
  /\ crashes \in 0..MaxCrashes

Init ==
  /\ capture = [l \in Leaves |-> NoFile]
  /\ size = [r \in Runners |-> Empty]
  /\ pc = [r \in Runners |-> "idle"]
  /\ run = [r \in Runners |-> 0]
  /\ ordinal = [r \in Runners |-> 0]
  /\ child = [r \in Runners |-> "none"]
  /\ status = [r \in Runners |-> "signal"]
  /\ spawned = [r \in Runners |-> FALSE]
  /\ expired = [r \in Runners |-> FALSE]
  /\ measured = [r \in Runners |-> Empty]
  /\ origin = [r \in Runners |-> NoFile]
  /\ result = [r \in Runners |-> "none"]
  /\ crashes = 0

\* Mutant: every invocation captures at one fixed name.
LeafFixed(r) == [pid |-> CHOOSE n \in Pids : TRUE, ordinal |-> 0]

\* exclusiveCaptureDirectory: the process number and the invocation ordinal.
Leaf(r) == [pid |-> PidOf[r], ordinal |-> ordinal[r]]

Mine(r) == [runner |-> r, run |-> run[r]]

\* What looking a capture file up by its name finds; nothing there reads as
\* the largest size.
Held(r, s) ==
  LET file == capture[Leaf(r)] IN
  IF file = NoFile THEN MaxOutput + Limit + 1 ELSE size[file.runner][s]

Oversized(r) == \E s \in Streams : Held(r, s) > Limit

Goto(r, place) == pc' = [pc EXCEPT ![r] = place]

Return(r, outcome) ==
  /\ result' = [result EXCEPT ![r] = outcome]
  /\ Goto(r, "release")

(***************************************************************************)
(* The child and the clock.                                                *)
(***************************************************************************)
ChildGroups(r) ==
  /\ child[r] = "forked"
  /\ child' = [child EXCEPT ![r] = "grouped"]
  /\ UNCHANGED <<pc, files, counts, status, spawned, expired, answer>>

ChildSpawns(r) ==
  /\ child[r] = "grouped" /\ ~spawned[r]
  /\ spawned' = [spawned EXCEPT ![r] = TRUE]
  /\ UNCHANGED <<pc, files, counts, child, status, expired, answer>>

\* The child or its descendant writes to the files it has open.
Writes(r, s) ==
  /\ child[r] = "grouped" \/ spawned[r]
  /\ size[r][s] < MaxOutput
  /\ size' = [size EXCEPT ![r][s] = @ + 1]
  /\ UNCHANGED <<pc, capture, counts, process, answer>>

\* It exits, execv having failed (127) or not, or a resource limit ends it.
ChildEnds(r) ==
  /\ child[r] = "grouped"
  /\ child' = [child EXCEPT ![r] = "zombie"]
  /\ \E how \in {"exited", "signal"} : status' = [status EXCEPT ![r] = how]
  /\ UNCHANGED <<pc, files, counts, spawned, expired, answer>>

Expires(r) ==
  /\ pc[r] \in Polling /\ ~expired[r]
  /\ expired' = [expired EXCEPT ![r] = TRUE]
  /\ UNCHANGED <<pc, files, counts, child, status, spawned, answer>>

(***************************************************************************)
(* The runner: capture files first, then the child.                        *)
(***************************************************************************)
Start(r) ==
  /\ pc[r] = "idle"
  /\ run[r] < RunsOf[r]
  /\ run' = [run EXCEPT ![r] = @ + 1]
  /\ result' = [result EXCEPT ![r] = "none"]
  /\ measured' = [measured EXCEPT ![r] = Empty]
  /\ origin' = [origin EXCEPT ![r] = NoFile]
  /\ child' = [child EXCEPT ![r] = "none"]
  /\ Goto(r, "prepare")
  /\ UNCHANGED <<files, ordinal, crashes, status, spawned, expired>>

\* Mutant: a stale capture is not removed first.
RemoveStaleSkipped(r) ==
  /\ pc[r] = "prepare"
  /\ Goto(r, "open")
  /\ UNCHANGED <<files, counts, process, answer>>

RemoveStale(r) ==
  /\ pc[r] = "prepare"
  /\ capture' = [capture EXCEPT ![Leaf(r)] = NoFile]
  /\ Goto(r, "open")
  /\ UNCHANGED <<size, counts, process, answer>>

\* O_EXCL, then fork; the clock starts.
OpenAndFork(r) ==
  /\ pc[r] = "open"
  /\ IF capture[Leaf(r)] = NoFile
     THEN /\ capture' = [capture EXCEPT ![Leaf(r)] = Mine(r)]
          /\ child' = [child EXCEPT ![r] = "forked"]
          /\ Goto(r, "poll") /\ UNCHANGED result
     ELSE Return(r, "capture") /\ UNCHANGED <<capture, child>>
  /\ UNCHANGED <<size, counts, status, spawned, expired, measured, origin>>

ForkFails(r) ==
  /\ pc[r] = "open"
  /\ capture[Leaf(r)] = NoFile
  /\ capture' = [capture EXCEPT ![Leaf(r)] = Mine(r)]
  /\ Return(r, "fork")
  /\ UNCHANGED <<size, counts, process, measured, origin>>

(***************************************************************************)
(* The poll loop.                                                          *)
(***************************************************************************)
Poll(r) ==
  /\ pc[r] = "poll"
  /\ IF child[r] = "zombie"
     THEN child' = [child EXCEPT ![r] = "reaped"] /\ Goto(r, "status")
     ELSE UNCHANGED child /\ Goto(r, "deadline")
  /\ UNCHANGED <<files, counts, status, spawned, expired, answer>>

\* kill(-child): everything in the child's group, which does not exist before
\* the child has called setpgid.
KillGroup(r) ==
  /\ spawned' = [spawned EXCEPT ![r] = FALSE]
  /\ IF child[r] = "grouped"
     THEN /\ child' = [child EXCEPT ![r] = "zombie"]
          /\ status' = [status EXCEPT ![r] = "signal"]
     ELSE UNCHANGED <<child, status>>

\* Mutant: the killed child is not waited for.
DeadlineUnwaited(r) ==
  /\ pc[r] = "deadline"
  /\ IF expired[r]
     THEN KillGroup(r) /\ Return(r, "timed_out")
     ELSE Goto(r, "limit") /\ UNCHANGED <<child, status, spawned, result>>
  /\ UNCHANGED <<files, counts, expired, measured, origin>>

\* Mutant: the deadline is never looked at.
DeadlineIgnored(r) ==
  /\ pc[r] = "deadline"
  /\ Goto(r, "limit")
  /\ UNCHANGED <<files, counts, process, answer>>

Deadline(r) ==
  /\ pc[r] = "deadline"
  /\ IF expired[r]
     THEN /\ KillGroup(r)
          /\ result' = [result EXCEPT ![r] = "timed_out"]
          /\ Goto(r, "wait")
     ELSE Goto(r, "limit") /\ UNCHANGED <<child, status, spawned, result>>
  /\ UNCHANGED <<files, counts, expired, measured, origin>>

OutputLimit(r) ==
  /\ pc[r] = "limit"
  /\ IF Oversized(r)
     THEN /\ KillGroup(r)
          /\ result' = [result EXCEPT ![r] = "limit_exceeded"]
          /\ Goto(r, "wait")
     ELSE Goto(r, "poll") /\ UNCHANGED <<child, status, spawned, result>>
  /\ UNCHANGED <<files, counts, expired, measured, origin>>

\* The blocking waitpid after a kill.
Wait(r) ==
  /\ pc[r] = "wait"
  /\ child[r] = "zombie"
  /\ child' = [child EXCEPT ![r] = "reaped"]
  /\ Goto(r, "release")
  /\ UNCHANGED <<files, counts, status, spawned, expired, answer>>

(***************************************************************************)
(* The child has ended by itself: its status, then its captures, each      *)
(* measured by name and then read up to the measured size.  The code does  *)
(* this for one stream and then for the other; here both are measured      *)
(* before both are read: a descendant writes as much in between.           *)
(***************************************************************************)
\* Mutant: WIFEXITED is not asked, and a signal reads as exit code 0.
StatusUnasked(r) ==
  /\ pc[r] = "status"
  /\ Goto(r, "measure")
  /\ UNCHANGED <<files, counts, process, answer>>

Status(r) ==
  /\ pc[r] = "status"
  /\ IF status[r] = "signal"
     THEN Return(r, "abnormal")
     ELSE Goto(r, "measure") /\ UNCHANGED result
  /\ UNCHANGED <<files, counts, process, measured, origin>>

\* Mutant: the limit is enforced by the poll loop alone.
MeasureUnbounded(r) ==
  /\ pc[r] = "measure"
  /\ IF capture[Leaf(r)] = NoFile
     THEN Return(r, "limit_exceeded") /\ UNCHANGED measured
     ELSE /\ measured' = [measured EXCEPT ![r] = [s \in Streams |-> Held(r, s)]]
          /\ Goto(r, "read") /\ UNCHANGED result
  /\ UNCHANGED <<files, counts, process, origin>>

Measure(r) ==
  /\ pc[r] = "measure"
  /\ IF Oversized(r)
     THEN Return(r, "limit_exceeded") /\ UNCHANGED measured
     ELSE /\ measured' = [measured EXCEPT ![r] = [s \in Streams |-> Held(r, s)]]
          /\ Goto(r, "read") /\ UNCHANGED result
  /\ UNCHANGED <<files, counts, process, origin>>

Read(r) ==
  /\ pc[r] = "read"
  /\ IF capture[Leaf(r)] = NoFile
     THEN Return(r, "capture")
     ELSE Return(r, "completed")
  /\ origin' = [origin EXCEPT ![r] = capture[Leaf(r)]]
  /\ UNCHANGED <<files, counts, process, measured>>

\* Mutant: the ordinal is taken once for each of the two files.
ReleaseCountsTwice(r) ==
  /\ pc[r] = "release"
  /\ capture' = [capture EXCEPT ![Leaf(r)] = NoFile]
  /\ ordinal' = [ordinal EXCEPT ![r] = @ + 2]
  /\ Goto(r, "idle")
  /\ UNCHANGED <<size, run, crashes, process, answer>>

\* ScopedCaptureDirectory removes the leaf and the caller has its result.  What
\* a descendant writes from now on is in no file that has a name.  The removal
\* is taken to succeed (the code does not look); a leaf that a tool leaves behind
\* when it dies stands for one that could not be removed.
Release(r) ==
  /\ pc[r] = "release"
  /\ capture' = [capture EXCEPT ![Leaf(r)] = NoFile]
  /\ ordinal' = [ordinal EXCEPT ![r] = @ + 1]
  /\ spawned' = [spawned EXCEPT ![r] = FALSE]
  /\ expired' = [expired EXCEPT ![r] = FALSE]
  /\ size' = [size EXCEPT ![r] = Empty]
  /\ Goto(r, "idle")
  /\ UNCHANGED <<run, crashes, child, status, answer>>

\* The tool dies.  Its child becomes an orphan nobody reads from any more, its
\* leaf stays, and a later process with its number counts from zero.
Crash(r) ==
  /\ pc[r] # "idle"
  /\ crashes < MaxCrashes
  /\ crashes' = crashes + 1
  /\ pc' = [pc EXCEPT ![r] = "idle"]
  /\ ordinal' = [ordinal EXCEPT ![r] = 0]
  /\ child' = [child EXCEPT ![r] = "none"]
  /\ spawned' = [spawned EXCEPT ![r] = FALSE]
  /\ expired' = [expired EXCEPT ![r] = FALSE]
  /\ size' = [size EXCEPT ![r] = Empty]
  /\ measured' = [measured EXCEPT ![r] = Empty]
  /\ origin' = [origin EXCEPT ![r] = NoFile]
  /\ result' = [result EXCEPT ![r] = "none"]
  /\ UNCHANGED <<capture, run, status>>

\* A tool ends and the next one gets its number.
Restart(r) ==
  /\ pc[r] = "idle" /\ ordinal[r] > 0
  /\ ordinal' = [ordinal EXCEPT ![r] = 0]
  /\ UNCHANGED <<pc, files, run, crashes, process, answer>>

Runner(r) ==
  \/ RemoveStale(r) \/ OpenAndFork(r) \/ ForkFails(r)
  \/ Poll(r) \/ Deadline(r) \/ OutputLimit(r) \/ Wait(r)
  \/ Status(r) \/ Measure(r) \/ Read(r) \/ Release(r)

Child(r) ==
  \/ ChildGroups(r) \/ ChildSpawns(r) \/ ChildEnds(r) \/ \E s \in Streams : Writes(r, s)

Step(r) ==
  \/ Runner(r) \/ Child(r)
  \/ Expires(r) \/ Start(r) \/ Restart(r) \/ Crash(r)

Next == \E r \in Runners : Step(r)

\* The runner runs, a forked child gets the processor, time passes.  Nothing
\* makes a child ever end by itself.
Fairness ==
  \A r \in Runners :
    WF_vars(Runner(r)) /\ WF_vars(ChildGroups(r)) /\ WF_vars(Expires(r))

Spec == Init /\ [][Next]_vars

FairSpec == Spec /\ Fairness

(***************************************************************************)
(* Properties                                                              *)
(***************************************************************************)

\* A completed run reports the child's own exit: a child that was killed, by
\* the runner or by a resource limit, is never a completed run.
ExitIsTheChilds ==
  \A r \in Runners : result[r] = "completed" =>
    child[r] = "reaped" /\ status[r] = "exited"

\* What a completed run returns came from its own child, whatever other tools
\* capture at the same time and whatever earlier ones left behind.
CaptureIsOwn ==
  \A r \in Runners : result[r] = "completed" => origin[r] = Mine(r)

\* No more than the limit is ever returned, also when output arrives between
\* the last poll and the reading, from the child or from what it spawned.
OutputIsBounded ==
  \A r \in Runners : result[r] = "completed" =>
    \A s \in Streams : measured[r][s] <= Limit

\* The leaf of a tool that died is no obstacle to its successor, and what a
\* run opened stays in place until it has read it.
ResidueIsHarmless == \A r \in Runners : result[r] # "capture"

\* When a run has returned its child is gone and reaped, and nothing is left
\* at its leaf.
NothingLeftBehind ==
  \A r \in Runners : pc[r] = "idle" /\ result[r] # "none" =>
    /\ child[r] \in {"none", "reaped"}
    /\ \A l \in Leaves : capture[l] # Mine(r)

\* Once its child has its group, a run returns, however long the child lives.
RunReturns ==
  \A r \in Runners :
    (pc[r] \in Polling /\ child[r] = "grouped") ~> pc[r] = "idle"

\* process_runner_test.cpp:89-90 says that wall time is a declared limit: a run
\* whose deadline has passed comes to its end.
DeadlineEndsRun ==
  \A r \in Runners : (pc[r] \in Polling /\ expired[r]) ~> pc[r] = "idle"
====
