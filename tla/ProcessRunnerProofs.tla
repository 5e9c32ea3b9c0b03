---- MODULE ProcessRunnerProofs ----
(***************************************************************************)
(* Any number of tools with any number of runs, as long as no two of them  *)
(* have the same process number at the same time.                          *)
(***************************************************************************)
EXTENDS ProcessRunner, TLAPS

DistinctPids == \A r, q \in Runners : PidOf[r] = PidOf[q] => r = q

Capturing == Polling \union {"wait", "status", "measure", "read"}

\* A runner's ordinal stays behind its runs.
Counted(r) ==
  /\ ordinal[r] <= run[r]
  /\ pc[r] # "idle" => ordinal[r] < run[r]

\* The leaf of a runner is free when it opens it and its own until it lets go.
OwnLeaf(r) ==
  /\ pc[r] = "open" => capture[Leaf(r)] = NoFile
  /\ pc[r] \in Capturing => capture[Leaf(r)] = Mine(r)

\* What a runner knows of its child where it is.
Watched(r) ==
  /\ pc[r] \in {"prepare", "open"} => child[r] = "none"
  /\ pc[r] = "release" => child[r] \in {"none", "reaped"}
  /\ pc[r] \in {"status", "measure", "read"} => child[r] = "reaped"
  /\ pc[r] \in {"measure", "read"} => status[r] = "exited"
  /\ pc[r] = "idle" /\ result[r] # "none" => child[r] \in {"none", "reaped"}
  /\ pc[r] = "read" => \A s \in Streams : measured[r][s] <= Limit
  /\ pc[r] \notin {"idle", "wait", "release"} => result[r] = "none"
  /\ pc[r] = "wait" => result[r] \in {"timed_out", "limit_exceeded"}

\* The promises about what a run returned, of one runner.
Answered(r) ==
  /\ result[r] = "completed" =>
       /\ child[r] = "reaped" /\ status[r] = "exited"
       /\ origin[r] = Mine(r)
       /\ \A s \in Streams : measured[r][s] <= Limit
  /\ result[r] # "capture"

Local(r) == Counted(r) /\ OwnLeaf(r) /\ Watched(r) /\ Answered(r)

\* The files of an invocation are at its leaf or nowhere, and there are none of
\* an invocation to come.
Placed ==
  /\ \A l \in Leaves : capture[l] # NoFile =>
       capture[l].run <= run[capture[l].runner]
  /\ \A r \in Runners, l \in Leaves :
       capture[l] = Mine(r) =>
         IF pc[r] = "idle" THEN result[r] = "none"
         ELSE pc[r] \notin {"prepare", "open"} /\ l = Leaf(r)

IInv ==
  /\ TypeOK
  /\ Placed
  /\ \A r \in Runners : Local(r)

-----------------------------------------------------------------------------

\* What a runner opens is a file of that runner and run.
LEMMA MineIsAFile ==
  ASSUME TypeOK, NEW r \in Runners
  PROVE  /\ Mine(r) \in Files /\ Mine(r) # NoFile /\ Leaf(r) \in Leaves
         /\ Mine(r).runner = r /\ Mine(r).run = run[r]
BY ProcessRunnerAssumption, NoFileIsNoFile DEF TypeOK, Mine, Files, Leaf, Leaves

\* Two runners never look at the same leaf.
LEMMA LeavesApart ==
  ASSUME DistinctPids, NEW r \in Runners, NEW q \in Runners, Leaf(r) = Leaf(q)
  PROVE  r = q
<1>1. PidOf[r] = PidOf[q]
  BY DEF Leaf
<1>2. QED
  BY <1>1 DEF DistinctPids

\* The invariant holds at first.
LEMMA InvInit == Init => IInv
<1> SUFFICES ASSUME Init PROVE IInv
  OBVIOUS
<1>1. TypeOK
  BY ProcessRunnerAssumption DEF Init, TypeOK, Places, Sizes, Empty
<1>2. Placed
  <2>1. \A r \in Runners, l \in Leaves : capture[l] # Mine(r)
    BY <1>1, MineIsAFile DEF Init
  <2>2. QED
    BY <2>1 DEF Init, Placed
<1>3. \A r \in Runners : Local(r)
  <2> SUFFICES ASSUME NEW r \in Runners PROVE Local(r)
    OBVIOUS
  <2>1. pc[r] = "idle" /\ run[r] = 0 /\ ordinal[r] = 0 /\ result[r] = "none"
    BY DEF Init
  <2>2. QED
    BY <2>1 DEF Local, Counted, OwnLeaf, Watched, Answered, Capturing, Polling
<1>4. QED
  BY <1>1, <1>2, <1>3 DEF IInv

\* Where a runner's captures are in place, looking one up by name finds the
\* runner's own.
LEMMA HeldIsOwn ==
  ASSUME IInv, NEW r \in Runners, pc[r] \in Capturing, NEW s \in Streams
  PROVE  Held(r, s) = size[r][s] /\ Held(r, s) \in 0..MaxOutput
<1>1. capture[Leaf(r)] = Mine(r) /\ Mine(r) # NoFile /\ Mine(r).runner = r
  BY MineIsAFile DEF IInv, Local, OwnLeaf
<1>2. size[r][s] \in 0..MaxOutput
  BY DEF IInv, TypeOK, Sizes
<1>3. QED
  BY <1>1, <1>2 DEF Held

(***************************************************************************)
(* Types.                                                                  *)
(***************************************************************************)
LEMMA ChildTypes ==
  ASSUME IInv, NEW r \in Runners, Child(r) \/ Expires(r)
  PROVE  TypeOK'
<1>0. TypeOK
  BY DEF IInv
<1> USE <1>0 DEF TypeOK
<1>1. CASE ChildGroups(r)
  BY <1>1 DEF ChildGroups, files, counts, answer
<1>2. CASE ChildSpawns(r)
  BY <1>2 DEF ChildSpawns, files, counts, answer
<1>3. CASE ChildEnds(r)
  BY <1>3 DEF ChildEnds, files, counts, answer
<1>4. ASSUME NEW s \in Streams, Writes(r, s)
      PROVE  TypeOK'
  <2>1. size' \in [Runners -> Sizes]
    BY <1>4, ProcessRunnerAssumption DEF Writes, Sizes
  <2>2. QED
    BY <1>4, <2>1 DEF Writes, counts, process, answer
<1>5. CASE Expires(r)
  BY <1>5 DEF Expires, files, counts, answer
<1>6. QED
  BY <1>1, <1>2, <1>3, <1>4, <1>5 DEF Child

\* Every step of a runner keeps the types.
LEMMA RunnerTypes ==
  ASSUME IInv, NEW r \in Runners, Runner(r)
  PROVE  TypeOK'
<1>0. TypeOK
  BY DEF IInv
<1> USE <1>0, MineIsAFile DEF TypeOK, Goto, Return, Refusals, Places, Polling
<1>1. CASE RemoveStale(r)
  BY <1>1 DEF RemoveStale, counts, process, answer
<1>2. CASE OpenAndFork(r)
  <2>1. capture' \in [Leaves -> Files \union {NoFile}]
    BY <1>2 DEF OpenAndFork
  <2>2. child' \in [Runners -> {"none", "forked", "grouped", "zombie", "reaped"}]
    BY <1>2 DEF OpenAndFork
  <2>3. pc' \in [Runners -> Places] /\ result' \in [Runners -> Refusals \union {"none", "completed"}]
    BY <1>2 DEF OpenAndFork
  <2>4. QED
    BY <1>2, <2>1, <2>2, <2>3 DEF OpenAndFork, counts
<1>3. CASE ForkFails(r)
  BY <1>3 DEF ForkFails, counts, process
<1>4. CASE Poll(r)
  BY <1>4 DEF Poll, files, counts, answer
<1>5. CASE Deadline(r) \/ OutputLimit(r)
  <2>1. \/ KillGroup(r) /\ result' \in [Runners -> Refusals \union {"none", "completed"}]
        \/ UNCHANGED <<child, status, spawned, result>>
    BY <1>5 DEF Deadline, OutputLimit
  <2>2. /\ child' \in [Runners -> {"none", "forked", "grouped", "zombie", "reaped"}]
        /\ status' \in [Runners -> {"exited", "signal"}]
        /\ spawned' \in [Runners -> BOOLEAN]
        /\ result' \in [Runners -> Refusals \union {"none", "completed"}]
    <3>1. CASE KillGroup(r) /\ result' \in [Runners -> Refusals \union {"none", "completed"}]
      <4>1. \/ child' = [child EXCEPT ![r] = "zombie"] /\ status' = [status EXCEPT ![r] = "signal"]
            \/ UNCHANGED <<child, status>>
        BY <3>1 DEF KillGroup
      <4>2. spawned' = [spawned EXCEPT ![r] = FALSE]
        BY <3>1 DEF KillGroup
      <4>3. QED
        BY <3>1, <4>1, <4>2
    <3>2. CASE UNCHANGED <<child, status, spawned, result>>
      BY <3>2
    <3>3. QED
      BY <2>1, <3>1, <3>2
  <2>3. pc' \in [Runners -> Places]
    BY <1>5 DEF Deadline, OutputLimit
  <2>4. UNCHANGED <<files, counts, expired, measured, origin>>
    BY <1>5 DEF Deadline, OutputLimit
  <2>5. QED
    BY <2>2, <2>3, <2>4 DEF files, counts
<1>6. CASE Wait(r)
  BY <1>6 DEF Wait, files, counts, answer
<1>7. CASE Status(r)
  BY <1>7 DEF Status, files, counts, process
<1>8. CASE Measure(r)
  <2>1. [s \in Streams |-> Held(r, s)] \in Sizes
    BY <1>8, HeldIsOwn DEF Measure, Capturing, Sizes
  <2>2. QED
    BY <1>8, <2>1 DEF Measure, files, counts, process
<1>9. CASE Read(r)
  BY <1>9 DEF Read, files, counts, process
<1>10. CASE Release(r)
  <2>1. ordinal[r] + 1 \in 0..MaxRuns
    BY <1>10, ProcessRunnerAssumption DEF Release, IInv, Local, Counted
  <2>2. Empty \in Sizes
    BY ProcessRunnerAssumption DEF Empty, Sizes
  <2>3. QED
    BY <1>10, <2>1, <2>2 DEF Release, answer
<1>11. QED
  BY <1>1, <1>2, <1>3, <1>4, <1>5, <1>6, <1>7, <1>8, <1>9, <1>10 DEF Runner

\* A start, a restart and a crash keep the types.
LEMMA LifeTypes ==
  ASSUME IInv, NEW r \in Runners, Start(r) \/ Restart(r) \/ Crash(r)
  PROVE  TypeOK'
<1>0. TypeOK
  BY DEF IInv
<1> USE <1>0 DEF TypeOK, Goto, Places
<1>1. Empty \in Sizes
  BY ProcessRunnerAssumption DEF Empty, Sizes
<1>2. CASE Start(r)
  <2>1. run[r] + 1 \in 0..MaxRuns
    <3>1. run[r] \in 0..MaxRuns /\ RunsOf[r] \in 0..MaxRuns /\ run[r] < RunsOf[r]
      BY <1>2, ProcessRunnerAssumption DEF Start
    <3>2. QED
      BY <3>1, ProcessRunnerAssumption
  <2>2. QED
    BY <1>1, <1>2, <2>1 DEF Start, files
<1>3. CASE Restart(r)
  BY <1>3, ProcessRunnerAssumption DEF Restart, files, process, answer
<1>4. CASE Crash(r)
  BY <1>1, <1>4, ProcessRunnerAssumption DEF Crash
<1>5. QED
  BY <1>2, <1>3, <1>4

(***************************************************************************)
(* The other runners: a step of one leaves everything of another alone.    *)
(***************************************************************************)
Same(q) ==
  /\ pc'[q] = pc[q] /\ run'[q] = run[q] /\ ordinal'[q] = ordinal[q]
  /\ child'[q] = child[q] /\ status'[q] = status[q]
  /\ measured'[q] = measured[q] /\ origin'[q] = origin[q] /\ result'[q] = result[q]
  /\ capture'[Leaf(q)] = capture[Leaf(q)]

\* Where process numbers are distinct, a step of one runner leaves the others the same.
LEMMA OthersSame ==
  ASSUME DistinctPids, IInv, NEW r \in Runners, Step(r), NEW q \in Runners, q # r
  PROVE  Same(q)
<1>1. Leaf(q) \in Leaves /\ Leaf(r) \in Leaves /\ Leaf(q) # Leaf(r)
  BY MineIsAFile, LeavesApart DEF IInv
<1>2. TypeOK
  BY DEF IInv
<1> USE <1>1, <1>2 DEF TypeOK, Same, Goto, Return, files, counts, process, answer
<1>3. CASE Child(r) \/ Expires(r)
  BY <1>3 DEF Child, ChildGroups, ChildSpawns, ChildEnds, Writes, Expires
<1>4. CASE RemoveStale(r) \/ OpenAndFork(r) \/ ForkFails(r)
  BY <1>4 DEF RemoveStale, OpenAndFork, ForkFails
<1>5. CASE Poll(r) \/ Deadline(r) \/ OutputLimit(r) \/ Wait(r)
  BY <1>5 DEF Poll, Deadline, OutputLimit, Wait, KillGroup
<1>6. CASE Status(r) \/ Measure(r) \/ Read(r) \/ Release(r)
  BY <1>6 DEF Status, Measure, Read, Release
<1>7. CASE Start(r) \/ Restart(r) \/ Crash(r)
  BY <1>7 DEF Start, Restart, Crash
<1>8. QED
  BY <1>3, <1>4, <1>5, <1>6, <1>7 DEF Step, Runner

\* What is said of a runner alone stays true while it stays the same.
LEMMA SameIsLocal ==
  ASSUME NEW q, Local(q), Same(q)
  PROVE  Local(q)'
<1>1. Leaf(q)' = Leaf(q) /\ Mine(q)' = Mine(q)
  BY DEF Same, Leaf, Mine
<1>2. Counted(q)' /\ OwnLeaf(q)'
  BY <1>1 DEF Local, Same, Counted, OwnLeaf
<1>3. Watched(q)' /\ Answered(q)'
  BY <1>1 DEF Local, Same, Watched, Answered
<1>4. QED
  BY <1>2, <1>3 DEF Local

(***************************************************************************)
(* The runner that steps.                                                  *)
(***************************************************************************)
LEMMA OwnStep ==
  ASSUME IInv, NEW r \in Runners, Step(r)
  PROVE  Local(r)'
<1>1. TypeOK /\ Local(r) /\ Mine(r) # NoFile /\ Leaf(r) \in Leaves
  BY MineIsAFile DEF IInv
<1>2. run[r] \in Nat /\ ordinal[r] \in Nat
  BY <1>1, ProcessRunnerAssumption DEF TypeOK
<1> USE <1>1, <1>2
        DEF TypeOK, Goto, Return, Polling, Capturing, files, counts, process, answer,
            Local, Counted, OwnLeaf, Watched, Answered, Leaf, Mine
<1>3. CASE Child(r) \/ Expires(r)
  <2>1. CASE ChildGroups(r)
    BY <2>1 DEF ChildGroups
  <2>2. CASE ChildSpawns(r)
    BY <2>2 DEF ChildSpawns
  <2>3. CASE ChildEnds(r)
    BY <2>3 DEF ChildEnds
  <2>4. CASE \E s \in Streams : Writes(r, s)
    BY <2>4 DEF Writes
  <2>5. CASE Expires(r)
    BY <2>5 DEF Expires
  <2>6. QED
    BY <1>3, <2>1, <2>2, <2>3, <2>4, <2>5 DEF Child
<1>4. CASE RemoveStale(r)
  BY <1>4 DEF RemoveStale
<1>5. CASE OpenAndFork(r)
  BY <1>5 DEF OpenAndFork
<1>6. CASE ForkFails(r)
  BY <1>6 DEF ForkFails
<1>7. CASE Poll(r)
  BY <1>7 DEF Poll
<1>8. CASE Deadline(r)
  BY <1>8 DEF Deadline, KillGroup
<1>9. CASE OutputLimit(r)
  BY <1>9 DEF OutputLimit, KillGroup
<1>10. CASE Wait(r)
  BY <1>10 DEF Wait
<1>11. CASE Status(r)
  BY <1>11 DEF Status
<1>12. CASE Measure(r)
  <2>1. \A s \in Streams : Held(r, s) \in 0..MaxOutput
    BY <1>12, HeldIsOwn DEF Measure
  <2>2. CASE Oversized(r)
    BY <1>12, <2>2 DEF Measure
  <2>3. CASE ~Oversized(r)
    <3>1. \A s \in Streams : Held(r, s) <= Limit
      BY <2>1, <2>3, ProcessRunnerAssumption DEF Oversized
    <3>2. /\ measured' = [measured EXCEPT ![r] = [s \in Streams |-> Held(r, s)]]
          /\ pc' = [pc EXCEPT ![r] = "read"] /\ UNCHANGED result
      BY <1>12, <2>3 DEF Measure
    <3>3. \A s \in Streams : measured'[r][s] <= Limit
      BY <3>1, <3>2
    <3>4. QED
      BY <1>12, <3>2, <3>3 DEF Measure
  <2>4. QED
    BY <2>2, <2>3
<1>13. CASE Read(r)
  BY <1>13 DEF Read
<1>14. CASE Release(r)
  BY <1>14 DEF Release
<1>15. CASE Start(r)
  BY <1>15 DEF Start
<1>16. CASE Restart(r) \/ Crash(r)
  BY <1>16 DEF Restart, Crash
<1>17. QED
  BY <1>3, <1>4, <1>5, <1>6, <1>7, <1>8, <1>9, <1>10, <1>11, <1>12, <1>13, <1>14, <1>15, <1>16
     DEF Step, Runner

(***************************************************************************)
(* Where the files are.  A step of r leaves each leaf alone, empties it, or *)
(* puts r's own files there.                                               *)
(***************************************************************************)
LEMMA RunsGrow ==
  ASSUME IInv, NEW r \in Runners, Step(r), NEW q \in Runners
  PROVE  run[q] \in Nat /\ run'[q] \in Nat /\ run[q] <= run'[q]
<1>1. TypeOK
  BY DEF IInv
<1>2. run' = run \/ run' = [run EXCEPT ![r] = @ + 1]
  BY DEF Step, Runner, Child, ChildGroups, ChildSpawns, ChildEnds, Writes, Expires, Start,
         RemoveStale, OpenAndFork, ForkFails, Poll, Deadline, OutputLimit, Wait, Status,
         Measure, Read, Release, Crash, Restart, counts
<1>3. QED
  BY <1>1, <1>2, ProcessRunnerAssumption DEF TypeOK

\* A step leaves a capture as it was, removes it, or puts its own there.
LEMMA FilesOfOthers ==
  ASSUME IInv, NEW r \in Runners, Step(r), NEW l \in Leaves
  PROVE  capture'[l] = capture[l] \/ capture'[l] = NoFile
         \/ (capture'[l] = Mine(r) /\ run' = run)
<1>1. DOMAIN capture = Leaves /\ capture = [k \in Leaves |-> capture[k]]
  BY DEF IInv, TypeOK
<1>2. \/ capture' = capture
      \/ capture' = [capture EXCEPT ![Leaf(r)] = NoFile]
      \/ capture' = [capture EXCEPT ![Leaf(r)] = Mine(r)] /\ run' = run
  BY DEF Step, Runner, Child, ChildGroups, ChildSpawns, ChildEnds, Writes, Expires, Start,
         RemoveStale, OpenAndFork, ForkFails, Poll, Deadline, OutputLimit, Wait, Status,
         Measure, Read, Release, Crash, Restart, Return, files, counts
<1>3. QED
  BY <1>1, <1>2

\* A capture that is its own stands under its own leaf.
LEMMA PlacedOwn ==
  ASSUME IInv, NEW r \in Runners, Step(r), NEW l \in Leaves, capture'[l] = Mine(r)'
  PROVE  IF pc'[r] = "idle" THEN result'[r] = "none"
         ELSE pc'[r] \notin {"prepare", "open"} /\ l = Leaf(r)'
<1>1. TypeOK /\ Local(r) /\ Placed /\ Leaf(r) \in Leaves /\ Mine(r) # NoFile
  BY MineIsAFile DEF IInv
<1>2. capture[l] = Mine(r) =>
        IF pc[r] = "idle" THEN result[r] = "none"
        ELSE pc[r] \notin {"prepare", "open"} /\ l = Leaf(r)
  BY <1>1 DEF Placed
<1>3. CASE Start(r)
  <2>1. capture[l] = Mine(r)' /\ Mine(r)'.runner = r /\ Mine(r)'.run = run[r] + 1
    BY <1>1, <1>3 DEF Start, files, Mine, TypeOK
  <2>2. Mine(r)' # NoFile
    <3>1. Mine(r)' \in Files
      BY <1>3, LifeTypes DEF Mine, Files, TypeOK
    <3>2. QED
      BY <3>1, NoFileIsNoFile
  <2>3. run[r] + 1 <= run[r]
    BY <1>1, <2>1, <2>2 DEF Placed
  <2>4. QED
    BY <1>1, <2>3, RunsGrow
<1> USE <1>1, <1>2 DEF TypeOK, Goto, Return, files, counts, process, answer, Leaf, Mine
<1>4. CASE RemoveStale(r) \/ Release(r)
  BY <1>4 DEF RemoveStale, Release
<1>5. CASE OpenAndFork(r) \/ ForkFails(r)
  BY <1>5 DEF OpenAndFork, ForkFails, Local, OwnLeaf
<1>6. CASE Crash(r) \/ Restart(r)
  BY <1>6 DEF Crash, Restart
<1>7. CASE Child(r) \/ Expires(r)
  BY <1>7 DEF Child, ChildGroups, ChildSpawns, ChildEnds, Writes, Expires
<1>8. CASE Poll(r) \/ Deadline(r) \/ OutputLimit(r) \/ Wait(r)
  BY <1>8 DEF Poll, Deadline, OutputLimit, Wait
<1>9. CASE Status(r) \/ Measure(r) \/ Read(r)
  BY <1>9 DEF Status, Measure, Read
<1>10. QED
  BY <1>3, <1>4, <1>5, <1>6, <1>7, <1>8, <1>9 DEF Step, Runner

\* Every step keeps the captures placed.
LEMMA PlacedStep ==
  ASSUME DistinctPids, IInv, NEW r \in Runners, Step(r)
  PROVE  Placed'
<1>1. TypeOK /\ Placed
  BY DEF IInv
<1>2. ASSUME NEW l \in Leaves, capture'[l] # NoFile
      PROVE  capture'[l].run <= run'[capture'[l].runner]
  <2>1. CASE capture'[l] = capture[l]
    <3>1. capture[l] \in Files /\ capture[l].run <= run[capture[l].runner]
      BY <1>1, <1>2, <2>1 DEF TypeOK, Placed
    <3>2. capture[l].runner \in Runners /\ capture[l].run \in Nat
      BY <3>1, ProcessRunnerAssumption DEF Files
    <3>3. QED
      BY <2>1, <3>1, <3>2, RunsGrow
  <2>2. CASE capture'[l] = Mine(r) /\ run' = run
    BY <2>2, RunsGrow DEF Mine
  <2>3. QED
    BY <1>2, <2>1, <2>2, FilesOfOthers
<1>3. ASSUME NEW q \in Runners, q # r, NEW l \in Leaves, capture'[l] = Mine(q)'
      PROVE  IF pc'[q] = "idle" THEN result'[q] = "none"
             ELSE pc'[q] \notin {"prepare", "open"} /\ l = Leaf(q)'
  <2>1. Same(q)
    BY <1>3, OthersSame
  <2>2. Mine(q)' = Mine(q) /\ Leaf(q)' = Leaf(q)
    BY <2>1 DEF Same, Mine, Leaf
  <2>3. Mine(q) # NoFile /\ Mine(q) # Mine(r)
    BY <1>1, <1>3, MineIsAFile
  <2>4. capture[l] = Mine(q)
    BY <1>3, <2>2, <2>3, FilesOfOthers
  <2>5. QED
    BY <1>1, <2>1, <2>2, <2>4 DEF Same, Placed
<1>4. QED
  BY <1>2, <1>3, PlacedOwn DEF Placed

\* Every step keeps the invariant.
LEMMA InvStep == DistinctPids /\ IInv /\ [Next]_vars => IInv'
<1> SUFFICES ASSUME DistinctPids, IInv, [Next]_vars PROVE IInv'
  OBVIOUS
<1>1. ASSUME NEW r \in Runners, Step(r)
      PROVE  IInv'
  <2>1. TypeOK'
    BY <1>1, ChildTypes, RunnerTypes, LifeTypes DEF Step
  <2>2. \A q \in Runners : Local(q)'
    BY <1>1, OwnStep, OthersSame, SameIsLocal DEF IInv
  <2>3. QED
    BY <1>1, <2>1, <2>2, PlacedStep DEF IInv
<1>2. CASE UNCHANGED vars
  <2>1. TypeOK'
    BY <1>2 DEF vars, files, counts, process, answer, IInv, TypeOK
  <2>2. \A q \in Runners : Same(q)
    BY <1>2 DEF vars, files, counts, process, answer, Same
  <2>3. Placed'
    BY <1>2 DEF vars, files, counts, process, answer, IInv, Placed, Mine, Leaf
  <2>4. QED
    BY <2>1, <2>2, <2>3, SameIsLocal DEF IInv
<1>3. QED
  BY <1>1, <1>2 DEF Next

\* The invariant holds the properties of the run.
LEMMA InvGivesProperties ==
  IInv => /\ TypeOK /\ ExitIsTheChilds /\ CaptureIsOwn
          /\ OutputIsBounded /\ ResidueIsHarmless /\ NothingLeftBehind
BY DEF IInv, Local, Answered, Watched, Placed, ExitIsTheChilds, CaptureIsOwn,
       OutputIsBounded, ResidueIsHarmless, NothingLeftBehind

-----------------------------------------------------------------------------

\* Every variable keeps its type, of any number of tools at work under one
\* capture root, when no two of them share a process number.
THEOREM TypeCorrect == ASSUME DistinctPids PROVE Spec => []TypeOK
<1>1. DistinctPids /\ IInv /\ [Next]_vars => IInv'
  BY InvStep
<1>2. QED
  BY <1>1, InvInit, InvGivesProperties, PTL DEF Spec

\* runBoundedProcess never returns a result for a child that was killed: a
\* completed run's child exited by itself and was reaped.
THEOREM ExitIsReported == ASSUME DistinctPids PROVE Spec => []ExitIsTheChilds
<1>1. DistinctPids /\ IInv /\ [Next]_vars => IInv'
  BY InvStep
<1>2. QED
  BY <1>1, InvInit, InvGivesProperties, PTL DEF Spec

\* The process number and the ordinal are enough of a name: a completed run
\* returns the captures its own child was given.
THEOREM CapturesAreOwn == ASSUME DistinctPids PROVE Spec => []CaptureIsOwn
<1>1. DistinctPids /\ IInv /\ [Next]_vars => IInv'
  BY InvStep
<1>2. QED
  BY <1>1, InvInit, InvGivesProperties, PTL DEF Spec

\* readCapture's own measurement enforces the limits, not the poll loop's.
THEOREM OutputStaysBounded == ASSUME DistinctPids PROVE Spec => []OutputIsBounded
<1>1. DistinctPids /\ IInv /\ [Next]_vars => IInv'
  BY InvStep
<1>2. QED
  BY <1>1, InvInit, InvGivesProperties, PTL DEF Spec

\* What a tool that died left at a leaf never makes a later run fail.
THEOREM NoResidue == ASSUME DistinctPids PROVE Spec => []ResidueIsHarmless
<1>1. DistinctPids /\ IInv /\ [Next]_vars => IInv'
  BY InvStep
<1>2. QED
  BY <1>1, InvInit, InvGivesProperties, PTL DEF Spec

\* A run that has returned, with a result or a refusal, leaves no zombie and no
\* capture.
THEOREM RunsCleanUp == ASSUME DistinctPids PROVE Spec => []NothingLeftBehind
<1>1. DistinctPids /\ IInv /\ [Next]_vars => IInv'
  BY InvStep
<1>2. QED
  BY <1>1, InvInit, InvGivesProperties, PTL DEF Spec
====
