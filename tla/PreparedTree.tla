---- MODULE PreparedTree ----
(***************************************************************************)
(* The prepared-tree publisher of cmake/bootstrap/verifier.cmake:          *)
(* rf_publish_prepared_tree and rf_recover_prepared_rollback, run again    *)
(* and again over one destination.                                         *)
(*                                                                         *)
(* A publication copies a verified source tree to DESTINATION.incoming,    *)
(* writes its identity marker last, renames the tree in service to         *)
(* DESTINATION.previous, renames the incoming tree into its place and      *)
(* removes the old one.  Two renames are not one, and removing a tree is   *)
(* neither atomic nor checked by CMake, so every run first looks at what   *)
(* the run before it left behind.                                          *)
(*                                                                         *)
(* One action is one file operation of a run.  A run can die before, after *)
(* or in the middle of any of them: it is killed, or a file(COPY) or       *)
(* file(WRITE) ends it with a fatal error.  One run executes at a time.    *)
(***************************************************************************)
EXTENDS Naturals

CONSTANTS
  Generations,      \* the verified source trees a lock can ask for
  Markers,          \* contents of .rf-prepared.json
  MarkerOf,         \* the marker the caller passes with each generation
  Nothing,          \* the payload of a tree that is not all there
  NoMarker,         \* no .rf-prepared.json, or one cut off: it equals none
  RecoveryRoot,     \* whether the caller passes a recovery root
  FaultKinds,       \* "crash", "rename", "remove", "upgrade": what may occur
  MaxFaults         \* bound: how many of them, over all the runs

ASSUME PreparedTreeAssumption ==
  /\ MarkerOf \in [Generations -> Markers]
  /\ Nothing \notin Generations
  /\ NoMarker \notin Markers
  /\ RecoveryRoot \in BOOLEAN
  /\ MaxFaults \in Nat

VARIABLES
  destination,      \* the tree the tools are run from
  incoming,         \* DESTINATION.incoming
  previous,         \* DESTINATION.previous
  desired,          \* the generation the repository's lock asks for
  pc,               \* the next file operation of the run, or "idle"
  result,           \* how the last run ended; its diagnostic while it undoes
  left              \* faults still to come

trees == <<destination, incoming, previous>>
vars  == <<destination, incoming, previous, desired, pc, result, left>>

(***************************************************************************)
(* A directory on disk: the generation whose files are all in it, the      *)
(* generations it holds any file of, and the marker it carries.            *)
(***************************************************************************)
Tree == [present: BOOLEAN, whole: Generations \union {Nothing},
         files: SUBSET Generations, marker: Markers \union {NoMarker}]

Absent == [present |-> FALSE, whole |-> Nothing, files |-> {}, marker |-> NoMarker]

Wanted == MarkerOf[desired]

Verified(t) ==
  t.present /\ t.whole \in Generations /\ t.marker = MarkerOf[t.whole]

\* What a file(REMOVE_RECURSE) that stopped half-way leaves of t.
Gutted(t) ==
  {tt \in Tree :
     \/ tt = t
     \/ /\ tt.present = t.present /\ tt.whole = Nothing
        /\ tt.files \subseteq t.files /\ tt.marker \in {t.marker, NoMarker}}

\* What a file(COPY) of the desired generation that stopped half-way leaves.
HalfCopied(t) ==
  {[t EXCEPT !.present = TRUE, !.whole = Nothing, !.files = t.files \union f] :
     f \in SUBSET {desired}}

Steps == {"recover", "clean", "copy", "mark", "stage", "swap", "drop",
          "undo", "rollback"}

Results == {"none", "published", "crashed", "RF1308", "RF1309", "RF1312"}

TypeOK ==
  /\ destination \in Tree /\ incoming \in Tree /\ previous \in Tree
  /\ desired \in Generations
  /\ pc \in Steps \union {"idle"}
  /\ result \in Results
  /\ left \in 0..MaxFaults

Init ==
  /\ destination = Absent /\ incoming = Absent /\ previous = Absent
  /\ desired \in Generations
  /\ pc = "idle" /\ result = "none"
  /\ left = MaxFaults

NoFault == UNCHANGED left

Fault(kind) == kind \in FaultKinds /\ left > 0 /\ left' = left - 1

Continue(step) == pc' = step /\ UNCHANGED <<desired, result>>

Finish(outcome) == pc' = "idle" /\ result' = outcome /\ UNCHANGED desired

\* file(REMOVE_RECURSE) of tree t, whose next content is tt: all of it goes,
\* or a locked file stops the removal, which CMake does not report.
Removes(t, tt) ==
  \/ tt = Absent /\ NoFault
  \/ t.present /\ Fault("remove") /\ tt \in Gutted(t)

(***************************************************************************)
(* The lock asks for another generation; a run starts.                     *)
(***************************************************************************)
ChangeLock ==
  /\ pc = "idle"
  /\ Fault("upgrade")
  /\ desired' \in Generations \ {desired}
  /\ result' = "none"
  /\ UNCHANGED <<trees, pc>>

StartRun ==
  /\ pc = "idle"
  /\ pc' = "recover" /\ result' = "none"
  /\ UNCHANGED <<trees, desired, left>>

(***************************************************************************)
(* rf_recover_prepared_rollback                                            *)
(***************************************************************************)
RecoverNothing ==
  /\ pc = "recover"
  /\ ~previous.present
  /\ Continue("clean")
  /\ UNCHANGED <<trees, left>>

\* No recovery root, an incoming tree beside the rollback tree, or a marker
\* that is not the wanted one: nothing is deleted and nothing is chosen.
MustRefuse ==
  \/ ~RecoveryRoot
  \/ incoming.present
  \/ (IF destination.present THEN destination.marker ELSE previous.marker) # Wanted

RecoverRefuse ==
  /\ pc = "recover"
  /\ previous.present /\ MustRefuse
  /\ Finish("RF1308")
  /\ UNCHANGED <<trees, left>>

RecoverDropStale ==
  /\ pc = "recover"
  /\ previous.present /\ ~MustRefuse /\ destination.present
  /\ Removes(previous, previous')
  /\ IF previous'.present THEN Finish("RF1308") ELSE Continue("clean")
  /\ UNCHANGED <<destination, incoming>>

RecoverRestore ==
  /\ pc = "recover"
  /\ previous.present /\ ~MustRefuse /\ ~destination.present
  /\ \/ /\ destination' = previous /\ previous' = Absent
        /\ NoFault /\ Continue("clean")
     \/ /\ Fault("rename") /\ Finish("RF1308")
        /\ UNCHANGED <<destination, previous>>
  /\ UNCHANGED incoming

(***************************************************************************)
(* rf_publish_prepared_tree after the recovery                             *)
(***************************************************************************)
\* Mutant: a leftover incoming tree is refused instead of removed.
CleanIncomingRefuses ==
  /\ pc = "clean"
  /\ IF incoming.present THEN Finish("RF1308") ELSE Continue("copy")
  /\ UNCHANGED <<trees, left>>

CleanIncoming ==
  /\ pc = "clean"
  /\ Removes(incoming, incoming')
  /\ IF previous.present THEN Finish("RF1308") ELSE Continue("copy")
  /\ UNCHANGED <<destination, previous>>

CopySource ==
  /\ pc = "copy"
  /\ incoming' = [incoming EXCEPT !.present = TRUE, !.whole = desired,
                                  !.files = @ \union {desired}]
  /\ Continue("mark")
  /\ UNCHANGED <<destination, previous, left>>

\* Mutant: the marker is written only where there is none yet.
WriteMarkerIfMissing ==
  /\ pc = "mark"
  /\ incoming' = [incoming EXCEPT !.marker = IF @ = NoMarker THEN Wanted ELSE @]
  /\ Continue("stage")
  /\ UNCHANGED <<destination, previous, left>>

\* Mutant: the identity is recorded as payload.
WriteMarkerAsPayload ==
  /\ pc = "mark"
  /\ incoming' = [incoming EXCEPT !.whole = Wanted]
  /\ Continue("stage")
  /\ UNCHANGED <<destination, previous, left>>

WriteMarker ==
  /\ pc = "mark"
  /\ incoming' = [incoming EXCEPT !.marker = Wanted]
  /\ Continue("stage")
  /\ UNCHANGED <<destination, previous, left>>

\* Mutant: the tree in service is removed instead of set aside.
StageOldRemoves ==
  /\ pc = "stage"
  /\ destination.present
  /\ destination' = Absent
  /\ Continue("swap")
  /\ UNCHANGED <<incoming, previous, left>>

StageOld ==
  /\ pc = "stage"
  /\ destination.present
  /\ previous' = destination /\ destination' = Absent
  /\ Continue("swap")
  /\ UNCHANGED <<incoming, left>>

StageNothing ==
  /\ pc = "stage"
  /\ ~destination.present
  /\ Continue("swap")
  /\ UNCHANGED <<trees, left>>

StageFails ==
  /\ pc = "stage"
  /\ destination.present
  /\ Fault("rename")
  /\ pc' = "undo" /\ result' = "RF1309"
  /\ UNCHANGED <<trees, desired>>

\* Mutant: the incoming tree is copied into place and left behind.
SwapInCopies ==
  /\ pc = "swap"
  /\ destination' = incoming
  /\ Continue("drop")
  /\ UNCHANGED <<incoming, previous, left>>

SwapIn ==
  /\ pc = "swap"
  /\ destination' = incoming /\ incoming' = Absent
  /\ Continue("drop")
  /\ UNCHANGED <<previous, left>>

SwapFails ==
  /\ pc = "swap"
  /\ Fault("rename")
  /\ pc' = "undo" /\ result' = "RF1312"
  /\ UNCHANGED <<trees, desired>>

\* After a failed rename: the incoming tree goes, and a staged tree goes back.
Undo ==
  /\ pc = "undo"
  /\ Removes(incoming, incoming')
  /\ Continue("rollback")
  /\ UNCHANGED <<destination, previous>>

Rollback ==
  /\ pc = "rollback"
  /\ \/ /\ previous.present
        /\ destination' = previous /\ previous' = Absent
        /\ NoFault
     \/ /\ previous.present /\ Fault("rename")
        /\ UNCHANGED <<destination, previous>>
     \/ /\ ~previous.present /\ NoFault
        /\ UNCHANGED <<destination, previous>>
  /\ Finish(result)
  /\ UNCHANGED incoming

\* Mutant: the removal of the rollback tree is taken to have worked.
DropPreviousUnchecked ==
  /\ pc = "drop"
  /\ Removes(previous, previous')
  /\ Finish("published")
  /\ UNCHANGED <<destination, incoming>>

DropPrevious ==
  /\ pc = "drop"
  /\ Removes(previous, previous')
  /\ Finish(IF previous'.present THEN "RF1308" ELSE "published")
  /\ UNCHANGED <<destination, incoming>>

(***************************************************************************)
(* The run dies, perhaps in the middle of the copy, of the write of the    *)
(* marker or of the removal at hand.                                       *)
(***************************************************************************)
TornIncoming ==
  {incoming} \union (IF pc = "copy" THEN HalfCopied(incoming) ELSE {})
             \union (IF pc = "mark" THEN {[incoming EXCEPT !.marker = NoMarker]} ELSE {})
             \union (IF pc \in {"clean", "undo"} THEN Gutted(incoming) \union {Absent} ELSE {})

TornPrevious ==
  IF \/ pc = "drop"
     \/ pc = "recover" /\ ~MustRefuse /\ destination.present
  THEN Gutted(previous) \union {Absent}
  ELSE {previous}

Crash ==
  /\ pc # "idle"
  /\ Fault("crash")
  /\ incoming' \in TornIncoming
  /\ previous' \in TornPrevious
  /\ UNCHANGED destination
  /\ Finish("crashed")

RunStep ==
  \/ RecoverNothing \/ RecoverRefuse \/ RecoverDropStale \/ RecoverRestore
  \/ CleanIncoming \/ CopySource \/ WriteMarker
  \/ StageOld \/ StageNothing \/ StageFails
  \/ SwapIn \/ SwapFails \/ Undo \/ Rollback \/ DropPrevious

Next == ChangeLock \/ StartRun \/ RunStep \/ Crash

Spec == Init /\ [][Next]_vars

\* A started run goes on to its next operation, and somebody runs it again.
FairSpec == Spec /\ WF_vars(RunStep) /\ WF_vars(StartRun)

(***************************************************************************)
(* Properties                                                              *)
(***************************************************************************)

\* Whatever was interrupted, the tree in service is all of one generation's
\* files under that generation's marker: a tree half copied by line 508 or
\* half removed by lines 473, 503 and 526 never becomes the destination,
\* although recovery trusts nothing but the marker.
DestinationVerified == destination.present => Verified(destination)

\* A run that reports success leaves exactly the lock's generation, with
\* neither an incoming nor a rollback tree beside it.
CompletedRunDelivers ==
  result = "published" =>
    /\ destination.present /\ destination.whole = desired
    /\ ~incoming.present /\ ~previous.present

\* Once a generation is in service there is always a complete copy with its
\* marker as the destination or as the rollback tree, whatever fails.
VerifiedCopySurvives ==
  [][Verified(destination) \/ Verified(previous)
       => Verified(destination)' \/ Verified(previous)']_vars

\* What the next run with the same lock can recover from on its own.
Recoverable ==
  \/ ~previous.present
  \/ ~MustRefuse

\* A run that ends outside the window between its two renames, however it
\* ends, leaves a state the next run of the same lock can recover, unless it
\* found one that it could not recover itself.
RenameWindow == {"swap", "undo", "rollback"}

OnlyRenameWindowStrands ==
  [][(/\ pc' = "idle" /\ pc \notin RenameWindow \union {"idle"}
      /\ RecoveryRoot
      /\ pc = "recover" => Recoverable)
       => Recoverable']_vars

\* Once nothing fails any more, running the publisher again publishes the
\* desired generation, from every state it is able to recover from.
RerunPublishes ==
  (left = 0 /\ pc = "idle" /\ Recoverable) ~> result = "published"

\* prepared_tree_recovery.cmake:121-124 describes the crash window between
\* the two renames: the run "staged the old tree as .previous and died before
\* the final rename", and "the single fully verified rollback tree is
\* restored".  So recovery does not refuse while the destination is missing
\* and the rollback tree is complete and carries the wanted marker.
StagedTreeIsRestored ==
  [][RecoverRefuse => ~(/\ ~destination.present
                        /\ Verified(previous) /\ previous.marker = Wanted)]_vars

\* verifier.cmake:527-530 knows that a removal is best-effort and says to
\* fail loudly when something is left.  So what is published holds the files
\* of its own generation and of no other.
PublishedTreeIsExact ==
  result = "published" => destination.files = {destination.whole}
====
