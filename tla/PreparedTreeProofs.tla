---- MODULE PreparedTreeProofs ----
(***************************************************************************)
(* What PreparedTree guarantees for every set of generations, every        *)
(* assignment of markers to them and every number of faults.               *)
(***************************************************************************)
EXTENDS PreparedTree, TLAPS

\* An incomplete rollback tree is one being removed: the tree that replaced
\* it is in service.  This is what makes the marker enough for the recovery.
PreviousReplaceable == previous.present => Verified(previous) \/ destination.present

\* From the recovery to the first rename there is no rollback tree.
NothingStaged == pc \in {"clean", "copy", "mark", "stage"} => ~previous.present

IncomingComplete ==
  /\ pc = "mark" => incoming.present /\ incoming.whole = desired
  /\ pc \in {"stage", "swap"} => Verified(incoming) /\ incoming.whole = desired

\* Between the renames the destination is gone, and what was staged is complete.
Staged ==
  /\ pc = "swap" => ~destination.present
  /\ pc \in RenameWindow => (previous.present => ~destination.present)

Swapped ==
  pc = "drop" =>
    /\ Verified(destination) /\ destination.whole = desired
    /\ ~incoming.present

ResultFresh == result = "published" => pc = "idle"

IInv ==
  /\ TypeOK
  /\ DestinationVerified
  /\ CompletedRunDelivers
  /\ PreviousReplaceable
  /\ NothingStaged
  /\ IncomingComplete
  /\ Staged
  /\ Swapped
  /\ ResultFresh

-----------------------------------------------------------------------------
(***************************************************************************)
(* What a removal or a copy that stops half-way makes of a directory.      *)
(***************************************************************************)

\* Absent is a tree, and none that verifies.
LEMMA AbsentTree == Absent \in Tree /\ ~Absent.present /\ ~Verified(Absent)
BY DEF Absent, Tree, Verified

\* A half-removed directory is still a directory, or was none before.
LEMMA GuttedTree ==
  ASSUME NEW t \in Tree, NEW tt \in Gutted(t)
  PROVE  tt \in Tree /\ tt.present = t.present
BY DEF Gutted

\* A half-copied directory is a directory.
LEMMA HalfCopiedTree ==
  ASSUME TypeOK, NEW t \in Tree, NEW tt \in HalfCopied(t)
  PROVE  tt \in Tree
<1>1. PICK f \in SUBSET {desired} :
        tt = [t EXCEPT !.present = TRUE, !.whole = Nothing,
                       !.files = t.files \union f]
  BY DEF HalfCopied
<1>2. t.files \union f \in SUBSET Generations
  BY DEF TypeOK, Tree
<1>3. QED
  BY <1>1, <1>2 DEF Tree

\* The counter of faults stays within its bound.
LEMMA FaultsLeft ==
  ASSUME TypeOK, left' = left \/ (left > 0 /\ left' = left - 1)
  PROVE  left' \in 0..MaxFaults
BY PreparedTreeAssumption DEF TypeOK

-----------------------------------------------------------------------------
\* Every variable keeps its type in every step of every run.
LEMMA TypeStep == TypeOK /\ [Next]_vars => TypeOK'
<1> SUFFICES ASSUME TypeOK, [Next]_vars PROVE TypeOK'
  OBVIOUS
<1> USE AbsentTree
<1>l. left' \in 0..MaxFaults
  <2>1. left' = left \/ (left > 0 /\ left' = left - 1)
    BY DEF Next, RunStep, ChangeLock, StartRun, Crash, RecoverNothing, RecoverRefuse,
      RecoverDropStale, RecoverRestore, CleanIncoming, CopySource, WriteMarker,
      StageOld, StageNothing, StageFails, SwapIn, SwapFails, Undo, Rollback,
      DropPrevious, Removes, Fault, NoFault, vars
  <2>2. QED BY <2>1, FaultsLeft
<1>1. CASE ChangeLock
  BY <1>1, <1>l DEF ChangeLock, TypeOK, trees, Results
<1>2. CASE StartRun
  BY <1>2, <1>l DEF StartRun, TypeOK, trees, Results, Steps
<1>3. CASE RecoverNothing
  BY <1>3, <1>l DEF RecoverNothing, Continue, TypeOK, trees, Steps
<1>4. CASE RecoverRefuse
  BY <1>4, <1>l DEF RecoverRefuse, Finish, TypeOK, trees, Results
<1>5. CASE RecoverDropStale
  <2>1. previous' \in Tree
    BY <1>5, GuttedTree DEF RecoverDropStale, Removes, TypeOK
  <2>2. QED
    BY <1>5, <1>l, <2>1 DEF RecoverDropStale, Finish, Continue, TypeOK, Results, Steps
<1>6. CASE RecoverRestore
  BY <1>6, <1>l DEF RecoverRestore, Finish, Continue, TypeOK, Results, Steps
<1>7. CASE CleanIncoming
  <2>1. incoming' \in Tree
    BY <1>7, GuttedTree DEF CleanIncoming, Removes, TypeOK
  <2>2. QED
    BY <1>7, <1>l, <2>1 DEF CleanIncoming, Finish, Continue, TypeOK, Results, Steps
<1>8. CASE CopySource
  <2>1. incoming.files \union {desired} \in SUBSET Generations
    BY DEF TypeOK, Tree
  <2>2. incoming' \in Tree
    BY <1>8, <2>1 DEF CopySource, TypeOK, Tree
  <2>3. QED
    BY <1>8, <1>l, <2>2 DEF CopySource, Continue, TypeOK, Steps
<1>9. CASE WriteMarker
  <2>1. Wanted \in Markers
    BY PreparedTreeAssumption DEF Wanted, TypeOK
  <2>2. incoming' \in Tree
    BY <1>9, <2>1 DEF WriteMarker, TypeOK, Tree
  <2>3. QED
    BY <1>9, <1>l, <2>2 DEF WriteMarker, Continue, TypeOK, Steps
<1>10. CASE StageOld \/ StageNothing
  BY <1>10, <1>l DEF StageOld, StageNothing, Continue, TypeOK, trees, Steps
<1>11. CASE StageFails \/ SwapFails
  BY <1>11, <1>l DEF StageFails, SwapFails, TypeOK, trees, Results, Steps
<1>12. CASE SwapIn
  BY <1>12, <1>l DEF SwapIn, Continue, TypeOK, Steps
<1>13. CASE Undo
  <2>1. incoming' \in Tree
    BY <1>13, GuttedTree DEF Undo, Removes, TypeOK
  <2>2. QED
    BY <1>13, <1>l, <2>1 DEF Undo, Continue, TypeOK, Steps
<1>14. CASE Rollback
  BY <1>14, <1>l DEF Rollback, Finish, TypeOK
<1>15. CASE DropPrevious
  <2>1. previous' \in Tree
    BY <1>15, GuttedTree DEF DropPrevious, Removes, TypeOK
  <2>2. QED
    BY <1>15, <1>l, <2>1 DEF DropPrevious, Finish, TypeOK, Results
<1>16. CASE Crash
  <2>1. previous' \in Tree
    BY <1>16, GuttedTree DEF Crash, TornPrevious, TypeOK
  <2>2. [incoming EXCEPT !.marker = NoMarker] \in Tree
    BY DEF TypeOK, Tree
  <2>3. incoming' \in Tree
    BY <1>16, GuttedTree, HalfCopiedTree, <2>2 DEF Crash, TornIncoming, TypeOK
  <2>4. QED
    BY <1>16, <1>l, <2>1, <2>3 DEF Crash, Finish, TypeOK, Results
<1>17. CASE UNCHANGED vars
  BY <1>17 DEF vars, TypeOK
<1>18. QED
  BY <1>1, <1>2, <1>3, <1>4, <1>5, <1>6, <1>7, <1>8, <1>9, <1>10, <1>11, <1>12,
     <1>13, <1>14, <1>15, <1>16, <1>17 DEF Next, RunStep

\* The invariant holds at first.
LEMMA InitInv == Init => IInv
BY AbsentTree, PreparedTreeAssumption
   DEF Init, IInv, TypeOK, DestinationVerified, CompletedRunDelivers,
       PreviousReplaceable, NothingStaged, IncomingComplete, Staged, Swapped,
       ResultFresh, Steps, Results, RenameWindow

\* Every step of every run keeps the inductive invariant.
LEMMA InvStep == IInv /\ [Next]_vars => IInv'
<1> SUFFICES ASSUME IInv, [Next]_vars PROVE IInv'
  OBVIOUS
<1> USE AbsentTree DEF IInv, DestinationVerified, CompletedRunDelivers,
      PreviousReplaceable, NothingStaged, IncomingComplete, Staged, Swapped,
      ResultFresh, RenameWindow
<1>t. TypeOK'
  BY TypeStep
<1>v. ASSUME NEW t, NEW tt, tt = t PROVE Verified(tt) <=> Verified(t)
  BY <1>v
<1>1. CASE ChangeLock
  BY <1>1, <1>t DEF ChangeLock, trees, Verified
<1>2. CASE StartRun
  BY <1>2, <1>t DEF StartRun, trees, Verified
<1>3. CASE RecoverNothing
  BY <1>3, <1>t DEF RecoverNothing, Continue, trees, Verified
<1>4. CASE RecoverRefuse
  BY <1>4, <1>t DEF RecoverRefuse, Finish, trees, Verified
<1>5. CASE RecoverDropStale
  BY <1>5, <1>t DEF RecoverDropStale, Finish, Continue, Verified
<1>6. CASE RecoverRestore
  BY <1>6, <1>t DEF RecoverRestore, Finish, Continue, Verified
<1>7. CASE CleanIncoming
  BY <1>7, <1>t DEF CleanIncoming, Finish, Continue, Verified
<1>8. CASE CopySource
  <2>1. incoming'.present /\ incoming'.whole = desired
    BY <1>8 DEF CopySource, TypeOK, Tree
  <2>2. QED
    BY <1>8, <1>t, <2>1 DEF CopySource, Continue, Verified
<1>9. CASE WriteMarker
  <2>1. Verified(incoming') /\ incoming'.whole = desired
    BY <1>9 DEF WriteMarker, TypeOK, Tree, Verified, Wanted
  <2>2. QED
    BY <1>9, <1>t, <2>1 DEF WriteMarker, Continue, Verified
<1>10. CASE StageOld
  BY <1>10, <1>t DEF StageOld, Continue, Verified
<1>11. CASE StageNothing
  BY <1>11, <1>t DEF StageNothing, Continue, trees, Verified
<1>12. CASE StageFails \/ SwapFails
  BY <1>12, <1>t DEF StageFails, SwapFails, trees, Verified
<1>13. CASE SwapIn
  BY <1>13, <1>t DEF SwapIn, Continue, Verified
<1>14. CASE Undo
  BY <1>14, <1>t DEF Undo, Continue, Verified
<1>15. CASE Rollback
  BY <1>15, <1>t DEF Rollback, Finish, Verified
<1>16. CASE DropPrevious
  BY <1>16, <1>t DEF DropPrevious, Finish, Verified
<1>17. CASE Crash
  <2>1. previous' = previous \/ destination.present \/ previous' = Absent
    BY <1>17 DEF Crash, TornPrevious, Verified
  <2>2. QED
    BY <1>17, <1>t, <2>1 DEF Crash, Finish, Verified
<1>18. CASE UNCHANGED vars
  BY <1>18, <1>t DEF vars, Verified
<1>19. QED
  BY <1>1, <1>2, <1>3, <1>4, <1>5, <1>6, <1>7, <1>8, <1>9, <1>10, <1>11, <1>12,
     <1>13, <1>14, <1>15, <1>16, <1>17, <1>18 DEF Next, RunStep

\* The invariant holds of every reachable state.
LEMMA Invariant == Spec => []IInv
BY InitInv, InvStep, PTL DEF Spec

-----------------------------------------------------------------------------
\* The variables keep their types: the bounds on faults and results hold.
THEOREM TypeCorrect == Spec => []TypeOK
<1>1. IInv => TypeOK
  BY DEF IInv
<1>2. QED
  BY <1>1, Invariant, PTL

\* The tree in service is always complete and carries its own marker,
\* wherever a run of rf_publish_prepared_tree was interrupted.
THEOREM ServiceIsVerified == Spec => []DestinationVerified
<1>1. IInv => DestinationVerified
  BY DEF IInv
<1>2. QED
  BY <1>1, Invariant, PTL

\* A publication that reports success left the lock's generation and nothing
\* beside it.
THEOREM SuccessDelivers == Spec => []CompletedRunDelivers
<1>1. IInv => CompletedRunDelivers
  BY DEF IInv
<1>2. QED
  BY <1>1, Invariant, PTL

\* No sequence of crashes, failed renames, failed removals and upgrades
\* destroys the last complete copy of a tool.
THEOREM CopySurvives == Spec => VerifiedCopySurvives
<1>1. ASSUME IInv, [Next]_vars, Verified(destination) \/ Verified(previous)
      PROVE  Verified(destination)' \/ Verified(previous)'
  <2> USE <1>1 DEF IInv, DestinationVerified, PreviousReplaceable, NothingStaged,
        IncomingComplete, Staged, Swapped, RenameWindow
  <2>1. CASE RecoverDropStale
    BY <2>1 DEF RecoverDropStale, Verified
  <2>2. CASE RecoverRestore
    BY <2>2 DEF RecoverRestore, Verified
  <2>3. CASE StageOld
    BY <2>3 DEF StageOld, Verified
  <2>4. CASE SwapIn
    BY <2>4 DEF SwapIn, Verified
  <2>5. CASE Rollback
    BY <2>5 DEF Rollback, Verified
  <2>6. CASE DropPrevious
    BY <2>6 DEF DropPrevious, Verified
  <2>7. CASE Crash
    <3>1. previous' = previous \/ destination.present
      BY <2>7 DEF Crash, TornPrevious, Verified
    <3>2. QED
      BY <2>7, <3>1 DEF Crash, Verified
  <2>8. CASE UNCHANGED <<destination, previous>>
    BY <2>8 DEF Verified
  <2>9. QED
    BY <2>1, <2>2, <2>3, <2>4, <2>5, <2>6, <2>7, <2>8
       DEF Next, RunStep, vars, trees, ChangeLock, StartRun, RecoverNothing,
           RecoverRefuse, CleanIncoming, CopySource, WriteMarker, StageNothing,
           StageFails, SwapFails, Undo
<1>2. QED
  BY <1>1, Invariant, PTL DEF Spec, VerifiedCopySurvives

\* Only between the two renames can a run die and leave a state the next run
\* of the same lock refuses to touch.
THEOREM OnlyWindowStrands == Spec => OnlyRenameWindowStrands
<1>1. IInv /\ [Next]_vars =>
        ((/\ pc' = "idle" /\ pc \notin RenameWindow \union {"idle"}
          /\ RecoveryRoot
          /\ pc = "recover" => Recoverable)
           => Recoverable')
  <2> SUFFICES ASSUME IInv, [Next]_vars, RecoveryRoot,
                      pc' = "idle", pc \notin RenameWindow \union {"idle"},
                      pc = "recover" => Recoverable
               PROVE  Recoverable'
    OBVIOUS
  <2> USE DEF IInv, NothingStaged, Swapped, RenameWindow, Recoverable, MustRefuse, Wanted
  <2>1. CASE RecoverRefuse
    BY <2>1 DEF RecoverRefuse
  <2>2. CASE RecoverDropStale
    BY <2>2 DEF RecoverDropStale, Finish, Continue
  <2>3. CASE RecoverRestore
    BY <2>3 DEF RecoverRestore, Finish, Continue
  <2>4. CASE CleanIncoming
    BY <2>4 DEF CleanIncoming
  <2>5. CASE DropPrevious
    BY <2>5 DEF DropPrevious, Finish, Verified
  <2>6. CASE Crash
    <3>1. CASE pc = "recover" /\ previous.present
      <4>1. incoming' = incoming
        BY <2>6, <3>1 DEF Crash, TornIncoming
      <4>2. previous' = previous \/ destination.present
        BY <2>6, <3>1 DEF Crash, TornPrevious
      <4>3. QED
        BY <2>6, <3>1, <4>1, <4>2 DEF Crash, Finish
    <3>2. CASE pc = "drop"
      <4>1. incoming' = incoming
        BY <2>6, <3>2 DEF Crash, TornIncoming
      <4>2. QED
        BY <2>6, <3>2, <4>1 DEF Crash, Finish, Verified
    <3>3. CASE ~previous.present /\ pc # "drop"
      <4>1. ~previous'.present
        BY <2>6, <3>3, GuttedTree, AbsentTree DEF Crash, TornPrevious, TypeOK
      <4>2. QED
        BY <4>1
    <3>4. QED
      BY <3>1, <3>2, <3>3, <2>6 DEF Crash, TypeOK, Steps
  <2>7. QED
    BY <2>1, <2>2, <2>3, <2>4, <2>5, <2>6
       DEF Next, RunStep, vars, ChangeLock, StartRun, RecoverNothing, CopySource,
           WriteMarker, StageOld, StageNothing, StageFails, SwapIn, SwapFails,
           Undo, Rollback, Continue
<1>2. QED
  BY <1>1, Invariant, PTL DEF Spec, OnlyRenameWindowStrands

====
