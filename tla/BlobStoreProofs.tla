---- MODULE BlobStoreProofs ----
(***************************************************************************)
(* For any number of processes, whatever process numbers they share, and   *)
(* any number of faults, the blob store keeps the promise of ContentStore. *)
(***************************************************************************)
EXTENDS BlobStore, SequenceTheorems, FiniteSetTheorems, TLAPS

\* Who is between creating a staged file and letting go of it.
HasStaged ==
  \A p \in Processes :
    pc[p] \in Owning => mine[p] \in StagedNames /\ staged[mine[p]] # NoFile

\* The counters leave room for every attempt a put may still make.
RoomToRetry ==
  \A p \in Processes :
    /\ pc[p] \in {"idle", "measure"} => attempt[p] = 0
    /\ pc[p] = "measure" => ordinal[p] + Retries <= MaxOrdinal
    /\ pc[p] = "create"  => ordinal[p] + (Retries - attempt[p]) <= MaxOrdinal

\* From the third pass on, the staged file is what its identity says.
Confirmed ==
  \A p \in Processes :
    pc[p] \in {"classify", "link", "unlink"} => staged[mine[p]] = identity[p]

\* Once a process has seen its name bound, it stays bound.
SeenBound ==
  \A p \in Processes :
    pc[p] \in {"unlink", "discard", "verify", "read"} => blob[identity[p]] # NoFile

Answered ==
  \A p \in Processes :
    /\ pc[p] # "idle" => result[p] = "none"
    /\ result[p] = "stored" => blob[identity[p]] # NoFile
    /\ result[p] = "returned" => bytes[p] = identity[p] /\ blob[identity[p]] # NoFile

IInv ==
  /\ TypeOK
  /\ ExclusiveStaging
  /\ HasStaged
  /\ RoomToRetry
  /\ Confirmed
  /\ SeenBound
  /\ Answered

-----------------------------------------------------------------------------
(***************************************************************************)
(* Contents are the sequences of at most MaxLen chunks.                    *)
(***************************************************************************)

\* The empty file is a content.
LEMMA EmptyContent == <<>> \in Contents
<1>1. <<>> \in [1..0 -> Chunks]
  OBVIOUS
<1>2. 0 \in 0..MaxLen
  BY BlobStoreAssumption
<1>3. QED
  BY <1>1, <1>2 DEF Contents

\* A content is a sequence of chunks, no longer than the bound.
LEMMA ContentSeq ==
  ASSUME NEW c \in Contents
  PROVE  c \in Seq(Chunks) /\ Len(c) \in 0..MaxLen /\ c \in [1..Len(c) -> Chunks]
<1>1. PICK n \in 0..MaxLen : c \in [1..n -> Chunks]
  BY DEF Contents
<1>2. c \in Seq(Chunks) /\ Len(c) = n
  BY <1>1
<1>3. QED
  BY <1>1, <1>2

\* Chunks of an admitted length are a content.
LEMMA ContentOfLength ==
  ASSUME NEW k \in 0..MaxLen, NEW c \in [1..k -> Chunks]
  PROVE  c \in Contents
BY DEF Contents

\* Reading one more chunk of a file yields a content.
LEMMA NextChunk ==
  ASSUME NEW c \in Contents, NEW f \in Contents, Len(c) < Len(f)
  PROVE  Append(c, f[Len(c) + 1]) \in Contents
<1>1. c \in Seq(Chunks) /\ f \in Seq(Chunks) /\ Len(f) \in 0..MaxLen /\ Len(c) \in Nat
  BY ContentSeq
<1>2. Len(c) + 1 \in 1..Len(f) /\ f[Len(c) + 1] \in Chunks
  BY <1>1
<1>3. /\ Append(c, f[Len(c) + 1]) \in Seq(Chunks)
      /\ Len(Append(c, f[Len(c) + 1])) = Len(c) + 1
  BY <1>1, <1>2, AppendProperties
<1>4. Append(c, f[Len(c) + 1]) \in [1..(Len(c) + 1) -> Chunks]
  BY <1>3, LenProperties
<1>5. Len(c) + 1 \in 0..MaxLen
  BY <1>1, <1>2, BlobStoreAssumption
<1>6. QED
  BY <1>4, <1>5, ContentOfLength

-----------------------------------------------------------------------------
(***************************************************************************)
(* Types: every action of a process.                                       *)
(***************************************************************************)

\* Faults are only used up.
LEMMA FaultsLeft ==
  ASSUME TypeOK, left' = left \/ (left > 0 /\ left' = left - 1)
  PROVE  left' \in 0..MaxFaults
BY BlobStoreAssumption DEF TypeOK

\* The first states are typed.
LEMMA InitTypes == Init => TypeOK
<1> SUFFICES ASSUME Init PROVE TypeOK
  OBVIOUS
<1>1. source \in Contents
  BY BlobStoreAssumption DEF Init
<1>2. QED
  BY <1>1, EmptyContent, BlobStoreAssumption DEF Init, TypeOK, Results

\* A process that is to create has a name left to try.
LEMMA NameOfNext ==
  ASSUME TypeOK, RoomToRetry, NEW p \in Processes, pc[p] = "create"
  PROVE  NextName(p) \in StagedNames
<1>1. ordinal[p] \in 0..MaxOrdinal /\ attempt[p] \in 0..Retries
  BY BlobStoreAssumption DEF TypeOK, RoomToRetry
<1>2. QED
  BY <1>1, BlobStoreAssumption DEF TypeOK, NextName, StagedNames

ControlTypes ==
  /\ pc \in [Processes -> PutSteps \union GetSteps \union {"idle"}]
  /\ mine \in [Processes -> StagedNames \union {NoFile}]
  /\ attempt \in [Processes -> 0..Retries]
  /\ result \in [Processes -> Results]

\* A call that ends leaves the control state typed.
LEMMA FinishTypes ==
  ASSUME TypeOK, NEW p \in Processes, NEW outcome \in Results, Finish(p, outcome)
  PROVE  ControlTypes'
BY BlobStoreAssumption DEF TypeOK, Finish, ControlTypes

\* A call that goes on leaves the control state typed.
LEMMA ContinueTypes ==
  ASSUME TypeOK, NEW p \in Processes,
         NEW step \in PutSteps \union GetSteps, Continue(p, step)
  PROVE  ControlTypes'
BY DEF TypeOK, Continue, ControlTypes

\* The steps of put up to confirmation keep the types.
LEMMA PutTypes ==
  ASSUME IInv, NEW p \in Processes,
         \/ StartPut(p) \/ MeasureChunk(p) \/ MeasureEnd(p) \/ Create(p) \/ CreateCollides(p)
         \/ CopyChunk(p) \/ CopyEnd(p) \/ CopyFails(p) \/ Confirm(p) \/ ConfirmRefuses(p)
  PROVE  TypeOK'
<1> USE DEF IInv
<1>1. CASE StartPut(p)
  BY <1>1, EmptyContent DEF StartPut, Start, TypeOK, PutSteps, Results
<1>2. CASE MeasureChunk(p)
  <2>1. Append(identity[p], source[Len(identity[p]) + 1]) \in Contents
    BY <1>2, NextChunk DEF MeasureChunk, TypeOK
  <2>2. identity' \in [Processes -> Contents]
    BY <1>2, <2>1 DEF MeasureChunk, TypeOK
  <2>3. Finish(p, "limit_exceeded") \/ Continue(p, "measure")
    BY <1>2 DEF MeasureChunk
  <2>4. ControlTypes'
    BY <2>3, FinishTypes, ContinueTypes DEF PutSteps, Results, Failures
  <2>5. QED
    BY <1>2, <2>2, <2>4 DEF MeasureChunk, TypeOK, ControlTypes
<1>3. CASE MeasureEnd(p)
  BY <1>3 DEF MeasureEnd, Continue, TypeOK, PutSteps
<1>4. CASE Create(p)
  <2>1. NextName(p) \in StagedNames
    BY <1>4, NameOfNext DEF Create
  <2>2. ordinal[p] + 1 \in 0..(MaxOrdinal + 1)
    BY <1>4, BlobStoreAssumption DEF Create, TypeOK, RoomToRetry
  <2>3. QED
    BY <1>4, <2>1, <2>2, EmptyContent DEF Create, TypeOK, PutSteps
<1>5. CASE CreateCollides(p)
  <2>1. ordinal[p] + 1 \in 0..(MaxOrdinal + 1)
    BY <1>5, BlobStoreAssumption DEF CreateCollides, TypeOK, RoomToRetry
  <2>2. attempt[p] # Retries => attempt[p] + 1 \in 0..Retries
    BY BlobStoreAssumption DEF TypeOK
  <2>3. QED
    BY <1>5, <2>1, <2>2, BlobStoreAssumption
       DEF CreateCollides, TypeOK, Finish, Results, Failures
<1>6. CASE CopyChunk(p)
  <2>1. mine[p] \in StagedNames /\ staged[mine[p]] \in Contents
    BY <1>6 DEF CopyChunk, TypeOK, HasStaged, Owning
  <2>2. Append(staged[mine[p]], source[Len(staged[mine[p]]) + 1]) \in Contents
    BY <1>6, <2>1, NextChunk DEF CopyChunk, TypeOK
  <2>3. QED
    BY <1>6, <2>1, <2>2 DEF CopyChunk, Continue, TypeOK, PutSteps
<1>7. CASE CopyEnd(p)
  BY <1>7 DEF CopyEnd, Continue, TypeOK, PutSteps
<1>8. CASE CopyFails(p)
  <2>1. left' \in 0..MaxFaults
    BY <1>8, FaultsLeft DEF CopyFails, Fault
  <2>2. mine[p] \in StagedNames
    BY <1>8 DEF CopyFails, HasStaged, Owning
  <2>3. QED
    BY <1>8, <2>1, <2>2, BlobStoreAssumption
       DEF CopyFails, MayDiscard, Finish, TypeOK, Results, Failures
<1>9. CASE Confirm(p)
  BY <1>9 DEF Confirm, Continue, TypeOK, PutSteps
<1>10. CASE ConfirmRefuses(p)
  <2>1. left' \in 0..MaxFaults
    BY <1>10, FaultsLeft DEF ConfirmRefuses, Discards, Fault, NoFault
  <2>2. mine[p] \in StagedNames
    BY <1>10 DEF ConfirmRefuses, HasStaged, Owning
  <2>3. Finish(p, "limit_exceeded") \/ Finish(p, "staged_verification_failed")
    BY <1>10 DEF ConfirmRefuses
  <2>4. ControlTypes'
    BY <2>3, FinishTypes DEF Results, Failures
  <2>5. QED
    BY <1>10, <2>1, <2>2, <2>4 DEF ConfirmRefuses, Discards, TypeOK, ControlTypes
<1>11. QED
  BY <1>1, <1>2, <1>3, <1>4, <1>5, <1>6, <1>7, <1>8, <1>9, <1>10

\* The steps that publish and clean up keep the types.
LEMMA PublishTypes ==
  ASSUME IInv, NEW p \in Processes,
         \/ Classify(p) \/ Link(p) \/ LinkCollides(p) \/ PublishFails(p)
         \/ Unlink(p) \/ UnlinkFails(p) \/ Discard(p) \/ VerifyExisting(p)
  PROVE  TypeOK'
<1> USE DEF IInv
<1>1. CASE Classify(p)
  BY <1>1 DEF Classify, Continue, TypeOK, PutSteps
<1>2. CASE Link(p)
  <2>1. staged[mine[p]] \in Contents
    BY <1>2 DEF Link, TypeOK, HasStaged, Owning
  <2>2. QED
    BY <1>2, <2>1 DEF Link, Continue, TypeOK, PutSteps
<1>3. CASE LinkCollides(p)
  BY <1>3 DEF LinkCollides, Continue, TypeOK, PutSteps
<1>4. CASE PublishFails(p) \/ UnlinkFails(p)
  <2>1. left' \in 0..MaxFaults
    BY <1>4, FaultsLeft DEF PublishFails, UnlinkFails, Fault
  <2>2. mine[p] \in StagedNames
    BY <1>4 DEF PublishFails, UnlinkFails, HasStaged, Owning
  <2>3. QED
    BY <1>4, <2>1, <2>2, BlobStoreAssumption
       DEF PublishFails, UnlinkFails, MayDiscard, Finish, TypeOK, Results, Failures
<1>5. CASE Unlink(p)
  <2>1. mine[p] \in StagedNames
    BY <1>5 DEF Unlink, HasStaged, Owning
  <2>2. QED
    BY <1>5, <2>1, BlobStoreAssumption DEF Unlink, Finish, TypeOK, Results
<1>6. CASE Discard(p)
  <2>1. left' \in 0..MaxFaults
    BY <1>6, FaultsLeft DEF Discard, Discards, Fault, NoFault
  <2>2. mine[p] \in StagedNames
    BY <1>6 DEF Discard, HasStaged, Owning
  <2>3. QED
    BY <1>6, <2>1, <2>2 DEF Discard, Discards, Continue, TypeOK, PutSteps
<1>7. CASE VerifyExisting(p)
  BY <1>7, BlobStoreAssumption DEF VerifyExisting, Finish, TypeOK, Results, Failures
<1>8. QED
  BY <1>1, <1>2, <1>3, <1>4, <1>5, <1>6, <1>7

\* The steps of get, a crash and a restart keep the types.
LEMMA GetTypes ==
  ASSUME IInv, NEW p \in Processes,
         \/ Check(p) \/ ReadBack(p) \/ ReadFails(p) \/ Crash(p) \/ Restart(p)
         \/ \E c \in Asked : StartGet(p, c)
  PROVE  TypeOK'
<1> USE DEF IInv
<1>1. CASE \E c \in Asked : StartGet(p, c)
  BY <1>1, EmptyContent, BlobStoreAssumption
     DEF StartGet, Start, TypeOK, GetSteps, Results
<1>2. CASE Check(p)
  <2>1. \/ Continue(p, "read") \/ Finish(p, "missing_blob")
        \/ Finish(p, "limit_exceeded") \/ Finish(p, "corrupt_stored_blob")
    BY <1>2 DEF Check
  <2>2. ControlTypes'
    BY <2>1, FinishTypes, ContinueTypes DEF GetSteps, Results, Failures
  <2>3. QED
    BY <1>2, <2>2 DEF Check, TypeOK, ControlTypes
<1>3. CASE ReadBack(p)
  <2>1. \/ Finish(p, "returned") /\ bytes' = [bytes EXCEPT ![p] = identity[p]]
        \/ Finish(p, "corrupt_stored_blob") /\ bytes' = bytes
    BY <1>3 DEF ReadBack
  <2>2. ControlTypes'
    BY <2>1, FinishTypes DEF Results, Failures
  <2>3. QED
    BY <1>3, <2>1, <2>2 DEF ReadBack, TypeOK, ControlTypes
<1>4. CASE ReadFails(p)
  <2>1. left' \in 0..MaxFaults
    BY <1>4, FaultsLeft DEF ReadFails, Fault
  <2>2. pc[p] = "create" => ordinal[p] + 1 \in 0..(MaxOrdinal + 1)
    BY BlobStoreAssumption DEF TypeOK, RoomToRetry
  <2>3. QED
    BY <1>4, <2>1, <2>2, BlobStoreAssumption DEF ReadFails, Finish, TypeOK, Results, Failures
<1>5. CASE Crash(p)
  <2>1. left' \in 0..MaxFaults
    BY <1>5, FaultsLeft DEF Crash, Fault
  <2>2. QED
    BY <1>5, <2>1, BlobStoreAssumption DEF Crash, Finish, TypeOK, Results
<1>6. CASE Restart(p)
  BY <1>6, BlobStoreAssumption DEF Restart, TypeOK
<1>7. QED
  BY <1>1, <1>2, <1>3, <1>4, <1>5, <1>6

\* What happens to the files from outside keeps the types.
LEMMA EnvironmentTypes ==
  ASSUME TypeOK, EditSource \/ (\E c \in Contents : Rot(c)) \/ UNCHANGED vars
  PROVE  TypeOK'
<1>1. CASE EditSource
  BY <1>1, FaultsLeft, BlobStoreAssumption DEF EditSource, Fault, TypeOK
<1>2. CASE \E c \in Contents : Rot(c)
  <2>1. left' \in 0..MaxFaults
    BY <1>2, FaultsLeft DEF Rot, Fault
  <2>2. blob' \in [Contents -> Contents \union {NoFile}]
    BY <1>2, BlobStoreAssumption DEF Rot, TypeOK
  <2>3. QED
    BY <1>2, <2>1, <2>2 DEF Rot, TypeOK
<1>3. CASE UNCHANGED vars
  BY <1>3 DEF vars, TypeOK
<1>4. QED
  BY <1>1, <1>2, <1>3

\* Every step keeps the types.
LEMMA TypeStep == IInv /\ [Next]_vars => TypeOK'
BY PutTypes, PublishTypes, GetTypes, EnvironmentTypes DEF IInv, Next, Step

-----------------------------------------------------------------------------
(***************************************************************************)
(* The inductive invariant: every action of a process p, and what it does  *)
(* to the other processes.                                                 *)
(***************************************************************************)

\* Measuring and creating keep the invariant.
LEMMA Staging ==
  ASSUME IInv, TypeOK', NEW p \in Processes,
         \/ StartPut(p) \/ MeasureChunk(p) \/ MeasureEnd(p) \/ Create(p) \/ CreateCollides(p)
  PROVE  IInv'
<1> USE DEF IInv, ExclusiveStaging, HasStaged, RoomToRetry, Confirmed, SeenBound, Answered,
            Owning, TypeOK
<1>1. CASE StartPut(p)
  BY <1>1, BlobStoreAssumption DEF StartPut, Start, Continue, Finish
<1>2. CASE MeasureChunk(p)
  <2>1. Finish(p, "limit_exceeded") \/ Continue(p, "measure")
    BY <1>2 DEF MeasureChunk
  <2>2. /\ pc[p] = "measure"
        /\ UNCHANGED <<blob, staged, ordinal, bytes>>
        /\ \A q \in Processes \ {p} : identity'[q] = identity[q]
    BY <1>2 DEF MeasureChunk
  <2>3. CASE Finish(p, "limit_exceeded")
    BY <2>2, <2>3, BlobStoreAssumption DEF Finish
  <2>4. CASE Continue(p, "measure")
    BY <2>2, <2>4, BlobStoreAssumption DEF Continue
  <2>5. QED
    BY <2>1, <2>3, <2>4
<1>3. CASE MeasureEnd(p)
  BY <1>3, BlobStoreAssumption DEF MeasureEnd, Start, Continue, Finish
<1>4. CASE Create(p)
  <2>1. NextName(p) \in StagedNames
    BY <1>4, NameOfNext DEF Create
  <2>2. /\ pc[p] = "create"
        /\ mine'[p] = NextName(p) /\ pc'[p] = "copy" /\ staged'[NextName(p)] = <<>>
        /\ \A n \in StagedNames \ {NextName(p)} : staged'[n] = staged[n]
        /\ \A q \in Processes \ {p} :
             mine'[q] = mine[q] /\ pc'[q] = pc[q] /\ ordinal'[q] = ordinal[q]
        /\ UNCHANGED <<attempt, result, source, blob, identity, bytes>>
    BY <1>4, <2>1 DEF Create
  <2>3. \A q \in Processes \ {p} : pc[q] \in Owning => mine[q] # NextName(p)
    BY <1>4 DEF Create
  <2>4. ExclusiveStaging'
    <3>1. ASSUME NEW q \in Processes, NEW r \in Processes, q # r,
                 pc'[q] \in Owning, pc'[r] \in Owning
          PROVE  mine'[q] # mine'[r]
      <4>1. CASE q = p
        BY <2>2, <2>3, <3>1, <4>1
      <4>2. CASE r = p
        BY <2>2, <2>3, <3>1, <4>2
      <4>3. CASE q # p /\ r # p
        BY <2>2, <3>1, <4>3
      <4>4. QED
        BY <4>1, <4>2, <4>3
    <3>2. QED
      BY <3>1
  <2>5. HasStaged'
    <3>1. ASSUME NEW q \in Processes, pc'[q] \in Owning
          PROVE  mine'[q] \in StagedNames /\ staged'[mine'[q]] # NoFile
      <4>1. CASE q = p
        <5>1. mine'[q] = NextName(p) /\ staged'[NextName(p)] = <<>>
          BY <2>2, <4>1
        <5>2. QED
          BY <5>1, <2>1, EmptyContent, BlobStoreAssumption
      <4>2. CASE q # p
        <5>1. pc[q] \in Owning /\ mine'[q] = mine[q]
          BY <2>2, <3>1, <4>2
        <5>2. mine[q] \in StagedNames \ {NextName(p)} /\ staged[mine[q]] # NoFile
          BY <2>3, <4>2, <5>1
        <5>3. QED
          BY <2>2, <5>1, <5>2
      <4>3. QED
        BY <4>1, <4>2
    <3>2. QED
      BY <3>1
  <2>6. RoomToRetry' /\ SeenBound' /\ Answered'
    BY <2>2
  <2>7. Confirmed'
    <3>1. ASSUME NEW q \in Processes, pc'[q] \in {"classify", "link", "unlink"}
          PROVE  staged'[mine'[q]] = identity'[q]
      <4>1. q # p /\ pc[q] \in {"classify", "link", "unlink"}
        BY <2>2, <3>1
      <4>2. mine[q] \in StagedNames \ {NextName(p)} /\ mine'[q] = mine[q]
        BY <2>2, <2>3, <4>1
      <4>3. QED
        BY <2>2, <4>1, <4>2
    <3>2. QED
      BY <3>1
  <2>8. QED
    BY <2>4, <2>5, <2>6, <2>7
<1>5. CASE CreateCollides(p)
  <2>1. /\ pc[p] = "create" /\ ordinal'[p] = ordinal[p] + 1
        /\ UNCHANGED <<blob, staged, identity, bytes>>
        /\ \A q \in Processes \ {p} : ordinal'[q] = ordinal[q]
    BY <1>5 DEF CreateCollides
  <2>2. CASE Finish(p, "staging_collision")
    BY <2>1, <2>2, BlobStoreAssumption DEF Finish
  <2>3. CASE /\ attempt' = [attempt EXCEPT ![p] = @ + 1]
             /\ UNCHANGED <<pc, mine, result>>
    <3>1. ordinal'[p] + (Retries - attempt'[p]) = ordinal[p] + (Retries - attempt[p])
      BY <2>1, <2>3, BlobStoreAssumption
    <3>2. RoomToRetry'
      BY <2>1, <2>3, <3>1
    <3>3. QED
      BY <2>1, <2>3, <3>2
  <2>4. QED
    BY <1>5, <2>2, <2>3 DEF CreateCollides
<1>6. QED
  BY <1>1, <1>2, <1>3, <1>4, <1>5

\* Copying, confirming, publishing and cleaning up keep the invariant.
LEMMA Copying ==
  ASSUME IInv, TypeOK', NEW p \in Processes,
         \/ CopyChunk(p) \/ CopyEnd(p) \/ CopyFails(p) \/ Confirm(p) \/ ConfirmRefuses(p)
         \/ Classify(p) \/ Link(p) \/ LinkCollides(p) \/ PublishFails(p) \/ Unlink(p)
         \/ UnlinkFails(p) \/ Discard(p) \/ VerifyExisting(p)
  PROVE  IInv'
<1> USE DEF IInv, ExclusiveStaging, HasStaged, RoomToRetry, Confirmed, SeenBound, Answered,
            Owning, TypeOK
<1>1. CASE CopyChunk(p)
  <2>1. /\ pc[p] = "copy" /\ pc'[p] = "copy"
        /\ mine[p] \in StagedNames
        /\ \A n \in StagedNames \ {mine[p]} : staged'[n] = staged[n]
        /\ \A q \in Processes : pc'[q] = pc[q]
        /\ UNCHANGED <<blob, identity, ordinal, bytes, mine, attempt, result>>
    BY <1>1 DEF CopyChunk, Continue
  <2>2. staged'[mine[p]] # NoFile
    <3>1. staged[mine[p]] \in Contents
      BY <2>1
    <3>2. Append(staged[mine[p]], source[Len(staged[mine[p]]) + 1]) \in Contents
      BY <1>1, <3>1, NextChunk DEF CopyChunk
    <3>3. staged'[mine[p]] \in Contents
      BY <1>1, <2>1, <3>2 DEF CopyChunk
    <3>4. QED
      BY <3>3, BlobStoreAssumption
  <2>3. HasStaged' /\ ExclusiveStaging'
    BY <2>1, <2>2
  <2>4. Confirmed'
    BY <2>1
  <2>5. QED
    BY <2>1, <2>3, <2>4
<1>2. CASE CopyEnd(p)
  BY <1>2, BlobStoreAssumption DEF CopyEnd, MayDiscard, Discards, Continue, Finish
<1>3. CASE CopyFails(p)
  BY <1>3, BlobStoreAssumption DEF CopyFails, MayDiscard, Discards, Continue, Finish
<1>4. CASE Confirm(p)
  BY <1>4, BlobStoreAssumption DEF Confirm, MayDiscard, Discards, Continue, Finish
<1>5. CASE ConfirmRefuses(p)
  BY <1>5, BlobStoreAssumption DEF ConfirmRefuses, MayDiscard, Discards, Continue, Finish
<1>6. CASE Classify(p)
  BY <1>6, BlobStoreAssumption DEF Classify, MayDiscard, Discards, Continue, Finish
<1>7. CASE Link(p)
  BY <1>7, BlobStoreAssumption DEF Link, MayDiscard, Discards, Continue, Finish
<1>8. CASE LinkCollides(p)
  BY <1>8, BlobStoreAssumption DEF LinkCollides, MayDiscard, Discards, Continue, Finish
<1>9. CASE PublishFails(p)
  BY <1>9, BlobStoreAssumption DEF PublishFails, MayDiscard, Discards, Continue, Finish
<1>10. CASE Unlink(p)
  BY <1>10, BlobStoreAssumption DEF Unlink, MayDiscard, Discards, Continue, Finish
<1>11. CASE UnlinkFails(p)
  BY <1>11, BlobStoreAssumption DEF UnlinkFails, MayDiscard, Discards, Continue, Finish
<1>12. CASE Discard(p)
  BY <1>12, BlobStoreAssumption DEF Discard, MayDiscard, Discards, Continue, Finish
<1>13. CASE VerifyExisting(p)
  BY <1>13, BlobStoreAssumption DEF VerifyExisting, MayDiscard, Discards, Continue, Finish
<1>14. QED
  BY <1>1, <1>2, <1>3, <1>4, <1>5, <1>6, <1>7, <1>8, <1>9, <1>10, <1>11, <1>12, <1>13

\* Reading back, a crash and a restart keep the invariant.
LEMMA Getting ==
  ASSUME IInv, TypeOK', NEW p \in Processes,
         \/ Check(p) \/ ReadBack(p) \/ ReadFails(p) \/ Crash(p) \/ Restart(p)
         \/ \E c \in Asked : StartGet(p, c)
  PROVE  IInv'
<1> USE DEF IInv, ExclusiveStaging, HasStaged, RoomToRetry, Confirmed, SeenBound, Answered,
            Owning, TypeOK
<1>1. CASE Check(p)
  <2>1. /\ pc[p] = "check"
        /\ UNCHANGED <<blob, staged, identity, ordinal, bytes>>
        /\ \/ Continue(p, "read") /\ blob[identity[p]] = identity[p]
           \/ Finish(p, "missing_blob")
           \/ Finish(p, "limit_exceeded")
           \/ Finish(p, "corrupt_stored_blob")
    BY <1>1 DEF Check
  <2>2. CASE Continue(p, "read") /\ blob[identity[p]] = identity[p]
    BY <2>1, <2>2, BlobStoreAssumption DEF Continue
  <2>3. ASSUME NEW outcome \in {"missing_blob", "limit_exceeded", "corrupt_stored_blob"},
               Finish(p, outcome)
        PROVE  IInv'
    BY <2>1, <2>3, BlobStoreAssumption DEF Finish
  <2>4. QED
    BY <2>1, <2>2, <2>3
<1>2. CASE ReadBack(p)
  <2>1. /\ pc[p] = "read"
        /\ UNCHANGED <<blob, staged, identity, ordinal>>
        /\ \/ Finish(p, "returned") /\ bytes' = [bytes EXCEPT ![p] = identity[p]]
           \/ Finish(p, "corrupt_stored_blob") /\ bytes' = bytes
    BY <1>2 DEF ReadBack
  <2>2. CASE Finish(p, "returned") /\ bytes' = [bytes EXCEPT ![p] = identity[p]]
    BY <2>1, <2>2, BlobStoreAssumption DEF Finish
  <2>3. CASE Finish(p, "corrupt_stored_blob") /\ bytes' = bytes
    BY <2>1, <2>3, BlobStoreAssumption DEF Finish
  <2>4. QED
    BY <2>1, <2>2, <2>3
<1>3. CASE ReadFails(p)
  BY <1>3, BlobStoreAssumption DEF ReadFails, GetSteps, Continue, Finish
<1>4. CASE Crash(p)
  BY <1>4, BlobStoreAssumption DEF Crash, GetSteps, Continue, Finish
<1>5. CASE Restart(p)
  BY <1>5, BlobStoreAssumption DEF Restart, GetSteps, Continue, Finish
<1>6. CASE \E c \in Asked : StartGet(p, c)
  BY <1>6, BlobStoreAssumption DEF StartGet, Start
<1>7. QED
  BY <1>1, <1>2, <1>3, <1>4, <1>5, <1>6

\* What happens to the files from outside keeps the invariant.
LEMMA Environment ==
  ASSUME IInv, TypeOK', EditSource \/ (\E c \in Contents : Rot(c)) \/ UNCHANGED vars
  PROVE  IInv'
<1> USE DEF IInv, ExclusiveStaging, HasStaged, RoomToRetry, Confirmed, SeenBound, Answered,
            Owning, TypeOK
<1>1. CASE EditSource
  BY <1>1 DEF EditSource
<1>2. CASE \E c \in Contents : Rot(c)
  BY <1>2, BlobStoreAssumption DEF Rot
<1>3. CASE UNCHANGED vars
  BY <1>3 DEF vars
<1>4. QED
  BY <1>1, <1>2, <1>3

\* The invariant holds at first.
LEMMA InvInit == Init => IInv
<1>1. Init => ExclusiveStaging /\ HasStaged /\ RoomToRetry /\ Confirmed /\ SeenBound /\ Answered
  BY BlobStoreAssumption
     DEF Init, ExclusiveStaging, HasStaged, RoomToRetry, Confirmed, SeenBound, Answered, Owning
<1>2. QED
  BY <1>1, InitTypes DEF IInv

\* Every step keeps the invariant.
LEMMA InvStep == IInv /\ [Next]_vars => IInv'
<1> SUFFICES ASSUME IInv, [Next]_vars
             PROVE  IInv'
  OBVIOUS
<1>1. TypeOK'
  BY TypeStep
<1>2. CASE Next
  <2>1. ASSUME NEW p \in Processes,
               Step(p) \/ StartPut(p) \/ Crash(p) \/ Restart(p) \/ \E c \in Asked : StartGet(p, c)
        PROVE  IInv'
    BY <1>1, <2>1, Staging, Copying, Getting DEF Step
  <2>2. CASE EditSource \/ \E c \in Contents : Rot(c)
    BY <1>1, <2>2, Environment
  <2>3. QED
    BY <1>2, <2>1, <2>2 DEF Next
<1>3. CASE UNCHANGED vars
  BY <1>1, <1>3, Environment
<1>4. QED
  BY <1>2, <1>3

\* The invariant holds of every reachable state.
LEMMA Invariant == Spec => []IInv
BY InvInit, InvStep, PTL DEF Spec

\* Every reachable state of put and get has the types of the code, so that
\* staged names, attempts and counters never leave their ranges.
THEOREM TypeCorrect == Spec => []TypeOK
<1>1. IInv => TypeOK
  BY DEF IInv
<1>2. QED
  BY <1>1, Invariant, PTL

\* However many processes share a process number, O_EXCL gives each put a
\* staged file of its own.
THEOREM StagingIsExclusive == Spec => []ExclusiveStaging
<1>1. IInv => ExclusiveStaging
  BY DEF IInv
<1>2. QED
  BY <1>1, Invariant, PTL

\* A get that succeeds returns the content its digest names, whatever happened
\* to the blob between the verification and the read.
THEOREM GetIsAddressed == Spec => []GetReturnsAddressedBytes
<1>1. IInv => GetReturnsAddressedBytes
  BY DEF IInv, Answered, GetReturnsAddressedBytes
<1>2. QED
  BY <1>1, Invariant, PTL

-----------------------------------------------------------------------------
(***************************************************************************)
(* The store implements ContentStore.  Apart from Link, no action of a     *)
(* process binds a name, and it changes the answer of that process alone;  *)
(* the invariant, after the step, says that the answer is about a bound    *)
(* name.                                                                   *)
(***************************************************************************)

OnlyMine(p) ==
  /\ UNCHANGED blob
  /\ \A q \in Processes \ {p} :
       result'[q] = result[q] /\ identity'[q] = identity[q] /\ bytes'[q] = bytes[q]

\* Of what the promise tells apart, a step that does not link changes one answer at most.
LEMMA Frame ==
  ASSUME TypeOK, NEW p \in Processes,
         Step(p) \/ StartPut(p) \/ Crash(p) \/ Restart(p) \/ \E c \in Asked : StartGet(p, c),
         ~Link(p)
  PROVE  OnlyMine(p)
<1> USE DEF TypeOK, OnlyMine, Finish, Continue, Start
<1>1. CASE StartPut(p) \/ Crash(p) \/ Restart(p) \/ \E c \in Asked : StartGet(p, c)
  BY <1>1 DEF StartPut, Crash, Restart, StartGet
<1>2. CASE MeasureChunk(p) \/ MeasureEnd(p) \/ Create(p) \/ CreateCollides(p)
  BY <1>2 DEF MeasureChunk, MeasureEnd, Create, CreateCollides
<1>3. CASE CopyChunk(p) \/ CopyEnd(p) \/ CopyFails(p) \/ Confirm(p) \/ ConfirmRefuses(p)
  BY <1>3 DEF CopyChunk, CopyEnd, CopyFails, Confirm, ConfirmRefuses
<1>4. CASE Classify(p) \/ LinkCollides(p) \/ PublishFails(p) \/ Unlink(p) \/ UnlinkFails(p)
  BY <1>4 DEF Classify, LinkCollides, PublishFails, Unlink, UnlinkFails
<1>5. CASE Discard(p) \/ VerifyExisting(p) \/ Check(p) \/ ReadFails(p)
  BY <1>5 DEF Discard, VerifyExisting, Check, ReadFails
<1>6. CASE ReadBack(p)
  BY <1>6 DEF ReadBack
<1>7. QED
  BY <1>1, <1>2, <1>3, <1>4, <1>5, <1>6 DEF Step

\* A step that only changes its own answer is one the promise allows.
LEMMA Answering ==
  ASSUME IInv, IInv', NEW p \in Processes, OnlyMine(p)
  PROVE  Promise!Next
<1> DEFINE now == Answers'[p]
<1>1. Answers' = [Answers EXCEPT ![p] = now]
  BY DEF OnlyMine, Answers
<1>2. now = NoFile \/ (now \in Contents /\ blob[now] # NoFile)
  BY DEF OnlyMine, Answers, IInv, Answered, TypeOK
<1>3. CASE now = NoFile
  BY <1>1, <1>3 DEF OnlyMine, Promise!Next, Promise!Forget
<1>4. CASE now \in Contents /\ blob[now] # NoFile
  BY <1>1, <1>4 DEF OnlyMine, Promise!Next, Promise!Answer
<1>5. QED
  BY <1>2, <1>3, <1>4

\* A link publishes the content that was asked for, under its own name.
LEMMA Binding ==
  ASSUME IInv, NEW p \in Processes, Link(p)
  PROVE  Promise!Publish(identity[p]) /\ identity[p] \in Contents
<1>1. staged[mine[p]] = identity[p]
  BY DEF Link, IInv, Confirmed
<1>2. Answers' = Answers
  BY DEF Link, Continue, Answers
<1>3. QED
  BY <1>1, <1>2 DEF Link, Promise!Publish, IInv, TypeOK

\* Rot is damage as the promise has it.
LEMMA Damaging ==
  ASSUME IInv, NEW c \in Contents, Rot(c)
  PROVE  \E d \in Contents : Promise!Damage(c, d)
<1>1. Answers' = Answers
  BY DEF Rot, Answers
<1>2. QED
  BY <1>1, BlobStoreAssumption DEF Rot, Promise!Damage

\* Every execution of put and get by any number of processes, with any faults,
\* is one of the write-once store: a name is bound once, to its own content,
\* and a success is answered only about a bound name.
THEOREM StoreKeepsPromise == Spec => KeepsPromise
<1>1. Init => Promise!Init
  BY DEF Init, Promise!Init, Answers
<1>2. IInv /\ IInv' /\ [Next]_vars => [Promise!Next]_<<blob, Answers>>
  <2> SUFFICES ASSUME IInv, IInv', [Next]_vars
               PROVE  Promise!Next \/ UNCHANGED <<blob, Answers>>
    OBVIOUS
  <2>1. ASSUME NEW p \in Processes,
               Step(p) \/ StartPut(p) \/ Crash(p) \/ Restart(p)
                 \/ \E c \in Asked : StartGet(p, c)
        PROVE  Promise!Next
    <3>1. CASE Link(p)
      BY <3>1, Binding DEF Promise!Next
    <3>2. CASE ~Link(p)
      BY <2>1, <3>2, Frame, Answering DEF IInv
    <3>3. QED
      BY <3>1, <3>2
  <2>2. ASSUME NEW c \in Contents, Rot(c)
        PROVE  Promise!Next
    BY <2>2, Damaging DEF Promise!Next
  <2>3. CASE EditSource \/ UNCHANGED vars
    BY <2>3 DEF EditSource, vars, Answers
  <2>4. QED
    BY <2>1, <2>2, <2>3 DEF Next
<1>3. QED
  BY <1>1, <1>2, Invariant, PTL DEF Spec, KeepsPromise, Promise!Spec

-----------------------------------------------------------------------------
(***************************************************************************)
(* What one process leaves alone.                                          *)
(***************************************************************************)

ByProcess(p) ==
  Step(p) \/ StartPut(p) \/ Crash(p) \/ Restart(p) \/ \E c \in Asked : StartGet(p, c)

OthersStay(p) ==
  /\ source' = source
  /\ left' = left \/ (left > 0 /\ left' = left - 1)
  /\ \A q \in Processes \ {p} :
       /\ pc'[q] = pc[q] /\ identity'[q] = identity[q] /\ mine'[q] = mine[q]
       /\ attempt'[q] = attempt[q] /\ result'[q] = result[q]

\* A step of one process leaves the calls of the others alone.
LEMMA OthersAreLeft ==
  ASSUME TypeOK, NEW p \in Processes, ByProcess(p)
  PROVE  OthersStay(p)
<1> USE DEF TypeOK, OthersStay, Finish, Continue, Start, Fault, NoFault
<1>1. CASE StartPut(p) \/ Crash(p) \/ Restart(p) \/ \E c \in Asked : StartGet(p, c)
  BY <1>1 DEF StartPut, Crash, Restart, StartGet
<1>2. CASE MeasureChunk(p) \/ MeasureEnd(p) \/ Create(p) \/ CreateCollides(p)
  BY <1>2 DEF MeasureChunk, MeasureEnd, Create, CreateCollides
<1>3. CASE CopyChunk(p) \/ CopyEnd(p) \/ CopyFails(p) \/ Confirm(p) \/ ConfirmRefuses(p)
  BY <1>3 DEF CopyChunk, CopyEnd, CopyFails, Confirm, ConfirmRefuses, Discards
<1>4. CASE Classify(p) \/ Link(p) \/ LinkCollides(p) \/ PublishFails(p)
  BY <1>4 DEF Classify, Link, LinkCollides, PublishFails
<1>5. CASE Unlink(p) \/ UnlinkFails(p) \/ Discard(p) \/ VerifyExisting(p)
  BY <1>5 DEF Unlink, UnlinkFails, Discard, VerifyExisting, Discards
<1>6. CASE Check(p) \/ ReadFails(p) \/ ReadBack(p)
  BY <1>6 DEF Check, ReadFails, ReadBack
<1>7. QED
  BY <1>1, <1>2, <1>3, <1>4, <1>5, <1>6 DEF ByProcess, Step

\* The staged names a process may touch: its own, and the one it creates.
LEMMA StagedNearby ==
  ASSUME IInv, NEW p \in Processes, ByProcess(p), NEW n \in StagedNames,
         staged'[n] # staged[n]
  PROVE  \/ pc[p] \in Owning /\ n = mine[p]
         \/ Create(p) /\ n = NextName(p)
<1> USE DEF IInv, TypeOK, HasStaged, Owning, Discards, MayDiscard
<1>1. CASE CopyChunk(p) \/ CopyFails(p) \/ ConfirmRefuses(p)
  BY <1>1 DEF CopyChunk, CopyFails, ConfirmRefuses
<1>2. CASE PublishFails(p) \/ Unlink(p) \/ UnlinkFails(p) \/ Discard(p)
  BY <1>2 DEF PublishFails, Unlink, UnlinkFails, Discard
<1>3. CASE Create(p)
  BY <1>3 DEF Create
<1>4. CASE \/ StartPut(p) \/ Crash(p) \/ Restart(p) \/ (\E c \in Asked : StartGet(p, c))
           \/ MeasureChunk(p) \/ MeasureEnd(p) \/ CreateCollides(p) \/ CopyEnd(p)
  BY <1>4 DEF StartPut, Crash, Restart, StartGet, MeasureChunk, MeasureEnd, CreateCollides, CopyEnd
<1>5. CASE \/ Confirm(p) \/ Classify(p) \/ Link(p) \/ LinkCollides(p)
           \/ VerifyExisting(p) \/ Check(p) \/ ReadFails(p) \/ ReadBack(p)
  BY <1>5 DEF Confirm, Classify, Link, LinkCollides, VerifyExisting, Check, ReadFails, ReadBack
<1>6. QED
  BY <1>1, <1>2, <1>3, <1>4, <1>5 DEF ByProcess, Step

\* So the file another process has staged stays as it is.
LEMMA OthersKeepStaged ==
  ASSUME IInv, NEW p \in Processes, ByProcess(p),
         NEW q \in Processes \ {p}, pc[q] \in Owning
  PROVE  mine[q] \in StagedNames /\ staged'[mine[q]] = staged[mine[q]]
<1>1. mine[q] \in StagedNames /\ staged[mine[q]] # NoFile
  BY DEF IInv, HasStaged
<1>2. pc[p] \in Owning => mine[q] # mine[p]
  BY DEF IInv, ExclusiveStaging
<1>3. Create(p) => mine[q] # NextName(p)
  BY <1>1 DEF Create
<1>4. QED
  BY <1>1, <1>2, <1>3, StagedNearby

-----------------------------------------------------------------------------
(***************************************************************************)
(* Litter: a staged file that nobody works on any more.                    *)
(***************************************************************************)

Orphans == {n \in StagedNames : /\ staged[n] # NoFile
                                /\ ~\E p \in Processes : pc[p] \in Owning /\ mine[p] = n}

\* Every orphan has a fault of its own.
OrphansHaveFaults ==
  IsFiniteSet(Orphans) /\ Cardinality(Orphans) <= MaxFaults - left

\* A process leaves its staged file behind only when something fails.
LEMMA Abandoning ==
  ASSUME IInv, NEW p \in Processes, ByProcess(p), pc[p] \in Owning,
         pc'[p] \notin Owning \/ mine'[p] # mine[p],
         staged'[mine[p]] # NoFile
  PROVE  left > 0 /\ left' = left - 1
<1> USE DEF IInv, TypeOK, HasStaged, Owning, Discards, MayDiscard, Fault, NoFault,
            Continue, Finish, Start, GetSteps
<1>1. CASE CopyFails(p) \/ ConfirmRefuses(p) \/ CopyChunk(p) \/ CopyEnd(p)
  BY <1>1 DEF CopyFails, ConfirmRefuses, CopyChunk, CopyEnd
<1>2. CASE PublishFails(p) \/ Unlink(p) \/ UnlinkFails(p) \/ Discard(p)
  BY <1>2 DEF PublishFails, Unlink, UnlinkFails, Discard
<1>3. CASE Confirm(p) \/ Classify(p) \/ Link(p) \/ LinkCollides(p) \/ Crash(p)
  BY <1>3 DEF Confirm, Classify, Link, LinkCollides, Crash
<1>4. CASE \/ StartPut(p) \/ Restart(p) \/ (\E c \in Asked : StartGet(p, c))
           \/ MeasureChunk(p) \/ MeasureEnd(p) \/ Create(p) \/ CreateCollides(p)
           \/ VerifyExisting(p) \/ Check(p) \/ ReadFails(p) \/ ReadBack(p)
  BY <1>4 DEF StartPut, Restart, StartGet, MeasureChunk, MeasureEnd, Create,
              CreateCollides, VerifyExisting, Check, ReadFails, ReadBack
<1>5. QED
  BY <1>1, <1>2, <1>3, <1>4 DEF ByProcess, Step

\* What a process creates is its own.
LEMMA CreatedIsOwned ==
  ASSUME IInv, NEW p \in Processes, Create(p)
  PROVE  mine'[p] = NextName(p) /\ pc'[p] \in Owning
BY DEF Create, IInv, TypeOK, Owning

\* A step makes at most one orphan, and with it a fault.
LEMMA NewOrphan ==
  ASSUME IInv, NEW p \in Processes, ByProcess(p), NEW n \in Orphans' \ Orphans
  PROVE  n = mine[p] /\ left > 0 /\ left' = left - 1
<1>1. n \in StagedNames /\ staged'[n] # NoFile
  BY DEF Orphans
<1>2. \A q \in Processes : ~(pc'[q] \in Owning /\ mine'[q] = n)
  BY DEF Orphans
<1>3. ~(Create(p) /\ n = NextName(p))
  BY <1>2, CreatedIsOwned
<1>4. CASE staged[n] = NoFile
  <2>1. pc[p] \in Owning /\ n = mine[p]
    BY <1>1, <1>3, <1>4, StagedNearby
  <2>2. QED
    BY <1>4, <2>1 DEF IInv, HasStaged
<1>5. CASE staged[n] # NoFile
  <2>1. PICK q \in Processes : pc[q] \in Owning /\ mine[q] = n
    BY <1>1, <1>5 DEF Orphans
  <2>2. q = p
    <3>1. CASE q # p
      <4>1. pc'[q] = pc[q] /\ mine'[q] = mine[q]
        BY <3>1, OthersAreLeft DEF OthersStay, IInv
      <4>2. QED
        BY <1>2, <2>1, <4>1
    <3>2. QED
      BY <3>1
  <2>3. pc'[p] \notin Owning \/ mine'[p] # mine[p]
    BY <1>2, <2>1, <2>2
  <2>4. QED
    BY <1>1, <2>1, <2>2, <2>3, Abandoning
<1>6. QED
  BY <1>4, <1>5

\* At first nothing is orphaned.
LEMMA OrphansInit == Init => OrphansHaveFaults
<1> SUFFICES ASSUME Init PROVE OrphansHaveFaults
  OBVIOUS
<1>1. Orphans = {}
  BY DEF Init, Orphans
<1>2. QED
  BY <1>1, FS_EmptySet, BlobStoreAssumption DEF Init, OrphansHaveFaults

\* Every new orphan costs a fault.
LEMMA OrphansStep ==
  ASSUME IInv, OrphansHaveFaults, [Next]_vars
  PROVE  OrphansHaveFaults'
<1>1. IsFiniteSet(Orphans) /\ Cardinality(Orphans) \in Nat
  BY FS_CardinalityType DEF OrphansHaveFaults
<1>2. left \in Nat
  BY DEF IInv, TypeOK
<1>3. ASSUME NEW p \in Processes, ByProcess(p)
      PROVE  OrphansHaveFaults'
  <2>1. left' = left \/ (left > 0 /\ left' = left - 1)
    BY <1>3, OthersAreLeft DEF OthersStay, IInv
  <2>2. CASE Orphans' \subseteq Orphans
    <3>1. IsFiniteSet(Orphans') /\ Cardinality(Orphans') <= Cardinality(Orphans)
      BY <1>1, <2>2, FS_Subset
    <3>2. Cardinality(Orphans') \in Nat
      BY <3>1, FS_CardinalityType
    <3>3. QED
      BY <1>1, <1>2, <2>1, <3>1, <3>2, BlobStoreAssumption DEF OrphansHaveFaults
  <2>3. CASE ~(Orphans' \subseteq Orphans)
    <3>1. left > 0 /\ left' = left - 1 /\ Orphans' \subseteq Orphans \union {mine[p]}
      BY <1>3, <2>3, NewOrphan
    <3>2. /\ IsFiniteSet(Orphans \union {mine[p]})
          /\ Cardinality(Orphans \union {mine[p]}) <= Cardinality(Orphans) + 1
      BY <1>1, FS_AddElement
    <3>3. /\ IsFiniteSet(Orphans')
          /\ Cardinality(Orphans') <= Cardinality(Orphans \union {mine[p]})
      BY <3>1, <3>2, FS_Subset
    <3>4. Cardinality(Orphans') \in Nat /\ Cardinality(Orphans \union {mine[p]}) \in Nat
      BY <3>2, <3>3, FS_CardinalityType
    <3>5. QED
      BY <1>1, <1>2, <3>1, <3>2, <3>3, <3>4, BlobStoreAssumption DEF OrphansHaveFaults
  <2>4. QED
    BY <2>2, <2>3
<1>4. CASE EditSource \/ (\E c \in Contents : Rot(c)) \/ UNCHANGED vars
  <2>1. Orphans' = Orphans
    BY <1>4 DEF EditSource, Rot, vars, Orphans
  <2>2. left' = left \/ (left > 0 /\ left' = left - 1)
    BY <1>4 DEF EditSource, Rot, vars, Fault
  <2>3. QED
    BY <1>1, <1>2, <2>1, <2>2, BlobStoreAssumption DEF OrphansHaveFaults
<1>5. QED
  BY <1>3, <1>4 DEF Next, ByProcess

\* A put leaves no staged file behind but by dying or by failing to remove it:
\* for any number of processes, there are never more such files than faults.
THEOREM NoLitterIsLeft == Spec => []NoLitter
<1>1. OrphansHaveFaults => NoLitter
  BY DEF OrphansHaveFaults, Orphans, NoLitter
<1>2. Init => OrphansHaveFaults
  BY OrphansInit
<1>3. IInv /\ OrphansHaveFaults /\ [Next]_vars => OrphansHaveFaults'
  BY OrphansStep
<1>4. QED
  BY <1>1, <1>2, <1>3, Invariant, PTL DEF Spec

-----------------------------------------------------------------------------
(***************************************************************************)
(* Racing: what holds while nothing has gone wrong.                        *)
(***************************************************************************)

\* s is what reading t from the start has given so far.
Begins(s, t) == Len(s) <= Len(t) /\ \A i \in 1..Len(s) : s[i] = t[i]

\* A name is bound to its own content.
OwnNames == \A c \in Contents : blob[c] \in {NoFile, c}

\* Both passes read the one source there has been.
PassesAgree ==
  \A p \in Processes :
    /\ pc[p] = "measure" => Begins(identity[p], source)
    /\ pc[p] \in {"create", "copy", "confirm"} => identity[p] = source
    /\ pc[p] = "copy" => Begins(staged[mine[p]], source)
    /\ pc[p] = "confirm" => staged[mine[p]] = source

\* A staged name tells the process number and the attempt it was made with.
Signed ==
  \A p \in Processes :
    pc[p] \in Owning => mine[p].pid = PidOf[p] /\ mine[p].attempt = attempt[p]

Sharing(v) == {p \in Processes : PidOf[p] = v}

Beyond(v, k) == {p \in Sharing(v) : attempt[p] >= k}

\* Of the processes that share a number, each attempt leaves one behind: to
\* come to attempt k + 1 takes another process that stands at attempt k.
Thinning ==
  \A v \in Pids : \A k \in 0..Retries :
    Beyond(v, k) # {} => k + Cardinality(Beyond(v, k)) <= Cardinality(Sharing(v))

Unfailed ==
  \A p \in Processes : result[p] \notin Failures \ {"missing_blob", "limit_exceeded"}

Undisturbed ==
  left = MaxFaults => OwnNames /\ PassesAgree /\ Signed /\ Thinning /\ Unfailed

\* As many processes share a number as there are attempts to tell them apart.
FewShareANumber ==
  \A v \in Pids : IsFiniteSet(Sharing(v)) /\ Cardinality(Sharing(v)) <= Retries + 1

\* The empty file begins every content.
LEMMA BeginsEmpty ==
  ASSUME NEW t \in Contents
  PROVE  Begins(<<>>, t)
BY ContentSeq DEF Begins

\* A beginning grows by the chunk that comes next.
LEMMA BeginsNext ==
  ASSUME NEW s \in Contents, NEW t \in Contents, Begins(s, t), Len(s) < Len(t)
  PROVE  Begins(Append(s, t[Len(s) + 1]), t)
<1>1. s \in Seq(Chunks) /\ t \in Seq(Chunks) /\ Len(s) \in Nat /\ Len(t) \in Nat
  BY ContentSeq
<1>2. t[Len(s) + 1] \in Chunks
  BY <1>1
<1>3. /\ Len(Append(s, t[Len(s) + 1])) = Len(s) + 1
      /\ \A i \in 1..Len(s) : Append(s, t[Len(s) + 1])[i] = s[i]
      /\ Append(s, t[Len(s) + 1])[Len(s) + 1] = t[Len(s) + 1]
  BY <1>1, <1>2, AppendProperties
<1>4. QED
  BY <1>1, <1>3 DEF Begins

\* A beginning that is as long as the whole is the whole.
LEMMA BeginsWhole ==
  ASSUME NEW s \in Contents, NEW t \in Contents, Begins(s, t), Len(s) >= Len(t)
  PROVE  s = t
<1>1. /\ s \in Seq(Chunks) /\ Len(s) \in Nat /\ s \in [1..Len(s) -> Chunks]
      /\ t \in Seq(Chunks) /\ Len(t) \in Nat /\ t \in [1..Len(t) -> Chunks]
  BY ContentSeq
<1>2. Len(s) \in Nat /\ Len(t) \in Nat /\ Len(s) <= Len(t)
  BY ContentSeq DEF Begins
<1>3. Len(s) = Len(t)
  BY <1>2
<1>4. \A i \in 1..Len(s) : s[i] = t[i]
  BY DEF Begins
<1>5. QED
  BY <1>1, <1>3, <1>4

\* Names are bound only to what was confirmed.
LEMMA NamesStep ==
  ASSUME IInv, OwnNames, left' = left, NEW p \in Processes, ByProcess(p)
  PROVE  OwnNames'
<1>1. CASE Link(p)
  <2>1. staged[mine[p]] = identity[p] /\ identity[p] \in Contents
    BY <1>1 DEF Link, IInv, Confirmed, TypeOK
  <2>2. blob' = [blob EXCEPT ![identity[p]] = identity[p]]
    BY <1>1, <2>1 DEF Link
  <2>3. QED
    BY <2>1, <2>2 DEF OwnNames, IInv, TypeOK
<1>2. CASE ~Link(p)
  <2>1. blob' = blob
    BY <1>2, Frame DEF ByProcess, OnlyMine, IInv
  <2>2. QED
    BY <2>1 DEF OwnNames
<1>3. QED
  BY <1>1, <1>2

\* Each pass adds the next chunk of the source, or ends with all of them.
LEMMA PassesStep ==
  ASSUME IInv, TypeOK', PassesAgree, left' = left, NEW p \in Processes, ByProcess(p)
  PROVE  PassesAgree'
<1>1. source' = source /\ source \in Contents /\ left \in Nat
  BY OthersAreLeft DEF OthersStay, IInv, TypeOK
<1>2. ASSUME NEW q \in Processes \ {p}
      PROVE  /\ pc'[q] = "measure" => Begins(identity'[q], source')
             /\ pc'[q] \in {"create", "copy", "confirm"} => identity'[q] = source'
             /\ pc'[q] = "copy" => Begins(staged'[mine'[q]], source')
             /\ pc'[q] = "confirm" => staged'[mine'[q]] = source'
  <2>1. pc'[q] = pc[q] /\ identity'[q] = identity[q] /\ mine'[q] = mine[q]
    BY OthersAreLeft DEF OthersStay, IInv
  <2>2. pc[q] \in {"copy", "confirm"} => staged'[mine[q]] = staged[mine[q]]
    BY OthersKeepStaged DEF Owning
  <2>3. QED
    BY <1>1, <2>1, <2>2 DEF PassesAgree
<1>3. /\ pc'[p] = "measure" => Begins(identity'[p], source)
      /\ pc'[p] \in {"create", "copy", "confirm"} => identity'[p] = source
      /\ pc'[p] = "copy" => Begins(staged'[mine'[p]], source)
      /\ pc'[p] = "confirm" => staged'[mine'[p]] = source
  <2> USE DEF IInv, TypeOK
  <2>1. CASE StartPut(p)
    <3>1. pc'[p] = "measure" /\ identity'[p] = <<>>
      BY <2>1 DEF StartPut, Start
    <3>2. QED
      BY <1>1, <3>1, BeginsEmpty
  <2>2. CASE MeasureChunk(p)
    <3>1. /\ pc[p] = "measure" /\ pc'[p] \in {"measure", "idle"}
          /\ Len(identity[p]) < Len(source) /\ identity[p] \in Contents
          /\ identity'[p] = Append(identity[p], source[Len(identity[p]) + 1])
      BY <2>2 DEF MeasureChunk, Continue, Finish
    <3>2. Begins(identity[p], source)
      BY <3>1 DEF PassesAgree
    <3>3. QED
      BY <1>1, <3>1, <3>2, BeginsNext
  <2>3. CASE MeasureEnd(p)
    <3>1. /\ pc[p] = "measure" /\ pc'[p] = "create" /\ identity'[p] = identity[p]
          /\ Len(identity[p]) >= Len(source) /\ identity[p] \in Contents
      BY <2>3 DEF MeasureEnd, Continue
    <3>2. Begins(identity[p], source)
      BY <3>1 DEF PassesAgree
    <3>3. QED
      BY <1>1, <3>1, <3>2, BeginsWhole
  <2>4. CASE Create(p)
    <3>1. /\ pc[p] = "create" /\ pc'[p] = "copy" /\ identity'[p] = identity[p]
          /\ mine'[p] = NextName(p) /\ staged' = [staged EXCEPT ![NextName(p)] = <<>>]
      BY <2>4 DEF Create
    <3>2. NextName(p) \in StagedNames
      BY <3>1, NameOfNext
    <3>3. staged'[mine'[p]] = <<>>
      BY <3>1, <3>2
    <3>4. QED
      BY <1>1, <3>1, <3>3, BeginsEmpty DEF PassesAgree
  <2>5. CASE CreateCollides(p)
    BY <2>5 DEF CreateCollides, PassesAgree, Finish
  <2>6. CASE CopyChunk(p)
    <3>1. /\ pc[p] = "copy" /\ pc'[p] = "copy" /\ identity'[p] = identity[p]
          /\ mine'[p] = mine[p] /\ mine[p] \in StagedNames
          /\ staged[mine[p]] \in Contents /\ Len(staged[mine[p]]) < Len(source)
          /\ staged'[mine[p]] = Append(staged[mine[p]], source[Len(staged[mine[p]]) + 1])
      BY <2>6 DEF CopyChunk, Continue, HasStaged, Owning
    <3>2. Begins(staged[mine[p]], source) /\ identity[p] = source
      BY <3>1 DEF PassesAgree
    <3>3. QED
      BY <1>1, <3>1, <3>2, BeginsNext
  <2>7. CASE CopyEnd(p)
    <3>1. /\ pc[p] = "copy" /\ pc'[p] = "confirm" /\ identity'[p] = identity[p]
          /\ mine'[p] = mine[p] /\ staged' = staged
          /\ staged[mine[p]] \in Contents /\ Len(staged[mine[p]]) >= Len(source)
      BY <2>7 DEF CopyEnd, Continue, HasStaged, Owning
    <3>2. Begins(staged[mine[p]], source) /\ identity[p] = source
      BY <3>1 DEF PassesAgree
    <3>3. QED
      BY <1>1, <3>1, <3>2, BeginsWhole
  <2>8. CASE pc'[p] \notin {"measure", "create", "copy", "confirm"}
    BY <2>8
  <2>9. CASE Restart(p)
    BY <2>9 DEF Restart, PassesAgree
  <2>10. QED
    <3>1. CASE \/ CopyFails(p) \/ Confirm(p) \/ ConfirmRefuses(p) \/ Classify(p) \/ Link(p)
               \/ LinkCollides(p) \/ PublishFails(p) \/ Unlink(p) \/ UnlinkFails(p)
      <4>1. pc'[p] \notin {"measure", "create", "copy", "confirm"}
        BY <3>1 DEF CopyFails, Confirm, ConfirmRefuses, Classify, Link, LinkCollides,
                    PublishFails, Unlink, UnlinkFails, Continue, Finish
      <4>2. QED
        BY <2>8, <4>1
    <3>2. CASE \/ Discard(p) \/ VerifyExisting(p) \/ Check(p) \/ ReadBack(p) \/ ReadFails(p)
               \/ Crash(p) \/ \E c \in Asked : StartGet(p, c)
      <4>1. pc'[p] \notin {"measure", "create", "copy", "confirm"}
        BY <3>2 DEF Discard, VerifyExisting, Check, ReadBack, ReadFails, Crash, StartGet,
                    Continue, Finish, Start
      <4>2. QED
        BY <2>8, <4>1
    <3>3. QED
      BY <2>1, <2>2, <2>3, <2>4, <2>5, <2>6, <2>7, <2>9, <3>1, <3>2 DEF ByProcess, Step
<1>4. QED
  BY <1>1, <1>2, <1>3 DEF PassesAgree

\* A staged name keeps telling the number and the attempt of its owner.
LEMMA SignedStep ==
  ASSUME IInv, Signed, NEW p \in Processes, ByProcess(p)
  PROVE  Signed'
<1>1. ASSUME NEW q \in Processes \ {p}, pc'[q] \in Owning
      PROVE  mine'[q].pid = PidOf[q] /\ mine'[q].attempt = attempt'[q]
  <2>1. pc[q] \in Owning /\ mine'[q] = mine[q] /\ attempt'[q] = attempt[q]
    BY <1>1, OthersAreLeft DEF OthersStay, IInv
  <2>2. QED
    BY <2>1 DEF Signed
<1>2. ASSUME pc'[p] \in Owning
      PROVE  mine'[p].pid = PidOf[p] /\ mine'[p].attempt = attempt'[p]
  <2>1. CASE Create(p)
    BY <2>1 DEF Create, NextName, IInv, TypeOK
  <2>2. CASE pc[p] \in Owning /\ mine'[p] = mine[p] /\ attempt'[p] = attempt[p]
    BY <2>2 DEF Signed
  <2>3. CASE ~Create(p)
    <3> USE DEF Owning, Continue, Finish, Start, IInv, TypeOK
    <3>1. CASE StartPut(p) \/ Crash(p) \/ Restart(p) \/ \E c \in Asked : StartGet(p, c)
      BY <1>2, <2>2, <3>1 DEF StartPut, Crash, Restart, StartGet
    <3>2. CASE MeasureChunk(p) \/ MeasureEnd(p) \/ CreateCollides(p)
      BY <1>2, <3>2 DEF MeasureChunk, MeasureEnd, CreateCollides
    <3>3. CASE CopyChunk(p) \/ CopyEnd(p) \/ CopyFails(p) \/ Confirm(p) \/ ConfirmRefuses(p)
      BY <1>2, <2>2, <3>3 DEF CopyChunk, CopyEnd, CopyFails, Confirm, ConfirmRefuses
    <3>4. CASE Classify(p) \/ Link(p) \/ LinkCollides(p) \/ PublishFails(p)
      BY <1>2, <2>2, <3>4 DEF Classify, Link, LinkCollides, PublishFails
    <3>5. CASE Unlink(p) \/ UnlinkFails(p) \/ Discard(p) \/ VerifyExisting(p)
      BY <1>2, <3>5 DEF Unlink, UnlinkFails, Discard, VerifyExisting
    <3>6. CASE Check(p) \/ ReadFails(p) \/ ReadBack(p)
      BY <1>2, <3>6 DEF Check, ReadFails, ReadBack
    <3>7. QED
      BY <2>3, <3>1, <3>2, <3>3, <3>4, <3>5, <3>6 DEF ByProcess, Step
  <2>4. QED
    BY <2>1, <2>3
<1>3. QED
  BY <1>1, <1>2 DEF Signed

\* A name that is taken is taken by a process that shares the number and
\* stands at the same attempt.
LEMMA Rival ==
  ASSUME IInv, OrphansHaveFaults, left = MaxFaults, Signed,
         NEW p \in Processes, CreateCollides(p)
  PROVE  \E q \in Processes \ {p} : PidOf[q] = PidOf[p] /\ attempt[q] = attempt[p]
<1>1. pc[p] = "create" /\ staged[NextName(p)] # NoFile
  BY DEF CreateCollides
<1>2. NextName(p) \in StagedNames
  BY <1>1, NameOfNext DEF IInv
<1>3. Orphans = {}
  <2>1. IsFiniteSet(Orphans) /\ Cardinality(Orphans) <= 0
    BY BlobStoreAssumption DEF OrphansHaveFaults
  <2>2. Cardinality(Orphans) \in Nat
    BY <2>1, FS_CardinalityType
  <2>3. Cardinality(Orphans) = 0
    BY <2>1, <2>2
  <2>4. QED
    BY <2>1, <2>3, FS_EmptySet
<1>4. PICK q \in Processes : pc[q] \in Owning /\ mine[q] = NextName(p)
  BY <1>1, <1>2, <1>3 DEF Orphans
<1>5. q # p
  BY <1>1, <1>4 DEF Owning
<1>6. PidOf[q] = PidOf[p] /\ attempt[q] = attempt[p]
  BY <1>4 DEF Signed, NextName
<1>7. QED
  BY <1>5, <1>6

\* An attempt grows only by a collision, and then by one.
LEMMA AttemptsStep ==
  ASSUME IInv, NEW p \in Processes, ByProcess(p)
  PROVE  \/ attempt'[p] <= attempt[p]
         \/ CreateCollides(p) /\ attempt'[p] = attempt[p] + 1
<1>1. attempt[p] \in Nat
  BY BlobStoreAssumption DEF IInv, TypeOK
<1>2. attempt'[p] \in {attempt[p], 0} \/ (CreateCollides(p) /\ attempt'[p] = attempt[p] + 1)
  <2> USE DEF Continue, Finish, Start, IInv, TypeOK
  <2>1. CASE StartPut(p) \/ Crash(p) \/ Restart(p) \/ \E c \in Asked : StartGet(p, c)
    BY <2>1 DEF StartPut, Crash, Restart, StartGet
  <2>2. CASE MeasureChunk(p) \/ MeasureEnd(p) \/ Create(p)
    BY <2>2 DEF MeasureChunk, MeasureEnd, Create
  <2>3. CASE CreateCollides(p)
    BY <2>3 DEF CreateCollides
  <2>4. CASE CopyChunk(p) \/ CopyEnd(p) \/ CopyFails(p) \/ Confirm(p) \/ ConfirmRefuses(p)
    BY <2>4 DEF CopyChunk, CopyEnd, CopyFails, Confirm, ConfirmRefuses
  <2>5. CASE Classify(p) \/ Link(p) \/ LinkCollides(p) \/ PublishFails(p)
    BY <2>5 DEF Classify, Link, LinkCollides, PublishFails
  <2>6. CASE Unlink(p) \/ UnlinkFails(p) \/ Discard(p) \/ VerifyExisting(p)
    BY <2>6 DEF Unlink, UnlinkFails, Discard, VerifyExisting
  <2>7. CASE Check(p) \/ ReadFails(p) \/ ReadBack(p)
    BY <2>7 DEF Check, ReadFails, ReadBack
  <2>8. QED
    BY <2>1, <2>2, <2>3, <2>4, <2>5, <2>6, <2>7 DEF ByProcess, Step
<1>3. QED
  BY <1>1, <1>2

\* Every step leaves a process behind for each attempt that another has come to.
LEMMA ThinningStep ==
  ASSUME FewShareANumber, IInv, TypeOK', OrphansHaveFaults, left = MaxFaults, Signed, Thinning,
         NEW p \in Processes, ByProcess(p)
  PROVE  Thinning'
<1> SUFFICES ASSUME NEW v \in Pids, NEW k \in 0..Retries, Beyond(v, k)' # {}
             PROVE  k + Cardinality(Beyond(v, k)') <= Cardinality(Sharing(v))
  BY DEF Thinning, Sharing
<1>1. /\ IsFiniteSet(Sharing(v)) /\ Cardinality(Sharing(v)) \in Nat
      /\ k \in Nat /\ Retries \in Nat
  BY FS_CardinalityType, BlobStoreAssumption DEF FewShareANumber
<1>2. \A j \in 0..Retries : /\ IsFiniteSet(Beyond(v, j))
                            /\ Cardinality(Beyond(v, j)) \in Nat
  <2>1. \A j \in 0..Retries : Beyond(v, j) \in SUBSET Sharing(v)
    BY DEF Beyond
  <2>2. QED
    BY <1>1, <2>1, FS_Subset, FS_CardinalityType
<1>3. \A q \in Processes : attempt[q] \in Nat /\ attempt'[q] \in Nat
  BY BlobStoreAssumption DEF IInv, TypeOK
<1>4. \A q \in Processes \ {p} : attempt'[q] = attempt[q]
  BY OthersAreLeft DEF OthersStay, IInv
<1>5. CASE Beyond(v, k)' \subseteq Beyond(v, k)
  <2>1. IsFiniteSet(Beyond(v, k)') /\ Cardinality(Beyond(v, k)') <= Cardinality(Beyond(v, k))
    BY <1>2, <1>5, FS_Subset
  <2>2. Cardinality(Beyond(v, k)') \in Nat
    BY <2>1, FS_CardinalityType
  <2>3. k + Cardinality(Beyond(v, k)) <= Cardinality(Sharing(v))
    BY <1>5 DEF Thinning
  <2>4. QED
    BY <1>1, <1>2, <2>1, <2>2, <2>3
<1>6. CASE ~(Beyond(v, k)' \subseteq Beyond(v, k))
  <2>1. p \in Beyond(v, k)' /\ p \notin Beyond(v, k)
    BY <1>4, <1>6 DEF Beyond, Sharing
  <2>2. PidOf[p] = v /\ attempt[p] < k /\ k <= attempt'[p]
    BY <1>1, <1>3, <2>1 DEF Beyond, Sharing
  <2>3. CreateCollides(p) /\ attempt[p] = k - 1
    BY <1>1, <1>3, <2>2, AttemptsStep
  <2>4. PICK q \in Processes \ {p} : PidOf[q] = v /\ attempt[q] = k - 1
    BY <2>2, <2>3, Rival
  <2>5. k - 1 \in 0..Retries /\ k - 1 >= 0
    BY <1>1, <1>3, <2>3
  <2>6. q \in Beyond(v, k - 1)
    BY <1>3, <2>4, <2>5 DEF Beyond, Sharing
  <2>7. Beyond(v, k)' \subseteq Beyond(v, k - 1) \ {q}
    <3>1. ASSUME NEW r \in Beyond(v, k)'
          PROVE  r \in Beyond(v, k - 1) /\ r # q
      <4>1. r \in Sharing(v) /\ r \in Processes /\ attempt'[r] >= k
        BY DEF Beyond, Sharing
      <4>2. CASE r = p
        BY <1>1, <1>3, <2>3, <2>4, <4>1, <4>2 DEF Beyond
      <4>3. CASE r # p
        <5>1. attempt[r] >= k
          BY <1>4, <4>1, <4>3
        <5>2. attempt[r] >= k - 1 /\ attempt[r] # k - 1
          BY <1>1, <1>3, <4>1, <5>1
        <5>3. QED
          BY <2>4, <4>1, <5>2 DEF Beyond
      <4>4. QED
        BY <4>2, <4>3
    <3>2. QED
      BY <3>1
  <2>8. /\ IsFiniteSet(Beyond(v, k - 1) \ {q})
        /\ Cardinality(Beyond(v, k - 1) \ {q}) = Cardinality(Beyond(v, k - 1)) - 1
    BY <1>2, <2>5, <2>6, FS_RemoveElement
  <2>9. /\ IsFiniteSet(Beyond(v, k)')
        /\ Cardinality(Beyond(v, k)') <= Cardinality(Beyond(v, k - 1) \ {q})
    BY <2>7, <2>8, FS_Subset
  <2>10. Cardinality(Beyond(v, k)') \in Nat /\ Cardinality(Beyond(v, k - 1)) \in Nat
    BY <1>2, <2>5, <2>9, FS_CardinalityType
  <2>11. (k - 1) + Cardinality(Beyond(v, k - 1)) <= Cardinality(Sharing(v))
    BY <2>5, <2>6 DEF Thinning
  <2>12. QED
    BY <1>1, <2>8, <2>9, <2>10, <2>11
<1>7. QED
  BY <1>5, <1>6

\* The last attempt cannot collide: two processes that share the number would
\* have come to it, and all earlier attempts have left one behind.
LEMMA NoLastCollision ==
  ASSUME FewShareANumber, IInv, OrphansHaveFaults, left = MaxFaults, Signed, Thinning,
         NEW p \in Processes, CreateCollides(p)
  PROVE  attempt[p] # Retries
<1> SUFFICES ASSUME attempt[p] = Retries PROVE FALSE
  OBVIOUS
<1> DEFINE v == PidOf[p]
           S == Beyond(v, Retries)
<1>1. v \in Pids /\ Retries \in 0..Retries /\ Retries \in Nat
  BY BlobStoreAssumption
<1>2. PICK q \in Processes \ {p} : PidOf[q] = v /\ attempt[q] = Retries
  BY Rival
<1>3. p \in S /\ q \in S /\ p # q
  BY <1>1, <1>2 DEF Beyond, Sharing
<1>4. /\ IsFiniteSet(Sharing(v)) /\ Cardinality(Sharing(v)) \in Nat
      /\ Cardinality(Sharing(v)) <= Retries + 1
  BY <1>1, FS_CardinalityType DEF FewShareANumber
<1>5. IsFiniteSet(S)
  <2>1. S \in SUBSET Sharing(v)
    BY DEF Beyond
  <2>2. QED
    BY <1>4, <2>1, FS_Subset
<1>6. Cardinality(S) \in Nat
  BY <1>5, FS_CardinalityType
<1>7. Retries + Cardinality(S) <= Cardinality(Sharing(v))
  BY <1>1, <1>3 DEF Thinning
<1> HIDE DEF S
<1>8. Cardinality(S) <= 1
  BY <1>1, <1>4, <1>6, <1>7
<1>9. Cardinality(S \ {p}) = Cardinality(S) - 1 /\ IsFiniteSet(S \ {p})
  BY <1>3, <1>5, FS_RemoveElement
<1>10. Cardinality(S \ {p}) \in Nat
  BY <1>9, FS_CardinalityType
<1>11. Cardinality(S \ {p}) = 0
  BY <1>6, <1>8, <1>9, <1>10
<1>12. S \ {p} = {}
  BY <1>9, <1>11, FS_EmptySet
<1>13. QED
  BY <1>3, <1>12

\* Nothing that a process meets while nothing goes wrong makes it fail.
LEMMA UnfailedStep ==
  ASSUME FewShareANumber, IInv, OrphansHaveFaults, left = MaxFaults, left' = left,
         OwnNames, PassesAgree, Signed, Thinning, Unfailed,
         NEW p \in Processes, ByProcess(p)
  PROVE  Unfailed'
<1> DEFINE Bad == Failures \ {"missing_blob", "limit_exceeded"}
<1>1. ASSUME NEW q \in Processes \ {p} PROVE result'[q] \notin Bad
  BY OthersAreLeft DEF OthersStay, IInv, Unfailed
<1>2. result'[p] \notin Bad
  <2> USE DEF Failures, Continue, Finish, Start, IInv, TypeOK
  <2>1. left \in Nat
    OBVIOUS
  <2>2. result[p] \notin Bad
    BY DEF Unfailed
  <2>3. CASE CreateCollides(p)
    <3>1. attempt[p] # Retries
      BY <2>3, NoLastCollision
    <3>2. result' = result
      BY <2>3, <3>1 DEF CreateCollides
    <3>3. QED
      BY <2>2, <3>2
  <2>4. CASE ConfirmRefuses(p)
    BY <2>4 DEF ConfirmRefuses, PassesAgree
  <2>5. CASE VerifyExisting(p)
    <3>1. pc[p] = "verify"
      BY <2>5 DEF VerifyExisting
    <3>2. blob[identity[p]] = identity[p]
      BY <3>1 DEF SeenBound, OwnNames
    <3>3. QED
      BY <2>5, <3>2 DEF VerifyExisting
  <2>6. CASE Check(p)
    <3>1. blob[identity[p]] \in {NoFile, identity[p]}
      BY DEF OwnNames
    <3>2. pc[p] = "check"
      BY <2>6 DEF Check
    <3>3. CASE blob[identity[p]] = identity[p] /\ Len(identity[p]) <= Limit
      BY <2>2, <2>6, <3>3 DEF Check
    <3>4. CASE blob[identity[p]] = NoFile
      BY <2>6, <3>4, BlobStoreAssumption DEF Check
    <3>5. CASE blob[identity[p]] = identity[p] /\ ~(Len(identity[p]) <= Limit)
      <4>1. Len(identity[p]) \in Nat
        BY ContentSeq
      <4>2. Len(identity[p]) > Limit
        BY <3>5, <4>1, BlobStoreAssumption
      <4>3. Finish(p, "limit_exceeded") \/ Finish(p, "missing_blob")
        BY <2>6, <3>5, <4>2 DEF Check
      <4>4. QED
        BY <4>3
    <3>6. QED
      BY <3>1, <3>3, <3>4, <3>5
  <2>7. CASE ReadBack(p)
    <3>1. pc[p] = "read"
      BY <2>7 DEF ReadBack
    <3>2. blob[identity[p]] = identity[p] /\ identity[p] \in Contents
      BY <3>1 DEF SeenBound, OwnNames
    <3>3. identity[p] \in Seq(Chunks) /\ Len(identity[p]) \in Nat
      BY <3>2, ContentSeq
    <3>4. ReadPrefix(blob[identity[p]], Len(identity[p])) = identity[p]
      BY <3>2, <3>3, SubSeqFull DEF ReadPrefix
    <3>5. Finish(p, "returned")
      BY <2>7, <3>4 DEF ReadBack
    <3>6. QED
      BY <3>5
  <2>8. CASE CopyFails(p) \/ PublishFails(p) \/ UnlinkFails(p) \/ ReadFails(p) \/ Crash(p)
    BY <2>1, <2>8 DEF CopyFails, PublishFails, UnlinkFails, ReadFails, Crash, Fault
  <2>9. CASE \/ StartPut(p) \/ Restart(p) \/ (\E c \in Asked : StartGet(p, c))
             \/ MeasureChunk(p) \/ MeasureEnd(p) \/ Create(p)
    BY <2>2, <2>9 DEF StartPut, Restart, StartGet, MeasureChunk, MeasureEnd, Create
  <2>10. CASE \/ CopyChunk(p) \/ CopyEnd(p) \/ Confirm(p) \/ Classify(p) \/ Link(p)
              \/ LinkCollides(p) \/ Unlink(p) \/ Discard(p)
    BY <2>2, <2>10 DEF CopyChunk, CopyEnd, Confirm, Classify, Link, LinkCollides, Unlink, Discard
  <2>11. QED
    BY <2>3, <2>4, <2>5, <2>6, <2>7, <2>8, <2>9, <2>10 DEF ByProcess, Step
<1>3. QED
  BY <1>1, <1>2 DEF Unfailed

\* An undisturbed run begins undisturbed.
LEMMA UndisturbedInit == FewShareANumber /\ Init => Undisturbed
<1> SUFFICES ASSUME FewShareANumber, Init PROVE Undisturbed
  OBVIOUS
<1>1. OwnNames /\ PassesAgree /\ Signed /\ Unfailed
  BY DEF Init, OwnNames, PassesAgree, Signed, Unfailed, Owning, Failures
<1>2. Thinning
  <2> SUFFICES ASSUME NEW v \in Pids, NEW k \in 0..Retries, Beyond(v, k) # {}
               PROVE  k + Cardinality(Beyond(v, k)) <= Cardinality(Sharing(v))
    BY DEF Thinning
  <2>1. k = 0 /\ Beyond(v, k) = Sharing(v)
    BY BlobStoreAssumption DEF Init, Beyond, Sharing
  <2>2. Cardinality(Sharing(v)) \in Nat
    BY FS_CardinalityType DEF FewShareANumber
  <2>3. QED
    BY <2>1, <2>2
<1>3. QED
  BY <1>1, <1>2 DEF Undisturbed

\* Without a fault, every step keeps it undisturbed.
LEMMA UndisturbedStep ==
  ASSUME FewShareANumber, IInv, IInv', OrphansHaveFaults, Undisturbed, [Next]_vars
  PROVE  Undisturbed'
<1> SUFFICES ASSUME left' = MaxFaults
             PROVE  (OwnNames /\ PassesAgree /\ Signed /\ Thinning /\ Unfailed)'
  BY DEF Undisturbed
<1>1. left \in 0..MaxFaults /\ MaxFaults \in Nat /\ TypeOK'
  BY BlobStoreAssumption DEF IInv, TypeOK
<1>2. ASSUME NEW p \in Processes, ByProcess(p)
      PROVE  (OwnNames /\ PassesAgree /\ Signed /\ Thinning /\ Unfailed)'
  <2>1. left' = left \/ (left > 0 /\ left' = left - 1)
    BY <1>2, OthersAreLeft DEF OthersStay, IInv
  <2>2. left = MaxFaults /\ left' = left
    BY <1>1, <2>1
  <2>3. OwnNames /\ PassesAgree /\ Signed /\ Thinning /\ Unfailed
    BY <2>2 DEF Undisturbed
  <2>4. OwnNames'
    BY <1>2, <2>2, <2>3, NamesStep
  <2>5. PassesAgree'
    BY <1>1, <1>2, <2>2, <2>3, PassesStep
  <2>6. Signed'
    BY <1>2, <2>3, SignedStep
  <2>7. Thinning'
    BY <1>1, <1>2, <2>2, <2>3, ThinningStep
  <2>8. Unfailed'
    BY <1>2, <2>2, <2>3, UnfailedStep
  <2>9. QED
    BY <2>4, <2>5, <2>6, <2>7, <2>8
<1>3. CASE EditSource \/ \E c \in Contents : Rot(c)
  BY <1>1, <1>3 DEF EditSource, Rot, Fault
<1>4. CASE UNCHANGED vars
  BY <1>4 DEF vars, Undisturbed, OwnNames, PassesAgree, Signed, Thinning, Unfailed, Beyond, Sharing
<1>5. QED
  BY <1>2, <1>3, <1>4 DEF Next, ByProcess

\* While nothing goes wrong, processes that race to put or to get never make each
\* other fail, if at most Retries + 1 of them share a process number: each of
\* the attempts of a put leaves at least one of those behind.
THEOREM RacersNeverFail == FewShareANumber /\ Spec => []RacingNeverFails
<1>1. Undisturbed => RacingNeverFails
  BY DEF Undisturbed, Unfailed, RacingNeverFails
<1>2. FewShareANumber /\ Init => Undisturbed /\ OrphansHaveFaults
  BY UndisturbedInit, OrphansInit
<1>3. FewShareANumber /\ IInv /\ IInv' /\ OrphansHaveFaults /\ Undisturbed /\ [Next]_vars
        => Undisturbed' /\ OrphansHaveFaults'
  BY UndisturbedStep, OrphansStep
<1>4. CASE FewShareANumber
  BY <1>1, <1>2, <1>3, <1>4, Invariant, PTL DEF Spec
<1>5. QED
  BY <1>4
====
