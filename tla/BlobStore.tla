---- MODULE BlobStore ----
(***************************************************************************)
(* The content-addressed blob store of rf_evidence: BlobStore::put         *)
(* (stage, then publish) and BlobStore::get in blob_store.cpp, over        *)
(* ExclusiveFile and publishWithoutReplacement of file_security.cpp, run   *)
(* by several processes over one directory without any lock.               *)
(*                                                                         *)
(* A put reads its source twice: once to name the blob and once to copy it *)
(* beside its final path.  It then reads the copy back, links it to the    *)
(* final path if that is free and unlinks the staged name, or discards the *)
(* staged copy and verifies the blob that is already there.                *)
(*                                                                         *)
(* A file is a sequence of chunks and a read takes a chunk at a time, so   *)
(* an edit of the source can fall inside either pass.  A process can die   *)
(* at any step; what it staged stays.  Names of staged files are made of   *)
(* the process number, which a later process or one in another container   *)
(* can have too, and of counters that start again in every process.        *)
(***************************************************************************)
EXTENDS Naturals, Sequences, FiniteSets

CONSTANTS
  Processes,        \* the processes
  Pids,             \* process numbers
  PidOf,            \* the number of each process: two may share one
  Chunks,           \* contents of a chunk
  MaxLen,           \* bound: chunks in a file
  Limit,            \* kMaximumBlobBytes, in chunks
  Retries,          \* kStagingCollisionRetries
  MaxOrdinal,       \* bound: staging attempts of one process
  Versions,         \* what a user may write into the source
  Asked,            \* the digests a get is asked for
  Damages,          \* what the medium may turn a blob into
  NoFile,           \* a path that names no file
  FaultKinds,       \* "crash", "io", "edit", "rot": what may occur
  MaxFaults         \* bound: how many of them

\* Byte strings; each stands for its own digest and so for its final path.
Contents == UNION {[1..n -> Chunks] : n \in 0..MaxLen}

ASSUME BlobStoreAssumption ==
  /\ PidOf \in [Processes -> Pids]
  /\ MaxLen \in Nat /\ Limit \in Nat /\ Retries \in Nat
  /\ MaxOrdinal \in Nat /\ MaxFaults \in Nat
  /\ Versions \subseteq Contents /\ Asked \subseteq Contents /\ Damages \subseteq Contents
  /\ NoFile \notin Contents

\* What stagingSuffix appends to the final path of a digest.
StagedNames == [digest: Contents, pid: Pids, ordinal: 0..MaxOrdinal, attempt: 0..Retries]

VARIABLES
  source,           \* the file being put
  blob,             \* what each final path holds
  staged,           \* what each staged name holds
  pc,               \* where each process is
  identity,         \* the content a process has measured, or asked for
  mine,             \* the staged name a process tried last
  attempt,          \* its staging attempts in this put
  ordinal,          \* its staging attempts in its life
  result,           \* how its last operation ended
  bytes,            \* what its last get returned
  left              \* faults still to come

vars == <<source, blob, staged, pc, identity, mine, attempt, ordinal, result,
          bytes, left>>

PutSteps == {"measure", "create", "copy", "confirm", "classify", "link",
             "unlink", "discard", "verify"}
GetSteps == {"check", "read"}

Failures == {"limit_exceeded", "staging_collision", "staged_verification_failed",
             "corrupt_stored_blob", "missing_blob", "store_io_failure"}
Results  == Failures \union {"none", "stored", "returned", "crashed"}

TypeOK ==
  /\ source \in Contents
  /\ blob \in [Contents -> Contents \union {NoFile}]
  /\ staged \in [StagedNames -> Contents \union {NoFile}]
  /\ pc \in [Processes -> PutSteps \union GetSteps \union {"idle"}]
  /\ identity \in [Processes -> Contents]
  /\ mine \in [Processes -> StagedNames \union {NoFile}]
  /\ attempt \in [Processes -> 0..Retries]
  /\ ordinal \in [Processes -> 0..(MaxOrdinal + 1)]
  /\ result \in [Processes -> Results]
  /\ bytes \in [Processes -> Contents]
  /\ left \in 0..MaxFaults

Init ==
  /\ source \in Versions
  /\ blob = [c \in Contents |-> NoFile]
  /\ staged = [n \in StagedNames |-> NoFile]
  /\ pc = [p \in Processes |-> "idle"]
  /\ identity = [p \in Processes |-> <<>>]
  /\ mine = [p \in Processes |-> NoFile]
  /\ attempt = [p \in Processes |-> 0]
  /\ ordinal = [p \in Processes |-> 0]
  /\ result = [p \in Processes |-> "none"]
  /\ bytes = [p \in Processes |-> <<>>]
  /\ left = MaxFaults

NoFault == UNCHANGED left

Fault(kind) == kind \in FaultKinds /\ left > 0 /\ left' = left - 1

Continue(p, step) ==
  /\ pc' = [pc EXCEPT ![p] = step]
  /\ UNCHANGED <<mine, attempt, result>>

\* The call returns, and its locals go.
Finish(p, outcome) ==
  /\ pc' = [pc EXCEPT ![p] = "idle"]
  /\ result' = [result EXCEPT ![p] = outcome]
  /\ mine' = [mine EXCEPT ![p] = NoFile]
  /\ attempt' = [attempt EXCEPT ![p] = 0]

Start(p, step) ==
  /\ pc[p] = "idle"
  /\ pc' = [pc EXCEPT ![p] = step]
  /\ result' = [result EXCEPT ![p] = "none"]
  /\ bytes' = [bytes EXCEPT ![p] = <<>>]
  /\ UNCHANGED <<mine, attempt>>

\* discardStaged: best effort, and only the name this operation created.
Discards(p) ==
  \/ staged' = [staged EXCEPT ![mine[p]] = NoFile] /\ NoFault
  \/ UNCHANGED staged /\ Fault("io")

\* discardStaged while the disk is failing anyway.
MayDiscard(p) ==
  \E after \in {NoFile, staged[mine[p]]} :
    staged' = [staged EXCEPT ![mine[p]] = after]

(***************************************************************************)
(* Pass one: measureFile over the source names the blob.                   *)
(***************************************************************************)
StartPut(p) ==
  /\ ordinal[p] + Retries <= MaxOrdinal
  /\ Start(p, "measure")
  /\ identity' = [identity EXCEPT ![p] = <<>>]
  /\ UNCHANGED <<source, blob, staged, ordinal, left>>

MeasureChunk(p) ==
  /\ pc[p] = "measure"
  /\ Len(identity[p]) < Len(source)
  /\ identity' = [identity EXCEPT ![p] = Append(@, source[Len(@) + 1])]
  /\ IF Len(identity'[p]) > Limit
     THEN Finish(p, "limit_exceeded")
     ELSE Continue(p, "measure")
  /\ UNCHANGED <<source, blob, staged, ordinal, bytes, left>>

MeasureEnd(p) ==
  /\ pc[p] = "measure"
  /\ Len(identity[p]) >= Len(source)
  /\ Continue(p, "create")
  /\ UNCHANGED <<source, blob, staged, identity, ordinal, bytes, left>>

(***************************************************************************)
(* Pass two: an exclusively created file beside the final path.            *)
(***************************************************************************)
NextName(p) ==
  [digest |-> identity[p], pid |-> PidOf[p], ordinal |-> ordinal[p],
   attempt |-> attempt[p]]

\* Mutant: the staged file is opened without O_EXCL.
CreateTruncates(p) ==
  /\ pc[p] = "create"
  /\ staged' = [staged EXCEPT ![NextName(p)] = <<>>]
  /\ mine' = [mine EXCEPT ![p] = NextName(p)]
  /\ ordinal' = [ordinal EXCEPT ![p] = @ + 1]
  /\ pc' = [pc EXCEPT ![p] = "copy"]
  /\ UNCHANGED <<attempt, result>>
  /\ UNCHANGED <<source, blob, identity, bytes, left>>

Create(p) ==
  /\ pc[p] = "create"
  /\ staged[NextName(p)] = NoFile
  /\ staged' = [staged EXCEPT ![NextName(p)] = <<>>]
  /\ mine' = [mine EXCEPT ![p] = NextName(p)]
  /\ ordinal' = [ordinal EXCEPT ![p] = @ + 1]
  /\ pc' = [pc EXCEPT ![p] = "copy"]
  /\ UNCHANGED <<attempt, result>>
  /\ UNCHANGED <<source, blob, identity, bytes, left>>

\* Mutant: one attempt too many.
CreateCollidesOnce(p) ==
  /\ pc[p] = "create"
  /\ staged[NextName(p)] # NoFile
  /\ ordinal' = [ordinal EXCEPT ![p] = @ + 1]
  /\ IF attempt[p] > Retries
     THEN Finish(p, "staging_collision")
     ELSE /\ attempt' = [attempt EXCEPT ![p] = @ + 1]
          /\ UNCHANGED <<pc, mine, result>>
  /\ UNCHANGED <<source, blob, staged, identity, bytes, left>>

CreateCollides(p) ==
  /\ pc[p] = "create"
  /\ staged[NextName(p)] # NoFile
  /\ ordinal' = [ordinal EXCEPT ![p] = @ + 1]
  /\ IF attempt[p] = Retries
     THEN Finish(p, "staging_collision")
     ELSE /\ attempt' = [attempt EXCEPT ![p] = @ + 1]
          /\ UNCHANGED <<pc, mine, result>>
  /\ UNCHANGED <<source, blob, staged, identity, bytes, left>>

CopyChunk(p) ==
  /\ pc[p] = "copy"
  /\ Len(staged[mine[p]]) < Len(source)
  /\ staged' = [staged EXCEPT ![mine[p]] = Append(@, source[Len(@) + 1])]
  /\ Continue(p, "copy")
  /\ UNCHANGED <<source, blob, identity, ordinal, bytes, left>>

CopyEnd(p) ==
  /\ pc[p] = "copy"
  /\ Len(staged[mine[p]]) >= Len(source)
  /\ Continue(p, "confirm")
  /\ UNCHANGED <<source, blob, staged, identity, ordinal, bytes, left>>

\* The source cannot be reopened or read, or a write or the close fails.
CopyFails(p) ==
  /\ pc[p] = "copy"
  /\ Fault("io")
  /\ MayDiscard(p)
  /\ Finish(p, "store_io_failure")
  /\ UNCHANGED <<source, blob, identity, ordinal, bytes>>

(***************************************************************************)
(* Pass three: the staged copy is read back before anything is published.  *)
(***************************************************************************)
\* Mutant: the staged copy is trusted without being read back.
ConfirmUnread(p) ==
  /\ pc[p] = "confirm"
  /\ Continue(p, "classify")
  /\ UNCHANGED <<source, blob, staged, identity, ordinal, bytes, left>>

Confirm(p) ==
  /\ pc[p] = "confirm"
  /\ staged[mine[p]] = identity[p]
  /\ Continue(p, "classify")
  /\ UNCHANGED <<source, blob, staged, identity, ordinal, bytes, left>>

ConfirmRefuses(p) ==
  /\ pc[p] = "confirm"
  /\ staged[mine[p]] # identity[p]
  /\ Discards(p)
  /\ Finish(p, IF Len(staged[mine[p]]) > Limit THEN "limit_exceeded"
               ELSE "staged_verification_failed")
  /\ UNCHANGED <<source, blob, identity, ordinal, bytes>>

Classify(p) ==
  /\ pc[p] = "classify"
  /\ Continue(p, IF blob[identity[p]] = NoFile THEN "link" ELSE "discard")
  /\ UNCHANGED <<source, blob, staged, identity, ordinal, bytes, left>>

\* publishWithoutReplacement: link, which fails when the name exists ...
Link(p) ==
  /\ pc[p] = "link"
  /\ blob[identity[p]] = NoFile
  /\ blob' = [blob EXCEPT ![identity[p]] = staged[mine[p]]]
  /\ Continue(p, "unlink")
  /\ UNCHANGED <<source, staged, identity, ordinal, bytes, left>>

\* Mutant: an existing destination is an input-output failure.
LinkCollisionFails(p) ==
  /\ pc[p] = "link"
  /\ blob[identity[p]] # NoFile
  /\ staged' = [staged EXCEPT ![mine[p]] = NoFile]
  /\ Finish(p, "store_io_failure")
  /\ UNCHANGED <<source, blob, identity, ordinal, bytes, left>>

\* Mutant: the staged copy is forgotten when the name turns out to be bound.
LinkCollidesForgets(p) ==
  /\ pc[p] = "link"
  /\ blob[identity[p]] # NoFile
  /\ Continue(p, "verify")
  /\ UNCHANGED <<source, blob, staged, identity, ordinal, bytes, left>>

LinkCollides(p) ==
  /\ pc[p] = "link"
  /\ blob[identity[p]] # NoFile
  /\ Continue(p, "discard")
  /\ UNCHANGED <<source, blob, staged, identity, ordinal, bytes, left>>

\* Reading the copy back, looking at the final path or linking fails.
PublishFails(p) ==
  /\ pc[p] \in {"confirm", "classify", "link"}
  /\ Fault("io")
  /\ MayDiscard(p)
  /\ Finish(p, "store_io_failure")
  /\ UNCHANGED <<source, blob, identity, ordinal, bytes>>

\* ... then unlink of the staged name.  When that fails the put reports a
\* failure although the blob is in place; the discard that follows may work.
Unlink(p) ==
  /\ pc[p] = "unlink"
  /\ staged' = [staged EXCEPT ![mine[p]] = NoFile]
  /\ Finish(p, "stored")
  /\ UNCHANGED <<source, blob, identity, ordinal, bytes, left>>

UnlinkFails(p) ==
  /\ pc[p] = "unlink"
  /\ Fault("io")
  /\ MayDiscard(p)
  /\ Finish(p, "store_io_failure")
  /\ UNCHANGED <<source, blob, identity, ordinal, bytes>>

(***************************************************************************)
(* The blob exists already: it is verified and left exactly as it is.      *)
(***************************************************************************)
Discard(p) ==
  /\ pc[p] = "discard"
  /\ Discards(p)
  /\ Continue(p, "verify")
  /\ UNCHANGED <<source, blob, identity, ordinal, bytes>>

VerifyExisting(p) ==
  /\ pc[p] = "verify"
  /\ Finish(p, IF blob[identity[p]] = identity[p] THEN "stored"
               ELSE IF Len(blob[identity[p]]) > Limit THEN "limit_exceeded"
               ELSE "corrupt_stored_blob")
  /\ UNCHANGED <<source, blob, staged, identity, ordinal, bytes, left>>

(***************************************************************************)
(* BlobStore::get: verify, then read again and hash what was read.         *)
(***************************************************************************)
StartGet(p, c) ==
  /\ Start(p, "check")
  /\ identity' = [identity EXCEPT ![p] = c]
  /\ UNCHANGED <<source, blob, staged, ordinal, left>>

Check(p) ==
  /\ pc[p] = "check"
  /\ LET held == blob[identity[p]] IN
     IF held = identity[p] /\ Len(held) <= Limit
     THEN Continue(p, "read")
     ELSE Finish(p, IF held = NoFile THEN "missing_blob"
                    ELSE IF Len(held) > Limit THEN "limit_exceeded"
                    ELSE "corrupt_stored_blob")
  /\ UNCHANGED <<source, blob, staged, identity, ordinal, bytes, left>>

\* The bytes a read of n chunks returns.
ReadPrefix(held, n) == SubSeq(held, 1, IF Len(held) < n THEN Len(held) ELSE n)

\* Mutant: only the length is checked again after the read.
ReadBackUnhashed(p) ==
  /\ pc[p] = "read"
  /\ LET read == ReadPrefix(blob[identity[p]], Len(identity[p])) IN
     IF Len(read) = Len(identity[p])
     THEN bytes' = [bytes EXCEPT ![p] = read] /\ Finish(p, "returned")
     ELSE UNCHANGED bytes /\ Finish(p, "corrupt_stored_blob")
  /\ UNCHANGED <<source, blob, staged, identity, ordinal, left>>

ReadBack(p) ==
  /\ pc[p] = "read"
  /\ LET read == ReadPrefix(blob[identity[p]], Len(identity[p])) IN
     IF read = identity[p]
     THEN bytes' = [bytes EXCEPT ![p] = read] /\ Finish(p, "returned")
     ELSE UNCHANGED bytes /\ Finish(p, "corrupt_stored_blob")
  /\ UNCHANGED <<source, blob, staged, identity, ordinal, left>>

\* A failure before anything is staged, or after it is discarded.
ReadFails(p) ==
  /\ pc[p] \in {"measure", "create", "verify"} \union GetSteps
  /\ Fault("io")
  /\ ordinal' = [ordinal EXCEPT ![p] = IF pc[p] = "create" THEN @ + 1 ELSE @]
  /\ Finish(p, "store_io_failure")
  /\ UNCHANGED <<source, blob, staged, identity, bytes>>

(***************************************************************************)
(* The environment: the source is edited in place, the medium damages a    *)
(* blob, a process dies and another starts with the same number.           *)
(***************************************************************************)
EditSource ==
  /\ Fault("edit")
  /\ source' \in Versions \ {source}
  /\ UNCHANGED <<blob, staged, pc, identity, mine, attempt, ordinal, result, bytes>>

Rot(c) ==
  /\ blob[c] # NoFile
  /\ Fault("rot")
  /\ \E d \in Damages \ {blob[c]} : blob' = [blob EXCEPT ![c] = d]
  /\ UNCHANGED <<source, staged, pc, identity, mine, attempt, ordinal, result, bytes>>

Crash(p) ==
  /\ pc[p] # "idle"
  /\ Fault("crash")
  /\ Finish(p, "crashed")
  /\ ordinal' = [ordinal EXCEPT ![p] = 0]
  /\ UNCHANGED <<source, blob, staged, identity, bytes>>

\* A command has ended and the next process, which may get the same number,
\* counts from zero.
Restart(p) ==
  /\ pc[p] = "idle" /\ ordinal[p] > 0
  /\ ordinal' = [ordinal EXCEPT ![p] = 0]
  /\ UNCHANGED <<source, blob, staged, pc, identity, mine, attempt, result, bytes, left>>

Step(p) ==
  \/ MeasureChunk(p) \/ MeasureEnd(p)
  \/ Create(p) \/ CreateCollides(p)
  \/ CopyChunk(p) \/ CopyEnd(p) \/ CopyFails(p)
  \/ Confirm(p) \/ ConfirmRefuses(p) \/ Classify(p)
  \/ Link(p) \/ LinkCollides(p) \/ PublishFails(p)
  \/ Unlink(p) \/ UnlinkFails(p)
  \/ Discard(p) \/ VerifyExisting(p)
  \/ Check(p) \/ ReadBack(p) \/ ReadFails(p)

Next ==
  \/ \E p \in Processes :
       Step(p) \/ StartPut(p) \/ Crash(p) \/ Restart(p) \/ \E c \in Asked : StartGet(p, c)
  \/ EditSource
  \/ \E c \in Contents : Rot(c)

Spec == Init /\ [][Next]_vars

(***************************************************************************)
(* Properties                                                              *)
(***************************************************************************)

Owning == {"copy", "confirm", "classify", "link", "unlink", "discard"}

\* Two processes never write, read back or publish the same staged file, even
\* when they have the same process number and the same counters.
ExclusiveStaging ==
  \A p, q \in Processes :
    p # q /\ pc[p] \in Owning /\ pc[q] \in Owning => mine[p] # mine[q]

\* What get returns hashes to the name it was asked for, although the blob can
\* be damaged between the verification and the read.
GetReturnsAddressedBytes ==
  \A p \in Processes : result[p] = "returned" => bytes[p] = identity[p]

\* Processes racing to put one content, or to get it, never make each other
\* fail, as long as there are no more of them with one process number than a
\* put has attempts: something has to have gone wrong first.
RacingNeverFails ==
  left = MaxFaults =>
    \A p \in Processes :
      result[p] \notin Failures \ {"missing_blob", "limit_exceeded"}

\* No put leaves a staged file behind, whether it stored, found or refused its
\* content: the staged files nobody works on are those of processes that died
\* and of removals that failed, and there are no more of them than such faults.
NoLitter ==
  LET orphans == {n \in StagedNames : /\ staged[n] # NoFile
                                      /\ ~\E p \in Processes : pc[p] \in Owning /\ mine[p] = n}
  IN Cardinality(orphans) <= MaxFaults - left

\* The store keeps the promise of ContentStore: link never replaces, nothing
\* half-written or renamed under way is ever bound to a name, and a success is
\* answered only for a name that is bound.
Answers ==
  [p \in Processes |->
     IF result[p] = "stored" THEN identity[p]
     ELSE IF result[p] = "returned" THEN bytes[p]
     ELSE NoFile]

Promise == INSTANCE ContentStore
             WITH Clients <- Processes, store <- blob, answer <- Answers

KeepsPromise == Promise!Spec
====
