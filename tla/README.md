# Rawframe: models and proofs

TLA+ models of the parts of Rawframe that have behaviour of their own, the TLC
runs that check them and the theorems about them. Paths are relative to the root
of the repository. A definition has the name of what it models where TLA+ allows
it, and `PROJECT.json` ("map") gives the lines each definition stands for.

- [The system](#the-system): components, their state and what makes them correct
- [Modules](#modules): how state and actions correspond to the code
- [Runs](#runs): what is checked, in which bounds, under which fairness
- [Where the code does something else](#where-the-code-does-something-else)
- [Proofs](#proofs): what holds for every value of the constants, and why
- [What is not modelled](#what-is-not-modelled)

## The system

The repository is an early stage of an engine: a small base library, a bootstrap
that turns a checkout into a working toolchain, and three tools that judge the
checkout and the evidence measured on it. What is hard about it is not size but
persistence and trust. Most components read files someone else may have
written, died while writing or damaged, and their result is a statement
("this tree is the verified one", "this evidence passed") that must not be wrong.

| Component | State | Operations | Hard about it | Correct when |
|---|---|---|---|---|
| Fatal path (`source/base/src/fatal.cpp`) | two process-global atomics: handler slot, entry flag | install, freeze, raise, default handler, abort | threads failing together, a handler that fails, installing while failing | the promised handler runs, once; the process ends, never without a word |
| Prepared-tree publisher (`cmake/bootstrap/verifier.cmake`) | a destination directory, its `.incoming` and `.previous` siblings, identity markers | recover, clean, copy, mark, two renames, remove | dying at any of these; renames and removals that fail or half succeed; the lock moving on | only a verified tree is in service, one verified copy survives, a rerun gets there |
| Acquisition (`transport.cmake`, `verifier.cmake`, `common.cmake`) | quarantine, object cache, per stage | seek, copy, download, follow redirects, verify, prove, publish | dying mid-copy, redirects of a server's choosing, two syncs, fixed temporary names | cache and trees hold locked bytes or nothing; a refusal has a cause |
| Archive extraction (`archive.cmake`) | a staging tree | list, check members, extract, rename | an archive that lies about its members, names that differ in case | nothing outside the tree, nothing partial |
| Stage-0 and Stage-1 sync (`sync.cmake`, `cmake/sync/`) | the prepared tools and dependencies | admit the machine, acquire, run the exact CMake, publish, prepare | a stage after a failed one | later stages see only published trees |
| Blob store (`tools/rf_evidence/src/blob_store.cpp`, `file_security.cpp`) | a directory of blobs and staged files, no lock | put, get, verify | concurrent puts, colliding staging names, sources edited meanwhile, crashes, failing unlinks, damage | a digest names one content for good; an answer is about that content |
| Process runner (`process_runner.cpp`) | a child, its process group, capture files, a clock | fork, poll, kill, wait, measure, read, clean up | child, descendants and clock against the poll loop; stale captures | a completed result is the child's own, bounded; nothing is left behind |
| Evidence records (`evidence_set.cpp`, `metric_registry.cpp`, `evaluation_policy.cpp`, `record_command.cpp`) | files in, files out | assemble, load authorities, evaluate, canonicalize, validate | retries, schedules, two registries or generations, layout | ledgers account for plans, whatever the layout |
| Evaluator (`evaluator.cpp`, `rescaleExact`) | the runs and checks of one evaluation | load receipts, evaluate phases, compare, emit | silent runs, scales, rounding, blocked phases | a pass is earned, a failure has its ground |
| Attestation, trust policy (`attestation.cpp`, `trust_policy.cpp`) | none kept | parse a claim, decode the bundle, measure the subject, ask the verifier, derive the provenance | a genuine signature over bytes the lane never made; one fact in two spellings | a trusted record is of bytes that one admitted run made, and says what that run said |
| Canonical JSON, schema oracle | none kept | parse, canonicalize; ask an external validator | limits, duplicates | one byte form per record |
| Repository validator and audits (`repository_validator.cpp`, `dependency_authority.cpp`, `license_review.cpp`, `shipping_closure.cpp`, `path_audit.cpp`, `source_inspector.cpp`, `offline_verifier.cpp`) | what one invocation has read so far | validate, graph, explain, inspect, load, review, audit paths, audit shipping closure, verify offline | nine documents that name the same things, in two comparisons of case; walks that end early | an accepted checkout takes nothing from elsewhere that is not locked, catalogued and licensed once; membership is exact both ways |
| Architecture checker (`tools/rf_archcheck`) | what one invocation has read so far | check repository, explain rule, list rules | indirect edges, cycles, unclaimed files, scans that carry a depth, a sink with a ceiling | a clean checkout is one |
| Verification tool (`tools/rf_verify`) | what one invocation has read so far | coverage floors, coverage summary, requirements report | macro expansions credited across files, boundary percentages, diffs read a row at a time | no floor is met by omission; the verdict is the one the inputs earn |

How they interact. The bootstrap's sync acquires and extracts each locked
artifact, calls the publisher once for each tool it prepares, and its later stages run
the tools they find there. `rf_evidence` judges the locks and the cache this leaves
behind, without a network. `rf_evidence` calls
the process runner to run external programs, among them the schema validator;
its `put` and `get` operations are the blob store; `assemble` and `evaluate` read
receipts out of the store by digest and the maintained policy and registry out of
the checkout, and write a record to standard output that the caller stores
again with `put`. Several instances of the tool may run over one checkout, and
they share the store and the capture root, without a lock. Every failed
assertion or contract in the libraries ends in the fatal path.

The hazards of this code, each at its line and with the properties aimed at it,
are listed in `PROJECT.json`.

## Modules

### PreparedTree (MCPreparedTree, PreparedTreeProofs)

`destination`, `incoming` and `previous` are the three directories: whether each
is there, which generation it holds whole, whether it has files of others in it,
and its marker. `desired` is the generation the lock names. One action is one
file operation of `rf_publish_prepared_tree` (`CleanIncoming`, `CopySource`,
`WriteMarker`, `StageOld`, `SwapIn`, `DropPrevious`, with their failing variants
and the undoing `Undo` and `Rollback`) or one decision of
`rf_recover_prepared_rollback` (`Recover...`); `Crash` ends a run anywhere, also
in the middle of a copy, of a removal or of writing the marker (one that was cut off equals none), and
`ChangeLock` moves the lock between runs.
The recovery looks only at what the code looks at: presence and markers, never
at completeness.

### ContentStore and BlobStore (MCBlobStore, BlobStoreProofs)

`ContentStore` is what the store promises its callers: a name is bound once, to
its own content, and never rebound; an answer is about a bound name. A put or get in
`BlobStore` is the real sequence: measure the source, create a staged file under
a name made of digest, process number, ordinal and attempt, copy, read back,
link, unlink or discard, verify what is there. Files are sequences of chunks,
read one chunk a step, and `EditSource`, `Rot`, `Crash` and failing file operations fall
between any two. A digest is its content: SHA-256 is taken to be injective.
`KeepsPromise` is the refinement, with `store` mapped to `blob` and an answer to
a finished put or get.

### FatalPath (FatalPathProofs)

`slot` and `entered` are the two atomics, `pc` says where each thread is in
`raiseFatal`, `stderr` what was written. Atomic operations are single steps; an
abort ends all threads. Handlers may return, fail themselves or end the process.

### ProcessRunner (MCProcessRunner, ProcessRunnerProofs)

Per tool process: the poll loop (`Poll`, `Deadline`, `OutputLimit`, `Wait`,
`Status`, `Measure`, `Read`, `Release`), and beside it the child (`ChildGroups` for
setpgid, `ChildSpawns`, `Writes`, `ChildEnds`) and the clock (`Expires`). `capture` says
which invocation's files stand at a leaf, the directory named after process
number and ordinal; a dead tool leaves its leaf behind, and the next process may
have its number and start its ordinals again. Both captures are measured and then both are
read, where the code measures and reads one after the other; no property tells the two orders apart.

### Scale, Rescaling (MCRescaling, RescalingProofs)

`Scale` is the meaning of a fixed-point quantity and of moving it to another exponent in
one step. `Rescaling` is `rescaleExact` as the code has it: the loop that
multiplies by ten behind a guard and the loop that divides, truncates and
corrects, one digit a step. A behaviour is one call. `SameAsOneMove` says that
the loops compute what `Scale` says, and `Evaluation` uses `Scale`.

### Evaluation (MCEvaluation, EvaluationProofs)

The two operations between receipts and a verdict. `ParsePlan`, `Gather` and
`FinishSet` are `assembleOperation`; `Identify`, `Load`, `EvaluatePhase` and
`EmitVerdict` are `evaluateOperation`, with `loadAuthorities`,
`bindPolicyToRegistry`, `readEligibleAttempts`, `readObservations` and
`compareAt` as operators. Each refusal is an action beside the step it refuses.
`evidenceSet` and `receipt` are the records the operations print, `exit` the exit
code. The commands repeat over the same inputs while a receipt of the store is damaged
(`Damage`; the store then refuses it, as `ContentStore` promises) and plan or
policy are laid out in another order (`RelistPlan`, `RelistPolicy`). Members
that no decision reads (identifiers, provenance, labels, statistics of a metric
beside its unit) are left out, and so is what a schema refuses before this code
sees it: `SchemaAssumption` states what the schemas leave (lists, integers, known
statuses, at least one entry in a policy: `evaluation-policy-v1.schema.json:41`),
and TLC evaluates it on every input of the runs.

### ArchiveListing, LockedStore and Acquisition (MCAcquisition, AcquisitionProofs)

`ArchiveListing` is what `archive.cmake` admits of a listing, for rooted, rootless and
single-file archives: members as sequences of components, compared with case folded.
`Acquisition` is one locked artifact on its way through a sync. `file` is what each
name holds (nothing, some, wrong or right bytes): the prestaged file, the
quarantine, the file of a hop, the unpacked staging and the tree, once per stage,
and the object cache with its one `.incoming`. An action is one file operation or one answer of the transport:
`Seek`, `OpenCopy`, `FinishCopy`, `Identify` are `rf_quarantine_artifact`; `Ask`,
`Request`, `Body`, `Deliver`, `Land`, `Redirect`, `FailTransfer` are
`rf_download_manually_redirected`; `Place` to `Commit` are `rf_publish_verified_file`;
`Unpack` to `Settle` the extraction. A rename that fails takes its source away and stops the sync
(`Land`, `Commit`, `Settle`). An artifact is verified once more as it is published (`PublishLocked`), but for
the CMake archive, which Stage 0 publishes as it was identified (`sync.cmake:173`); `Begin`, `RunExactCMake`, `Prove` and `Prepare` the driver.
Any number of syncs run over the same names, and `Crash` ends one anywhere: nothing in the
scripts excludes either. A process keeps the file it has open when its name
moves or is removed, as the operating system has it. `overlapped` and `tainted` are
history: whether two syncs ever ran at once, and what may have spoilt the
quarantine. Signature proofs by gpg and cosign are one step that succeeds or stops.
`LockedStore` is what all that is for, of one artifact: an object is published once and stays, a tree
is extracted whole, Stage 1 takes its tree away only over an object, and a sync finishes only over both.
`ImplementsStore` is the refinement: `object` and `tree` are what the two names hold, `finished` are the syncs at
`"done"`, and `disturbed` is `overlapped`, after which nothing is promised.

### ToolRun, and the three tools (MCTools, ToolProofs)

No tool keeps anything between invocations, so a behaviour is one invocation:
`input` (request and tree), `stage` (where in its sequence it is), `found`
(what it has gathered) and `exit`. A tree is a record with the documents and files
of a checkout. What the code reads off the characters of a path or a line (its
directories, extension, commands, names) is a table given by a constant, and so is whether a document is
of its schema; everything the code then concludes is modelled.

**Archcheck, ArchitectureRules, ArchcheckTrees**: `rf_archcheck`. `ArchitectureRules`
has the walk, the membership model, the build lane that `CMakeLists.txt` leads to, and
all seven groups of checks with their rule identifiers, among them the cycle search
with its shared set of finished modules (`HasCycle`), the owner of an include by
longest prefix, and the guard depth of conditional links. The loops over data are one operator for a step
(`FollowBuildLane`, `Visit`, `ScanLine`) and a recursive function or a fold that takes as many steps as
the loop can; whatever order the code's containers have, a search step takes any open node. `Archcheck` runs corpus, model
and groups one after another into the sink, which has a ceiling, and ends in
clean, findings or internal error. A directory counts when the walk met it, empty or not, and a path can lie
in a tests zone and an include zone at once. Findings are a set: of two with one rule at one place the sink
here counts one, the code's both.

**VerifyTool, VerifyTrees**: `rf_verify`. Coverage exports are merged region by region
with saturating counts, expansions are credited to the file whose macro was expanded,
unified diffs are parsed a row at a time, tier declarations are held against the
units that are there, and floors, MC/DC pairs, requirements and summaries follow.

**EvidenceTool, AuthorityRules, RepositoryAudits, EvidenceTrees**: the operations of `rf_evidence`
on a checkout. `EvidenceTool` is the sequence: arguments, `validateRepository` and
`validateDependencyAuthorities` one document after another, each against the sets the
earlier ones left in `found`, then the operation and its report. `AuthorityRules` and
`RepositoryAudits` have the condition under which each step refuses. Walks are modelled
with the order in which the file system lists entries and with directories that
cannot be opened (`Met`). Operations on blobs and evidence sets
end as they may here (`OperateElsewhere`); they are `BlobStore` and `Evaluation`.

**RecordRules, RecordTrees**: the two operations on one record, as further stages of
`EvidenceTool` (`ReadRecord`, `CheckDescriptor`, `GateRecord`, `DeriveTrust`). `RecordRules` has
the gate of each kind, the promotion a baseline record describes (`PromotionRefused`) and the
provenance a record claims (`TrustRefused`). A claim, the statement in the stored bundle, the
stored subject and what runs really signed (`runs`) are four separate things in a tree, and only the last is
the truth; the external verifier vouches for a statement a run signed under the identity it
is given (`Vouched`), and signatures are not forged.

## Runs

| Run | Bounds | States |
|---|---|---|
| `prepared_tree` | 3 generations, two of which share a marker (as those of the tools do whose marker names no version); 4 faults | 6,073 |
| `prepared_tree_window`, `prepared_tree_exact` | the same module, to the counterexample | |
| `blob_store` | 2 processes with one process number, contents of up to 3 chunks, a limit of 2, 1 retry, 2 faults | 399,941 |
| `fatal_path` | 3 threads, 2 handlers | 7,210 |
| `process_runner`, `process_runner_deadline` | 2 tools with different process numbers, 3 invocations, 1 crash | 139,062 |
| `rescaling` | every value from -121 to 121 with a safe range of 120, exponents -2 to 2, arguments one past every limit | 111,426 |
| `evaluation` | 8 receipts, 16 plans of up to 4 attempts, 9 foreign ledgers, 17 sets of authorities, 1 damaged receipt, repetitions and layouts without limit | 106,785 |
| `evaluation_generations` | one ledger, one metric at two generations | |
| `acquisition` | 2 syncs of either stage, 3 starts in all, 7 locks and archives, 4 redirect targets, 16 machines, 3 kinds of prestaged file | 263,845 |
| `tools` | 1,573 checkouts and 208 records for the three tools, every operation and report outcome on each; ceilings lowered to 30 files, 9 findings, 3 counts, 2 listed lines, 3 authorities, 2 tools, 39 audited files | 48,415 |

Why these are enough to be interesting. Four faults let a publisher fail, fail
again while recovering and meet a moved lock. Two processes with one process
number collide on every staging name, which is the worst the naming can do. One crash with
two invocations leaves a stale leaf and reuses it. Three threads are one inside
a handler, one entering and one installing. The safe range of 120 makes both
one-digit and two-digit moves overflow and round, for both signs. The plans and
ledgers contain every reason for a refusal that the code distinguishes, once each,
and the observations are chosen to meet a bound exactly, by one unit of a finer
scale, and not at all. Three starts of two syncs let one die and start again beside, or
before, another; three redirects are what the code allows, so that a fourth is tried. The
trees of `tools` start from one that is accepted and depart from it in one or two places
each, at least one departure for every condition under which the code can refuse or report, and
the ceilings are met exactly, by one less and by one more.

What they show:

- `prepared_tree`: what is in service is always a complete tree under its own marker
  (`DestinationVerified`); success has delivered and cleaned up
  (`CompletedRunDelivers`); a verified copy is never lost (`VerifiedCopySurvives`);
  only a run that ends between the renames leaves what the next refuses
  (`OnlyRenameWindowStrands`); and otherwise a rerun publishes (`RerunPublishes`).
- `blob_store`: staging stays exclusive though names collide, a
  get returns what its digest names or fails, the store implements
  `ContentStore`; racing alone makes nobody fail (`RacingNeverFails`) and leaves no
  staged file (`NoLitter`).
- `fatal_path`: at most one handler runs and it is the one promised at the first failure;
  an accepted installation stays; the process ends, after a line or a handler.
- `process_runner`: a completed run's child ended by itself, its output is its own and
  within the limit, what a dead tool left fails nobody, nothing is left behind, and a
  run returns.
- `rescaling`: no product leaves the safe range; the digit loops compute one exact move, also
  in what they refuse; the result lies on the declared side, within a unit.
- `evaluation`: an assembled ledger accounts for its plan (`LedgerIsWhole`); a pass means
  that every eligible receipt reports every bounded metric and meets the bound as
  a quantity, up to a declared rounding (`PassIsEarned`); a failed check has a
  receipt that misses or lacks it (`FailureHasGround`); phases block what follows
  and the counts agree (`VerdictFollowsPhases`); repeating a command or writing
  its inputs in another order never changes a record (`RepeatsAreIdentical`).
- `acquisition`: wherever syncs die and whatever a transport delivers, unless two syncs ran at once, the
  checkout is a locked store (`ImplementsStore`): object cache and
  extracted trees hold the locked bytes or nothing, an object stays, and a sync that ends well
  leaves object and tree, also when a run that was cut off did part of its work; a refusal for identity has a cause on record
  (`RefusalHasCause`), so a download that was cut off never poisons a later run; all
  hops of a download together stay where the lock and the code's own lists allow
  (`RequestsAreAdmitted`).
- `tools`: each tool's good ending is earned. A clean architecture check means, said of the
  tree alone, that the module graph is acyclic, includes are declared, the build lane is
  hermetic and membership exact (`CleanIsEarned`). The verdict of `rf_verify` is exactly
  the one its inputs earn (`VerdictIsExact`). A checkout that `rf_evidence` accepts
  takes nothing from elsewhere that is not catalogued, locked and licensed exactly
  once, lists exactly what is there, and the audit asked for would find nothing; a record
  it validates with a claim of trust is about stored bytes that a hosted run of the protected
  lane signed for, and says of that run what it said itself; and a baseline record describes
  a reviewed promotion without a gap (all `OkIsEarned`). The properties are written without the searches, folds and
  lookups of the models, so that they are a second opinion and not a copy.

Fairness. `PreparedTree`: a run that was started goes on (`RunStep`), and somebody
runs the sync again; faults are bounded. `FatalPath`: threads are scheduled, and
a handler ends or returns as its contract says; nothing in the code bounds its
time. `ProcessRunner`: the tool is scheduled, a forked child reaches its setpgid
and the clock advances; nothing is assumed of the child's program. `BlobStore`,
`Rescaling`, `Evaluation`, `Acquisition` and the tools state safety only: their steps
are those of sequential programs that come to an end.

Deadlock is checked except where the system really stops: the process has
aborted (`FatalPath`), the runs of `ProcessRunner` and the starts of `Acquisition` are
bounded, a behaviour of `Rescaling` is a call that returns, and one of the tools is an
invocation that ends.

`SYMMETRY` is used over the processes of `BlobStore` and the syncs of `Acquisition`
only, in runs without liveness.

## Where the code does something else

Four runs end in a counterexample on purpose; each quotes in `PROJECT.json` the
line of the repository that says otherwise.

1. `prepared_tree_window`: a run that dies between its renames leaves both
   `.incoming` and `.previous`, and the recovery refuses just that with RF1308, where its
   test says the window is recovered.
2. `prepared_tree_exact`: removal of a leftover `.incoming` is not checked, and the copy is
   laid over what is left; the published tree then holds files of the old one. Its
   marker and everything it should hold are right.
3. `process_runner_deadline`: a deadline that passes before the child's own `setpgid`
   kills nobody, and the run then waits for the child without a limit.
4. `evaluation_generations`: observations are resolved by metric identifier alone, so with two
   generations of a metric one is judged in the unit of the other.

Not runs, but met while modelling; the models do as the code does.

- `evaluation_policy.cpp:226-231` says a `bound_to_observation` bound is moved once and an
  inexact one refused there. `compareAt` moves the bound as written again, to each
  observation's scale, and can refuse it there (`PhaseRefuses`); the value
  `bindPolicyToRegistry` computes is used by nothing.
- The entry flag of the fatal path is the process's, not the thread's (`fatal.cpp:210-212`): a
  second thread that fails at the same time reports a re-entry and may abort before the first
  thread's handler has run.
- Syncs: the copy of a prestaged file is made in place (`verifier.cmake:9`, and in Stage 0
  and 1 as well), so a crash in it leaves a short file that every later run refuses until
  somebody removes it. Two syncs at once share `.incoming` and can publish a partial object.
- `rf_archcheck`: the guard depth of rule RA4002 counts `endif(` as an opening `if(` too and
  never comes back to zero (`checks_closure.cpp:154-176`), so links after a closed
  guard are reported; none inside one is missed, as the proof shows (`ScanKeeps`). Two manifests
  with one module identity are not refused: their edges are one node's in the cycle search, and an
  include of either is owned by either. A file over 4 MiB is passed over, and the build lane stops silently at
  65536 files (`repository_model.cpp:68`), where `tool_limits.h:7-12` promises never a
  truncated clean result; `CleanIsEarned` is about trees below both limits. The code reads dependency categories "test" and "tool" where
  `schemas/module.schema.json` has "testOnly" and "toolOnly". Resealing the last entry of the
  history in place passes RA1006. An owner declared both private and test is reported by RA3002.
- `rf_verify`: text of a change that starts with "++ " or "-- " is taken for a header
  (`diff_reader.cpp:98-106`); `VerdictIsExact` is about diffs without such text (`Plain`).
- `rf_evidence`: a walk whose increment fails becomes the end iterator, and the check of
  `error` stands inside the loop, where it is not reached. Seven walks conclude on what they saw before:
  both searches for unlisted members, the pinned actions, the pulled images, the source inspection, the
  module scan and the path audit; in `rf_verify` the collection of units. A receipt
  under `evidence/` passes when a directory listed before it cannot be opened, although
  `repository_validator.cpp:302-305` says unlisted authorities are found by looking at the tree.
  `OkIsEarned` is about trees whose directories all open; the model has the others too.
- `rf_evidence`: `collectPulledImages` collects digests, so a base image named without one is
  covered by no record, where `dependency_authority.cpp:650-653` says a use no record
  covers is an unreviewed dependency. The licence an artifact refers to has to exist, but
  not to cover its catalog entry. Delegated fetches share the artifacts' name space before the toolchain is read,
  so one of them satisfies a toolchain's artifact reference. `validate` compares
  identities in lower case, `review licenses` as written.
- `rf_evidence`: `schemas/baseline-record-v1.schema.json:5` and `baseline_record.cpp:323-327` say the
  shared trust definition pins provenance to `diagnostic_untrusted`. It admits `trusted_ci` with an
  attestation; what refuses a trusted baseline record is `parseBaselineRecord` alone. The
  replay rule of `deriveTrustClass` is given an empty ledger by its only caller, as
  `record_command.cpp:322-326` explains, so it never refuses (`Replayed`). `canonicalize` accepts a
  claim of trust without looking at it; only `validate` derives it. A review may be the very revision
  promoted: the code compares it with the change and the verdict only.

## Proofs

All proofs are checked by TLAPS (SMT, Zenon, LS4) for every value of the
constants that satisfies the named assumptions.

**PreparedTreeProofs** (`PreparedTreeAssumption`: the constants are sets, each generation has a marker).
`TypeCorrect`, `ServiceIsVerified`, `SuccessDelivers`, `CopySurvives`,
`OnlyWindowStrands`. That the destination is verified is not inductive: the
recovery renames `.previous` into place on the strength of its marker. The invariant
adds `PreviousReplaceable` (an incomplete rollback tree is one being removed, and then
its successor is in service) and what holds between steps (`NothingStaged`,
`IncomingComplete`, `Staged`, `Swapped`).

**BlobStoreProofs** (any processes, shared process numbers, contents, faults). `TypeCorrect`,
`StagingIsExclusive`, `GetIsAddressed`, and `StoreKeepsPromise`: `BlobStore` implements
`ContentStore`. The invariant adds that whoever owns a staged file finds it there
(`HasStaged`), that from the read-back on it holds what its identity says
(`Confirmed`), that a name seen bound stays bound (`SeenBound`), that the counters leave
room for the retries (`RoomToRetry`), and what each answer rests on (`Answered`).
`NoLitterIsLeft` counts: no staged file loses its owner but by a fault
(`OrphansHaveFaults`). `RacersNeverFail` needs `FewShareANumber`: at most
`Retries + 1` processes have one process number. The code does not establish it (process
numbers repeat across containers) and it is tight: with three sharers and one retry a put
can fail of collisions alone. While nothing has gone wrong, every process that came
to its attempt k has left a file with its number and each lower attempt's name to somebody else
(`Thinning`), so the last attempt meets no collision; and names, passes
and contents agree as the writer left them (`OwnNames`, `PassesAgree`, `Signed`).

**FatalPathProofs** (any threads and handlers). `TypeCorrect`, `InstallationIsFinal`,
`OneHandlerIsCalled`, `HandlerIsThePromisedOne`, `DeathIsAnnounced`. The invariant
adds that one thread at most is past the flag (`OneInside`), that nothing is
written before it (`Untouched`), that what it read of the slot is settled
(`Settled`) and that whoever is about to abort has spoken or called (`Told`).

**ProcessRunnerProofs** (any number of tools and runs, assuming `DistinctPids`: no two tools
have one process number). `TypeCorrect`, `ExitIsReported`, `CapturesAreOwn`,
`OutputStaysBounded`, `NoResidue`, `RunsCleanUp`. The invariant says of each tool what it knows of its
child and its leaf at each place (`Local`), and of the captures that files of an
invocation stand at its own leaf or nowhere (`Placed`). Without `DistinctPids` the
theorem `CapturesAreOwn` is false, and the code does not establish it:
tools in two containers over one checkout can share a leaf.

**RescalingProofs** (any safe range, exponents, table of powers). `TypeCorrect`, `ThresholdIsKept`.
The invariant is the loops' own: after n digits up, `result = value * 10^n`; after
n digits down, `result * 10^n` is the value, at most it or at least it, by less than
`10^n`, according to the rule (`Within`). The step is that rounding each digit
in one direction is rounding once. `MovesAsOne` adds that the loop refuses exactly what one
exact move refuses (`Grounds`): a digit without room leaves none for the whole
move, since powers grow (`FurtherOut`), and a digit that does not divide leaves the whole inexact
(`EvenDigits`).

**EvaluationProofs** (`SchemaAssumption`; any plans, ledgers, receipts, registries and policies,
of any length). `TypeCorrect`, `WholeLedger`, `EarnedPass`, `GroundedFailure`,
`PhasedVerdict`, and the action property `IdenticalRepeats`. The properties speak of
records on file, long after the inputs were read, and none of them is inductive. The invariant
says of each record that it is a function of the inputs: the ledger on file
is `LedgerOf` the facts its receipts share (`Ledgered`), the receipt is `Decided` from all
the eligible runs at the one place where the evaluation `EndsAt` (`Emitted`), and
the locals of a running command are the beginnings of both (`Gathering`, `Loading`, `Deciding`).
So writing one again gives it again (`OneEnd`), whatever the layout: a reversed list has the
same elements, and `ChecksInOrder` and `EligibleInOrder` find them by rank (`Ranking`:
a finite strict order puts each element at the number of those below it).
What the records say then follows from the definitions: `NoneReplacesItself` walks a chain of
retries out of any set that replaced itself until it exceeds the depth limit; `Comparison` compares
on the finest scale, where nothing rounds, and `MovedQuantity` bounds what a move hides by one
unit of the scale moved to.
That a bound that is met never fails (`Miss > 0`, without slack) is such a comparison:
a floor of a value that meets an integer bound still meets it.

**AcquisitionProofs** (`AcquisitionAssumption`: `MaxRedirects` is a number, and what an operator
left is the artifact, something else or nothing; any syncs, stages, locks, listings and
redirect targets). `StoreIsImplemented`, `WhatIsPublishedIsWhole`, `WhatIsCachedStays`, `WhatIsDoneIsThere`,
`NoRefusalWithoutCause`, `OnlyAdmittedRequests`. That cache and trees are whole is not inductive: a rename publishes whatever its source holds. The
invariant says of syncs that never overlapped that one runs at most, that it has open the one file
its place says (`Alone`), and that what it is about to publish is whole since it was
verified or extracted (`Prepared`), which no other sync can have changed in between; from its identification
on so is the quarantine (`Identified`), on which the publication that verifies nothing again rests. Overlapping
or not, nothing writes where the operator does (`Untouched`); and while no cause is on record, a
quarantine that is not being copied into holds nothing or the artifact, and so does a body
that was received (`Clean`): that is what a refusal contradicts. Every action is a step of
one sync (`OneStep`), with what it keeps derived from the files it touches (`Kept`, `CacheKept`).
For the refinement of `LockedStore` the invariant also says what a place takes for granted (`Earned`): a sync that clears
or verifies a tree, or extracts one in Stage 1, has its object in the cache, and Stage 0 past its own run of
CMake has its tree. All but three actions leave what is published alone (`PublishedIsLeft`); a commit is `Publish`,
a clearing `Clear`, a settling `Extract`, a run's beginning and end are `Begin` and `Finish`, or they stutter (`StoreStep`). Once two
syncs overlap the promise is void, in one step (`Disturb`).

**ToolProofs**, of `EvidenceTool` (`EvidenceAssumption`: of the names the audit of paths looks for,
none but the tools' own lies beneath `tools/` or `evidence/`, the lower-case form of a path
begins with that of its top, and `Spelt` knows every path of a tree that audit is given; any
checkout, record and command line). `EarnedOk` is `EvidenceSpec => []OkIsEarned`. At the end of a
run nothing is left of the documents but the tree, so the invariant carries what each
step of reading established from the step on: past the manifests the tools are named once and
confined (`ToolsAdmitted`), past the licences the catalog is covered exactly (`LicencesAdmitted`), and so on
for the ten steps (`DocumentsAdmitted`), together with the identities that the run holds for those that
come after (`found.tools`, `found.catalog`, `found.managed` are what the tree says). A later document
is compared with those, never with the earlier document, so without the three equations nothing
about two documents would follow. `Staged` ties each stage to the operation that was asked for, so
that no audit can be answered without the validation it needs, and no record trusted
before it was gated. `Concluded` holds the answer, through the report, to what the audit found. From these,
`AllIsLicensed` follows an identity from the file that takes it to its one licence;
`MembersAreExact` and `FetchesAreAsLocked` turn equal sets into agreement both ways, where every directory opens;
`ClaimIsTrue` finds the run of the lane behind a claim. The proof needed the property to
be exact where the trees of the run had not shown the difference: names count up to
case throughout (`Once`, `SameName`), a fetch is a member of its kind, and where files are
delivered the place of a name is that of its lower-case form.

**ToolProofs**, of `VerifyTool` (`VerifyAssumption`: documents as their readers leave them, with
counts that are never negative; paths are ordered, and a maintained one is of the repository; any
exports, diffs, roots, inventories and reports, of any length). `ExactVerdict` is
`VerifySpec => []VerdictIsExact`, from `VerifyInvariant`: the exports read so far are gathered
(`Gathered`: each file of ours once, under its name, as `ReadFile` leaves it), the diff is
read whole, and what is about to be emitted is what the inputs earn (`ConcludedExactly`).
The steps of the run add little; the substance is that each pass over data says
what the definition says of the data whole.
A fold of the community modules is a CHOSEN solution of a recursion on sets of positions, so it
first needs one to exist (`FoldExists`); then it goes through the sequence step by step
(`FoldSteps`), and each reader has its own invariant along it:

- Merging (`Merged`): the list has each span once, and a side is taken in it exactly when some region
  merged so far has it taken, a sum that stops at the ceiling being nothing only of nothings
  (`SumsKeepZero`). So what is read of a unit is merged from every region that any file of the
  exports has of it (`UnitMerges`), and positions stand for outcomes two to one (`OutcomesCounted`).
- The diff (`Tracks`): the reader's file, next line and flag say which header, hunk and row
  came last, so the lines it collects are those the hunks add (`ChangedIsAdded`).
- The summary (`SumsUp`): what is listed fits, nothing is left out before the list is full, and
  files in the order of their paths come once each (`FilesInOrder`).

With these, `FloorsAreExact` compares the findings with the floors unit by unit: a declared unit has one
tier (`OneTier`), and a decision is covered exactly when each condition decides alone (`CoveredDecides`).

**ToolProofs**, of `Archcheck` (`ArchcheckAssumption`: `MaxFiles` is a number, and a tree is as the walk and
the readers leave it, with finitely many files, lists that are lists and modules whose edges are finitely many;
any such tree, corpus and command line). `EarnedClean` is `ArchcheckSpec => []CleanIsEarned`. Of the
run itself the invariant says that a sink that holds nothing and dropped nothing was given nothing by the
groups behind it (`SinkTells`), and that a clean exit is one at which all seven were silent (`AllSilent`).
The rest is what silence means, one loop at a time:

- The lane (`BuildLaneStands`): a list without repetitions, whose first entries have been followed; it
  takes every file that these name unless it is full. When a tree's build files fit, the loop
  ends with a list closed under following, so all that can be reached is in it (`LaneIsFollowed`).
- The cycle search (`SearchEnds`): the nodes it is visiting make a path, those it is done with lead to
  nodes it is done with and on no way back to themselves, and every step but the last enters or
  leaves a node, so twice the number of nodes is enough. A search that ends without a cycle is
  done with every module; a walk from a node that it is done with stays among those it was done with
  before (`AcyclicWhenSilent`). And a cycle that it reports is on its path (`CycleIsReal`), so
  `CyclesAreFound` is both directions: no finding is missed and none is made up.
- The guards (`ScanKeeps`, `ScanFinds`): the depth never comes down again, since each `endif(` raises it
  first; a guard that was opened is never above it, so it still stands where a line is inside
  the block (`UnconditionalWhenSilent`).
- The owner of an include: two identities that begin the same path are comparable
  (`PrefixesCompare`), so the longest is the one no other owner extends (`OwnerIsFound`).

What is reached from inside a closed set is inside it, in any number of steps (`ReachedWithin`), and
what some steps reach more steps reach (`ReachedBy`).

The library's induction theorems take an operator and cannot be used. `SetInduction`, induction for a
set of numbers, is derived instead from the theorem that a well-founded relation has a least
element in every set (`WFMin`); the lemmas on powers of ten, on rounded division and on folds rest on it.

Only model-checked: liveness (`RerunPublishes`, `FatalTerminates`, `RunReturns`), which
is out of the prover's reach. Every invariant and action property of a passing run is a theorem.

## What is not modelled

- In what is modelled: symbolic links and containment checks of the store and the
  publisher; a copy of a tree that passes over a file it finds under the name with an equal time stamp; the
  store's link under Windows (`MoveFileExW` in `file_security.cpp`; `BlobStore` has the POSIX link and unlink);
  the break into a debugger that the fatal path makes under Windows; a removal of a capture leaf that fails,
  whose error `process_runner.cpp:60-63` does not look at; power loss that undoes completed file operations (nothing calls fsync); blobs
  deleted from outside; two syncs at once over one destination of the publisher; the Windows half
  of the process runner; a parent that ignores SIGCHLD (then `waitpid` fails and the loop
  ends with status 0); numeric limits of records and of diffs that only refuse (counts of
  attempts, metrics, entries, changed files and lines); a coverage export with negative counts,
  which its reader takes and llvm-cov does not write.
- The evaluator trusts a ledger about eligibility: it does not ask whether a foreign evidence set's
  eligible attempts completed. The model does the same.
- Acquisition: the two signature proofs are one step that may fail; the loading of the locks into
  variables of the scripts; Windows signatures. Of Stage 1 only what it does to one artifact: the
  builds of dependencies are sequences of commands that nothing interrupts or reorders. Removals of
temporary files succeed. Acquisition and
  publisher are not composed: what `PreparedTree` takes apart is the one step `Prepare` of a sync.
- The tools: characters. JSON, schemas (an external validator), the scanning of build files, includes and
  Markdown, and the layout of reports; the models start from what these find.
- Records: base64 and the isolation of a bundle's members are characters too, and what a schema or the
  rules of a kind say of members that no model reads is one fact (`shaped`, `sound`). The record's schema
  is judged on the file by name and its gate on the bytes read before; that the file is not
  exchanged in between is assumed.
- Vendored code and data, build description, workflows, the base headers: no
  behaviour of the program's own.
