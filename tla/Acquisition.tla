---- MODULE Acquisition ----
(***************************************************************************)
(* How a sync obtains one locked artifact: cmake/bootstrap/transport.cmake,*)
(* verifier.cmake and archive.cmake, and the drivers cmake/bootstrap/      *)
(* sync.cmake (Stage 0) and cmake/sync/ (Stage 1).                         *)
(*                                                                         *)
(* An artifact is copied from a prestaged file or downloaded hop by hop    *)
(* into quarantine, verified against its locked length and digest, proved  *)
(* by its signature, published into the object cache and extracted.        *)
(* Stage 0 extracts it from quarantine, Stage 1 from the cache.            *)
(*                                                                         *)
(* An action is one file operation, or one answer of the transport.  Any   *)
(* number of syncs of one checkout may run at once, and a sync can die     *)
(* between any two actions and be started again: nothing in the code       *)
(* excludes either.  The names of the temporary files are fixed, so they   *)
(* are shared.                                                             *)
(***************************************************************************)
EXTENDS ArchiveListing

CONSTANTS
  Syncs,            \* processes
  Stages,           \* "bootstrap", "sync": each has its own quarantine
  Machines,         \* what a sync may find of the machine it starts on
  Prestaged,        \* what an operator may have put beside the quarantine
  Worlds,           \* what the lock may name: a URL; an archive's shape, its listing
  Targets,          \* URLs a response may redirect to
  OriginHosts,      \* admitted_origins
  RedirectHosts,    \* github_redirect_hosts
  ReleaseHost,      \* github.com, the one origin that may redirect
  AssetHost,        \* release-assets.githubusercontent.com
  MaxRedirects,     \* bound of the code: 3
  MaxStarts         \* bound: how many times a sync is started, in all

\* What an operator left is the artifact or it is not.
ASSUME AcquisitionAssumption ==
  /\ MaxRedirects \in Nat
  /\ Prestaged \subseteq {"absent", "wrong", "right"}

VARIABLES
  pc,               \* the next step of each sync
  stage,            \* the stage each sync runs
  file,             \* what each name holds
  open,             \* the name a sync is writing to, if any
  chain,            \* the URLs it has requested for this download
  world,            \* the lock's URL and the archive's listing and shape
  starts,           \* how many runs were started
  overlapped,       \* whether two syncs were ever running at once
  tainted           \* causes on record of a spoilt quarantine

vars == <<pc, stage, file, open, chain, world, starts, overlapped, tainted>>

Contents == {"absent", "partial", "wrong", "right"}
Names == (Stages \X {"prestaged", "quarantine", "hop", "unpacked", "tree"})
           \union {<<"cache", "incoming">>, <<"cache", "object">>}

Incoming == <<"cache", "incoming">>
Object   == <<"cache", "object">>
Own(p, name) == <<stage[p], name>>

Ended   == {"off", "done", "stopped", "refused"}
Running == {p \in Syncs : pc[p] \notin Ended}

\* No name: nothing open.  "gone": open, but its name was removed or replaced.
Handles == Names \union {<<"none">>, <<"gone">>}

Init ==
  /\ pc = [p \in Syncs |-> "off"]
  /\ stage \in [Syncs -> Stages]
  /\ \E kept \in Prestaged :
       file = [n \in Names |-> IF n[2] = "prestaged" THEN kept ELSE "absent"]
  /\ open = [p \in Syncs |-> <<"none">>]
  /\ chain = [p \in Syncs |-> <<>>]
  /\ world \in Worlds
  /\ starts = 0
  /\ overlapped = FALSE
  /\ tainted = {}

(***************************************************************************)
(* File operations.  A process that is writing keeps the file it opened    *)
(* when the name moves, and the rest of what it writes goes there.         *)
(***************************************************************************)
Exists(n) == file[n] # "absent"

\* file(REMOVE), file(REMOVE_RECURSE)
Remove(n) ==
  /\ file' = [file EXCEPT ![n] = "absent"]
  /\ open' = [q \in Syncs |-> IF open[q] = n THEN <<"gone">> ELSE open[q]]

\* Opening a name for writing: what it held is cut to nothing.
Open(p, n) ==
  /\ file' = [file EXCEPT ![n] = "partial"]
  /\ open' = [open EXCEPT ![p] = n]

\* The last byte is written.  A file another process is writing as well is
\* whole for this one's part only.
Write(p, c) ==
  LET shared == \E q \in Syncs \ {p} : open[q] = open[p]
  IN  /\ file' = IF open[p] \in Names
                 THEN [file EXCEPT ![open[p]] = IF shared THEN "partial" ELSE c]
                 ELSE file
      /\ open' = [open EXCEPT ![p] = <<"none">>]

\* file(RENAME) of a name that exists.  It may fail: where its result is read,
\* the source is removed and the sync stops.
Rename(from, to) ==
  /\ file' = [file EXCEPT ![to] = file[from], ![from] = "absent"]
  /\ open' = [q \in Syncs |-> IF open[q] = from THEN to
                              ELSE IF open[q] = to THEN <<"gone">> ELSE open[q]]

Go(p, step) == pc' = [pc EXCEPT ![p] = step]

Rest == UNCHANGED <<stage, chain, world, starts, overlapped, tainted>>
Same == UNCHANGED <<file, open>> /\ Rest

\* rf_verify_file_identity: missing, length mismatch or digest mismatch
VerifyIdentity(p, n, next) ==
  /\ IF file[n] = "right" THEN Go(p, next)
     ELSE IF Exists(n) THEN Go(p, "refused") ELSE Go(p, "stopped")
  /\ Same

(***************************************************************************)
(* Starting.                                                               *)
(***************************************************************************)
\* A publishing stage does not run through a CMake under out/prepared.
RunsFromPrepared(m) == m.command = "prepared"

\* Stage 0 is admitted with the locked CMake alone, no suffix, no candidate.
AdmitCMakeVersion(m) == m.cmake = "locked"

\* rf_verify_transport_executable
VerifyTransport(m) ==
  /\ m.transport.present
  /\ m.transport.version = "parsable"
  /\ ~m.transport.belowMinimum
  /\ m.transport.class = "packaged" \/ (m.transport.class = "signed" /\ m.transport.signature)

Begin(p, m) ==
  /\ pc[p] \in Ended
  /\ starts < MaxStarts
  /\ starts' = starts + 1
  /\ overlapped' = (overlapped \/ Running # {})
  /\ IF /\ stage[p] = "bootstrap" => (~RunsFromPrepared(m) /\ AdmitCMakeVersion(m))
        /\ VerifyTransport(m)
     THEN Go(p, "seek") ELSE Go(p, "stopped")
  /\ UNCHANGED <<stage, file, open, chain, world, tainted>>

(***************************************************************************)
(* rf_quarantine_artifact and rf_sync_acquire_artifact.                    *)
(***************************************************************************)
Seek(p) ==
  /\ pc[p] = "seek"
  /\ IF Exists(Own(p, "quarantine")) THEN Go(p, "identify")
     ELSE IF Exists(Own(p, "prestaged")) THEN Go(p, "copy") ELSE Go(p, "ask")
  /\ Same

\* file(COPY_FILE ... ONLY_IF_DIFFERENT), straight into the quarantine.
OpenCopy(p) ==
  /\ pc[p] = "copy"
  /\ IF file[Own(p, "quarantine")] = file[Own(p, "prestaged")]
     THEN Go(p, "identify") /\ UNCHANGED <<file, open>>
     ELSE Open(p, Own(p, "quarantine")) /\ Go(p, "copying")
  /\ Rest

FinishCopy(p) ==
  /\ pc[p] = "copying"
  /\ Write(p, file[Own(p, "prestaged")])
  /\ Go(p, "identify")
  /\ Rest

Identify(p) ==
  /\ pc[p] = "identify"
  /\ VerifyIdentity(p, Own(p, "quarantine"),
                    IF stage[p] = "bootstrap" THEN "unpack" ELSE "prove")

(***************************************************************************)
(* rf_download_manually_redirected.                                        *)
(***************************************************************************)
\* rf_classify_https_url
ClassifyUrl(url, redirected) ==
  /\ url.clean                        \* https, no credentials, fragment or port
  /\ IF redirected
     THEN /\ world.origin.host = ReleaseHost
          /\ url.host \in RedirectHosts
          /\ url.query => url.host = AssetHost
     ELSE ~url.query /\ url.host \in OriginHosts

Ask(p) ==
  /\ pc[p] = "ask"
  /\ IF ClassifyUrl(world.origin, FALSE)
     THEN Go(p, "request") /\ chain' = [chain EXCEPT ![p] = <<world.origin>>]
     ELSE Go(p, "stopped") /\ UNCHANGED chain
  /\ UNCHANGED <<stage, file, open, world, starts, overlapped, tainted>>

Request(p) ==
  /\ pc[p] = "request"
  /\ Remove(Own(p, "hop"))
  /\ Go(p, "waiting")
  /\ Rest

BodyInPlace(p) ==
  /\ pc[p] = "waiting"
  /\ Open(p, Own(p, "quarantine"))
  /\ Go(p, "receiving")
  /\ Rest

\* The first byte of a body arrives: curl creates the hop file, or cuts it.
Body(p) ==
  /\ pc[p] = "waiting"
  /\ Open(p, Own(p, "hop"))
  /\ Go(p, "receiving")
  /\ Rest

\* A 2xx answer without redirect metadata, with the bytes asked for or others.
Deliver(p, c) ==
  /\ pc[p] = "receiving"
  /\ Write(p, c)
  /\ tainted' = tainted \union (IF c = "wrong" THEN {"delivered"} ELSE {})
  /\ Go(p, "land")
  /\ UNCHANGED <<stage, chain, world, starts, overlapped>>

\* The transfer is over and the hop file is removed.
Discard(p) ==
  /\ file' = [file EXCEPT ![Own(p, "hop")] = "absent"]
  /\ open' = [q \in Syncs |-> IF q = p THEN <<"none">>
                              ELSE IF open[q] = Own(p, "hop") THEN <<"gone">> ELSE open[q]]

\* A failed transfer, malformed metadata, a 2xx answer with a redirect, any
\* other status.
FailTransfer(p) ==
  /\ pc[p] \in {"waiting", "receiving"}
  /\ Discard(p)
  /\ Go(p, "stopped")
  /\ chain' = [chain EXCEPT ![p] = <<>>]
  /\ UNCHANGED <<stage, world, starts, overlapped, tainted>>

\* A 3xx answer that names where to go.
Follow(p, url, limit) ==
  /\ pc[p] \in {"waiting", "receiving"}
  /\ Discard(p)
  /\ IF Len(chain[p]) <= limit /\ ClassifyUrl(url, TRUE)
     THEN Go(p, "request") /\ chain' = [chain EXCEPT ![p] = Append(@, url)]
     ELSE Go(p, "stopped") /\ chain' = [chain EXCEPT ![p] = <<>>]
  /\ UNCHANGED <<stage, world, starts, overlapped, tainted>>

FollowOnceMore(p, url) == Follow(p, url, MaxRedirects + 1)
Redirect(p, url) == Follow(p, url, MaxRedirects)

Land(p) ==
  /\ pc[p] = "land"
  /\ \/ /\ Exists(Own(p, "hop"))
        /\ Rename(Own(p, "hop"), Own(p, "quarantine"))
        /\ Go(p, "identify")
     \/ Remove(Own(p, "hop")) /\ Go(p, "stopped")
  /\ chain' = [chain EXCEPT ![p] = <<>>]
  /\ UNCHANGED <<stage, world, starts, overlapped, tainted>>

(***************************************************************************)
(* Proving.  What gpg and cosign answer is theirs to say; a closure is     *)
(* published only after every proof of it.                                 *)
(***************************************************************************)
Prove(p) ==
  /\ pc[p] = "prove"
  /\ \/ Go(p, "publish")
     \/ Go(p, "stopped")
  /\ Same

(***************************************************************************)
(* rf_publish_locked_artifact and rf_publish_verified_file.                *)
(***************************************************************************)
\* Stage 0 publishes the CMake archive as it identified it before; every other
\* artifact is verified again.
PublishLocked(p) ==
  /\ pc[p] = "publish"
  /\ \/ VerifyIdentity(p, Own(p, "quarantine"), "place")
     \/ stage[p] = "bootstrap" /\ Go(p, "place") /\ Same

\* After its object is in the cache, Stage 0 prepares the tree it extracted
\* before; Stage 1 goes on to extract.
AfterPublishing(p) == IF stage[p] = "bootstrap" THEN "prepare" ELSE "clear"

Place(p) ==
  /\ pc[p] = "place"
  /\ IF Exists(Object)
     THEN VerifyIdentity(p, Object, AfterPublishing(p))
     ELSE Remove(Incoming) /\ Go(p, "fill") /\ Rest

OpenObject(p) ==
  /\ pc[p] = "fill"
  /\ Open(p, Object)
  /\ Go(p, "filling")
  /\ Rest

OpenIncoming(p) ==
  /\ pc[p] = "fill"
  /\ Open(p, Incoming)
  /\ Go(p, "filling")
  /\ Rest

Fill(p) ==
  /\ pc[p] = "filling"
  /\ Write(p, file[Own(p, "quarantine")])
  /\ Go(p, "confirm")
  /\ Rest

Confirm(p) ==
  /\ pc[p] = "confirm"
  /\ VerifyIdentity(p, Incoming, "commit")

Commit(p) ==
  /\ pc[p] = "commit"
  /\ \/ Exists(Incoming) /\ Rename(Incoming, Object) /\ Go(p, AfterPublishing(p))
     \/ Remove(Incoming) /\ Go(p, "stopped")
  /\ Rest

(***************************************************************************)
(* Extracting: rf_extract_quarantine and the other extractions.            *)
(***************************************************************************)
\* Stage 1 removes the tree, verifies the object it read from the cache
\* (rf_sync_cache_path) and extracts; Stage 0 keeps a tree that is there.
Clear(p) ==
  /\ pc[p] = "clear"
  /\ IF file[Object] = "right"
     THEN Remove(Own(p, "tree")) /\ Go(p, "unpack")
     ELSE Go(p, IF Exists(Object) THEN "refused" ELSE "stopped") /\ UNCHANGED <<file, open>>
  /\ Rest

Source(p) == IF stage[p] = "bootstrap" THEN Own(p, "quarantine") ELSE Object

AfterUnpacking(p) == IF stage[p] = "bootstrap" THEN "run" ELSE "require"

\* An archive that was cut short cannot be listed.
Unpack(p) ==
  /\ pc[p] = "unpack"
  /\ IF stage[p] = "bootstrap" /\ Exists(Own(p, "tree"))
     THEN Go(p, "run") /\ UNCHANGED <<file, open>>
     ELSE IF file[Source(p)] = "right" /\ Accepted(world.listing, world.shape)
          THEN Open(p, Own(p, "unpacked")) /\ Go(p, "unpacking")
          ELSE Go(p, "stopped") /\ UNCHANGED <<file, open>>
  /\ Rest

FinishUnpacking(p) ==
  /\ pc[p] = "unpacking"
  /\ Write(p, "right")
  /\ Go(p, IF open[p] = <<"gone">> THEN "stopped" ELSE "settle")
  /\ Rest

\* The root is there, no link leaves it, nothing holds the destination, and
\* the rename succeeds; or what was unpacked is removed.
Settle(p) ==
  /\ pc[p] = "settle"
  /\ \/ /\ Exists(Own(p, "unpacked")) /\ ~Exists(Own(p, "tree"))
        /\ Rename(Own(p, "unpacked"), Own(p, "tree"))
        /\ Go(p, AfterUnpacking(p))
     \/ Remove(Own(p, "unpacked")) /\ Go(p, "stopped")
  /\ Rest

\* Stage 0 runs the extracted CMake; Stage 1 verifies the files the lock
\* requires of the tree.  Either may or may not notice a tree that is not whole.
UseTree(p, next) ==
  /\ \/ Exists(Own(p, "tree")) /\ Go(p, next)
     \/ file[Own(p, "tree")] # "right" /\ Go(p, "stopped")
  /\ Same

RunExactCMake(p) == pc[p] = "run" /\ UseTree(p, "prove")
VerifyRequiredTreeFiles(p) == pc[p] = "require" /\ UseTree(p, "prepare")

\* The prepared-tree publisher (PreparedTree) and the report end the run.
Prepare(p) == pc[p] = "prepare" /\ Go(p, "done") /\ Same

(***************************************************************************)
(* A sync is killed, or the machine stops.                                 *)
(***************************************************************************)
Crash(p) ==
  /\ pc[p] \notin Ended
  /\ Go(p, "off")
  /\ open' = [open EXCEPT ![p] = <<"none">>]
  /\ tainted' = tainted \union (IF pc[p] = "copying" THEN {"cut"} ELSE {})
  /\ chain' = [chain EXCEPT ![p] = <<>>]
  /\ UNCHANGED <<file, stage, world, starts, overlapped>>

Next ==
  \E p \in Syncs :
    \/ \E m \in Machines : Begin(p, m)
    \/ Seek(p) \/ OpenCopy(p) \/ FinishCopy(p) \/ Identify(p)
    \/ Ask(p) \/ Request(p) \/ Body(p) \/ FailTransfer(p) \/ Land(p)
    \/ \E c \in {"right", "wrong"} : Deliver(p, c)
    \/ \E url \in Targets : Redirect(p, url)
    \/ Prove(p) \/ PublishLocked(p) \/ Place(p)
    \/ OpenIncoming(p) \/ Fill(p) \/ Confirm(p) \/ Commit(p)
    \/ Clear(p) \/ Unpack(p) \/ FinishUnpacking(p) \/ Settle(p)
    \/ RunExactCMake(p) \/ VerifyRequiredTreeFiles(p) \/ Prepare(p)
    \/ Crash(p)

Spec == Init /\ [][Next]_vars

(***************************************************************************)
(* Properties.                                                             *)
(***************************************************************************)
\* The object cache and the extracted trees are published by renaming what is
\* complete and, for the cache, verified (verifier.cmake:401-405, archive.cmake:
\* 74-98): whatever a transport delivers and wherever a sync dies, they hold
\* nothing or the locked bytes, unless two syncs were running at once and took
\* each other's temporary file.
PublishedWhole ==
  ~overlapped =>
    \A n \in {Object} \union {<<s, "tree">> : s \in Stages} :
      file[n] \in {"absent", "right"}

\* A sync is refused for the identity of a file (RF1224, RF1225) only with a
\* cause: the operator's prestaged bytes or the transport's were wrong, a run was
\* cut off in the one copy that is made in place (verifier.cmake:9), or another
\* sync was running.  In particular a download that was cut off, on any hop,
\* leaves nothing that a later run would take for the artifact.
RefusalHasCause ==
  \A p \in Syncs :
    pc[p] = "refused" =>
      \/ overlapped
      \/ tainted # {}
      \/ file[Own(p, "prestaged")] = "wrong"

\* What the transport is sent for, over all hops of one download: at most four
\* requests, the first to a locked origin, and another only when that is the
\* release host, each to a host and with a query admitted there
\* (transport.cmake:5-41, 132-143).
RequestsAreAdmitted ==
  \A p \in Syncs :
    LET urls == chain[p]
    IN  /\ Len(urls) <= MaxRedirects + 1
        /\ \A i \in DOMAIN urls : urls[i].clean
        /\ urls # <<>> => urls[1] = world.origin /\ urls[1].host \in OriginHosts
        /\ Len(urls) > 1 => urls[1].host = ReleaseHost
        /\ \A i \in DOMAIN urls : urls[i].query => urls[i].host = AssetHost /\ i > 1

\* A checkout whose syncs never overlap is a locked store (verifier.cmake:392-409,
\* archive.cmake:74-98, sync.cmake, cmake/sync/): wherever they die, the object
\* appears once and stays, a tree appears whole, Stage 1 takes a tree away only
\* when it has what to extract anew, and a sync that ends well leaves both there.
Store == INSTANCE LockedStore WITH
  Absent    <- "absent",
  Artifact  <- "right",
  object    <- file[Object],
  tree      <- [s \in Stages |-> file[<<s, "tree">>]],
  finished  <- {p \in Syncs : pc[p] = "done"},
  disturbed <- overlapped

ImplementsStore == Store!Spec
====
