---- MODULE EvidenceTool ----
(***************************************************************************)
(* One invocation of rf-evidence on a checkout: the command line, then the *)
(* validation of the repository, one authority after another, each against *)
(* what the earlier ones admitted, then the audit that was asked for and   *)
(* its report.  A record is read, held to its rules and, when it is to be  *)
(* validated, to the provenance it claims.  What the tool does with blobs  *)
(* and evidence sets is in modules of their own.                           *)
(***************************************************************************)
EXTENDS RepositoryAudits, RecordRules

EvidenceExits == {"ok", "usage", "failure"}

\* Operations that take the checkout as a whole; the first six validate it.
Validating == {"validate repository", "graph repository", "explain dependency",
               "inspect source-ownership", "load evidence-index", "audit shipping-closure"}

Auditing == {"review licenses", "audit paths", "verify-offline"}

\* Operations on a blob or an evidence set; these, those on a record and load
\* are the only ones that take no report.
Elsewhere == {"put blob", "verify blob", "get blob", "assemble evidence-set", "evaluate evidence-set"}

Unreported == Elsewhere \union Recording \union {"load evidence-index"}

NothingRead == [tools |-> {}, catalog |-> {}, licences |-> {}, artifacts |-> {}, managed |-> {},
                passed |-> TRUE]

\* One step of reading: a refusal ends the run.
Read(at, next, refused, learnt) ==
  /\ stage = at
  /\ IF refused THEN End("failure") ELSE Learn(next, learnt)

\* An argument that asks for authority is refused by name, before all others.
EvidenceUsable ==
  /\ request.operation \in Validating \union Auditing \union Recording \union Elsewhere
  /\ ~request.escalates
  /\ request.wellFormed                \* a subject, known options with values, --root among them
  /\ request.report # None => request.operation \notin Unreported
  /\ request.operation = "explain dependency" => request.tool # None
  /\ request.operation = "verify-offline" => request.host # None

\* The root is resolved while options are parsed, before the operation is known.
EvidenceArguments ==
  /\ stage = "rf-evidence"
  /\ IF ~request.rootResolves /\ request.wellFormed /\ ~request.escalates THEN End("failure")
     ELSE IF ~EvidenceUsable THEN End("usage")
     ELSE IF request.operation \in Validating THEN Go("repository")
     ELSE Go(request.operation)

\* An operation modelled elsewhere ends as it may.
OperateElsewhere ==
  /\ stage \in Elsewhere
  /\ \E class \in EvidenceExits : End(class)

(***************************************************************************)
(* The operations on a record.                                             *)
(***************************************************************************)
ReadRecord ==
  /\ stage \in Recording
  /\ IF ~request.record THEN End("usage")
     ELSE IF ~Ingested(tree.record, request.operation) THEN End("failure")
     ELSE Go(IF stage = "validate record" THEN "descriptor" ELSE "gate")

\* A descriptor is checked when one is supplied, and otherwise computed.
CheckDescriptor ==
  Read("descriptor", "gate", request.described /\ ~Describes(tree.descriptor, tree.record), found)

GateRecord ==
  /\ stage = "gate"
  /\ IF GateRefused(tree.record) THEN End("failure")
     ELSE IF request.operation = "validate record" THEN Go("trust")
     ELSE End("ok")

\* One record is one admission: no earlier one is in scope.
DeriveTrust ==
  /\ stage = "trust"
  /\ End(IF TrustRefused(tree.record, request.host, {}) THEN "failure" ELSE "ok")

(***************************************************************************)
(* validateRepository.                                                     *)
(***************************************************************************)
ReadRepository == Read("repository", "tool manifests", RepositoryRefused, found)

ReadManifests ==
  Read("tool manifests", "unlisted manifests", ManifestsRefused,
       [found EXCEPT !.tools = Range(tree.repository.tools)])

RejectUnlistedManifests == Read("unlisted manifests", "authorities", UnlistedManifest, found)

ReadAuthorities == Read("authorities", "unlisted evidence", AuthoritiesRefused, found)

RejectUnlistedEvidence == Read("unlisted evidence", "catalog", UnlistedEvidence, found)

LoadCatalog ==
  Read("catalog", "licences", CatalogRefused,
       [found EXCEPT !.catalog = Lowered(Range(Member(tree.catalog, "id")))])

LoadLicences ==
  Read("licences", "artifacts", LicencesRefused,
       [found EXCEPT !.licences = Lowered(Range(Member(tree.licences.entries, "id")))])

LoadArtifacts ==
  Read("artifacts", "fetches", ArtifactsRefused,
       [found EXCEPT !.artifacts = Lowered(Range(Member(tree.artifacts, "id")))])

LoadDelegatedFetches ==
  Read("fetches", "toolchain", FetchesRefused,
       [found EXCEPT !.artifacts = @ \union Lowered(Range(Member(tree.fetches, "id")))])

LoadToolchain ==
  Read("toolchain", "references", ToolchainRefused,
       [found EXCEPT !.managed = Lowered(Range(Member(tree.toolchain.managed, "id")))])

ResolveReferences == Read("references", request.operation, ReferencesRefused, found)

(***************************************************************************)
(* The operations.                                                         *)
(***************************************************************************)
Describe ==
  /\ stage \in {"validate repository", "graph repository"}
  /\ Go("answer")

Explain ==
  Read("explain dependency", "answer",
       \A p \in found.tools : ManifestOf(p).id # request.tool, found)

InspectSource == Read("inspect source-ownership", "answer", InspectionRefused, found)

LoadEvidence == Read("load evidence-index", "answer", LoadRefused, found)

ReviewLicences == Read("review licenses", "answer", ReviewRefused, found)

VerifyOffline == Read("verify-offline", "answer", OfflineRefused(request.host), found)

\* What these two find is reported before it is held against the checkout.
AuditPaths ==
  Read("audit paths", "answer", PathsRefused, [found EXCEPT !.passed = OutsideEnvelope = {}])

AuditShipping ==
  Read("audit shipping-closure", "answer", ShippingRefused,
       [found EXCEPT !.passed = ShippingPasses])

\* A report that cannot be placed or written ends the run before its verdict.
EmitReport ==
  /\ stage = "answer"
  /\ \/ request.report # None /\ End("failure")
     \/ /\ request.report # "outside"
        /\ End(IF found.passed THEN "ok" ELSE "failure")

EvidenceNext ==
  \/ EvidenceArguments \/ OperateElsewhere
  \/ ReadRecord \/ CheckDescriptor \/ GateRecord \/ DeriveTrust
  \/ ReadRepository \/ ReadManifests \/ RejectUnlistedManifests
  \/ ReadAuthorities \/ RejectUnlistedEvidence
  \/ LoadCatalog \/ LoadLicences \/ LoadArtifacts \/ LoadDelegatedFetches \/ LoadToolchain
  \/ ResolveReferences
  \/ Describe \/ Explain \/ InspectSource \/ LoadEvidence
  \/ ReviewLicences \/ VerifyOffline \/ AuditPaths \/ AuditShipping \/ EmitReport

EvidenceSpec == Begin("rf-evidence", NothingRead) /\ [][EvidenceNext]_vars

(***************************************************************************)
(* What an accepted checkout is, said of the tree alone.                   *)
(***************************************************************************)
ToolRoots == {"tools/rf_evidence", "tools/rf_archcheck", "tools/rf_verify"}

\* Of the names the audit of paths looks for, none but the tools' own has tools/
\* or evidence/ before it; the lower-case form of a path begins with that of its top;
\* Spelt knows every path of a tree; and no exit is None.
ASSUME EvidenceAssumption ==
  /\ \A p \in DOMAIN Spelt :
       /\ Lower(p) \in DOMAIN Spelt /\ Spelt[Lower(p)].top = Lower(Spelt[p].top)
       /\ Spelt[p].top \in {"tools", "evidence"} =>
            /\ p \notin EnvelopeFiles \union PreexistingFiles
            /\ Spelt[p].dirs \intersect (EnvelopeRoots \union PreexistingRoots) \subseteq ToolRoots
  /\ \A i \in Invocations :
       i.tool = "rf-evidence" /\ i.request.operation = "audit paths" =>
         DOMAIN Trees[i.tree].files \subseteq DOMAIN Spelt
  /\ None \notin EvidenceExits

SameName(a, b) == Lower(a) = Lower(b)

\* One of these is the name, and only one.
Once(names, name) == Cardinality({k \in DOMAIN names : SameName(names[k], name)}) = 1

\* Everything taken from elsewhere, as the files say that take it and the locks.
FromElsewhere ==
  LET manifests == {tree.manifests[p] : p \in Range(tree.repository.tools)}
  IN (UNION {Range(m.thirdParty) \union Range(m.managedTools) : m \in manifests})
     \union {a.catalogId : a \in Range(tree.artifacts)}
     \union {f.catalogId : f \in Range(tree.fetches)}
     \union {t.id : t \in Range(tree.toolchain.managed)}

\* One entry of the catalog, one licence that covers it once, on the same terms,
\* its section in a text that is there as recorded.
LicensedOnce(id) ==
  /\ Once(Member(tree.catalog, "id"), id)
  /\ Once(CoveredBy(tree.licences.entries), id)
  /\ \E e \in Range(tree.catalog), l \in Range(tree.licences.entries) :
       /\ SameName(e.id, id) /\ \E c \in Range(l.covers) : SameName(c, id)
       /\ e.terms = l.terms
       /\ \E m \in Range(tree.licences.materials) :
            /\ m.path = l.material
            /\ tree.texts[m.path].identity = m.identity
            /\ l.section \in tree.texts[m.path].sections

\* Every action and base image that the workflows and image definitions name is
\* fetched under a record of its kind, and a record nobody uses is not there.
FetchedAsLocked ==
  LET workflows == {p \in Beneath(".github/workflows") \union Beneath(".github/actions") :
                      Kind(p) = "regular" /\ Spelt[p].ext = ".yml"}
      images == {p \in Beneath("ci/images") : Kind(p) = "regular" /\ Spelt[p].name = "Dockerfile"}
      used   == {u \in UNION {tree.files[p].uses : p \in workflows} : ~u.local}
      pulled == UNION {tree.files[p].digests : p \in images}
      Action(f, u) == /\ f.kind = "github_action" /\ SameName(f.pin, u.commit)
                      /\ \A i \in DOMAIN f.reference : SameName(f.reference[i], u.action[i])
      Image(f, d)  == f.kind # "github_action" /\ SameName(f.pin, d)
  IN /\ \A u \in used : u.commit # None /\ \E f \in Range(tree.fetches) : Action(f, u)
     /\ \A d \in pulled : \E f \in Range(tree.fetches) : Image(f, d)
     /\ \A f \in Range(tree.fetches) : (\E u \in used : Action(f, u)) \/ (\E d \in pulled : Image(f, d))

ToolManifests == {p \in Beneath("tools") : Kind(p) = "regular" /\ Spelt[p].name = "tool.json"}

\* Every manifest and every authority that is there is a member once, a name
\* that differs in case being the same name, and no evidence is a link.
MembersAreAll ==
  /\ \A p \in ToolManifests : Once(tree.repository.tools, p)
  /\ \A p \in Beneath("evidence") :
       /\ Kind(p) # "link"
       /\ Kind(p) = "regular" => \/ SameName(p, tree.repository.evidenceIndex)
                                 \/ Once(Member(tree.authorities, "path"), p)

\* Every tool there is stays among the tools: its manifest confines it, its build
\* installs nothing, and nothing that ships is of the tools.
NothingOfATool ==
  /\ \A p \in ToolManifests : \E q \in Range(tree.repository.tools) :
       /\ SameName(p, q)
       /\ tree.manifests[q].distribution.elsewhere = {}
       /\ \A b \in BuildFiles(q) : Kind(b) = "regular" /\ ~tree.files[b].installs
  /\ \A p \in DOMAIN tree.files :
       /\ Spelt[p].top \notin ShippingRoots
       /\ Spelt[p].top = "tools" /\ Kind(p) = "regular" => Spelt[p].name # "module.json"

\* Each entry of the catalog is covered by a reviewed licence that was granted on
\* its terms, in a text that is there as recorded.
LicencesReviewed ==
  \A e \in Range(tree.catalog) : \E l \in Range(tree.licences.entries) :
    /\ e.id \in Range(l.covers)
    /\ e.terms = l.terms /\ l.terms.approval \in {"approved", "restricted"}
    /\ \E m \in Range(tree.licences.materials) :
         m.path = l.material /\ tree.texts[m.path].identity = m.identity

\* The objects an offline host works with, byte for byte, and what is unpacked of them.
PreparedForOffline ==
  LET platform == IF request.host = "windows-x86_64" THEN "platform.windows" ELSE "platform.linux"
  IN \A a \in {x \in Range(tree.artifacts) : x.platform \in {"platform.any", platform}} :
       /\ tree.cache[a.digest].digest = a.digest
       /\ \A f \in a.prepares : tree.prepared[f.path].digest = f.digest

\* In whatever case their names are written: no link where files are delivered,
\* nothing beneath tools/ but the three tools, no evidence but the index and the
\* authorities right beneath their class.
DeliveredWhereKnown ==
  \A p \in DOMAIN tree.files :
    LET top == Lower(Spelt[p].top)
        low == Spelt[Lower(p)]
        delivered == Kind(p) = "regular" /\ Spelt[p].dirs # {}
    IN /\ Spelt[p].dirs = {} \/ top \in KnownTopDirectories => Kind(p) # "link"
       /\ delivered /\ top = "tools" => low.dirs \intersect ToolRoots # {}
       /\ delivered /\ top = "evidence" =>
            Lower(p) = "evidence/evidence.json" \/ low.dir \in {"evidence/registries", "evidence/policies"}

\* A promotion that a reviewer could believe: the change is not what it promotes,
\* the review is neither the change nor the verdict reviewed, nothing untold
\* precedes or follows, and no margin is claimed for what is not affected.
Promotes(b) ==
  /\ b.change # b.revision /\ b.review \notin {b.change, b.receipt} /\ b.receipt # b.set
  /\ b.predecessor = None <=> b.first
  /\ b.successor = None <=> b.state = "active"
  /\ b.absolute \union b.relative \subseteq Range(b.metrics)

\* A run of the protected lane, on a hosted machine, entered through the protected
\* ref, signed a statement about the very bytes that are held, and the record says
\* of that run nothing else than the run did.
MadeByTheLane(claim) ==
  \E r \in tree.runs :
    /\ r.signer = Producer
    /\ r.statement.environment = HostedRunner
    /\ r.statement.sourceRepository = SourceUri /\ r.statement.sourceRef = ProtectedRef
    /\ r.statement.workflowPath = EntryWorkflow /\ r.statement.workflowRef = ProtectedRef
    /\ tree.store[r.statement.subjectDigest].digest = r.statement.subjectDigest
    /\ claim.sourceRepository = SourcePath
    /\ \A f \in Facts : claim[f] = r.statement[f]

\* What a record that was validated is, with the descriptor that came with it.
RecordIsSound ==
  LET r == tree.record
  IN /\ request.described => tree.descriptor.digest = r.digest /\ tree.descriptor.media[1] = r.kind
     /\ r.verdictMember => r.kind \in {"evaluation_receipt", "baseline_record"}
     /\ r.kind = "baseline_record" => r.trust.provenance = Untrusted /\ Promotes(r.promotion)
     /\ r.trust # None /\ r.trust.attestation # None => MadeByTheLane(r.trust.attestation)
     /\ r.trust # None /\ r.trust.provenance = Trusted => r.trust.attestation # None

\* An operation ends well only on a checkout it may end well on: everything taken
\* from elsewhere is locked, catalogued and licensed once, membership is exact both
\* ways, and the audit that was asked for would find nothing.  This is what the
\* operations of command.cpp answer for, and it crosses nine documents that are
\* read one after another.  A record validates only if what it claims of its own
\* provenance happened.  Of a tree with a directory that cannot be opened it
\* says nothing: there the walks conclude without having seen it.
OkIsEarned ==
  exit = "ok" /\ request.operation \in Validating \union Auditing \union Recording /\ tree.closed = {} =>
    /\ request.operation \in Validating =>
         MembersAreAll /\ FetchedAsLocked /\ \A id \in FromElsewhere : LicensedOnce(id)
    /\ request.operation = "review licenses" => LicencesReviewed
    /\ request.operation = "audit shipping-closure" => NothingOfATool
    /\ request.operation = "audit paths" => DeliveredWhereKnown
    /\ request.operation = "verify-offline" => PreparedForOffline
    /\ request.operation = "validate record" => RecordIsSound
====
