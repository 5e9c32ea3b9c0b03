---- MODULE RepositoryAudits ----
(***************************************************************************)
(* The audits of rf-evidence that look at one thing each: licence terms,   *)
(* source ownership, what may ship, which paths are delivered, the inputs  *)
(* of offline work, and the loading of maintained evidence.                *)
(***************************************************************************)
EXTENDS AuthorityRules

(***************************************************************************)
(* reviewLicenses: no validation precedes it, and identities are compared  *)
(* as they are written.                                                    *)
(***************************************************************************)
MaxLicenceRecords == 256

CatalogFactsRefused ==
  \/ "catalog" \in tree.malformed
  \/ Len(tree.catalog) > MaxLicenceRecords
  \/ ~IsInjective(Member(tree.catalog, "id"))

MaterialsRefused ==
  LET materials == tree.licences.materials
  IN \/ Len(materials) \notin 1..MaxLicenceRecords
     \/ \E m \in Range(materials) : ~m.placed \/ ~MaterialIsThere(m)
     \/ ~IsInjective(Member(materials, "path"))

ReviewRefused ==
  LET index  == tree.licences
      covers == CoveredBy(index.entries)
      Reviewed(c) == {e \in Range(tree.catalog) : e.id = c}
  IN \/ CatalogFactsRefused
     \/ "licences" \in tree.malformed
     \/ index.version # 1
     \/ MaterialsRefused
     \/ Len(index.entries) > MaxLicenceRecords
     \/ \E l \in Range(index.entries) :
          \/ l.material \notin Range(Member(index.materials, "path"))
          \/ l.terms.approval \notin {"approved", "restricted"}
          \/ l.covers = <<>>
          \/ \E c \in Range(l.covers) : ~\E e \in Reviewed(c) : e.terms = l.terms
          \/ \E i, j \in DOMAIN l.covers :   \* an empty policy is any that follows it
               \E e \in Reviewed(l.covers[i]), f \in Reviewed(l.covers[j]) :
                 i < j /\ e.advisories # None /\ e.advisories # f.advisories
     \/ ~IsInjective(covers)
     \/ ~ Range(Member(tree.catalog, "id")) \subseteq Range(covers)
     \/ ~IsInjective(Member(index.entries, "id"))

(***************************************************************************)
(* inspectSourceOwnership: physical lines of what a tool root holds.       *)
(***************************************************************************)
HardFailureLines == 1500

JsonNames == {".json", ".schema.json"}

MaintainedName(p) == Spelt[p].ext \in {".cpp", ".h"} \union JsonNames \/ Spelt[p].name = "CMakeLists.txt"

InspectionRefused ==
  \E tool \in found.tools : \E p \in Met(Beneath(Spelt[tool].dir)) :
    \/ Kind(p) = "link"
    \/ /\ Kind(p) = "regular" /\ MaintainedName(p)
       /\ Spelt[p].top \notin {"out", "third_party"}
       /\ tree.files[p].lines >= HardFailureLines

(***************************************************************************)
(* auditShippingClosure.                                                   *)
(***************************************************************************)
ShippingRoots == {"apps", "games", "packages", "sdk"}

\* No tool is a member of what ships, and every tool stands among the tools.
MembershipRootsSeparated ==
  /\ \A a \in {"modules", "targets", "packagingPolicies", "profiles"} :
       \A p \in Range(tree.repository[a]) : Spelt[p].top # "tools"
  /\ \A p \in Range(tree.repository.tools) : Spelt[p].top = "tools"

MayLeave(p) == ~Confined(ManifestOf(p).distribution)

BuildFile(p) == Spelt[p].dir \o "/CMakeLists.txt"

BuildFiles(p) == {BuildFile(p), Spelt[p].dir \o "/tests/CMakeLists.txt"}

Installs(q) == Kind(q) = "regular" /\ tree.files[q].installs

ToolShips(p) ==
  \/ MayLeave(p)
  \/ \E q \in BuildFiles(p) : Installs(q)

\* The scan leaves two directories at the top alone, but counts them.
Unscanned == {"out", ".git"}

Scanned == Met({p \in DOMAIN tree.files : Spelt[p].top \notin Unscanned})

AuditedEntries ==
  Scanned \union UNION {Spelt[p].dirs : p \in Scanned}
    \union ({Spelt[p].top : p \in DOMAIN tree.files} \intersect Unscanned)

ModulesBeneathSource ==
  \A p \in Regular(Scanned) : Spelt[p].name = "module.json" => Spelt[p].top = "source"

\* The build file of the tests is not read where that of the tool installs.
ShippingRefused ==
  \/ \E p \in found.tools : ~Installs(BuildFile(p)) /\ \E q \in BuildFiles(p) : Kind(q) # "regular"
  \/ Cardinality(AuditedEntries) > MaxAudited

ShippingPasses ==
  /\ MembershipRootsSeparated
  /\ \A p \in found.tools : ~ToolShips(p)
  /\ ~\E p \in DOMAIN tree.files : Spelt[p].top \in ShippingRoots
  /\ ModulesBeneathSource

(***************************************************************************)
(* auditRepositoryPaths: paths are matched in lower case, from the top.    *)
(***************************************************************************)
EnvelopeFiles ==
  {".gitignore", ".clang-tidy", "cmakelists.txt", "cmakepresets.json", "repository.json",
   "schemas/repository.schema.json", "schemas/tool.schema.json",
   "schemas/dependency-catalog.schema.json", "schemas/toolchain-lock.schema.json",
   "schemas/artifact-lock.schema.json", "schemas/evidence-common-v1.schema.json",
   "schemas/raw-run-receipt-v1.schema.json", "schemas/attempt-plan-v1.schema.json",
   "schemas/evidence-set-v1.schema.json", "schemas/evidence-index-v1.schema.json",
   "schemas/metric-registry-v1.schema.json", "schemas/evaluation-policy-v1.schema.json",
   "schemas/evaluation-receipt-v1.schema.json", "schemas/baseline-record-v1.schema.json",
   "schemas/archcheck-rules-v1.schema.json", "schemas/archcheck-findings-v1.schema.json",
   "schemas/module.schema.json", "third_party/catalog.json", "third_party/toolchain.lock.json",
   "third_party/artifacts.lock.json", "docs/readme.md", "docs/plans/plan-0001-evidence-mechanics.md",
   "docs/tasks/readme.md",
   "docs/tasks/task-0001-repository-tool-bootstrap-and-offline-authority-validation.md"}

EnvelopeRoots ==
  {"cmake", "third_party/vcpkg", "third_party/licenses", "tools/rf_evidence", "tools/rf_archcheck",
   "tools/rf_verify", "targets", "source/base"}

PreexistingFiles ==
  {"claude.md", "readme.md", "task-0001-handoff.md", ".clang-format", ".editorconfig",
   ".gitattributes", "stylua.toml"}

PreexistingRoots == {".claude", "docs"}

StagingRoots ==
  {".agents", ".audit-import-stage", ".claude-memory-stage", ".codex", ".codex-doc-stage",
   ".codex-doc-stage-2", ".codex-doc-stage-3", ".docs-reset-staging", ".handoff-stage",
   ".remediation-stage", ".repo-standard-stage"}

SkippedRoots == {".git", "out"}

KnownTopDirectories ==
  {".claude", "cmake", "docs", "evidence", "schemas", "source", "targets", "third_party", "tools"}

\* The index, and what stands right beneath one of the two class roots.
MaintainedEvidence(p) ==
  \/ p = "evidence/evidence.json"
  \/ Spelt[p].dir \in {"evidence/registries", "evidence/policies"} /\ Spelt[p].ext \in JsonNames

InEnvelope(p) ==
  \/ p \in EnvelopeFiles
  \/ IF Spelt[p].top = "evidence" THEN MaintainedEvidence(p)
     ELSE Spelt[p].dirs \intersect EnvelopeRoots # {}

Preexisting(p) ==
  \/ p \in PreexistingFiles
  \/ Spelt[p].dirs \intersect PreexistingRoots # {}
  \/ Spelt[p].top = "schemas" /\ Spelt[p].ext = ".schema.json"

\* A directory at the top that nobody knows is reported and left alone; so are
\* those that are skipped or staged.  A link is looked at first.
Entered ==
  Met({p \in DOMAIN tree.files :
         LET top == Lower(Spelt[p].top)
         IN \/ Kind(p) = "link" /\ Spelt[p].dirs = {}
            \/ /\ top \notin SkippedRoots \union StagingRoots
               /\ Spelt[p].dirs = {} \/ top \in KnownTopDirectories})

\* A file at the top that nobody knows is reported, no more.
OutsideEnvelope ==
  {p \in Entered :
     \/ Kind(p) = "link"
     \/ /\ Kind(p) = "regular" /\ Spelt[p].dirs # {}
        /\ ~InEnvelope(Lower(p)) /\ ~Preexisting(Lower(p))}

PathsRefused == Kind("repository.json") = "missing" \/ Cardinality(Regular(Entered)) > MaxAudited

(***************************************************************************)
(* verifyOfflineInputs.                                                    *)
(***************************************************************************)
Hosts == {"windows-x86_64", "linux-x86_64"}

Applies(a, host) ==
  a.platform \in {"platform.any",
                  IF host = "windows-x86_64" THEN "platform.windows" ELSE "platform.linux"}

Applicable(host) == {a \in Range(tree.artifacts) : Applies(a, host)}

\* An object is found under its digest, and is of the digest and size recorded.
CachedExactly(a) ==
  a.digest \in DOMAIN tree.cache /\ tree.cache[a.digest] = [bytes |-> a.bytes, digest |-> a.digest]

\* What an artifact puts under the prepared tools of the host: the verifier, its
\* bundle and its trusted root themselves, extractor and GnuPG file by file.
PreparedExactly(a) ==
  /\ a.prepares # None
  /\ \A f \in a.prepares :
       f.path \in DOMAIN tree.prepared /\ tree.prepared[f.path] = [bytes |-> f.bytes, digest |-> f.digest]

CommandsRefused ==
  \/ ~ {"cmake", "cosign", "gnupg", "seven_zip"} \subseteq tree.markers
  \/ tree.cmake # "4.4.0"
  \/ ~tree.provenance                 \* cosign proves its own executable

OfflineRefused(host) ==
  \/ host \notin Hosts
  \/ "artifacts" \in tree.malformed
  \/ ~IsInjective(Member(tree.artifacts, "id"))
  \/ Applicable(host) = {}
  \/ \E a \in Applicable(host) : ~CachedExactly(a) \/ ~PreparedExactly(a)
  \/ CommandsRefused

(***************************************************************************)
(* loadAuthorities: every maintained authority, and the registry of the    *)
(* generation each policy names.                                           *)
(***************************************************************************)
Generations(class) ==
  {<<a.path, tree.documents[a.path].generation>> :
     a \in {x \in Range(tree.authorities) : x.class = class}}

LoadRefused ==
  \/ \E a \in Range(tree.authorities) : a.path \in tree.malformed
  \/ \E policy \in Generations("evaluation_policy") :
       LET matches == {r \in Generations("metric_registry") : r[2] = policy[2]}
       IN \/ Cardinality(matches) # 1
          \/ ~tree.documents[policy[1]].binds
====
