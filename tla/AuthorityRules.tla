---- MODULE AuthorityRules ----
(***************************************************************************)
(* What rf-evidence holds the maintained authorities of a checkout to:     *)
(* membership of tools and evidence, the dependency authorities, licences, *)
(* the shipping closure, the paths delivered and the inputs prepared for   *)
(* offline work, each as the condition under which it refuses.             *)
(*                                                                         *)
(* A tree is a record with one member per document, and files, which maps  *)
(* a path to what is there.  A path is a name, and Spelt what the code     *)
(* reads off its characters.  malformed holds the documents that are not   *)
(* of their schema, or not JSON of the admitted subset; a document that is *)
(* of its schema has every member.  closed holds the directories that      *)
(* cannot be opened.                                                       *)
(***************************************************************************)
EXTENDS ToolRun, Naturals, Sequences, FiniteSets, Functions

CONSTANTS
  Spelt,             \* of a path: [top, dir, dirs, name, ext, admissible]
  Fold,              \* the lower-case form of the names that have another
  Rank,              \* the place of a name in byte order
  Admits,            \* how many entries each dependency authority holds
  MaxEvidence,       \* authorities listed, files under evidence/
  MaxManifests,      \* tool manifests under tools/
  MaxAudited         \* kMaximumAuditedFiles

Lower(s) == IF s \in DOMAIN Fold THEN Fold[s] ELSE s

Lowered(S) == {Lower(s) : s \in S}

\* As if names that differ in case were different names.
CollidesAsWritten(s) == ~IsInjective(s)

\* Two members that differ at most in case.
Collides(s) == ~IsInjective([i \in DOMAIN s |-> Lower(s[i])])

\* Set-like arrays hold every member once, in byte order.
SetLike(s) == \A i, j \in DOMAIN s : i < j => Rank[s[i]] < Rank[s[j]]

Member(s, field) == [i \in DOMAIN s |-> s[i][field]]

Kind(p) == IF p \in DOMAIN tree.files THEN tree.files[p].kind ELSE "missing"

Regular(paths) == {p \in paths : Kind(p) = "regular"}

(***************************************************************************)
(* Walks.  A directory that cannot be opened ends a walk as its last entry *)
(* does, and nothing asks which of the two it was.  listing has the place  *)
(* of each path in the order in which the file system names them.          *)
(***************************************************************************)
Beneath(dir) == {p \in DOMAIN tree.files : dir \in Spelt[p].dirs}

Shut(p) == Spelt[p].dirs \intersect tree.closed # {}

\* What a walk that would enter these meets of them.
Met(paths) == {p \in paths : \A q \in paths : Shut(q) => tree.listing[p] < tree.listing[q]}

(***************************************************************************)
(* Membership of tools and evidence.                                       *)
(***************************************************************************)
SchemaVersion == 4

RepositoryRefused ==
  \/ ~tree.oracle
  \/ {"repository", "catalog", "toolchain", "artifacts"} \intersect tree.malformed # {}
  \/ tree.repository.version # SchemaVersion
  \/ tree.repository.tools = <<>>
  \/ ~SetLike(tree.repository.tools)

\* Nothing of a repository tool leaves the repository.
Confined(distribution) ==
  /\ distribution.repositoryOnly
  /\ distribution.elsewhere = {}       \* shippingClosure, sdkExposure, targetRoot not forbidden

ManifestOf(p) == tree.manifests[p]

ManifestRefused(p) ==
  \/ ~Spelt[p].admissible
  \/ p \notin DOMAIN tree.manifests
  \/ p \in tree.malformed
  \/ ~ManifestOf(p).policy             \* identifier, versions, C++23 without exceptions or RTTI
  \/ \E a \in {"tools", "modules", "thirdParty", "managedTools"} : ~SetLike(ManifestOf(p)[a])
  \/ ManifestOf(p).modules # <<>>
  \/ ~Confined(ManifestOf(p).distribution)

ManifestsRefused ==
  LET paths == tree.repository.tools
      declared == [i \in DOMAIN paths |-> ManifestOf(paths[i])]
  IN \/ \E p \in Range(paths) : ManifestRefused(p)
     \/ Collides(Member(declared, "id"))
     \/ Collides(Member(declared, "target"))
     \/ Collides(paths)

UnlistedManifest ==
  LET present == {p \in Regular(Met(Beneath("tools"))) : Spelt[p].name = "tool.json"}
  IN \/ Cardinality(present) > MaxManifests
     \/ ~ Lowered(present) \subseteq Lowered(Range(tree.repository.tools))

MediaTypes == [metric_registry   |-> "metric registry v1",
               evaluation_policy |-> "evaluation policy v1"]

AuthoritiesRefused ==
  LET index  == tree.repository.evidenceIndex
      listed == tree.authorities
  IN \/ ~Spelt[index].admissible
     \/ Kind(index) # "regular"
     \/ index \in tree.malformed
     \/ Len(listed) > MaxEvidence
     \/ \E a \in Range(listed) :
          \/ a.class \notin DOMAIN MediaTypes
          \/ a.media # MediaTypes[a.class]
          \/ ~Spelt[a.path].admissible
          \/ Kind(a.path) # "regular"
     \/ Collides(Member(listed, "path"))

UnlistedEvidence ==
  LET met    == Met(Beneath("evidence"))
      listed == {tree.repository.evidenceIndex} \union Range(Member(tree.authorities, "path"))
  IN \/ \E p \in met : Kind(p) = "link"
     \/ Cardinality(Regular(met)) > MaxEvidence
     \/ ~ Lowered(Regular(met)) \subseteq Lowered(listed)

(***************************************************************************)
(* The dependency authorities.  Identities are compared in lower case.     *)
(***************************************************************************)
CatalogRefused ==
  \/ Collides(Member(tree.catalog, "id"))
  \/ \E e \in Range(tree.catalog) : e.provider = None
  \/ Len(tree.catalog) # Admits.catalog

\* The recorded bytes of a licence text are those that are there.
MaterialIsThere(m) == m.path \in DOMAIN tree.texts /\ tree.texts[m.path].identity = m.identity

\* What the entries of a licence index cover, by entry and by place in it.
CoveredBy(entries) ==
  [k \in UNION {{i} \X DOMAIN entries[i].covers : i \in DOMAIN entries} |-> entries[k[1]].covers[k[2]]]

LicencesRefused ==
  LET index  == tree.licences
      covers == CoveredBy(index.entries)
  IN \/ "licences" \in tree.malformed
     \/ index.version # 1
     \/ Len(index.materials) # Admits.materials
     \/ \E m \in Range(index.materials) : ~m.placed \/ ~MaterialIsThere(m)
     \/ ~IsInjective(Member(index.materials, "path"))
     \/ Len(index.entries) # Admits.licences
     \/ Collides(Member(index.entries, "id"))
     \/ \E l \in Range(index.entries) :
          \/ l.material \notin Range(Member(index.materials, "path"))
          \/ l.section \notin tree.texts[l.material].sections
          \/ l.covers = <<>>
          \/ \E c \in Range(l.covers) :
               ~\E e \in Range(tree.catalog) : Lower(e.id) = Lower(c) /\ e.terms = l.terms
     \/ Collides(covers)
     \/ Lowered(Range(covers)) # found.catalog

Signed(a) ==
  /\ a.required <=> a.scheme # "none"
  /\ ~Collides(a.verifiers)
  /\ a.scheme = "gpg_sigstore" => a.required /\ Len(a.verifiers) = 4

\* An archive has one root, a closed set of roots, or a counted shape.
Shaped(a) ==
  /\ Cardinality(DOMAIN a.archive) = 1
  /\ "roots" \in DOMAIN a.archive => a.archive["roots"] \in 2..32
  /\ "rootless" \in DOMAIN a.archive =>
       LET shape == a.archive["rootless"]
       IN shape.top \in 1..shape.entries /\ shape.entries <= 300000

Known(record) ==
  Lower(record.catalogId) \in found.catalog /\ Lower(record.licence) \in found.licences

ArtifactsRefused ==
  \/ \E a \in Range(tree.artifacts) : ~Known(a) \/ ~Signed(a) \/ ~Shaped(a)
  \/ Collides(Member(tree.artifacts, "id"))
  \/ Len(tree.artifacts) # Admits.artifacts
  \/ \E a \in Range(tree.artifacts) :
       ~ Lowered(Range(a.verifiers)) \subseteq Lowered(Range(Member(tree.artifacts, "id")))

\* Only the repository of an action is pinned, not the path inside it.
ActionOf(use) ==
  [action |-> [i \in 1..(IF Len(use.action) < 2 THEN Len(use.action) ELSE 2) |-> Lower(use.action[i])],
   commit |-> Lower(use.commit)]

Uses ==
  LET met == Met(Beneath(".github/workflows")) \union Met(Beneath(".github/actions"))
      at  == {p \in Regular(met) : Spelt[p].ext = ".yml"}
  IN {u \in UNION {tree.files[p].uses : p \in at} : ~u.local}

PinnedActions == {ActionOf(u) : u \in Uses}

\* Digests, wherever they stand in the file; a base without one leaves no trace.
PulledImages ==
  LET at == {p \in Regular(Met(Beneath("ci/images"))) : Spelt[p].name = "Dockerfile"}
  IN Lowered(UNION {tree.files[p].digests : p \in at})

LockedActions ==
  {[action |-> [i \in DOMAIN f.reference |-> Lower(f.reference[i])], commit |-> Lower(f.pin)]
   : f \in {x \in Range(tree.fetches) : x.kind = "github_action"}}

LockedImages == {Lower(f.pin) : f \in {x \in Range(tree.fetches) : x.kind # "github_action"}}

\* Fetches share one name space with the artifacts.
FetchesRefused ==
  \/ Collides(Member(tree.fetches, "id"))
  \/ \E f \in Range(tree.fetches) : Lower(f.id) \in found.artifacts \/ ~Known(f)
  \/ \E u \in Uses : u.commit = None
  \/ PinnedActions # LockedActions
  \/ PulledImages # LockedImages

ToolchainRefused ==
  LET lock == tree.toolchain
  IN \/ lock.version # 1
     \/ Collides(lock.verifiers)
     \/ ~ Lowered(Range(lock.verifiers)) \subseteq found.artifacts
     \/ Len(lock.verifiers) # Admits.verifiers
     \/ \E t \in Range(lock.managed) :
          \/ Lower(t.id) \notin found.catalog
          \/ ~ Lowered(Range(t.artifacts)) \subseteq found.artifacts
     \/ Collides(Member(lock.managed, "id"))
     \/ Len(lock.managed) # Admits.managed
     \/ ~lock.sdk                      \* the one installed SDK and its signing tool, as pinned

ReferencesRefused ==
  \E p \in found.tools :
    \/ ~ Lowered(Range(ManifestOf(p).thirdParty)) \subseteq found.catalog
    \/ ~ Lowered(Range(ManifestOf(p).managedTools)) \subseteq found.managed
====
