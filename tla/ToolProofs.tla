---- MODULE ToolProofs ----
(***************************************************************************)
(* Proofs about the tools of the repository, EvidenceTool, VerifyTool and  *)
(* Archcheck, for every checkout, record, coverage export, diff and        *)
(* command line: an operation of rf-evidence that ends well was entitled   *)
(* to, a verdict of rf-verify is the one its inputs earn, and a checkout   *)
(* that rf-archcheck calls clean is.                                       *)
(***************************************************************************)
EXTENDS EvidenceTool, VerifyTool, Archcheck, FiniteSetTheorems, SequenceTheorems,
        WellFoundedInduction, TLAPS

-----------------------------------------------------------------------------
(***************************************************************************)
(* What each document that was admitted says, of the tree alone.           *)
(***************************************************************************)
\* Tools are members once, and kept in the repository.
ToolsAdmitted ==
  /\ ~Collides(tree.repository.tools)
  /\ \A p \in Range(tree.repository.tools) : tree.manifests[p].distribution.elsewhere = {}

ManifestsListed ==
  tree.closed = {} =>
    \A p \in ToolManifests : \E q \in Range(tree.repository.tools) : SameName(p, q)

AuthoritiesAdmitted == ~Collides(Member(tree.authorities, "path"))

EvidenceListed ==
  tree.closed = {} =>
    \A p \in Beneath("evidence") :
      /\ Kind(p) # "link"
      /\ Kind(p) = "regular" => \/ SameName(p, tree.repository.evidenceIndex)
                                \/ \E q \in Range(Member(tree.authorities, "path")) : SameName(p, q)

CatalogIds == Lowered(Range(Member(tree.catalog, "id")))

CatalogAdmitted == ~Collides(Member(tree.catalog, "id"))

\* A licence whose text and section are there.
Documented(l) ==
  \E m \in Range(tree.licences.materials) :
    /\ m.path = l.material
    /\ tree.texts[m.path].identity = m.identity
    /\ l.section \in tree.texts[m.path].sections

LicencesAdmitted ==
  /\ ~Collides(CoveredBy(tree.licences.entries))
  /\ Lowered(Range(CoveredBy(tree.licences.entries))) = CatalogIds
  /\ \A l \in Range(tree.licences.entries) :
       /\ Documented(l)
       /\ \A c \in Range(l.covers) : \E e \in Range(tree.catalog) : SameName(e.id, c) /\ e.terms = l.terms

ArtifactsAdmitted == \A a \in Range(tree.artifacts) : Lower(a.catalogId) \in CatalogIds

FetchesAdmitted ==
  /\ \A f \in Range(tree.fetches) : Lower(f.catalogId) \in CatalogIds
  /\ tree.closed = {} => FetchedAsLocked

ManagedIds == Lowered(Range(Member(tree.toolchain.managed, "id")))

ToolchainAdmitted == \A t \in Range(tree.toolchain.managed) : Lower(t.id) \in CatalogIds

ReferencesAdmitted ==
  \A p \in Range(tree.repository.tools) :
    /\ Lowered(Range(tree.manifests[p].thirdParty)) \subseteq CatalogIds
    /\ Lowered(Range(tree.manifests[p].managedTools)) \subseteq ManagedIds

-----------------------------------------------------------------------------
(***************************************************************************)
(* One step of reading.                                                    *)
(***************************************************************************)

\* Where every directory opens, a walk meets everything.
LEMMA WalksMeetAll == ASSUME tree.closed = {}, NEW paths PROVE Met(paths) = paths
BY DEF Met, Shut

\* If names that are the same up to case are one, each of them is there once.
LEMMA OnceIfThere ==
  ASSUME NEW names, ~Collides(names), NEW name, \E q \in Range(names) : SameName(name, q)
  PROVE  Once(names, name)
<1> DEFINE there == {k \in DOMAIN names : SameName(names[k], name)}
<1>1. PICK k \in DOMAIN names : SameName(names[k], name)
  BY DEF Range, SameName
<1>2. \A j \in DOMAIN names : SameName(names[j], name) => j = k
  BY <1>1 DEF SameName, Collides, IsInjective
<1>3. there = {k}
  BY <1>1, <1>2
<1>4. QED
  BY <1>3, FS_Singleton DEF Once

\* What reading the manifests leaves unrefused is confined and named once.
LEMMA ManifestsAreRead == ~ManifestsRefused => ToolsAdmitted
BY DEF ManifestsRefused, ToolsAdmitted, ManifestRefused, Confined, ManifestOf

\* Where every directory opens, a manifest on disk is a listed one.
LEMMA ManifestsAreListed == ~UnlistedManifest => ManifestsListed
<1> SUFFICES ASSUME ~UnlistedManifest, tree.closed = {}, NEW p \in ToolManifests
             PROVE  \E q \in Range(tree.repository.tools) : SameName(p, q)
  BY DEF ManifestsListed
<1>1. Met(Beneath("tools")) = Beneath("tools")
  BY WalksMeetAll
<1>2. Lower(p) \in Lowered({q \in Regular(Beneath("tools")) : Spelt[q].name = "tool.json"})
  BY DEF ToolManifests, Lowered, Regular
<1>3. Lower(p) \in Lowered(Range(tree.repository.tools))
  BY <1>1, <1>2 DEF UnlistedManifest
<1>4. QED
  BY <1>3 DEF Lowered, SameName

\* Authorities that are read are listed once.
LEMMA AuthoritiesAreRead == ~AuthoritiesRefused => AuthoritiesAdmitted
BY DEF AuthoritiesRefused, AuthoritiesAdmitted

\* Where every directory opens, evidence on disk is listed, and is no link.
LEMMA EvidenceIsListed == ~UnlistedEvidence => EvidenceListed
<1> SUFFICES ASSUME ~UnlistedEvidence, tree.closed = {}, NEW p \in Beneath("evidence")
             PROVE  /\ Kind(p) # "link"
                    /\ Kind(p) = "regular" =>
                         \/ SameName(p, tree.repository.evidenceIndex)
                         \/ \E q \in Range(Member(tree.authorities, "path")) : SameName(p, q)
  BY DEF EvidenceListed
<1>1. Met(Beneath("evidence")) = Beneath("evidence")
  BY WalksMeetAll
<1>2. Kind(p) # "link"
  BY <1>1 DEF UnlistedEvidence
<1>3. ASSUME Kind(p) = "regular"
      PROVE  Lower(p) \in Lowered({tree.repository.evidenceIndex}
                                    \union Range(Member(tree.authorities, "path")))
  <2>1. Lower(p) \in Lowered(Regular(Beneath("evidence")))
    BY <1>3 DEF Regular, Lowered
  <2>2. QED
    BY <1>1, <2>1 DEF UnlistedEvidence
<1>4. QED
  BY <1>2, <1>3 DEF Lowered, SameName

\* A catalog that is read names nothing twice.
LEMMA CatalogIsRead == ~CatalogRefused => CatalogAdmitted
BY DEF CatalogRefused, CatalogAdmitted

\* Licences that are read cover the catalog exactly, each on the terms of its entry.
LEMMA LicencesAreRead == found.catalog = CatalogIds /\ ~LicencesRefused => LicencesAdmitted
<1> SUFFICES ASSUME found.catalog = CatalogIds, ~LicencesRefused PROVE LicencesAdmitted
  OBVIOUS
<1>1. /\ ~Collides(CoveredBy(tree.licences.entries))
      /\ Lowered(Range(CoveredBy(tree.licences.entries))) = CatalogIds
  BY DEF LicencesRefused
<1>2. ASSUME NEW l \in Range(tree.licences.entries)
      PROVE  /\ Documented(l)
             /\ \A c \in Range(l.covers) :
                  \E e \in Range(tree.catalog) : SameName(e.id, c) /\ e.terms = l.terms
  <2>1. /\ l.material \in Range(Member(tree.licences.materials, "path"))
        /\ l.section \in tree.texts[l.material].sections
    BY <1>2 DEF LicencesRefused
  <2>2. PICK m \in Range(tree.licences.materials) : m.path = l.material
    BY <2>1 DEF Range, Member
  <2>3. tree.texts[m.path].identity = m.identity
    BY <2>2 DEF LicencesRefused, MaterialIsThere
  <2>4. Documented(l)
    BY <2>1, <2>2, <2>3 DEF Documented
  <2>5. QED
    BY <1>2, <2>4 DEF LicencesRefused, SameName
<1>3. QED
  BY <1>1, <1>2 DEF LicencesAdmitted

\* Artifacts that are read are of the catalog.
LEMMA ArtifactsAreRead == found.catalog = CatalogIds /\ ~ArtifactsRefused => ArtifactsAdmitted
BY DEF ArtifactsRefused, ArtifactsAdmitted, Known

\* Two sets of pins that are the same tie every use to a record and back.
LEMMA FetchesAreAsLocked == tree.closed = {} /\ ~FetchesRefused => FetchedAsLocked
<1> SUFFICES ASSUME tree.closed = {}, ~FetchesRefused PROVE FetchedAsLocked
  OBVIOUS
<1> DEFINE workflows == {p \in Beneath(".github/workflows") \union Beneath(".github/actions") :
                           Kind(p) = "regular" /\ Spelt[p].ext = ".yml"}
           images == {p \in Beneath("ci/images") : Kind(p) = "regular" /\ Spelt[p].name = "Dockerfile"}
           used   == {u \in UNION {tree.files[p].uses : p \in workflows} : ~u.local}
           pulled == UNION {tree.files[p].digests : p \in images}
           Action(f, u) == /\ f.kind = "github_action" /\ SameName(f.pin, u.commit)
                           /\ \A i \in DOMAIN f.reference : SameName(f.reference[i], u.action[i])
           Image(f, d)  == f.kind # "github_action" /\ SameName(f.pin, d)
           Pin(f) == [action |-> [i \in DOMAIN f.reference |-> Lower(f.reference[i])], commit |-> Lower(f.pin)]
<1>1. Uses = used
  <2>1. /\ Met(Beneath(".github/workflows")) = Beneath(".github/workflows")
        /\ Met(Beneath(".github/actions")) = Beneath(".github/actions")
    BY WalksMeetAll
  <2>2. {p \in Regular(Beneath(".github/workflows") \union Beneath(".github/actions")) : Spelt[p].ext = ".yml"}
          = workflows
    BY DEF Regular
  <2>3. QED
    BY <2>1, <2>2 DEF Uses
<1>2. PulledImages = Lowered(pulled)
  <2>1. Met(Beneath("ci/images")) = Beneath("ci/images")
    BY WalksMeetAll
  <2>2. {p \in Regular(Beneath("ci/images")) : Spelt[p].name = "Dockerfile"} = images
    BY DEF Regular
  <2>3. QED
    BY <2>1, <2>2 DEF PulledImages
<1>3. /\ \A u \in used : u.commit # None
      /\ {ActionOf(u) : u \in used} = {Pin(f) : f \in {x \in Range(tree.fetches) : x.kind = "github_action"}}
      /\ Lowered(pulled) = {Lower(f.pin) : f \in {x \in Range(tree.fetches) : x.kind # "github_action"}}
  BY <1>1, <1>2 DEF FetchesRefused, PinnedActions, LockedActions, LockedImages
<1> HIDE DEF workflows, images, used, pulled
<1>4. ASSUME NEW f, f.kind = "github_action", NEW u, ActionOf(u) = Pin(f)
      PROVE  Action(f, u)
  <2>1. Lower(u.commit) = Lower(f.pin)
    BY <1>4 DEF ActionOf
  <2>2. [i \in 1..(IF Len(u.action) < 2 THEN Len(u.action) ELSE 2) |-> Lower(u.action[i])]
          = [i \in DOMAIN f.reference |-> Lower(f.reference[i])]
    BY <1>4 DEF ActionOf
  <2>3. \A i \in DOMAIN f.reference : Lower(u.action[i]) = Lower(f.reference[i])
    BY <2>2
  <2>4. QED
    BY <1>4, <2>1, <2>3 DEF SameName
<1>5. \A u \in used : \E f \in Range(tree.fetches) : Action(f, u)
  <2>1. SUFFICES ASSUME NEW u \in used PROVE \E f \in Range(tree.fetches) : Action(f, u)
    OBVIOUS
  <2>2. PICK f \in Range(tree.fetches) : f.kind = "github_action" /\ ActionOf(u) = Pin(f)
    BY <1>3
  <2>3. QED
    BY <1>4, <2>2
<1>6. \A d \in pulled : \E f \in Range(tree.fetches) : Image(f, d)
  BY <1>3 DEF Lowered, SameName
<1>7. \A f \in Range(tree.fetches) : (\E u \in used : Action(f, u)) \/ (\E d \in pulled : Image(f, d))
  <2>1. SUFFICES ASSUME NEW f \in Range(tree.fetches)
                 PROVE  (\E u \in used : Action(f, u)) \/ (\E d \in pulled : Image(f, d))
    OBVIOUS
  <2>2. CASE f.kind = "github_action"
    <3>1. PICK u \in used : ActionOf(u) = Pin(f)
      BY <1>3, <2>2
    <3>2. QED
      BY <1>4, <2>2, <3>1
  <2>3. CASE f.kind # "github_action"
    BY <1>3, <2>3 DEF Lowered, SameName
  <2>4. QED
    BY <2>2, <2>3
<1>8. QED
  BY <1>3, <1>5, <1>6, <1>7 DEF FetchedAsLocked, workflows, images, used, pulled

\* Fetches that are read are of the catalog, and are what the workflows use.
LEMMA FetchesAreRead == found.catalog = CatalogIds /\ ~FetchesRefused => FetchesAdmitted
<1>1. found.catalog = CatalogIds /\ ~FetchesRefused
        => \A f \in Range(tree.fetches) : Lower(f.catalogId) \in CatalogIds
  BY DEF FetchesRefused, Known
<1>2. QED
  BY <1>1, FetchesAreAsLocked DEF FetchesAdmitted

\* Managed tools that are read are of the catalog.
LEMMA ToolchainIsRead == found.catalog = CatalogIds /\ ~ToolchainRefused => ToolchainAdmitted
BY DEF ToolchainRefused, ToolchainAdmitted

\* References that resolve are to what was read.
LEMMA ReferencesAreRead ==
  /\ found.tools = Range(tree.repository.tools)
  /\ found.catalog = CatalogIds
  /\ found.managed = ManagedIds
  /\ ~ReferencesRefused
  => ReferencesAdmitted
BY DEF ReferencesRefused, ReferencesAdmitted, ManifestOf

-----------------------------------------------------------------------------
(***************************************************************************)
(* What follows for the checkout.                                          *)
(***************************************************************************)
LEMMA NamedIsLicensed ==
  ASSUME CatalogAdmitted, LicencesAdmitted, NEW id, Lower(id) \in CatalogIds
  PROVE  LicensedOnce(id)
<1> DEFINE entries == tree.licences.entries
<1>1. Once(Member(tree.catalog, "id"), id)
  <2>1. \E q \in Range(Member(tree.catalog, "id")) : SameName(id, q)
    BY DEF CatalogIds, Lowered, SameName
  <2>2. QED
    BY <2>1, OnceIfThere DEF CatalogAdmitted
<1>2. \E c \in Range(CoveredBy(entries)) : SameName(id, c)
  BY DEF LicencesAdmitted, Lowered, SameName
<1>3. Once(CoveredBy(entries), id)
  BY <1>2, OnceIfThere DEF LicencesAdmitted
<1>4. PICK l \in Range(entries) : \E c \in Range(l.covers) : SameName(id, c)
  <2>1. PICK k \in DOMAIN CoveredBy(entries) : SameName(id, CoveredBy(entries)[k])
    BY <1>2 DEF Range
  <2>2. PICK i \in DOMAIN entries : k \in {i} \X DOMAIN entries[i].covers
    BY <2>1 DEF CoveredBy
  <2>3. PICK j \in DOMAIN entries[i].covers : k = <<i, j>>
    BY <2>2
  <2>4. CoveredBy(entries)[k] = entries[i].covers[j]
    BY <2>1, <2>3 DEF CoveredBy
  <2>5. entries[i] \in Range(entries) /\ entries[i].covers[j] \in Range(entries[i].covers)
    BY <2>2, <2>3 DEF Range
  <2>6. QED
    BY <2>1, <2>4, <2>5
<1>5. PICK c \in Range(l.covers) : SameName(id, c)
  BY <1>4
<1>6. PICK e \in Range(tree.catalog) : SameName(e.id, c) /\ e.terms = l.terms
  BY <1>4, <1>5 DEF LicencesAdmitted
<1>7. SameName(e.id, id) /\ SameName(c, id)
  BY <1>5, <1>6 DEF SameName
<1>8. Documented(l)
  BY <1>4 DEF LicencesAdmitted
<1>9. QED
  BY <1>1, <1>3, <1>4, <1>5, <1>6, <1>7, <1>8 DEF LicensedOnce, Documented

\* Everything taken from elsewhere is in the catalog, and so licensed.
LEMMA AllIsLicensed ==
  ASSUME CatalogAdmitted, LicencesAdmitted, ArtifactsAdmitted, FetchesAdmitted,
         ToolchainAdmitted, ReferencesAdmitted, NEW id \in FromElsewhere
  PROVE  LicensedOnce(id)
<1>1. ManagedIds \subseteq CatalogIds
  BY DEF ManagedIds, ToolchainAdmitted, Lowered, Range, Member
<1>2. ASSUME NEW p \in Range(tree.repository.tools),
             id \in Range(tree.manifests[p].thirdParty) \union Range(tree.manifests[p].managedTools)
      PROVE  Lower(id) \in CatalogIds
  BY <1>1, <1>2 DEF ReferencesAdmitted, Lowered
<1>3. \/ \E p \in Range(tree.repository.tools) :
              id \in Range(tree.manifests[p].thirdParty) \union Range(tree.manifests[p].managedTools)
      \/ \E a \in Range(tree.artifacts) : id = a.catalogId
      \/ \E f \in Range(tree.fetches) : id = f.catalogId
      \/ \E t \in Range(tree.toolchain.managed) : id = t.id
  BY DEF FromElsewhere
<1>4. Lower(id) \in CatalogIds
  BY <1>2, <1>3 DEF ArtifactsAdmitted, FetchesAdmitted, ToolchainAdmitted
<1>5. QED
  BY <1>4, NamedIsLicensed

\* What is listed once and what is there are the same.
LEMMA MembersAreExact ==
  ASSUME tree.closed = {}, ToolsAdmitted, ManifestsListed, AuthoritiesAdmitted, EvidenceListed
  PROVE  MembersAreAll
<1>1. \A p \in ToolManifests : Once(tree.repository.tools, p)
  BY OnceIfThere DEF ToolsAdmitted, ManifestsListed
<1>2. \A p \in Beneath("evidence") :
        (\E q \in Range(Member(tree.authorities, "path")) : SameName(p, q))
          => Once(Member(tree.authorities, "path"), p)
  BY OnceIfThere DEF AuthoritiesAdmitted
<1>3. QED
  BY <1>1, <1>2 DEF EvidenceListed, MembersAreAll

\* A review that refuses nothing found each entry reviewed.
LEMMA ReviewConcludes == ~ReviewRefused => LicencesReviewed
<1> SUFFICES ASSUME ~ReviewRefused, NEW e \in Range(tree.catalog)
             PROVE  \E l \in Range(tree.licences.entries) :
                      /\ e.id \in Range(l.covers)
                      /\ e.terms = l.terms /\ l.terms.approval \in {"approved", "restricted"}
                      /\ \E m \in Range(tree.licences.materials) :
                           m.path = l.material /\ tree.texts[m.path].identity = m.identity
  BY DEF LicencesReviewed
<1> DEFINE entries == tree.licences.entries
<1>1. e.id \in Range(CoveredBy(entries))
  <2>1. e.id \in Range(Member(tree.catalog, "id"))
    BY DEF Range, Member
  <2>2. QED
    BY <2>1 DEF ReviewRefused
<1>2. PICK l \in Range(entries) : e.id \in Range(l.covers)
  <2>1. PICK k \in DOMAIN CoveredBy(entries) : e.id = CoveredBy(entries)[k]
    BY <1>1 DEF Range
  <2>2. PICK i \in DOMAIN entries : k \in {i} \X DOMAIN entries[i].covers
    BY <2>1 DEF CoveredBy
  <2>3. PICK j \in DOMAIN entries[i].covers : k = <<i, j>>
    BY <2>2
  <2>4. CoveredBy(entries)[k] = entries[i].covers[j]
    BY <2>1, <2>3 DEF CoveredBy
  <2>5. entries[i] \in Range(entries) /\ entries[i].covers[j] \in Range(entries[i].covers)
    BY <2>2, <2>3 DEF Range
  <2>6. QED
    BY <2>1, <2>4, <2>5
<1>3. /\ l.material \in Range(Member(tree.licences.materials, "path"))
      /\ l.terms.approval \in {"approved", "restricted"}
      /\ \E x \in Range(tree.catalog) : x.id = e.id /\ x.terms = l.terms
      /\ IsInjective(Member(tree.catalog, "id"))
      /\ \A m \in Range(tree.licences.materials) : MaterialIsThere(m)
  BY <1>2 DEF ReviewRefused, CatalogFactsRefused, MaterialsRefused
<1>4. e.terms = l.terms
  <2>1. PICK x \in Range(tree.catalog) : x.id = e.id /\ x.terms = l.terms
    BY <1>3
  <2>2. PICK i \in DOMAIN tree.catalog, j \in DOMAIN tree.catalog : tree.catalog[i] = x /\ tree.catalog[j] = e
    BY DEF Range
  <2>3. i = j
    BY <1>3, <2>1, <2>2 DEF IsInjective, Member
  <2>4. QED
    BY <2>1, <2>2, <2>3
<1>5. \E m \in Range(tree.licences.materials) : m.path = l.material /\ tree.texts[m.path].identity = m.identity
  <2>1. PICK m \in Range(tree.licences.materials) : m.path = l.material
    BY <1>3 DEF Range, Member
  <2>2. QED
    BY <1>3, <2>1 DEF MaterialIsThere
<1>6. QED
  BY <1>2, <1>3, <1>4, <1>5

\* Inputs that are not refused are prepared.
LEMMA OfflineConcludes == ~OfflineRefused(request.host) => PreparedForOffline
<1> SUFFICES ASSUME ~OfflineRefused(request.host) PROVE PreparedForOffline
  OBVIOUS
<1> DEFINE platform == IF request.host = "windows-x86_64" THEN "platform.windows" ELSE "platform.linux"
<1>1. ASSUME NEW a \in Range(tree.artifacts), a.platform \in {"platform.any", platform}
      PROVE  /\ tree.cache[a.digest].digest = a.digest
             /\ \A f \in a.prepares : tree.prepared[f.path].digest = f.digest
  <2>1. a \in Applicable(request.host)
    BY <1>1 DEF Applicable, Applies
  <2>2. CachedExactly(a) /\ PreparedExactly(a)
    BY <2>1 DEF OfflineRefused
  <2>3. tree.cache[a.digest].digest = a.digest
    BY <2>2 DEF CachedExactly
  <2>4. ASSUME NEW f \in a.prepares
        PROVE  tree.prepared[f.path].digest = f.digest
    <3>1. tree.prepared[f.path] = [bytes |-> f.bytes, digest |-> f.digest]
      BY <2>2 DEF PreparedExactly
    <3>2. QED
      BY <3>1
  <2>5. QED
    BY <2>3, <2>4
<1>2. QED
  BY <1>1 DEF PreparedForOffline

\* An audit of the closure that passes found no tool outside the tools.
LEMMA ShippingConcludes ==
  ASSUME tree.closed = {}, ToolsAdmitted, ManifestsListed, found.tools = Range(tree.repository.tools),
         ~ShippingRefused, ShippingPasses
  PROVE  NothingOfATool
<1>1. ASSUME NEW p \in ToolManifests
      PROVE  \E q \in Range(tree.repository.tools) :
               /\ SameName(p, q)
               /\ tree.manifests[q].distribution.elsewhere = {}
               /\ \A b \in BuildFiles(q) : Kind(b) = "regular" /\ ~tree.files[b].installs
  <2>1. PICK q \in Range(tree.repository.tools) : SameName(p, q)
    BY <1>1 DEF ManifestsListed
  <2>2. \A b \in BuildFiles(q) : Kind(b) = "regular" /\ ~tree.files[b].installs
    BY <2>1 DEF ShippingRefused, ShippingPasses, ToolShips, Installs, BuildFiles
  <2>3. QED
    BY <2>1, <2>2 DEF ToolsAdmitted
<1>2. ASSUME NEW p \in DOMAIN tree.files
      PROVE  /\ Spelt[p].top \notin ShippingRoots
             /\ Spelt[p].top = "tools" /\ Kind(p) = "regular" => Spelt[p].name # "module.json"
  <2>1. Scanned = {q \in DOMAIN tree.files : Spelt[q].top \notin {"out", ".git"}}
    BY WalksMeetAll DEF Scanned, Unscanned
  <2>2. QED
    BY <1>2, <2>1 DEF ShippingPasses, ModulesBeneathSource, Regular
<1>3. QED
  BY <1>1, <1>2 DEF NothingOfATool

\* Paths that are all in the envelope or older than it are where they are known.
LEMMA PathsConclude ==
  ASSUME tree.closed = {}, OutsideEnvelope = {}, DOMAIN tree.files \subseteq DOMAIN Spelt
  PROVE  DeliveredWhereKnown
<1> SUFFICES ASSUME NEW p \in DOMAIN tree.files
             PROVE  LET top == Lower(Spelt[p].top)
                        low == Spelt[Lower(p)]
                        delivered == Kind(p) = "regular" /\ Spelt[p].dirs # {}
                    IN /\ Spelt[p].dirs = {} \/ top \in KnownTopDirectories => Kind(p) # "link"
                       /\ delivered /\ top = "tools" => low.dirs \intersect ToolRoots # {}
                       /\ delivered /\ top = "evidence" =>
                            \/ Lower(p) = "evidence/evidence.json"
                            \/ low.dir \in {"evidence/registries", "evidence/policies"}
  BY DEF DeliveredWhereKnown
<1> DEFINE top == Lower(Spelt[p].top)
           low == Spelt[Lower(p)]
<1>1. p \in Entered <=> \/ Kind(p) = "link" /\ Spelt[p].dirs = {}
                        \/ /\ top \notin SkippedRoots \union StagingRoots
                           /\ Spelt[p].dirs = {} \/ top \in KnownTopDirectories
  <2> DEFINE entered == {q \in DOMAIN tree.files :
         LET t == Lower(Spelt[q].top)
         IN \/ Kind(q) = "link" /\ Spelt[q].dirs = {}
            \/ /\ t \notin SkippedRoots \union StagingRoots
               /\ Spelt[q].dirs = {} \/ t \in KnownTopDirectories}
  <2>1. Entered = entered
    BY WalksMeetAll DEF Entered
  <2>2. QED
    BY <2>1
<1>2. top \in KnownTopDirectories => top \notin SkippedRoots \union StagingRoots
  BY DEF KnownTopDirectories, SkippedRoots, StagingRoots
<1>3. Spelt[p].dirs = {} \/ top \in KnownTopDirectories => Kind(p) # "link"
  BY <1>1, <1>2 DEF OutsideEnvelope
<1>4. ASSUME Kind(p) = "regular", Spelt[p].dirs # {}, top \in {"tools", "evidence"}
      PROVE  InEnvelope(Lower(p)) \/ Preexisting(Lower(p))
  <2>1. p \in Entered
    BY <1>1, <1>2, <1>4 DEF KnownTopDirectories
  <2>2. QED
    BY <1>4, <2>1 DEF OutsideEnvelope
<1>5. /\ low.top = top
      /\ top \in {"tools", "evidence"} =>
           /\ Lower(p) \notin EnvelopeFiles \union PreexistingFiles
           /\ low.dirs \intersect (EnvelopeRoots \union PreexistingRoots) \subseteq ToolRoots
  <2>1. p \in DOMAIN Spelt
    OBVIOUS
  <2>2. Lower(p) \in DOMAIN Spelt /\ low.top = top
    BY <2>1, EvidenceAssumption
  <2>3. QED
    BY <2>2, EvidenceAssumption
<1> HIDE DEF top, low
<1>6. ASSUME Kind(p) = "regular", Spelt[p].dirs # {}, top = "tools"
      PROVE  low.dirs \intersect ToolRoots # {}
  BY <1>4, <1>5, <1>6 DEF InEnvelope, Preexisting, low
<1>7. ASSUME Kind(p) = "regular", Spelt[p].dirs # {}, top = "evidence"
      PROVE  \/ Lower(p) = "evidence/evidence.json"
             \/ low.dir \in {"evidence/registries", "evidence/policies"}
  BY <1>4, <1>5, <1>7 DEF InEnvelope, Preexisting, MaintainedEvidence, PreexistingRoots, ToolRoots, low
<1>8. QED
  BY <1>3, <1>6, <1>7 DEF top, low

-----------------------------------------------------------------------------
(***************************************************************************)
(* What follows for a record.                                              *)
(***************************************************************************)
LEMMA ClaimIsTrue ==
  ASSUME NEW claim, ~AttestationRefused(claim, request.host)
  PROVE  MadeByTheLane(claim)
<1> DEFINE statement == tree.store[claim.bundle.digest].bundle.statement
           measured == MeasuredAt(claim.subjectDigest)
<1>1. /\ ~BundleRefused(claim)
      /\ measured = claim.subjectDigest
      /\ measured = statement.subjectDigest
      /\ \A f \in Facts : claim[f] = statement[f]
      /\ OfTheLane(claim, statement)
      /\ Vouched(statement, measured)
  BY DEF AttestationRefused, SignatureRefused
<1>2. PICK r \in tree.runs : r.signer = Producer /\ r.statement = statement
  BY <1>1 DEF Vouched
<1>3. statement.environment = HostedRunner
  BY <1>1 DEF BundleRefused, Decodes
<1>4. tree.store[statement.subjectDigest].digest = statement.subjectDigest
  BY <1>1 DEF MeasuredAt
<1>5. QED
  BY <1>1, <1>2, <1>3, <1>4 DEF OfTheLane, MadeByTheLane

\* A promotion that is not refused could be believed.
LEMMA PromotionHolds ==
  ASSUME NEW r, ~PromotionRefused(r)
  PROVE  r.trust.provenance = Untrusted /\ Promotes(r.promotion)
BY DEF PromotionRefused, Promotes

\* A record that passes the descriptor, the gate and the trust is what it claims.
LEMMA RecordConcludes ==
  ASSUME request.described => Describes(tree.descriptor, tree.record),
         ~GateRefused(tree.record), ~TrustRefused(tree.record, request.host, {})
  PROVE  RecordIsSound
<1> DEFINE r == tree.record
<1>1. request.described => tree.descriptor.digest = r.digest /\ tree.descriptor.media[1] = r.kind
  BY DEF Describes, MediaType
<1>2. r.verdictMember => r.kind \in {"evaluation_receipt", "baseline_record"}
  BY DEF GateRefused, OutcomeKinds
<1>3. r.kind = "baseline_record" => r.trust.provenance = Untrusted /\ Promotes(r.promotion)
  BY PromotionHolds DEF GateRefused
<1>4. ASSUME r.trust # None
      PROVE  /\ r.trust.provenance = Trusted =>
                  r.trust.attestation # None /\ ~AttestationRefused(r.trust.attestation, request.host)
             /\ r.trust.attestation # None => r.trust.provenance = Trusted
  BY <1>4 DEF TrustRefused, Trusted, Untrusted
<1>5. r.trust # None /\ r.trust.attestation # None => MadeByTheLane(r.trust.attestation)
  BY <1>4, ClaimIsTrue
<1>6. QED
  BY <1>1, <1>2, <1>3, <1>4, <1>5 DEF RecordIsSound

-----------------------------------------------------------------------------
(***************************************************************************)
(* The facts are about what the run was given, which no step changes.      *)
(***************************************************************************)
LEMMA DocumentsStand ==
  ASSUME UNCHANGED input
  PROVE  /\ ToolsAdmitted' = ToolsAdmitted
         /\ ManifestsListed' = ManifestsListed
         /\ AuthoritiesAdmitted' = AuthoritiesAdmitted
         /\ EvidenceListed' = EvidenceListed
         /\ CatalogIds' = CatalogIds
         /\ CatalogAdmitted' = CatalogAdmitted
         /\ LicencesAdmitted' = LicencesAdmitted
         /\ ArtifactsAdmitted' = ArtifactsAdmitted
         /\ FetchesAdmitted' = FetchesAdmitted
         /\ ManagedIds' = ManagedIds
         /\ ToolchainAdmitted' = ToolchainAdmitted
         /\ ReferencesAdmitted' = ReferencesAdmitted
<1>1. tree' = tree
  BY DEF tree
<1>2. \A p : Kind(p)' = Kind(p)
  BY <1>1 DEF Kind
<1>3. \A dir : Beneath(dir)' = Beneath(dir)
  BY <1>1 DEF Beneath
<1>4. CatalogIds' = CatalogIds /\ ManagedIds' = ManagedIds
  BY <1>1 DEF CatalogIds, ManagedIds
<1>5. ToolsAdmitted' = ToolsAdmitted
  BY <1>1 DEF ToolsAdmitted
<1>6. ManifestsListed' = ManifestsListed
  BY <1>1, <1>2, <1>3 DEF ManifestsListed, ToolManifests
<1>7. AuthoritiesAdmitted' = AuthoritiesAdmitted
  BY <1>1 DEF AuthoritiesAdmitted
<1>8. EvidenceListed' = EvidenceListed
  BY <1>1, <1>2, <1>3 DEF EvidenceListed
<1>9. CatalogAdmitted' = CatalogAdmitted
  BY <1>1 DEF CatalogAdmitted
<1>10. LicencesAdmitted' = LicencesAdmitted
  BY <1>1, <1>4 DEF LicencesAdmitted, Documented
<1>11. ArtifactsAdmitted' = ArtifactsAdmitted
  BY <1>1, <1>4 DEF ArtifactsAdmitted
<1>12. FetchesAdmitted' = FetchesAdmitted
  BY <1>1, <1>2, <1>3, <1>4 DEF FetchesAdmitted, FetchedAsLocked
<1>13. ToolchainAdmitted' = ToolchainAdmitted
  BY <1>1, <1>4 DEF ToolchainAdmitted
<1>14. ReferencesAdmitted' = ReferencesAdmitted
  BY <1>1, <1>4 DEF ReferencesAdmitted
<1>15. QED
  BY <1>4, <1>5, <1>6, <1>7, <1>8, <1>9, <1>10, <1>11, <1>12, <1>13, <1>14

\* So are the conclusions.
LEMMA ConclusionsStand ==
  ASSUME UNCHANGED input
  PROVE  /\ LicencesReviewed' = LicencesReviewed
         /\ PreparedForOffline' = PreparedForOffline
         /\ DeliveredWhereKnown' = DeliveredWhereKnown
         /\ NothingOfATool' = NothingOfATool
         /\ RecordIsSound' = RecordIsSound
<1>1. tree' = tree /\ request' = request
  BY DEF tree, request
<1>2. \A p : Kind(p)' = Kind(p)
  BY <1>1 DEF Kind
<1>3. \A dir : Beneath(dir)' = Beneath(dir)
  BY <1>1 DEF Beneath
<1>4. LicencesReviewed' = LicencesReviewed
  BY <1>1 DEF LicencesReviewed
<1>5. PreparedForOffline' = PreparedForOffline
  BY <1>1 DEF PreparedForOffline
<1>6. DeliveredWhereKnown' = DeliveredWhereKnown
  BY <1>1, <1>2 DEF DeliveredWhereKnown
<1>7. NothingOfATool' = NothingOfATool
  BY <1>1, <1>2, <1>3 DEF NothingOfATool, ToolManifests
<1>8. RecordIsSound' = RecordIsSound
  BY <1>1 DEF RecordIsSound, MadeByTheLane
<1>9. QED
  BY <1>4, <1>5, <1>6, <1>7, <1>8

-----------------------------------------------------------------------------
(***************************************************************************)
(* The inductive invariant: where a run stands says what has been held to  *)
(* its rules, and what the run has learnt is what the tree says.           *)
(***************************************************************************)
Operations == Validating \union Auditing \union Recording \union Elsewhere

ReadingStages ==
  {"repository", "tool manifests", "unlisted manifests", "authorities", "unlisted evidence",
   "catalog", "licences", "artifacts", "fetches", "toolchain", "references"}

LaterStages == {"descriptor", "gate", "trust", "answer", "ended"}

\* The stages of reading a repository, from the last backwards: past each of them.
Validated          == request.operation \in Validating /\ (stage \in Validating \union {"answer"} \/ exit = "ok")
PastToolchain      == stage = "references" \/ Validated
PastFetches        == stage = "toolchain" \/ PastToolchain
PastArtifacts      == stage = "fetches" \/ PastFetches
PastLicences       == stage = "artifacts" \/ PastArtifacts
PastCatalog        == stage = "licences" \/ PastLicences
PastEvidence       == stage = "catalog" \/ PastCatalog
PastAuthorities    == stage = "unlisted evidence" \/ PastEvidence
PastManifestsThere == stage = "authorities" \/ PastAuthorities
PastManifests      == stage = "unlisted manifests" \/ PastManifestsThere

\* Each stage belongs to an operation, and no run ends well before its last.
Staged ==
  /\ stage \in ReadingStages => request.operation \in Validating
  /\ stage \in Operations => stage = request.operation
  /\ stage \in {"descriptor", "trust"} => request.operation = "validate record"
  /\ stage = "gate" => request.operation \in Recording
  /\ stage = "answer" => request.operation \in Validating \union Auditing
  /\ exit = "ok" => stage = "ended"
  /\ DOMAIN found = DOMAIN NothingRead

DocumentsAdmitted ==
  /\ PastManifests => ToolsAdmitted /\ found.tools = Range(tree.repository.tools)
  /\ PastManifestsThere => ManifestsListed
  /\ PastAuthorities => AuthoritiesAdmitted
  /\ PastEvidence => EvidenceListed
  /\ PastCatalog => CatalogAdmitted /\ found.catalog = CatalogIds
  /\ PastLicences => LicencesAdmitted
  /\ PastArtifacts => ArtifactsAdmitted
  /\ PastFetches => FetchesAdmitted
  /\ PastToolchain => ToolchainAdmitted /\ found.managed = ManagedIds
  /\ Validated => ReferencesAdmitted

\* What the audit that was asked for is to find.
Entitled ==
  /\ request.operation = "review licenses" => LicencesReviewed
  /\ request.operation = "verify-offline" => PreparedForOffline
  /\ request.operation = "audit paths" /\ tree.closed = {} => DeliveredWhereKnown
  /\ request.operation = "audit shipping-closure" /\ tree.closed = {} => NothingOfATool

Concluded ==
  /\ stage = "answer" /\ found.passed => Entitled
  /\ exit = "ok" => Entitled

RecordRead ==
  request.operation = "validate record" =>
    /\ stage \in {"gate", "trust"} => (request.described => Describes(tree.descriptor, tree.record))
    /\ stage = "trust" => ~GateRefused(tree.record)
    /\ exit = "ok" => RecordIsSound

\* The audit of paths is given trees whose every path Spelt knows.
Spellable == request.operation = "audit paths" => DOMAIN tree.files \subseteq DOMAIN Spelt

IInv == Staged /\ DocumentsAdmitted /\ Concluded /\ RecordRead /\ Spellable

\* No stage is an operation, and no operation is of two kinds.
LEMMA NamesAreApart ==
  /\ \A s \in ReadingStages \union LaterStages \union {"rf-evidence"} : s \notin Operations
  /\ \A s \in ReadingStages \union {"rf-evidence"} : s \notin LaterStages
  /\ "rf-evidence" \notin ReadingStages
  /\ \A o \in Validating : o \notin Auditing /\ o \notin Recording /\ o \notin Elsewhere
  /\ \A o \in Auditing : o \notin Recording /\ o \notin Elsewhere
  /\ \A o \in Recording : o \notin Elsewhere
<1>1. \A s \in ReadingStages \union LaterStages \union {"rf-evidence"} :
        s \notin Validating /\ s \notin Auditing /\ s \notin Recording /\ s \notin Elsewhere
  BY ZenonT(60) DEF ReadingStages, LaterStages, Validating, Auditing, Recording, Elsewhere
<1>2. \A s \in ReadingStages \union {"rf-evidence"} : s \notin LaterStages
  BY Zenon DEF ReadingStages, LaterStages
<1>3. "rf-evidence" \notin ReadingStages
  BY Zenon DEF ReadingStages
<1>4. \A o \in Validating : o \notin Auditing /\ o \notin Recording /\ o \notin Elsewhere
  BY ZenonT(30) DEF Validating, Auditing, Recording, Elsewhere
<1>5. \A o \in Auditing : o \notin Recording /\ o \notin Elsewhere
  BY Zenon DEF Auditing, Recording, Elsewhere
<1>6. \A o \in Recording : o \notin Elsewhere
  BY Zenon DEF Recording, Elsewhere
<1>7. QED
  BY <1>1, <1>2, <1>3, <1>4, <1>5, <1>6, Zenon DEF Operations

\* A run that has not begun to read, reads something else, or has failed.
Aside ==
  /\ stage \in {"rf-evidence", "ended"} \union Auditing \union Recording \union Elsewhere
                 \union {"descriptor", "gate", "trust"}
  /\ exit # "ok"

\* It is past nothing.
LEMMA NothingIsPast == Aside => DocumentsAdmitted
<1> SUFFICES ASSUME Aside PROVE DocumentsAdmitted
  OBVIOUS
<1>. USE DEF Aside
<1>1. stage \notin ReadingStages /\ stage # "answer"
  <2>1. CASE stage \in {"rf-evidence", "ended", "descriptor", "gate", "trust"}
    BY <2>1, Zenon DEF ReadingStages
  <2>2. CASE stage \in Auditing \union Recording \union Elsewhere
    BY <2>2, NamesAreApart, Zenon DEF Operations, LaterStages
  <2>3. QED
    BY <2>1, <2>2, Zenon
<1>2. ~Validated
  <2>1. CASE stage \in {"rf-evidence", "ended", "descriptor", "gate", "trust"}
    <3>1. stage \notin Validating
      BY <2>1, NamesAreApart, Zenon DEF Operations, LaterStages
    <3>2. QED
      BY <1>1, <3>1 DEF Validated
  <2>2. CASE stage \in Auditing \union Recording \union Elsewhere
    <3>1. stage \notin Validating
      BY <2>2, NamesAreApart, Zenon
    <3>2. QED
      BY <1>1, <3>1 DEF Validated
  <2>3. QED
    BY <2>1, <2>2, Zenon
<1>3. QED
  BY <1>1, <1>2 DEF DocumentsAdmitted, ReadingStages, PastManifests, PastManifestsThere, PastAuthorities, PastEvidence,
                    PastCatalog, PastLicences, PastArtifacts, PastFetches, PastToolchain

\* What was to be found stays so.
LEMMA EarnedStands == ASSUME UNCHANGED input, Entitled PROVE Entitled'
<1>1. tree' = tree /\ request' = request
  BY DEF tree, request
<1>2. QED
  BY <1>1, ConclusionsStand, Zenon DEF Entitled

\* A run that begins has claimed nothing.
LEMMA Initially == Begin("rf-evidence", NothingRead) => IInv
<1> SUFFICES ASSUME Begin("rf-evidence", NothingRead) PROVE IInv
  OBVIOUS
<1>1. stage = "rf-evidence" /\ found = NothingRead /\ exit = None
  BY Zenon DEF Begin
<1>2. exit # "ok"
  BY <1>1, EvidenceAssumption, Zenon DEF EvidenceExits
<1>3. stage \notin Operations /\ stage \notin ReadingStages /\ stage \notin LaterStages
  BY <1>1, NamesAreApart, Zenon
<1>4. Staged
  BY <1>1, <1>2, <1>3 DEF Staged, LaterStages
<1>5. DocumentsAdmitted
  BY <1>1, <1>2, NothingIsPast, Zenon DEF Aside
<1>6. Concluded /\ RecordRead
  BY <1>2, <1>3 DEF Concluded, RecordRead, LaterStages
<1>7. Spellable
  <2>1. PICK i \in Invocations :
          i.tool = "rf-evidence" /\ input = [request |-> i.request, tree |-> Trees[i.tree]]
    BY Zenon DEF Begin
  <2>2. tree = Trees[i.tree] /\ request = i.request
    BY <2>1 DEF tree, request
  <2>3. QED
    BY <2>1, <2>2, EvidenceAssumption, Zenon DEF Spellable
<1>8. QED
  BY <1>4, <1>5, <1>6, <1>7 DEF IInv

\* The paths that are known stay known.
LEMMA SpellableStands == ASSUME Spellable, UNCHANGED input PROVE Spellable'
BY DEF Spellable, tree, request

\* A run that ends without success claims nothing.
LEMMA RefusalClaimsNothing ==
  ASSUME IInv, NEW class, End(class), class # "ok"
  PROVE  IInv'
<1>1. stage' = "ended" /\ exit' # "ok" /\ UNCHANGED <<input, found>>
  BY DEF End
<1>2. stage' \notin Operations /\ stage' \notin ReadingStages
  <2>1. "ended" \notin Operations
    BY NamesAreApart, Zenon DEF LaterStages
  <2>2. "ended" \notin ReadingStages
    BY Zenon DEF ReadingStages
  <2>3. QED
    BY <1>1, <2>1, <2>2
<1>3. Staged'
  BY <1>1, <1>2 DEF Staged, IInv
<1>4. DocumentsAdmitted'
  <2>1. Aside'
    BY <1>1 DEF Aside
  <2>2. QED
    BY <2>1, NothingIsPast, PTL
<1>5. Concluded' /\ RecordRead'
  BY <1>1 DEF Concluded, RecordRead
<1>6. QED
  BY <1>1, <1>3, <1>4, <1>5, SpellableStands DEF IInv

\* A run that has not ended has not ended well.
LEMMA StillOpen == IInv /\ stage # "ended" => exit # "ok"
BY DEF IInv, Staged

\* A step of reading claims what it has held to its rules, and nothing else.
LEMMA ReadingClaimsWhatItRead ==
  ASSUME IInv, stage # "ended", request.operation \in Validating,
         NEW next \in ReadingStages, NEW what, DOMAIN what = DOMAIN NothingRead,
         Learn(next, what), DocumentsAdmitted'
  PROVE  IInv'
<1>1. stage' = next /\ found' = what /\ UNCHANGED <<input, request, exit>> /\ exit' # "ok"
  BY StillOpen DEF Learn, request
<1>2. next \notin Operations /\ next \notin LaterStages
  BY NamesAreApart, Zenon
<1>3. Staged'
  BY <1>1, <1>2 DEF Staged, LaterStages
<1>4. Concluded' /\ RecordRead'
  BY <1>1, <1>2 DEF Concluded, RecordRead, LaterStages
<1>5. QED
  BY <1>1, <1>3, <1>4, SpellableStands DEF IInv

\* An answer claims what the audit that was asked for found.
LEMMA AnswerClaimsItsAudit ==
  ASSUME IInv, stage \in Validating \union Auditing,
         NEW what, DOMAIN what = DOMAIN NothingRead, what.passed => Entitled,
         what.tools = found.tools, what.catalog = found.catalog, what.managed = found.managed,
         Learn("answer", what)
  PROVE  IInv'
<1>1. stage' = "answer" /\ found' = what /\ UNCHANGED <<input, request, tree, exit>>
  BY DEF Learn, request, tree
<1>2. stage \in Operations /\ stage = request.operation /\ stage # "ended"
  <2>1. stage \in Operations
    BY Zenon DEF Operations
  <2>2. "ended" \notin Operations
    BY NamesAreApart, Zenon DEF LaterStages
  <2>3. QED
    BY <2>1, <2>2 DEF IInv, Staged
<1>3. exit' # "ok"
  BY <1>1, <1>2, StillOpen
<1>4. "answer" \notin Operations /\ "answer" \notin ReadingStages
  BY NamesAreApart, Zenon DEF LaterStages, ReadingStages
<1>5. Staged'
  BY <1>1, <1>2, <1>3, <1>4 DEF Staged
<1>6. Validated' => Validated
  BY <1>1, <1>2, <1>3 DEF Validated
<1>7. DocumentsAdmitted'
  <2>1. Validated' => DocumentsAdmitted'
    BY <1>1, <1>6, DocumentsStand DEF IInv, DocumentsAdmitted, PastManifests, PastManifestsThere, PastAuthorities,
                    PastEvidence, PastCatalog, PastLicences, PastArtifacts, PastFetches, PastToolchain
  <2>2. ~Validated' => DocumentsAdmitted'
    BY <1>1 DEF DocumentsAdmitted, PastManifests, PastManifestsThere, PastAuthorities,
                    PastEvidence, PastCatalog, PastLicences, PastArtifacts, PastFetches, PastToolchain
  <2>3. QED
    BY <2>1, <2>2
<1>8. Concluded'
  BY <1>1, <1>3, EarnedStands DEF Concluded
<1>9. RecordRead'
  BY <1>1, <1>3 DEF RecordRead
<1>10. QED
  BY <1>1, <1>5, <1>7, <1>8, <1>9, SpellableStands DEF IInv

\* The stages at which the repository is read, and what being at each of them says.
LEMMA EachReadingStage ==
  ASSUME IInv, stage \in ReadingStages
  PROVE  /\ stage # "ended" /\ request.operation \in Validating /\ ~Validated
         /\ DOMAIN found = DOMAIN NothingRead
<1>1. stage \notin Operations /\ stage \notin LaterStages
  BY NamesAreApart, Zenon
<1>2. stage # "ended" /\ stage # "answer" /\ stage \notin Validating
  BY <1>1, Zenon DEF Operations, LaterStages
<1>3. QED
  BY <1>2 DEF IInv, Staged, Validated

\* One step of reading, the refusal aside: what it learns, and where it is then.
ReadsOn(at, next, what) ==
  /\ stage = at /\ stage' = next
  /\ found' = what /\ DOMAIN found = DOMAIN NothingRead
  /\ UNCHANGED <<input, tree, request, exit>>
  /\ exit # "ok" /\ ~Validated /\ ~Validated'

\* A step of reading keeps the invariant if it keeps what has been admitted.
LEMMA OneStepOfReading ==
  ASSUME IInv, NEW at \in ReadingStages, NEW next \in ReadingStages, NEW refused, NEW what,
         DOMAIN what = DOMAIN found, Read(at, next, refused, what),
         ~refused /\ ReadsOn(at, next, what) => DocumentsAdmitted'
  PROVE  IInv'
<1>1. stage = at /\ (IF refused THEN End("failure") ELSE Learn(next, what))
  BY DEF Read
<1>2. CASE refused
  BY <1>1, <1>2, RefusalClaimsNothing
<1>3. CASE ~refused
  <2>1. Learn(next, what)
    BY <1>1, <1>3
  <2>2. /\ stage # "ended" /\ request.operation \in Validating /\ ~Validated /\ exit # "ok"
        /\ DOMAIN found = DOMAIN NothingRead
    BY <1>1, EachReadingStage, StillOpen
  <2>3. stage' = next /\ found' = what /\ UNCHANGED <<input, tree, request, exit>>
    BY <2>1 DEF Learn, tree, request
  <2>4. next \notin Validating /\ next # "answer"
    BY NamesAreApart, Zenon DEF Operations, LaterStages
  <2>5. ReadsOn(at, next, what)
    BY <1>1, <2>2, <2>3, <2>4 DEF ReadsOn, Validated
  <2>6. QED
    BY <1>3, <2>1, <2>2, <2>5, ReadingClaimsWhatItRead
<1>4. QED
  BY <1>2, <1>3

\* Each document is read against what the earlier ones admitted.
LEMMA ReadingKeeps ==
  ASSUME IInv,
         \/ ReadRepository \/ ReadManifests \/ RejectUnlistedManifests
         \/ ReadAuthorities \/ RejectUnlistedEvidence
         \/ LoadCatalog \/ LoadLicences \/ LoadArtifacts \/ LoadDelegatedFetches \/ LoadToolchain
  PROVE  IInv'
<1> USE DEF ReadingStages
<1>1. CASE ReadRepository
  <2>1. Read("repository", "tool manifests", RepositoryRefused, found)
    BY <1>1 DEF ReadRepository
  <2>2. ~RepositoryRefused /\ ReadsOn("repository", "tool manifests", found) => DocumentsAdmitted'
    BY DocumentsStand
       DEF ReadsOn, IInv, DocumentsAdmitted, NothingRead, PastManifests, PastManifestsThere, PastAuthorities,
           PastEvidence, PastCatalog, PastLicences, PastArtifacts, PastFetches, PastToolchain
  <2>3. QED
    BY <2>1, <2>2, OneStepOfReading
<1>2. CASE ReadManifests
  <2> DEFINE what == [found EXCEPT !.tools = Range(tree.repository.tools)]
  <2>1. Read("tool manifests", "unlisted manifests", ManifestsRefused, what)
    BY <1>2 DEF ReadManifests
  <2>2. ~ManifestsRefused /\ ReadsOn("tool manifests", "unlisted manifests", what) => DocumentsAdmitted'
    BY DocumentsStand, ManifestsAreRead
       DEF ReadsOn, IInv, DocumentsAdmitted, NothingRead, PastManifests, PastManifestsThere, PastAuthorities,
           PastEvidence, PastCatalog, PastLicences, PastArtifacts, PastFetches, PastToolchain
  <2>3. DOMAIN what = DOMAIN found
    OBVIOUS
  <2> HIDE DEF what
  <2>4. QED
    BY <2>1, <2>2, <2>3, OneStepOfReading
<1>3. CASE RejectUnlistedManifests
  <2>1. Read("unlisted manifests", "authorities", UnlistedManifest, found)
    BY <1>3 DEF RejectUnlistedManifests
  <2>2. ~UnlistedManifest /\ ReadsOn("unlisted manifests", "authorities", found) => DocumentsAdmitted'
    BY DocumentsStand, ManifestsAreListed
       DEF ReadsOn, IInv, DocumentsAdmitted, NothingRead, PastManifests, PastManifestsThere, PastAuthorities,
           PastEvidence, PastCatalog, PastLicences, PastArtifacts, PastFetches, PastToolchain
  <2>3. QED
    BY <2>1, <2>2, OneStepOfReading
<1>4. CASE ReadAuthorities
  <2>1. Read("authorities", "unlisted evidence", AuthoritiesRefused, found)
    BY <1>4 DEF ReadAuthorities
  <2>2. ~AuthoritiesRefused /\ ReadsOn("authorities", "unlisted evidence", found) => DocumentsAdmitted'
    BY DocumentsStand, AuthoritiesAreRead
       DEF ReadsOn, IInv, DocumentsAdmitted, NothingRead, PastManifests, PastManifestsThere, PastAuthorities,
           PastEvidence, PastCatalog, PastLicences, PastArtifacts, PastFetches, PastToolchain
  <2>3. QED
    BY <2>1, <2>2, OneStepOfReading
<1>5. CASE RejectUnlistedEvidence
  <2>1. Read("unlisted evidence", "catalog", UnlistedEvidence, found)
    BY <1>5 DEF RejectUnlistedEvidence
  <2>2. ~UnlistedEvidence /\ ReadsOn("unlisted evidence", "catalog", found) => DocumentsAdmitted'
    BY DocumentsStand, EvidenceIsListed
       DEF ReadsOn, IInv, DocumentsAdmitted, NothingRead, PastManifests, PastManifestsThere, PastAuthorities,
           PastEvidence, PastCatalog, PastLicences, PastArtifacts, PastFetches, PastToolchain
  <2>3. QED
    BY <2>1, <2>2, OneStepOfReading
<1>6. CASE LoadCatalog
  <2> DEFINE what == [found EXCEPT !.catalog = CatalogIds]
  <2>1. Read("catalog", "licences", CatalogRefused, what)
    BY <1>6 DEF LoadCatalog, CatalogIds
  <2>2. ~CatalogRefused /\ ReadsOn("catalog", "licences", what) => DocumentsAdmitted'
    BY DocumentsStand, CatalogIsRead
       DEF ReadsOn, IInv, DocumentsAdmitted, NothingRead, PastManifests, PastManifestsThere, PastAuthorities,
           PastEvidence, PastCatalog, PastLicences, PastArtifacts, PastFetches, PastToolchain
  <2>3. DOMAIN what = DOMAIN found
    OBVIOUS
  <2> HIDE DEF what
  <2>4. QED
    BY <2>1, <2>2, <2>3, OneStepOfReading
<1>7. CASE LoadLicences
  <2> DEFINE what == [found EXCEPT !.licences = Lowered(Range(Member(tree.licences.entries, "id")))]
  <2>1. Read("licences", "artifacts", LicencesRefused, what)
    BY <1>7 DEF LoadLicences
  <2>2. ~LicencesRefused /\ ReadsOn("licences", "artifacts", what) => DocumentsAdmitted'
    BY DocumentsStand, LicencesAreRead
       DEF ReadsOn, IInv, DocumentsAdmitted, NothingRead, PastManifests, PastManifestsThere, PastAuthorities,
           PastEvidence, PastCatalog, PastLicences, PastArtifacts, PastFetches, PastToolchain
  <2>3. DOMAIN what = DOMAIN found
    OBVIOUS
  <2> HIDE DEF what
  <2>4. QED
    BY <2>1, <2>2, <2>3, OneStepOfReading
<1>8. CASE LoadArtifacts
  <2> DEFINE what == [found EXCEPT !.artifacts = Lowered(Range(Member(tree.artifacts, "id")))]
  <2>1. Read("artifacts", "fetches", ArtifactsRefused, what)
    BY <1>8 DEF LoadArtifacts
  <2>2. ~ArtifactsRefused /\ ReadsOn("artifacts", "fetches", what) => DocumentsAdmitted'
    BY DocumentsStand, ArtifactsAreRead
       DEF ReadsOn, IInv, DocumentsAdmitted, NothingRead, PastManifests, PastManifestsThere, PastAuthorities,
           PastEvidence, PastCatalog, PastLicences, PastArtifacts, PastFetches, PastToolchain
  <2>3. DOMAIN what = DOMAIN found
    OBVIOUS
  <2> HIDE DEF what
  <2>4. QED
    BY <2>1, <2>2, <2>3, OneStepOfReading
<1>9. CASE LoadDelegatedFetches
  <2> DEFINE what == [found EXCEPT !.artifacts = @ \union Lowered(Range(Member(tree.fetches, "id")))]
  <2>1. Read("fetches", "toolchain", FetchesRefused, what)
    BY <1>9 DEF LoadDelegatedFetches
  <2>2. ~FetchesRefused /\ ReadsOn("fetches", "toolchain", what) => DocumentsAdmitted'
    BY DocumentsStand, FetchesAreRead
       DEF ReadsOn, IInv, DocumentsAdmitted, NothingRead, PastManifests, PastManifestsThere, PastAuthorities,
           PastEvidence, PastCatalog, PastLicences, PastArtifacts, PastFetches, PastToolchain
  <2>3. DOMAIN what = DOMAIN found
    OBVIOUS
  <2> HIDE DEF what
  <2>4. QED
    BY <2>1, <2>2, <2>3, OneStepOfReading
<1>10. CASE LoadToolchain
  <2> DEFINE what == [found EXCEPT !.managed = ManagedIds]
  <2>1. Read("toolchain", "references", ToolchainRefused, what)
    BY <1>10 DEF LoadToolchain, ManagedIds
  <2>2. ~ToolchainRefused /\ ReadsOn("toolchain", "references", what) => DocumentsAdmitted'
    BY DocumentsStand, ToolchainIsRead
       DEF ReadsOn, IInv, DocumentsAdmitted, NothingRead, PastManifests, PastManifestsThere, PastAuthorities,
           PastEvidence, PastCatalog, PastLicences, PastArtifacts, PastFetches, PastToolchain
  <2>3. DOMAIN what = DOMAIN found
    OBVIOUS
  <2> HIDE DEF what
  <2>4. QED
    BY <2>1, <2>2, <2>3, OneStepOfReading
<1>11. QED
  BY <1>1, <1>2, <1>3, <1>4, <1>5, <1>6, <1>7, <1>8, <1>9, <1>10

\* The command line leads to an operation, or to validation first.
LEMMA ArgumentsKeep == ASSUME IInv, EvidenceArguments PROVE IInv'
<1>1. stage = "rf-evidence" /\ stage # "ended"
  BY Zenon DEF EvidenceArguments
<1>2. \/ End("failure") \/ End("usage")
      \/ request.operation \in Validating /\ Go("repository")
      \/ request.operation \in Auditing \union Recording \union Elsewhere /\ Go(request.operation)
  BY Zenon DEF EvidenceArguments, EvidenceUsable
<1>3. CASE End("failure") \/ End("usage")
  BY <1>3, RefusalClaimsNothing
<1>4. CASE request.operation \in Validating /\ Go("repository")
  <2>1. Learn("repository", found) /\ DOMAIN found = DOMAIN NothingRead
    BY <1>4 DEF Go, Learn, IInv, Staged
  <2>2. DocumentsAdmitted'
    <3>1. stage' = "repository" /\ exit' # "ok"
      BY <1>1, <2>1, StillOpen DEF Learn
    <3>2. ~Validated'
      BY <3>1, NamesAreApart, Zenon DEF Validated, Operations, LaterStages, ReadingStages
    <3>3. QED
      BY <3>1, <3>2 DEF DocumentsAdmitted, PastManifests, PastManifestsThere, PastAuthorities, PastEvidence,
                        PastCatalog, PastLicences, PastArtifacts, PastFetches, PastToolchain
  <2>3. QED
    BY <1>1, <1>4, <2>1, <2>2, ReadingClaimsWhatItRead DEF ReadingStages
<1>5. CASE request.operation \in Auditing \union Recording \union Elsewhere /\ Go(request.operation)
  <2>1. /\ stage' = request.operation /\ exit' # "ok" /\ UNCHANGED <<input, request, found, exit>>
    BY <1>1, <1>5, StillOpen DEF Go, request
  <2>2. stage' \in Operations /\ stage' \notin ReadingStages /\ stage' \notin LaterStages
    BY <1>5, <2>1, NamesAreApart, Zenon DEF Operations
  <2>3. Staged'
    BY <2>1, <2>2 DEF IInv, Staged, LaterStages
  <2>4. DocumentsAdmitted'
    <3>1. Aside'
      BY <1>5, <2>1 DEF Aside
    <3>2. QED
      BY <3>1, NothingIsPast, PTL
  <2>5. Concluded' /\ RecordRead'
    BY <2>1, <2>2 DEF Concluded, RecordRead, LaterStages
  <2>6. QED
    BY <2>1, <2>3, <2>4, <2>5, SpellableStands DEF IInv
<1>6. QED
  BY <1>2, <1>3, <1>4, <1>5

\* A run that ends well claims what was earned of it.
LEMMA SuccessClaimsWhatWasEarned ==
  ASSUME IInv, End("ok"), Entitled,
         request.operation \in Validating => Validated,
         request.operation = "validate record" => RecordIsSound
  PROVE  IInv'
<1>1. stage' = "ended" /\ exit' = "ok" /\ UNCHANGED <<input, request, tree, found>>
  BY DEF End, request, tree
<1>2. stage' \notin Operations /\ stage' \notin ReadingStages
  <2>1. "ended" \notin Operations /\ "ended" \notin ReadingStages
    BY NamesAreApart, Zenon DEF LaterStages
  <2>2. QED
    BY <1>1, <2>1
<1>3. Staged'
  BY <1>1, <1>2 DEF IInv, Staged
<1>4. DocumentsAdmitted'
  <2>1. CASE request.operation \in Validating
    BY <1>1, <2>1, DocumentsStand
       DEF IInv, DocumentsAdmitted, PastManifests, PastManifestsThere, PastAuthorities,
           PastEvidence, PastCatalog, PastLicences, PastArtifacts, PastFetches, PastToolchain
  <2>2. CASE request.operation \notin Validating
    BY <1>1, <2>2
       DEF Validated, DocumentsAdmitted, PastManifests, PastManifestsThere, PastAuthorities,
           PastEvidence, PastCatalog, PastLicences, PastArtifacts, PastFetches, PastToolchain
  <2>3. QED
    BY <2>1, <2>2
<1>5. Concluded' /\ RecordRead'
  BY <1>1, EarnedStands, ConclusionsStand DEF Concluded, RecordRead
<1>6. QED
  BY <1>1, <1>3, <1>4, <1>5, SpellableStands DEF IInv

\* Operations on records, blobs and evidence sets have no audit to pass.
LEMMA NothingToEarn ==
  ASSUME request.operation \in Recording \union Elsewhere
  PROVE  Entitled /\ request.operation \notin Validating
<1>1. request.operation \notin Auditing /\ request.operation \notin Validating
  BY NamesAreApart, Zenon
<1>2. Entitled
  BY <1>1, Zenon DEF Entitled, Auditing, Validating
<1>3. QED
  BY <1>1, <1>2

\* An operation on blobs or sets claims nothing of the checkout.
LEMMA AbroadKeeps == ASSUME IInv, OperateElsewhere PROVE IInv'
<1>1. PICK class \in EvidenceExits : End(class)
  BY DEF OperateElsewhere
<1>2. request.operation \in Elsewhere
  BY Zenon DEF OperateElsewhere, IInv, Staged, Operations
<1>3. request.operation # "validate record"
  BY <1>2, NamesAreApart, Zenon DEF Recording
<1>4. CASE class = "ok"
  BY <1>1, <1>2, <1>3, <1>4, NothingToEarn, SuccessClaimsWhatWasEarned
<1>5. CASE class # "ok"
  BY <1>1, <1>5, RefusalClaimsNothing
<1>6. QED
  BY <1>4, <1>5

\* The steps of reading a record, before the last.
LEMMA RecordGoesOn ==
  ASSUME IInv, stage \in Recording \union {"descriptor", "gate"}, NEW next \in {"descriptor", "gate", "trust"},
         Learn(next, found), request.operation \in Recording,
         next # "gate" => request.operation = "validate record",
         next \in {"gate", "trust"} /\ request.operation = "validate record" =>
           (request.described => Describes(tree.descriptor, tree.record)),
         next = "trust" => ~GateRefused(tree.record)
  PROVE  IInv'
<1>1. stage # "ended"
  <2>1. "ended" \notin Recording
    BY Zenon DEF Recording
  <2>2. QED
    BY <2>1
<1>2. stage' = next /\ exit' # "ok" /\ UNCHANGED <<input, request, tree, found, exit>>
  BY <1>1, StillOpen DEF Learn, request, tree
<1>3. next \notin Operations /\ next \notin ReadingStages /\ next # "answer"
  <2>1. next \notin Operations
    BY NamesAreApart, Zenon DEF LaterStages
  <2>2. next \notin ReadingStages
    BY NamesAreApart, Zenon DEF LaterStages
  <2>3. QED
    BY <2>1, <2>2
<1>4. Staged'
  BY <1>2, <1>3 DEF IInv, Staged
<1>5. DocumentsAdmitted'
  <2>1. Aside'
    BY <1>2 DEF Aside
  <2>2. QED
    BY <2>1, NothingIsPast, PTL
<1>6. Concluded'
  BY <1>2, <1>3 DEF Concluded
<1>7. RecordRead'
  <2>1. Describes(tree.descriptor, tree.record)' = Describes(tree.descriptor, tree.record)
    BY <1>2 DEF Describes
  <2>2. GateRefused(tree.record)' = GateRefused(tree.record)
    BY <1>2 DEF GateRefused, OfSchema, PromotionRefused
  <2>3. QED
    BY <1>2, <2>1, <2>2 DEF RecordRead
<1>8. QED
  BY <1>2, <1>4, <1>5, <1>6, <1>7, SpellableStands DEF IInv

\* A record is described, gated and trusted in that order.
LEMMA RecordsKeep ==
  ASSUME IInv, ReadRecord \/ CheckDescriptor \/ GateRecord \/ DeriveTrust
  PROVE  IInv'
<1>1. CASE ReadRecord
  <2>1. stage \in Recording /\ stage = request.operation
    BY <1>1, Zenon DEF ReadRecord, IInv, Staged, Operations
  <2>2. \/ End("usage") \/ End("failure")
        \/ request.operation = "validate record" /\ Go("descriptor")
        \/ request.operation # "validate record" /\ Go("gate")
    BY <1>1, <2>1 DEF ReadRecord
  <2>3. CASE End("usage") \/ End("failure")
    BY <2>3, RefusalClaimsNothing
  <2>4. CASE request.operation = "validate record" /\ Go("descriptor")
    BY <2>1, <2>4, RecordGoesOn DEF Go, Learn
  <2>5. CASE request.operation # "validate record" /\ Go("gate")
    BY <2>1, <2>5, RecordGoesOn DEF Go, Learn
  <2>6. QED
    BY <2>2, <2>3, <2>4, <2>5
<1>2. CASE CheckDescriptor
  <2>1. /\ stage = "descriptor"
        /\ IF request.described /\ ~Describes(tree.descriptor, tree.record) THEN End("failure")
           ELSE Learn("gate", found)
    BY <1>2 DEF CheckDescriptor, Read
  <2>2. request.operation = "validate record" /\ request.operation \in Recording
    BY <2>1 DEF IInv, Staged, Recording
  <2>3. CASE request.described /\ ~Describes(tree.descriptor, tree.record)
    BY <2>1, <2>3, RefusalClaimsNothing
  <2>4. CASE request.described => Describes(tree.descriptor, tree.record)
    BY <2>1, <2>2, <2>4, RecordGoesOn
  <2>5. QED
    BY <2>3, <2>4
<1>3. CASE GateRecord
  <2>1. stage = "gate" /\ request.operation \in Recording
    BY <1>3 DEF GateRecord, IInv, Staged
  <2>2. \/ End("failure")
        \/ ~GateRefused(tree.record) /\ request.operation = "validate record" /\ Go("trust")
        \/ request.operation # "validate record" /\ End("ok")
    BY <1>3 DEF GateRecord
  <2>3. CASE End("failure")
    BY <2>3, RefusalClaimsNothing
  <2>4. CASE ~GateRefused(tree.record) /\ request.operation = "validate record" /\ Go("trust")
    BY <2>1, <2>4, RecordGoesOn DEF Go, Learn, IInv, RecordRead
  <2>5. CASE request.operation # "validate record" /\ End("ok")
    BY <2>1, <2>5, NothingToEarn, SuccessClaimsWhatWasEarned
  <2>6. QED
    BY <2>2, <2>3, <2>4, <2>5
<1>4. CASE DeriveTrust
  <2>1. stage = "trust" /\ request.operation = "validate record" /\ request.operation \in Recording
    BY <1>4 DEF DeriveTrust, IInv, Staged, Recording
  <2>2. \/ End("failure")
        \/ ~TrustRefused(tree.record, request.host, {}) /\ End("ok")
    BY <1>4 DEF DeriveTrust
  <2>3. CASE End("failure")
    BY <2>3, RefusalClaimsNothing
  <2>4. CASE ~TrustRefused(tree.record, request.host, {}) /\ End("ok")
    <3>1. RecordIsSound
      BY <2>1, <2>4, RecordConcludes DEF IInv, RecordRead
    <3>2. QED
      BY <2>1, <2>4, <3>1, NothingToEarn, SuccessClaimsWhatWasEarned
  <2>5. QED
    BY <2>2, <2>3, <2>4
<1>5. QED
  BY <1>1, <1>2, <1>3, <1>4

\* With its references resolved, the checkout is validated.
LEMMA ResolvingKeeps == ASSUME IInv, ResolveReferences PROVE IInv'
<1>1. /\ stage = "references" /\ stage \in ReadingStages
      /\ IF ReferencesRefused THEN End("failure") ELSE Learn(request.operation, found)
  BY DEF ResolveReferences, Read, ReadingStages
<1>2. CASE ReferencesRefused
  BY <1>1, <1>2, RefusalClaimsNothing
<1>3. CASE ~ReferencesRefused
  <2>1. stage' = request.operation /\ UNCHANGED <<input, request, tree, found, exit>>
    BY <1>1, <1>3 DEF Learn, request, tree
  <2>2. request.operation \in Validating /\ exit' # "ok"
    BY <1>1, <2>1, EachReadingStage, StillOpen
  <2>3. stage' \in Operations /\ stage' \notin ReadingStages /\ stage' \notin LaterStages
    BY <2>1, <2>2, NamesAreApart, Zenon DEF Operations
  <2>4. Staged'
    BY <2>1, <2>2, <2>3 DEF IInv, Staged, LaterStages
  <2>5. ReferencesAdmitted
    BY <1>1, <1>3, ReferencesAreRead
       DEF IInv, DocumentsAdmitted, PastManifests, PastManifestsThere, PastAuthorities, PastEvidence,
           PastCatalog, PastLicences, PastArtifacts, PastFetches, PastToolchain
  <2>6. DocumentsAdmitted'
    BY <1>1, <2>1, <2>5, DocumentsStand
       DEF IInv, DocumentsAdmitted, PastManifests, PastManifestsThere, PastAuthorities, PastEvidence,
           PastCatalog, PastLicences, PastArtifacts, PastFetches, PastToolchain
  <2>7. Concluded' /\ RecordRead'
    BY <2>1, <2>2, <2>3 DEF Concluded, RecordRead, LaterStages
  <2>8. QED
    BY <2>1, <2>4, <2>6, <2>7, SpellableStands DEF IInv
<1>4. QED
  BY <1>2, <1>3

\* An audit that refuses ends the run; one that does not learns at most its verdict.
LEMMA OneAudit ==
  ASSUME IInv, stage \in Validating \union Auditing, NEW refused, NEW what,
         DOMAIN what = DOMAIN found,
         what.tools = found.tools, what.catalog = found.catalog, what.managed = found.managed,
         Read(stage, "answer", refused, what),
         ~refused /\ what.passed => Entitled
  PROVE  IInv'
<1>1. IF refused THEN End("failure") ELSE Learn("answer", what)
  BY DEF Read
<1>2. CASE refused
  BY <1>1, <1>2, RefusalClaimsNothing
<1>3. CASE ~refused
  <2>1. DOMAIN what = DOMAIN NothingRead
    BY DEF IInv, Staged
  <2>2. QED
    BY <1>1, <1>3, <2>1, AnswerClaimsItsAudit
<1>4. QED
  BY <1>2, <1>3

\* Each audit answers with what its lemma concludes.
LEMMA AuditsKeep ==
  ASSUME IInv,
         \/ Describe \/ Explain \/ InspectSource \/ LoadEvidence
         \/ ReviewLicences \/ VerifyOffline \/ AuditPaths \/ AuditShipping
  PROVE  IInv'
<1>0. \A o \in Validating \union Auditing : stage = o => request.operation = o
  BY Zenon DEF IInv, Staged, Operations
<1>1. CASE Describe \/ Explain \/ InspectSource \/ LoadEvidence
  <2>1. PICK refused :
          stage \in Validating /\ Read(stage, "answer", refused, found) /\ Entitled
    <3>1. CASE Describe
      <4>1. stage \in {"validate repository", "graph repository"} /\ Read(stage, "answer", FALSE, found)
        BY <3>1 DEF Describe, Read, Go, Learn
      <4>2. stage \in Validating
        BY <4>1, Zenon DEF Validating
      <4>3. Entitled
        BY <1>0, <4>1, <4>2, Zenon DEF Entitled
      <4>4. QED
        BY <4>1, <4>2, <4>3
    <3>2. CASE Explain
      <4>1. /\ stage = "explain dependency" /\ stage \in Validating
            /\ \E refused : Read(stage, "answer", refused, found)
        BY <3>2, Zenon DEF Explain, Read, Validating
      <4>2. Entitled
        BY <1>0, <4>1, Zenon DEF Entitled
      <4>3. QED
        BY <4>1, <4>2
    <3>3. CASE InspectSource
      <4>1. /\ stage = "inspect source-ownership" /\ stage \in Validating
            /\ \E refused : Read(stage, "answer", refused, found)
        BY <3>3, Zenon DEF InspectSource, Read, Validating
      <4>2. Entitled
        BY <1>0, <4>1, Zenon DEF Entitled
      <4>3. QED
        BY <4>1, <4>2, Zenon
    <3>4. CASE LoadEvidence
      <4>1. /\ stage = "load evidence-index" /\ stage \in Validating
            /\ \E refused : Read(stage, "answer", refused, found)
        BY <3>4, Zenon DEF LoadEvidence, Read, Validating
      <4>2. Entitled
        BY <1>0, <4>1, Zenon DEF Entitled
      <4>3. QED
        BY <4>1, <4>2, Zenon
    <3>5. QED
      BY <1>1, <3>1, <3>2, <3>3, <3>4
  <2>2. QED
    BY <2>1, OneAudit
<1>2. CASE ReviewLicences
  <2>1. stage = "review licenses" /\ stage \in Auditing /\ Read(stage, "answer", ReviewRefused, found)
    BY <1>2, Zenon DEF ReviewLicences, Read, Auditing
  <2>2. ~ReviewRefused => Entitled
    BY <1>0, <2>1, ReviewConcludes, Zenon DEF Entitled
  <2>3. QED
    BY <2>1, <2>2, OneAudit
<1>3. CASE VerifyOffline
  <2>1. /\ stage = "verify-offline" /\ stage \in Auditing
        /\ Read(stage, "answer", OfflineRefused(request.host), found)
    BY <1>3, Zenon DEF VerifyOffline, Read, Auditing
  <2>2. ~OfflineRefused(request.host) => Entitled
    BY <1>0, <2>1, OfflineConcludes, Zenon DEF Entitled
  <2>3. stage \in Auditing /\ Read(stage, "answer", OfflineRefused(request.host), found)
    BY <2>1, Zenon
  <2>4. QED
    BY <2>2, <2>3, OneAudit
<1>4. CASE AuditPaths
  <2> DEFINE what == [found EXCEPT !.passed = OutsideEnvelope = {}]
  <2>1. stage = "audit paths" /\ stage \in Auditing /\ Read(stage, "answer", PathsRefused, what)
    BY <1>4, Zenon DEF AuditPaths, Read, Auditing
  <2>2. /\ DOMAIN what = DOMAIN found
        /\ what.tools = found.tools /\ what.catalog = found.catalog /\ what.managed = found.managed
        /\ what.passed => OutsideEnvelope = {}
    BY DEF IInv, Staged, NothingRead
  <2> HIDE DEF what
  <2>3. request.operation = "audit paths"
    BY <1>0, <2>1, Zenon
  <2>4. what.passed /\ tree.closed = {} => DeliveredWhereKnown
    BY <2>2, <2>3, PathsConclude DEF IInv, Spellable
  <2>5. what.passed => Entitled
    BY <2>3, <2>4, Zenon DEF Entitled
  <2>6. QED
    BY <2>1, <2>2, <2>5, OneAudit
<1>5. CASE AuditShipping
  <2> DEFINE what == [found EXCEPT !.passed = ShippingPasses]
  <2>1. /\ stage = "audit shipping-closure" /\ stage \in Validating
        /\ Read(stage, "answer", ShippingRefused, what)
    BY <1>5, Zenon DEF AuditShipping, Read, Validating
  <2>2. /\ DOMAIN what = DOMAIN found
        /\ what.tools = found.tools /\ what.catalog = found.catalog /\ what.managed = found.managed
        /\ what.passed => ShippingPasses
    BY DEF IInv, Staged, NothingRead
  <2> HIDE DEF what
  <2>3. request.operation = "audit shipping-closure"
    BY <1>0, <2>1, Zenon
  <2>4. Validated
    BY <1>0, <2>1, Zenon DEF Validated
  <2>5. ~ShippingRefused /\ what.passed /\ tree.closed = {} => NothingOfATool
    BY <2>2, <2>4, ShippingConcludes
       DEF IInv, DocumentsAdmitted, PastManifests, PastManifestsThere, PastAuthorities, PastEvidence,
           PastCatalog, PastLicences, PastArtifacts, PastFetches, PastToolchain
  <2>6. ~ShippingRefused /\ what.passed => Entitled
    BY <2>3, <2>5, Zenon DEF Entitled
  <2>7. stage \in Validating /\ Read(stage, "answer", ShippingRefused, what)
    BY <2>1, Zenon
  <2>8. QED
    BY <2>2, <2>6, <2>7, OneAudit
<1>6. QED
  BY <1>1, <1>2, <1>3, <1>4, <1>5

\* A report is written of what the audit found, or the run fails.
LEMMA ReportKeeps == ASSUME IInv, EmitReport PROVE IInv'
<1>1. stage = "answer"
  BY DEF EmitReport
<1>2. End("failure") \/ (found.passed /\ End("ok"))
  BY DEF EmitReport
<1>3. CASE End("failure")
  BY <1>3, RefusalClaimsNothing
<1>4. CASE found.passed /\ End("ok")
  <2>1. Entitled
    BY <1>1, <1>4 DEF IInv, Concluded
  <2>2. request.operation \in Validating => Validated
    BY <1>1 DEF Validated
  <2>3. request.operation # "validate record"
    <3>1. request.operation \notin Recording
      BY <1>1, NamesAreApart DEF IInv, Staged
    <3>2. QED
      BY <3>1, Zenon DEF Recording
  <2>4. QED
    BY <1>4, <2>1, <2>2, <2>3, SuccessClaimsWhatWasEarned
<1>5. QED
  BY <1>2, <1>3, <1>4

\* The invariant holds of every state of a run.
THEOREM Invariant == EvidenceSpec => []IInv
<1>1. IInv /\ [EvidenceNext]_vars => IInv'
  <2> SUFFICES ASSUME IInv, [EvidenceNext]_vars PROVE IInv'
    OBVIOUS
  <2>1. CASE UNCHANGED vars
    <3>1. UNCHANGED <<input, request, tree, stage, found, exit>>
      BY <2>1 DEF vars, request, tree
    <3>2. Staged' /\ Concluded'
      BY <3>1, EarnedStands DEF IInv, Staged, Concluded
    <3>3. DocumentsAdmitted'
      BY <3>1, DocumentsStand
         DEF IInv, DocumentsAdmitted, PastManifests, PastManifestsThere, PastAuthorities, PastEvidence,
             PastCatalog, PastLicences, PastArtifacts, PastFetches, PastToolchain, Validated
    <3>4. RecordRead'
      <4>1. Describes(tree.descriptor, tree.record)' = Describes(tree.descriptor, tree.record)
        BY <3>1 DEF Describes
      <4>2. GateRefused(tree.record)' = GateRefused(tree.record)
        BY <3>1 DEF GateRefused, OfSchema, PromotionRefused
      <4>3. QED
        BY <3>1, <4>1, <4>2, ConclusionsStand DEF IInv, RecordRead
    <3>5. QED
      BY <3>1, <3>2, <3>3, <3>4, SpellableStands DEF IInv
  <2>2. CASE EvidenceNext
    BY <2>2, ArgumentsKeep, AbroadKeeps, RecordsKeep, ReadingKeeps, ResolvingKeeps, AuditsKeep,
       ReportKeeps DEF EvidenceNext
  <2>3. QED
    BY <2>1, <2>2
<1>2. QED
  BY <1>1, Initially, PTL DEF EvidenceSpec

\* An operation of rf-evidence ends well only on a checkout, or a record, that was
\* entitled to it: nine documents read one after another agree with each other and
\* with what is on disk, and what was asked for holds of the tree itself.
THEOREM EarnedOk == EvidenceSpec => []OkIsEarned
<1>1. IInv => OkIsEarned
  <2> SUFFICES ASSUME IInv, exit = "ok", tree.closed = {} PROVE OkIsEarned
    BY DEF OkIsEarned
  <2>1. Entitled
    BY DEF IInv, Concluded
  <2>2. request.operation = "validate record" => RecordIsSound
    BY DEF IInv, RecordRead
  <2>3. ASSUME request.operation \in Validating
        PROVE  MembersAreAll /\ FetchedAsLocked /\ \A id \in FromElsewhere : LicensedOnce(id)
    <3>1. Validated
      BY <2>3 DEF Validated
    <3>2. /\ ToolsAdmitted /\ ManifestsListed /\ AuthoritiesAdmitted /\ EvidenceListed
          /\ CatalogAdmitted /\ LicencesAdmitted /\ ArtifactsAdmitted /\ FetchesAdmitted
          /\ ToolchainAdmitted /\ ReferencesAdmitted
      BY <3>1
         DEF IInv, DocumentsAdmitted, PastManifests, PastManifestsThere, PastAuthorities, PastEvidence,
             PastCatalog, PastLicences, PastArtifacts, PastFetches, PastToolchain
    <3>3. MembersAreAll
      BY <3>2, MembersAreExact
    <3>4. FetchedAsLocked
      BY <3>2 DEF FetchesAdmitted
    <3>5. \A id \in FromElsewhere : LicensedOnce(id)
      BY <3>2, AllIsLicensed
    <3>6. QED
      BY <3>3, <3>4, <3>5
  <2>4. QED
    BY <2>1, <2>2, <2>3, Zenon DEF OkIsEarned, Entitled
<1>2. QED
  BY <1>1, Invariant, PTL

-----------------------------------------------------------------------------
(***************************************************************************)
(* rf-verify.  Positions of a sequence and folds over it.                  *)
(***************************************************************************)
\* Every natural number is in a set that has zero and the successor of each number in it.
LEMMA SetInduction ==
  ASSUME NEW S, 0 \in S, \A n \in Nat : n \in S => n + 1 \in S
  PROVE  Nat \subseteq S
<1> DEFINE T == Nat \ S
           R == OpToRel(<, Nat)
<1>1. SUFFICES ASSUME T # {}
               PROVE  FALSE
  OBVIOUS
<1>2. PICK n \in T : \A m \in T : <<m, n>> \notin R
  <2>1. T \subseteq Nat
    OBVIOUS
  <2> HIDE DEF T, R
  <2>2. QED
    BY <1>1, <2>1, NatLessThanWellFounded, WFMin DEF R
<1>3. n # 0 /\ n - 1 \in T
  OBVIOUS
<1>4. <<n - 1, n>> \in R
  BY <1>3 DEF OpToRel
<1> HIDE DEF T, R
<1>5. QED
  BY <1>2, <1>3, <1>4

\* A greatest number is what Max chooses.
LEMMA MaxIs ==
  ASSUME NEW S \in SUBSET Int, NEW m \in S, \A k \in S : k <= m
  PROVE  Max(S) = m
<1>1. \A x \in S : (\A k \in S : x >= k) => x = m
  OBVIOUS
<1>2. \A k \in S : m >= k
  OBVIOUS
<1> DEFINE P(x) == \A k \in S : x >= k
<1>3. \E x \in S : P(x)
  BY <1>2
<1> HIDE DEF P
<1>4. (CHOOSE x \in S : P(x)) \in S /\ P(CHOOSE x \in S : P(x))
  BY <1>3
<1> USE DEF P
<1>5. QED
  BY <1>1, <1>4 DEF Max

\* A set of numbers up to n that has any has a greatest.
LEMMA MaxExists ==
  ASSUME NEW n \in Nat, NEW S \in SUBSET (0..n), S # {}
  PROVE  Max(S) \in S /\ \A k \in S : k <= Max(S)
<1> DEFINE T == {m \in Nat : \A U \in SUBSET (0..m) : U # {} => \E x \in U : \A k \in U : k <= x}
<1>1. 0 \in T
  <2>1. 0..0 = {0}
    OBVIOUS
  <2>2. ASSUME NEW U \in SUBSET {0}, U # {}
        PROVE  \E x \in U : \A k \in U : k <= x
    <3>1. 0 \in U /\ \A k \in U : k = 0
      BY <2>2
    <3>2. QED
      BY <3>1
  <2>3. QED
    BY <2>1, <2>2
<1>2. ASSUME NEW m \in Nat, m \in T
      PROVE  m + 1 \in T
  <2>1. SUFFICES ASSUME NEW U \in SUBSET (0..(m + 1)), U # {}
                 PROVE  \E x \in U : \A k \in U : k <= x
    OBVIOUS
  <2>2. CASE m + 1 \in U
    BY <2>2
  <2>3. CASE m + 1 \notin U
    <3>1. U \in SUBSET (0..m)
      BY <2>3
    <3>2. QED
      BY <1>2, <2>1, <3>1
  <2>4. QED
    BY <2>2, <2>3
<1> HIDE DEF T
<1>3. n \in T
  BY <1>1, <1>2, SetInduction
<1>4. PICK x \in S : \A k \in S : k <= x
  BY <1>3 DEF T
<1>5. S \in SUBSET Int
  OBVIOUS
<1>6. QED
  BY <1>4, <1>5, MaxIs

-----------------------------------------------------------------------------
(***************************************************************************)
(* Folds over sequences.                                                   *)
(***************************************************************************)

\* A set of positions has its greatest among them.
LEMMA MaxOfPart ==
  ASSUME NEW n \in Nat
  PROVE  \A s \in SUBSET (1..n) : s # {} => Max(s) \in 1..n
<1> SUFFICES ASSUME NEW s \in SUBSET (1..n), s # {}
             PROVE  Max(s) \in 1..n
  OBVIOUS
<1>1. s \in SUBSET (0..n)
  OBVIOUS
<1>2. Max(s) \in s
  BY <1>1, MaxExists
<1>3. QED
  BY <1>2

\* What a fold over a sequence computes on each part of it: G[i] is the step at i.
Recursion(it, D, b, n, G) ==
  /\ it[{}] = b
  /\ \A s \in SUBSET (1..n) : s # {} /\ it[s \ {Max(s)}] \in D => it[s] = G[Max(s)][it[s \ {Max(s)}]]

\* What it computes on the beginnings.
Passes(f, D, b, n, G) ==
  f \in [0..n -> D] /\ f[0] = b /\ \A i \in 1..n : f[i] = G[i][f[i - 1]]

\* The recursion by which a sequence is folded has a solution.
LEMMA FoldExists ==
  ASSUME NEW D, NEW b \in D, NEW n \in Nat, NEW G \in [1..n -> [D -> D]]
  PROVE  \E it \in [SUBSET (1..n) -> D] : Recursion(it, D, b, n, G)
<1> DEFINE Solved(m) ==
             {it \in [SUBSET (1..m) -> D] :
                /\ it[{}] = b
                /\ \A s \in SUBSET (1..m) : s # {} => it[s] = G[Max(s)][it[s \ {Max(s)}]]}
           T == {m \in Nat : m <= n => Solved(m) # {}}
<1>1. 0 \in T
  <2>1. SUBSET (1..0) = {{}}
    OBVIOUS
  <2>2. [s \in SUBSET (1..0) |-> b] \in Solved(0)
    BY <2>1
  <2> HIDE DEF Solved
  <2>3. QED
    BY <2>2
<1>2. ASSUME NEW m \in Nat, m \in T
      PROVE  m + 1 \in T
  <2> HIDE DEF Solved
  <2>1. SUFFICES ASSUME m + 1 <= n
                 PROVE  Solved(m + 1) # {}
    OBVIOUS
  <2>2. PICK it \in Solved(m) : TRUE
    BY <1>2, <2>1
  <2> USE DEF Solved
  <2> DEFINE next == [s \in SUBSET (1..(m + 1)) |->
                        IF m + 1 \in s THEN G[m + 1][it[s \ {m + 1}]] ELSE it[s]]
  <2>3. ASSUME NEW s \in SUBSET (1..(m + 1)), m + 1 \in s
        PROVE  /\ Max(s) = m + 1 /\ s \ {m + 1} \in SUBSET (1..m)
               /\ next[s] = G[m + 1][it[s \ {m + 1}]] /\ next[s] \in D
               /\ next[s \ {m + 1}] = it[s \ {m + 1}]
    <3>1. Max(s) = m + 1
      <4>1. s \in SUBSET Int /\ \A k \in s : k <= m + 1
        OBVIOUS
      <4>2. QED
        BY <2>3, <4>1, MaxIs
    <3>2. s \ {m + 1} \in SUBSET (1..m) /\ s \ {m + 1} \in SUBSET (1..(m + 1)) /\ m + 1 \in 1..n
      BY <2>1
    <3>3. it[s \ {m + 1}] \in D
      BY <2>2, <3>2
    <3>4. QED
      BY <2>3, <3>1, <3>2, <3>3
  <2>4. ASSUME NEW s \in SUBSET (1..(m + 1)), m + 1 \notin s
        PROVE  s \in SUBSET (1..m) /\ next[s] = it[s] /\ next[s] \in D
    <3>1. s \in SUBSET (1..m)
      BY <2>4
    <3>2. QED
      BY <2>2, <2>4, <3>1
  <2>5. next \in [SUBSET (1..(m + 1)) -> D]
    <3>1. \A s \in SUBSET (1..(m + 1)) : next[s] \in D
      BY <2>3, <2>4
    <3>2. QED
      BY <3>1
  <2>6. next[{}] = b
    BY <2>2, <2>4
  <2>7. ASSUME NEW s \in SUBSET (1..(m + 1)), s # {}
        PROVE  next[s] = G[Max(s)][next[s \ {Max(s)}]]
    <3>1. CASE m + 1 \in s
      <4> HIDE DEF next
      <4>1. QED
        BY <2>3, <3>1
    <3>2. CASE m + 1 \notin s
      <4>1. s \in SUBSET (1..m) /\ next[s] = it[s]
        BY <2>4, <3>2
      <4>2. m + 1 \notin s \ {Max(s)} /\ s \ {Max(s)} \in SUBSET (1..(m + 1))
        BY <3>2
      <4>3. next[s \ {Max(s)}] = it[s \ {Max(s)}]
        BY <2>4, <4>2
      <4>4. QED
        BY <2>2, <2>7, <4>1, <4>3
    <3>3. QED
      BY <3>1, <3>2
  <2> HIDE DEF next
  <2>8. next \in Solved(m + 1)
    BY <2>5, <2>6, <2>7
  <2> HIDE DEF Solved
  <2>9. QED
    BY <2>8
<1> HIDE DEF T, Solved
<1>3. n \in T
  BY <1>1, <1>2, SetInduction
<1>4. PICK it \in Solved(n) : TRUE
  BY <1>3 DEF T
<1>5. it \in [SUBSET (1..n) -> D] /\ Recursion(it, D, b, n, G)
  BY <1>4 DEF Solved, Recursion
<1>6. QED
  BY <1>5

\* What solves the recursion goes through the sequence step by step.
LEMMA FoldSteps ==
  ASSUME NEW D, NEW b \in D, NEW n \in Nat, NEW G \in [1..n -> [D -> D]], NEW it, Recursion(it, D, b, n, G)
  PROVE  \E f : Passes(f, D, b, n, G) /\ f[n] = it[1..n]
<1> DEFINE T == {m \in Nat : m <= n => it[1..m] \in D /\ (m > 0 => it[1..m] = G[m][it[1..(m - 1)]])}
           f == [i \in 0..n |-> it[1..i]]
<1>1. 1..0 = {}
  OBVIOUS
<1>2. 0 \in T
  BY <1>1 DEF Recursion
<1>3. ASSUME NEW m \in Nat, m \in T
      PROVE  m + 1 \in T
  <2>1. SUFFICES ASSUME m + 1 <= n
                 PROVE  it[1..(m + 1)] \in D /\ it[1..(m + 1)] = G[m + 1][it[1..((m + 1) - 1)]]
    OBVIOUS
  <2>2. Max(1..(m + 1)) = m + 1
    <3>1. 1..(m + 1) \in SUBSET Int /\ m + 1 \in 1..(m + 1) /\ \A k \in 1..(m + 1) : k <= m + 1
      OBVIOUS
    <3>2. QED
      BY <3>1, MaxIs
  <2>3. (1..(m + 1)) \ {m + 1} = 1..m /\ (m + 1) - 1 = m /\ m + 1 \in 1..n /\ 1..(m + 1) \in SUBSET (1..n)
        /\ 1..(m + 1) # {}
    BY <2>1
  <2>4. it[1..m] \in D
    BY <1>3, <2>1
  <2>5. it[1..(m + 1)] = G[m + 1][it[1..m]]
    <3> DEFINE s == 1..(m + 1)
    <3>1. s \in SUBSET (1..n) /\ s # {} /\ Max(s) = m + 1 /\ s \ {Max(s)} = 1..m
      BY <2>2, <2>3
    <3> HIDE DEF s
    <3>2. it[s] = G[Max(s)][it[s \ {Max(s)}]]
      BY <2>4, <3>1 DEF Recursion
    <3>3. QED
      BY <3>1, <3>2 DEF s
  <2>6. QED
    BY <2>3, <2>4, <2>5
<1> HIDE DEF T
<1>4. Nat \subseteq T
  BY <1>2, <1>3, SetInduction
<1>5. \A i \in 0..n : it[1..i] \in D /\ (i > 0 => it[1..i] = G[i][it[1..(i - 1)]])
  BY <1>4 DEF T
<1>6. f \in [0..n -> D] /\ f[0] = b /\ f[n] = it[1..n]
  BY <1>1, <1>5 DEF Recursion
<1>7. \A i \in 1..n : f[i] = G[i][f[i - 1]]
  BY <1>5
<1> HIDE DEF f
<1>8. Passes(f, D, b, n, G)
  BY <1>6, <1>7 DEF Passes
<1>9. QED
  BY <1>6, <1>8

-----------------------------------------------------------------------------
(***************************************************************************)
(* Merging.                                                                *)
(***************************************************************************)
Regions(C) == [line : {r.line : r \in C}, span : {r.span : r \in C}, true : Nat, false : Nat]

\* Some region of the set at the span of this one has the side taken.
SeenTrue(C, x) == \E r \in C : Same(r, x) /\ r.true > 0
SeenFalse(C, x) == \E r \in C : Same(r, x) /\ r.false > 0

\* The list holds each span of the set once, and a side is taken in it exactly
\* when some region of the set at that span has it taken.
Merged(list, C) ==
  /\ list \in Seq(Regions(C))
  /\ \A i, j \in DOMAIN list : Same(list[i], list[j]) => i = j
  /\ \A i \in DOMAIN list : \E r \in C : Same(r, list[i])
  /\ \A r \in C : \E i \in DOMAIN list : Same(r, list[i])
  /\ \A i \in DOMAIN list : /\ list[i].true > 0 <=> SeenTrue(C, list[i])
                            /\ list[i].false > 0 <=> SeenFalse(C, list[i])

\* A sum that stops at the ceiling is nothing only of nothings.
LEMMA SumsKeepZero ==
  ASSUME NEW a \in Nat, NEW b \in Nat
  PROVE  Add(a, b) \in Nat /\ (Add(a, b) > 0 <=> a > 0 \/ b > 0)
<1> DEFINE S == {a + b, MaxCount}
           m == IF a + b <= MaxCount THEN a + b ELSE MaxCount
           P(x) == \A y \in S : x <= y
<1>1. MaxCount \in Nat /\ MaxCount > 0
  BY VerifyAssumption
<1>2. m \in S /\ P(m)
  BY <1>1
<1>3. \A x \in S : P(x) => x = m
  BY <1>1
<1> HIDE DEF P
<1>4. (CHOOSE x \in S : P(x)) \in S /\ P(CHOOSE x \in S : P(x))
  BY <1>2
<1> USE DEF P
<1>5. Add(a, b) = m
  BY <1>3, <1>4 DEF Add, Saturating, Min
<1>6. QED
  BY <1>1, <1>5

\* One region is merged.
LEMMA MergesOne ==
  ASSUME NEW C, NEW list, Merged(list, C), NEW r, IsRegion(r)
  PROVE  Merged(MergeRegion(list, r), C \union {r})
<1> DEFINE D == C \union {r}
           next == MergeRegion(list, r)
<1>1. /\ list \in Seq(Regions(D)) /\ r \in Regions(D)
      /\ r.true \in Nat /\ r.false \in Nat
      /\ Len(list) \in Nat /\ DOMAIN list = 1..Len(list)
      /\ \A i \in DOMAIN list : list[i] \in Regions(D)
  <2>1. Regions(C) \subseteq Regions(D)
    BY DEF Regions
  <2>2. list \in Seq(Regions(D))
    <3>1. list \in Seq(Regions(C))
      BY DEF Merged
    <3> DEFINE A == Regions(C)
               B == Regions(D)
    <3>2. A \subseteq B /\ list \in Seq(A)
      BY <2>1, <3>1
    <3> HIDE DEF A, B
    <3>3. list \in Seq(B)
      BY <3>2
    <3>4. QED
      BY <3>3 DEF B
  <2>3. r \in Regions(D)
    BY DEF Regions, IsRegion
  <2>4. r.true \in Nat /\ r.false \in Nat
    BY DEF IsRegion
  <2>5. /\ Len(list) \in Nat /\ DOMAIN list = 1..Len(list)
        /\ \A i \in DOMAIN list : list[i] \in Regions(D)
    <3> DEFINE B == Regions(D)
    <3>1. list \in Seq(B)
      BY <2>2
    <3> HIDE DEF B
    <3>2. /\ Len(list) \in Nat /\ DOMAIN list = 1..Len(list)
          /\ \A i \in DOMAIN list : list[i] \in B
      BY <3>1
    <3>3. QED
      BY <3>2 DEF B
  <2>6. QED
    BY <2>2, <2>3, <2>4, <2>5
<1>2. CASE \E i \in DOMAIN list : Same(list[i], r)
  <2> DEFINE k == CHOOSE i \in DOMAIN list : Same(list[i], r)
  <2>1. k \in DOMAIN list /\ Same(list[k], r)
    BY <1>2
  <2>2. next = [list EXCEPT ![k].true = Add(@, r.true), ![k].false = Add(@, r.false)]
    BY <1>2 DEF MergeRegion
  <2> HIDE DEF next, k
  <2>3. /\ next \in Seq(Regions(D)) /\ DOMAIN next = DOMAIN list
        /\ \A i \in DOMAIN list : i # k => next[i] = list[i]
        /\ next[k].line = list[k].line /\ next[k].span = list[k].span
        /\ next[k].true = Add(list[k].true, r.true) /\ next[k].false = Add(list[k].false, r.false)
    <3>1. list[k].true \in Nat /\ list[k].false \in Nat
      BY <1>1, <2>1 DEF Regions
    <3>2. Add(list[k].true, r.true) \in Nat /\ Add(list[k].false, r.false) \in Nat
      BY <1>1, <3>1, SumsKeepZero
    <3>3. list[k] \in [line : {x.line : x \in D}, span : {x.span : x \in D}, true : Nat, false : Nat]
      BY <1>1, <2>1 DEF Regions
    <3> DEFINE both == [list[k] EXCEPT !.true = Add(@, r.true), !.false = Add(@, r.false)]
    <3>4. /\ both \in Regions(D) /\ both.line = list[k].line /\ both.span = list[k].span
          /\ both.true = Add(list[k].true, r.true) /\ both.false = Add(list[k].false, r.false)
      BY <3>2, <3>3 DEF Regions
    <3>5. next = [list EXCEPT ![k] = both]
      BY <1>1, <2>1, <2>2, <3>3
    <3> HIDE DEF both
    <3>6. QED
      BY <1>1, <2>1, <3>4, <3>5
  <2>4. QED
    <3>1. \A i \in DOMAIN list : list[i].true \in Nat /\ list[i].false \in Nat
      BY <1>1 DEF Regions
    <3>2. /\ next[k].true > 0 <=> list[k].true > 0 \/ r.true > 0
          /\ next[k].false > 0 <=> list[k].false > 0 \/ r.false > 0
      <4>1. list[k].true \in Nat /\ list[k].false \in Nat
        BY <2>1, <3>1
      <4>2. /\ Add(list[k].true, r.true) > 0 <=> list[k].true > 0 \/ r.true > 0
            /\ Add(list[k].false, r.false) > 0 <=> list[k].false > 0 \/ r.false > 0
        BY <1>1, <4>1, SumsKeepZero
      <4>3. QED
        BY <2>3, <4>2
    <3>3. \A i \in DOMAIN list : next[i].line = list[i].line /\ next[i].span = list[i].span
      BY <2>3
    <3>4. \A i \in DOMAIN list : Same(r, next[i]) <=> i = k
      BY <2>1, <3>3 DEF Merged, Same
    <3>5. \A i, j \in DOMAIN next : Same(next[i], next[j]) => i = j
      BY <2>3, <3>3 DEF Merged, Same
    <3>6. \A i \in DOMAIN list : \A x : Same(x, next[i]) <=> Same(x, list[i])
      BY <3>3 DEF Same
    <3>7. \A i \in DOMAIN next : \E x \in D : Same(x, next[i])
      BY <2>3, <3>6 DEF Merged
    <3>8. \A x \in D : \E i \in DOMAIN next : Same(x, next[i])
      BY <2>1, <2>3, <3>4, <3>6 DEF Merged
    <3>9. \A i \in DOMAIN list :
            /\ SeenTrue(D, next[i]) <=> SeenTrue(C, list[i]) \/ (i = k /\ r.true > 0)
            /\ SeenFalse(D, next[i]) <=> SeenFalse(C, list[i]) \/ (i = k /\ r.false > 0)
      BY <3>4, <3>6 DEF SeenTrue, SeenFalse
    <3>10. \A i \in DOMAIN list : /\ list[i].true > 0 <=> SeenTrue(C, list[i])
                                  /\ list[i].false > 0 <=> SeenFalse(C, list[i])
      BY DEF Merged
    <3>11. \A i \in DOMAIN next : /\ next[i].true > 0 <=> SeenTrue(D, next[i])
                                  /\ next[i].false > 0 <=> SeenFalse(D, next[i])
      BY <2>1, <2>3, <3>2, <3>9, <3>10
    <3>12. Merged(next, D)
      BY <2>3, <3>5, <3>7, <3>8, <3>11 DEF Merged
    <3>13. QED
      BY <3>12 DEF next
<1>3. CASE ~\E i \in DOMAIN list : Same(list[i], r)
  <2>1. next = Append(list, r)
    BY <1>3 DEF MergeRegion
  <2> DEFINE k == Len(list) + 1
  <2> HIDE DEF next
  <2>2. /\ next \in Seq(Regions(D)) /\ DOMAIN next = DOMAIN list \union {k}
        /\ \A i \in DOMAIN list : next[i] = list[i] /\ i # k
        /\ next[k] = r
    BY <1>1, <2>1
  <2> HIDE DEF k
  <2>3. \A i \in DOMAIN list : ~Same(next[i], r) /\ ~Same(r, next[i])
    BY <1>3, <2>2 DEF Same
  <2>4. Same(r, r)
    BY DEF Same
  <2>5. \A i, j \in DOMAIN next : Same(next[i], next[j]) => i = j
    BY <2>2, <2>3 DEF Merged
  <2>6. \A i \in DOMAIN next : \E x \in D : Same(x, next[i])
    BY <2>2, <2>4 DEF Merged
  <2>7. \A x \in D : \E i \in DOMAIN next : Same(x, next[i])
    BY <2>2, <2>4 DEF Merged
  <2>8. \A x \in C : ~Same(x, r)
    <3>1. SUFFICES ASSUME NEW x \in C, Same(x, r)
                   PROVE  FALSE
      OBVIOUS
    <3>2. PICK i \in DOMAIN list : Same(x, list[i])
      BY DEF Merged
    <3>3. QED
      BY <1>3, <3>1, <3>2 DEF Same
  <2>9. /\ SeenTrue(D, r) <=> r.true > 0
        /\ SeenFalse(D, r) <=> r.false > 0
    BY <2>4, <2>8 DEF SeenTrue, SeenFalse
  <2>10. \A i \in DOMAIN list : /\ SeenTrue(D, next[i]) <=> SeenTrue(C, list[i])
                                /\ SeenFalse(D, next[i]) <=> SeenFalse(C, list[i])
    BY <2>2, <2>3 DEF SeenTrue, SeenFalse
  <2>11. \A i \in DOMAIN next : /\ next[i].true > 0 <=> SeenTrue(D, next[i])
                                /\ next[i].false > 0 <=> SeenFalse(D, next[i])
    BY <2>2, <2>9, <2>10 DEF Merged
  <2>12. Merged(next, D)
    BY <2>2, <2>5, <2>6, <2>7, <2>11 DEF Merged
  <2>13. QED
    BY <2>12 DEF next
<1>4. QED
  BY <1>2, <1>3

\* Lists merged from regions of the set.
Lists(E) == {list \in Seq(Regions(E)) : \E C \in SUBSET E : Merged(list, C)}

\* A list merged from some of the regions is one of the lists.
LEMMA MergedIsListed ==
  ASSUME NEW E, NEW C \in SUBSET E, NEW list, Merged(list, C)
  PROVE  list \in Lists(E)
<1>1. Regions(C) \subseteq Regions(E)
  BY DEF Regions
<1>2. list \in Seq(Regions(C))
  BY DEF Merged
<1> DEFINE A == Regions(C)
           B == Regions(E)
<1>3. A \subseteq B /\ list \in Seq(A)
  BY <1>1, <1>2
<1> HIDE DEF A, B
<1>4. list \in Seq(B)
  BY <1>3
<1>5. QED
  BY <1>4 DEF Lists, B

AllParts(part, n) == UNION {part[i] : i \in 1..n}

\* Step i merges the i-th part.
MergesParts(G, E, n, part) ==
  \A i \in 1..n : \A B \in SUBSET E : \A list \in Lists(E) :
    Merged(list, B) => Merged(G[i][list], B \union part[i])

\* A fold each step of which merges a part merges all of them.
LEMMA MergingFold ==
  ASSUME NEW E, NEW n \in Nat, NEW part \in [1..n -> SUBSET E],
         NEW C \in SUBSET E, NEW b, Merged(b, C),
         NEW G \in [1..n -> [Lists(E) -> Lists(E)]],
         MergesParts(G, E, n, part),
         NEW it, Recursion(it, Lists(E), b, n, G)
  PROVE  Merged(it[1..n], C \union AllParts(part, n))
<1> DEFINE Sum(m) == C \union AllParts(part, m)
<1>1. b \in Lists(E)
  BY MergedIsListed
<1>2. PICK f : Passes(f, Lists(E), b, n, G) /\ f[n] = it[1..n]
  BY <1>1, FoldSteps
<1> DEFINE T == {m \in Nat : m <= n => Merged(f[m], Sum(m))}
<1>3. 0 \in T
  <2>1. Sum(0) = C
    BY DEF AllParts
  <2> HIDE DEF Sum
  <2>2. QED
    BY <1>2, <2>1 DEF Passes
<1>4. ASSUME NEW m \in Nat, m \in T
      PROVE  m + 1 \in T
  <2>1. SUFFICES ASSUME m + 1 <= n
                 PROVE  Merged(f[m + 1], Sum(m + 1))
    OBVIOUS
  <2>2. Sum(m) \in SUBSET E /\ Sum(m + 1) = Sum(m) \union part[m + 1]
    <3>1. 1..(m + 1) = (1..m) \union {m + 1} /\ m + 1 \in 1..n /\ \A i \in 1..m : i \in 1..n
      BY <2>1
    <3>2. AllParts(part, m + 1) = AllParts(part, m) \union part[m + 1]
      BY <3>1 DEF AllParts
    <3>3. \A i \in 1..m : part[i] \in SUBSET E
      BY <3>1
    <3>4. QED
      BY <3>2, <3>3 DEF AllParts
  <2>3. Merged(f[m], Sum(m)) /\ f[m] \in Lists(E) /\ m + 1 \in 1..n /\ (m + 1) - 1 = m
    BY <1>2, <1>4, <2>1 DEF Passes
  <2> HIDE DEF Sum
  <2>4. Merged(G[m + 1][f[m]], Sum(m) \union part[m + 1])
    BY <2>2, <2>3 DEF MergesParts
  <2>5. QED
    BY <1>2, <2>2, <2>3, <2>4 DEF Passes
<1> HIDE DEF T, Sum
<1>5. n \in T
  BY <1>3, <1>4, SetInduction
<1>6. QED
  BY <1>2, <1>5 DEF T, Sum

\* Regions are merged one after another.
LEMMA MergesAll ==
  ASSUME NEW C, NEW list, Merged(list, C),
         NEW rs, IsList(rs), \A r \in Range(rs) : IsRegion(r)
  PROVE  Merged(MergeRegions(list, rs), C \union Range(rs))
<1> DEFINE E == C \union Range(rs)
           D == Lists(E)
           n == Len(rs)
           G == [i \in 1..n |-> [l \in D |-> MergeRegion(l, rs[i])]]
           part == [i \in 1..n |-> {rs[i]}]
           Solves(it) == it = [s \in SUBSET (1..n) |->
                                 IF s = {} THEN list ELSE MergeRegion(it[s \ {Max(s)}], rs[Max(s)])]
           chosen == CHOOSE it : Solves(it)
<1>1. n \in Nat /\ DOMAIN rs = 1..n /\ Range(rs) = {rs[i] : i \in 1..n} /\ \A i \in 1..n : rs[i] \in E /\ IsRegion(rs[i])
  <2>1. n \in Nat /\ DOMAIN rs = 1..n
    BY DEF IsList
  <2>2. QED
    BY <2>1 DEF Range
<1>2. part \in [1..n -> SUBSET E] /\ AllParts(part, n) = Range(rs) /\ C \in SUBSET E
  BY <1>1 DEF AllParts
<1>3. \A i \in 1..n : \A l \in D : \A B \in SUBSET E :
        Merged(l, B) => Merged(MergeRegion(l, rs[i]), B \union part[i]) /\ MergeRegion(l, rs[i]) \in D
  <2>1. SUFFICES ASSUME NEW i \in 1..n, NEW l \in D, NEW B \in SUBSET E, Merged(l, B)
                 PROVE  Merged(MergeRegion(l, rs[i]), B \union {rs[i]}) /\ MergeRegion(l, rs[i]) \in D
    OBVIOUS
  <2>2. IsRegion(rs[i]) /\ B \union {rs[i]} \in SUBSET E
    BY <1>1
  <2>3. Merged(MergeRegion(l, rs[i]), B \union {rs[i]})
    BY <2>1, <2>2, MergesOne
  <2>4. QED
    BY <2>2, <2>3, MergedIsListed
<1>4. \A i \in 1..n : \A l \in D : MergeRegion(l, rs[i]) \in D
  BY <1>3 DEF Lists
<1>5. G \in [1..n -> [D -> D]] /\ \A i \in 1..n : \A l \in D : G[i][l] = MergeRegion(l, rs[i])
  BY <1>4
<1>6. list \in D /\ \A s \in SUBSET (1..n) : s # {} => Max(s) \in 1..n
  BY <1>1, <1>2, MergedIsListed, MaxOfPart
<1>7. MergeRegions(list, rs) = chosen[1..n]
  BY <1>1 DEF MergeRegions, FoldLeft, MapThenFoldSet
<1> HIDE DEF D, E, n, part, G
<1>8. \E it : Solves(it)
  <2>1. PICK it \in [SUBSET (1..n) -> D] : Recursion(it, D, list, n, G)
    BY <1>1, <1>5, <1>6, FoldExists
  <2>2. \A s \in SUBSET (1..n) : s # {} => it[s] = MergeRegion(it[s \ {Max(s)}], rs[Max(s)])
    BY <1>5, <1>6, <2>1 DEF Recursion
  <2>3. Solves(it)
    BY <2>1, <2>2 DEF Recursion
  <2>4. QED
    BY <2>3
<1>9. Solves(chosen)
  BY <1>8
<1> HIDE DEF chosen
<1>10. Recursion(chosen, D, list, n, G)
  BY <1>5, <1>6, <1>9 DEF Recursion
<1>11. MergesParts(G, E, n, part)
  BY <1>3, <1>5 DEF D, MergesParts
<1>12. Merged(chosen[1..n], C \union AllParts(part, n))
  <2>1. n \in Nat /\ C \in SUBSET E /\ part \in [1..n -> SUBSET E]
    BY <1>1, <1>2
  <2>2. G \in [1..n -> [Lists(E) -> Lists(E)]] /\ Recursion(chosen, Lists(E), list, n, G)
    BY <1>5, <1>10 DEF D
  <2>3. QED
    BY <1>11, <2>1, <2>2, MergingFold
<1>13. QED
  BY <1>2, <1>7, <1>12

\* What the expansions credit to a file.
CreditsOf(es, name) == {e.region : e \in {x \in Range(es) : x.of = name}}

\* What the expansions of one file credit is merged.
LEMMA CreditMerges ==
  ASSUME NEW C, NEW list, Merged(list, C), NEW name,
         NEW es, IsList(es), \A e \in Range(es) : IsRegion(e.region)
  PROVE  Merged(Credit(list, es, name), C \union CreditsOf(es, name))
<1> DEFINE E == C \union CreditsOf(es, name)
           n == Len(es)
           Step(l, i) == IF es[i].of = name THEN MergeRegion(l, es[i].region) ELSE l
           G == [i \in 1..n |-> [l \in Lists(E) |-> Step(l, i)]]
           part == [i \in 1..n |-> IF es[i].of = name THEN {es[i].region} ELSE {}]
           Solves(it) == it = [s \in SUBSET (1..n) |->
                                 IF s = {} THEN list ELSE Step(it[s \ {Max(s)}], Max(s))]
           chosen == CHOOSE it : Solves(it)
<1>1. /\ n \in Nat /\ DOMAIN es = 1..n
      /\ \A i \in 1..n : IsRegion(es[i].region) /\ (es[i].of = name => es[i].region \in CreditsOf(es, name))
      /\ CreditsOf(es, name) = UNION {IF es[i].of = name THEN {es[i].region} ELSE {} : i \in 1..n}
  <2>1. n \in Nat /\ DOMAIN es = 1..n
    BY DEF IsList
  <2>2. Range(es) = {es[i] : i \in 1..n}
    BY <2>1 DEF Range
  <2>3. QED
    BY <2>1, <2>2 DEF CreditsOf
<1>2. part \in [1..n -> SUBSET E] /\ AllParts(part, n) = CreditsOf(es, name) /\ C \in SUBSET E
  BY <1>1 DEF AllParts
<1>3. \A i \in 1..n : \A l \in Lists(E) : \A B \in SUBSET E :
        Merged(l, B) => Merged(Step(l, i), B \union part[i]) /\ Step(l, i) \in Lists(E)
  <2>1. SUFFICES ASSUME NEW i \in 1..n, NEW l \in Lists(E), NEW B \in SUBSET E, Merged(l, B)
                 PROVE  Merged(Step(l, i), B \union part[i]) /\ Step(l, i) \in Lists(E)
    OBVIOUS
  <2>2. IsRegion(es[i].region) /\ B \union part[i] \in SUBSET E
    BY <1>1, <1>2
  <2>3. Merged(Step(l, i), B \union part[i])
    <3>1. CASE es[i].of = name
      <4>1. Merged(MergeRegion(l, es[i].region), B \union {es[i].region})
        BY <2>1, <2>2, MergesOne
      <4>2. QED
        BY <3>1, <4>1
    <3>2. CASE es[i].of # name
      <4>1. B \union part[i] = B
        BY <3>2
      <4>2. QED
        BY <2>1, <3>2, <4>1
    <3>3. QED
      BY <3>1, <3>2
  <2> HIDE DEF Step
  <2>4. QED
    BY <2>2, <2>3, MergedIsListed
<1>4. Credit(list, es, name) = chosen[1..n]
  BY <1>1 DEF Credit, FoldLeft, MapThenFoldSet
<1> HIDE DEF E, n, part, Step
<1>5. G \in [1..n -> [Lists(E) -> Lists(E)]] /\ \A i \in 1..n : \A l \in Lists(E) : G[i][l] = Step(l, i)
  BY <1>3 DEF Lists
<1>6. list \in Lists(E) /\ \A s \in SUBSET (1..n) : s # {} => Max(s) \in 1..n
  BY <1>1, <1>2, MergedIsListed, MaxOfPart
<1> HIDE DEF G
<1>7. \E it : Solves(it)
  <2>1. PICK it \in [SUBSET (1..n) -> Lists(E)] : Recursion(it, Lists(E), list, n, G)
    BY <1>1, <1>5, <1>6, FoldExists
  <2>2. \A s \in SUBSET (1..n) : s # {} => it[s] = Step(it[s \ {Max(s)}], Max(s))
    BY <1>5, <1>6, <2>1 DEF Recursion
  <2>3. Solves(it)
    BY <2>1, <2>2 DEF Recursion
  <2>4. QED
    BY <2>3
<1>8. Solves(chosen)
  BY <1>7
<1> HIDE DEF chosen
<1>9. Recursion(chosen, Lists(E), list, n, G)
  BY <1>5, <1>6, <1>8 DEF Recursion
<1>10. MergesParts(G, E, n, part)
  BY <1>3, <1>5 DEF MergesParts
<1>11. Merged(chosen[1..n], C \union AllParts(part, n))
  BY <1>1, <1>2, <1>5, <1>9, <1>10, MergingFold
<1>12. QED
  BY <1>2, <1>4, <1>11

\* No regions are merged in an empty list.
LEMMA EmptyIsMerged == Merged(<<>>, {})
<1>1. <<>> \in Seq(Regions({})) /\ DOMAIN <<>> = {}
  OBVIOUS
<1>2. QED
  BY <1>1 DEF Merged

\* What the expansions of every file of a document credit is merged.
LEMMA CreditedMerges ==
  ASSUME NEW d, IsList(d.files), NEW name,
         \A f \in Range(d.files) : IsList(f.expansions) /\ \A e \in Range(f.expansions) : IsRegion(e.region)
  PROVE  Merged(Credited(d, name), UNION {CreditsOf(f.expansions, name) : f \in Range(d.files)})
<1> DEFINE E == UNION {CreditsOf(f.expansions, name) : f \in Range(d.files)}
           n == Len(d.files)
           Step(l, i) == Credit(l, d.files[i].expansions, name)
           G == [i \in 1..n |-> [l \in Lists(E) |-> Step(l, i)]]
           part == [i \in 1..n |-> CreditsOf(d.files[i].expansions, name)]
           Solves(it) == it = [s \in SUBSET (1..n) |->
                                 IF s = {} THEN <<>> ELSE Step(it[s \ {Max(s)}], Max(s))]
           chosen == CHOOSE it : Solves(it)
<1>1. /\ n \in Nat /\ DOMAIN d.files = 1..n
      /\ Range(d.files) = {d.files[i] : i \in 1..n}
      /\ \A i \in 1..n : d.files[i] \in Range(d.files)
  <2>1. n \in Nat /\ DOMAIN d.files = 1..n
    BY DEF IsList
  <2>2. QED
    BY <2>1 DEF Range
<1>2. part \in [1..n -> SUBSET E] /\ AllParts(part, n) = E
  BY <1>1 DEF AllParts
<1>3. \A i \in 1..n : \A l \in Lists(E) : \A B \in SUBSET E :
        Merged(l, B) => Merged(Step(l, i), B \union part[i]) /\ Step(l, i) \in Lists(E)
  <2>1. SUFFICES ASSUME NEW i \in 1..n, NEW l \in Lists(E), NEW B \in SUBSET E, Merged(l, B)
                 PROVE  Merged(Step(l, i), B \union part[i]) /\ Step(l, i) \in Lists(E)
    OBVIOUS
  <2>2. /\ IsList(d.files[i].expansions) /\ \A e \in Range(d.files[i].expansions) : IsRegion(e.region)
        /\ B \union part[i] \in SUBSET E /\ part[i] = CreditsOf(d.files[i].expansions, name)
    BY <1>1, <1>2
  <2> HIDE DEF part, E
  <2>3. Merged(Step(l, i), B \union part[i])
    BY <2>1, <2>2, CreditMerges
  <2> HIDE DEF Step
  <2>4. QED
    BY <2>2, <2>3, MergedIsListed
<1>4. Credited(d, name) = chosen[1..n]
  BY <1>1 DEF Credited, FoldLeft, MapThenFoldSet
<1> HIDE DEF E, n, part, Step
<1>5. G \in [1..n -> [Lists(E) -> Lists(E)]] /\ \A i \in 1..n : \A l \in Lists(E) : G[i][l] = Step(l, i)
  BY <1>3 DEF Lists
<1>6. <<>> \in Lists(E) /\ \A s \in SUBSET (1..n) : s # {} => Max(s) \in 1..n
  BY <1>1, EmptyIsMerged, MergedIsListed, MaxOfPart
<1> HIDE DEF G
<1>7. \E it : Solves(it)
  <2>1. PICK it \in [SUBSET (1..n) -> Lists(E)] : Recursion(it, Lists(E), <<>>, n, G)
    BY <1>1, <1>5, <1>6, FoldExists
  <2>2. \A s \in SUBSET (1..n) : s # {} => it[s] = Step(it[s \ {Max(s)}], Max(s))
    BY <1>5, <1>6, <2>1 DEF Recursion
  <2>3. Solves(it)
    BY <2>1, <2>2 DEF Recursion
  <2>4. QED
    BY <2>3
<1>8. Solves(chosen)
  BY <1>7
<1> HIDE DEF chosen
<1>9. Recursion(chosen, Lists(E), <<>>, n, G)
  BY <1>5, <1>6, <1>8 DEF Recursion
<1>10. MergesParts(G, E, n, part)
  BY <1>3, <1>5 DEF MergesParts
<1>11. Merged(chosen[1..n], {} \union AllParts(part, n))
  BY <1>1, <1>2, <1>5, <1>9, <1>10, EmptyIsMerged, MergingFold
<1>12. QED
  BY <1>2, <1>4, <1>11 DEF E

\* What was merged into what was merged is merged.
LEMMA MergedTwice ==
  ASSUME NEW A, NEW B, NEW R, NEW X, Merged(X, B), Merged(R, A \union Range(X))
  PROVE  Merged(R, A \union B)
<1>1. /\ Len(X) \in Nat /\ DOMAIN X = 1..Len(X) /\ Range(X) = {X[k] : k \in DOMAIN X}
      /\ \A k \in DOMAIN X : X[k] \in Range(X) /\ \E r \in B : Same(r, X[k])
      /\ \A r \in B : \E k \in DOMAIN X : Same(r, X[k])
      /\ \A k \in DOMAIN X : X[k].true > 0 <=> SeenTrue(B, X[k])
      /\ \A k \in DOMAIN X : X[k].false > 0 <=> SeenFalse(B, X[k])
  <2>1. X \in Seq(Regions(B))
    BY DEF Merged
  <2>2. Len(X) \in Nat /\ DOMAIN X = 1..Len(X)
    BY <2>1
  <2>3. QED
    BY <2>2 DEF Merged, Range
<1>2. /\ R \in Seq(Regions(A \union Range(X)))
      /\ \A i, j \in DOMAIN R : Same(R[i], R[j]) => i = j
      /\ \A i \in DOMAIN R : \E r \in A \union Range(X) : Same(r, R[i])
      /\ \A r \in A \union Range(X) : \E i \in DOMAIN R : Same(r, R[i])
      /\ \A i \in DOMAIN R : R[i].true > 0 <=> SeenTrue(A \union Range(X), R[i])
      /\ \A i \in DOMAIN R : R[i].false > 0 <=> SeenFalse(A \union Range(X), R[i])
  BY DEF Merged
<1>3. \A x, y, z : Same(x, y) /\ Same(y, z) => Same(x, z)
  BY DEF Same
<1>4. \A x, y : Same(x, y) => Same(y, x) /\ x.line = y.line /\ x.span = y.span
  BY DEF Same
<1>5. R \in Seq(Regions(A \union B))
  <2>1. Regions(A \union Range(X)) \subseteq Regions(A \union B)
    <3>1. \A x \in A \union Range(X) : \E r \in A \union B : r.line = x.line /\ r.span = x.span
      <4>1. \A x \in Range(X) : \E r \in B : Same(r, x)
        BY <1>1
      <4>2. QED
        BY <1>4, <4>1
    <3>2. /\ {r.line : r \in A \union Range(X)} \subseteq {r.line : r \in A \union B}
          /\ {r.span : r \in A \union Range(X)} \subseteq {r.span : r \in A \union B}
      BY <3>1
    <3>3. QED
      BY <3>2 DEF Regions
  <2> DEFINE S == Regions(A \union Range(X))
             T == Regions(A \union B)
  <2>2. S \subseteq T /\ R \in Seq(S)
    BY <1>2, <2>1
  <2> HIDE DEF S, T
  <2>3. R \in Seq(T)
    BY <2>2
  <2>4. QED
    BY <2>3 DEF T
<1>6. \A i \in DOMAIN R : \E r \in A \union B : Same(r, R[i])
  BY <1>1, <1>2, <1>3
<1>7. \A r \in A \union B : \E i \in DOMAIN R : Same(r, R[i])
  <2>1. SUFFICES ASSUME NEW r \in B
                 PROVE  \E i \in DOMAIN R : Same(r, R[i])
    BY <1>2
  <2>2. PICK k \in DOMAIN X : Same(r, X[k])
    BY <1>1
  <2>3. PICK i \in DOMAIN R : Same(X[k], R[i])
    BY <1>1, <1>2, <2>2
  <2>4. QED
    BY <1>3, <2>2, <2>3
<1>8. \A x : SeenTrue(Range(X), x) <=> SeenTrue(B, x)
  <2>1. ASSUME NEW x, SeenTrue(Range(X), x)
        PROVE  SeenTrue(B, x)
    <3>1. PICK k \in DOMAIN X : Same(X[k], x) /\ X[k].true > 0
      BY <1>1, <2>1 DEF SeenTrue
    <3>2. PICK r \in B : Same(r, X[k]) /\ r.true > 0
      BY <1>1, <3>1 DEF SeenTrue
    <3>3. QED
      BY <1>3, <3>1, <3>2 DEF SeenTrue
  <2>2. ASSUME NEW x, SeenTrue(B, x)
        PROVE  SeenTrue(Range(X), x)
    <3>1. PICK r \in B : Same(r, x) /\ r.true > 0
      BY <2>2 DEF SeenTrue
    <3>2. PICK k \in DOMAIN X : Same(r, X[k])
      BY <1>1
    <3>3. X[k].true > 0 /\ Same(X[k], x)
      BY <1>1, <1>3, <1>4, <3>1, <3>2 DEF SeenTrue
    <3>4. QED
      BY <1>1, <3>3 DEF SeenTrue
  <2>3. QED
    BY <2>1, <2>2
<1>9. \A x : SeenFalse(Range(X), x) <=> SeenFalse(B, x)
  <2>1. ASSUME NEW x, SeenFalse(Range(X), x)
        PROVE  SeenFalse(B, x)
    <3>1. PICK k \in DOMAIN X : Same(X[k], x) /\ X[k].false > 0
      BY <1>1, <2>1 DEF SeenFalse
    <3>2. PICK r \in B : Same(r, X[k]) /\ r.false > 0
      BY <1>1, <3>1 DEF SeenFalse
    <3>3. QED
      BY <1>3, <3>1, <3>2 DEF SeenFalse
  <2>2. ASSUME NEW x, SeenFalse(B, x)
        PROVE  SeenFalse(Range(X), x)
    <3>1. PICK r \in B : Same(r, x) /\ r.false > 0
      BY <2>2 DEF SeenFalse
    <3>2. PICK k \in DOMAIN X : Same(r, X[k])
      BY <1>1
    <3>3. X[k].false > 0 /\ Same(X[k], x)
      BY <1>1, <1>3, <1>4, <3>1, <3>2 DEF SeenFalse
    <3>4. QED
      BY <1>1, <3>3 DEF SeenFalse
  <2>3. QED
    BY <2>1, <2>2
<1>10. \A i \in DOMAIN R : R[i].true > 0 <=> SeenTrue(A \union B, R[i])
  BY <1>2, <1>8 DEF SeenTrue
<1>11. \A i \in DOMAIN R : R[i].false > 0 <=> SeenFalse(A \union B, R[i])
  BY <1>2, <1>9 DEF SeenFalse
<1>12. QED
  BY <1>2, <1>5, <1>6, <1>7, <1>10, <1>11 DEF Merged

\* The branches of a file that is read are merged from its own and from what the
\* whole document credits to it.
LEMMA BranchesMerge ==
  ASSUME NEW d, IsList(d.files), \A f \in Range(d.files) : HasItsForm(f),
         NEW g \in Range(d.files), Ours(g)
  PROVE  Merged(ReadFile(d, g).branches,
                Range(g.branches) \union UNION {CreditsOf(f.expansions, g.name) : f \in Range(d.files)})
<1> DEFINE own == MergeRegions(<<>>, g.branches)
           credited == ExpansionBranches(d, g.name)
           B == UNION {CreditsOf(f.expansions, g.name) : f \in Range(d.files)}
<1>1. Merged(own, Range(g.branches))
  <2>1. IsList(g.branches) /\ \A r \in Range(g.branches) : IsRegion(r)
    BY DEF HasItsForm
  <2>2. Merged(own, {} \union Range(g.branches))
    BY <2>1, EmptyIsMerged, MergesAll
  <2>3. QED
    BY <2>2
<1>2. Merged(credited, B)
  BY CreditedMerges DEF HasItsForm, ExpansionBranches
<1>3. IsList(credited) /\ \A r \in Range(credited) : IsRegion(r)
  <2>1. credited \in Seq(Regions(B))
    BY <1>2 DEF Merged
  <2> HIDE DEF credited, B
  <2>2. Len(credited) \in Nat /\ DOMAIN credited = 1..Len(credited) /\ \A k \in 1..Len(credited) : credited[k] \in Regions(B)
    BY <2>1
  <2>3. IsList(credited)
    BY <2>1, <2>2 DEF IsList, Range
  <2>4. \A r \in Range(credited) : r \in Regions(B)
    BY <2>2 DEF Range
  <2>5. \A r \in Regions(B) : IsRegion(r)
    BY DEF Regions, IsRegion
  <2>6. QED
    BY <2>3, <2>4, <2>5
<1>4. ReadFile(d, g).branches = MergeRegions(own, credited)
  BY DEF ReadFile
<1> HIDE DEF own, credited, B
<1>5. Merged(MergeRegions(own, credited), Range(g.branches) \union Range(credited))
  BY <1>1, <1>3, MergesAll
<1>6. Merged(MergeRegions(own, credited), Range(g.branches) \union B)
  BY <1>2, <1>5, MergedTwice
<1>7. QED
  BY <1>4, <1>6 DEF B

-----------------------------------------------------------------------------
(***************************************************************************)
(* Outcomes.                                                               *)
(***************************************************************************)

\* A map that confuses nothing keeps the count.
LEMMA ImagesCount ==
  ASSUME NEW S, IsFiniteSet(S), NEW f, \A x, y \in S : f[x] = f[y] => x = y
  PROVE  IsFiniteSet({f[x] : x \in S}) /\ Cardinality({f[x] : x \in S}) = Cardinality(S)
<1> DEFINE T == {f[x] : x \in S}
           g == [x \in S |-> f[x]]
<1>1. g \in Bijection(S, T)
  BY DEF Bijection, Injection, Surjection, IsInjective
<1>2. ExistsBijection(S, T)
  BY <1>1 DEF ExistsBijection
<1> HIDE DEF T
<1>3. QED
  BY <1>2, FS_Bijection DEF T

\* The positions of a list of regions stand for outcomes of a set of them: each
\* measured one for two, and a side that was taken for one that somebody took.
CountsOutcomes(C, R, lines, spans) ==
  LET M == {i \in DOMAIN R : R[i].line \in lines /\ R[i].span \notin spans}
      X == {x \in C : x.line \in lines /\ x.span \notin spans}
      O == {<<r.line, r.span, side>> : r \in X, side \in {"true", "false"}}
      W == {o \in O : \E r \in C : r.line = o[1] /\ r.span = o[2] /\ r[o[3]] > 0}
  IN  /\ IsFiniteSet(M) /\ Cardinality(O) = 2 * Cardinality(M)
      /\ Cardinality(W) = Cardinality({i \in M : R[i].true > 0}) + Cardinality({i \in M : R[i].false > 0})

\* So do those of merged regions.
LEMMA OutcomesCounted ==
  ASSUME NEW C, NEW R, Merged(R, C), NEW lines, NEW spans
  PROVE  CountsOutcomes(C, R, lines, spans)
<1> DEFINE M == {i \in DOMAIN R : R[i].line \in lines /\ R[i].span \notin spans}
           X == {x \in C : x.line \in lines /\ x.span \notin spans}
           O == {<<r.line, r.span, side>> : r \in X, side \in {"true", "false"}}
           W == {o \in O : \E r \in C : r.line = o[1] /\ r.span = o[2] /\ r[o[3]] > 0}
           Sides == {"true", "false"}
           f == [x \in M \X Sides |-> <<R[x[1]].line, R[x[1]].span, x[2]>>]
           Mt == {i \in M : R[i].true > 0}
           Mf == {i \in M : R[i].false > 0}
           V == (Mt \X {"true"}) \union (Mf \X {"false"})
<1>1. \A i : i \in M <=> i \in DOMAIN R /\ R[i].line \in lines /\ R[i].span \notin spans
  OBVIOUS
<1>2. /\ \A i \in M : \A t \in Sides : <<i, t>> \in M \X Sides
      /\ \A x \in M \X Sides : \E i \in M : \E t \in Sides : x = <<i, t>>
      /\ \A i \in M : \A t \in Sides : f[<<i, t>>] = <<R[i].line, R[i].span, t>>
  <2> HIDE DEF M, Sides
  <2>1. QED
    OBVIOUS
<1>3. /\ \A r \in X : \A t \in Sides : <<r.line, r.span, t>> \in O
      /\ \A o \in O : \E r \in X : \E t \in Sides : o = <<r.line, r.span, t>>
  <2>1. O = {<<r.line, r.span, t>> : r \in X, t \in Sides}
    OBVIOUS
  <2> HIDE DEF X, Sides, O
  <2>2. QED
    BY <2>1
<1>4. W \subseteq O /\ \A a, b, t : <<a, b, t>> \in O =>
        (<<a, b, t>> \in W <=> \E r \in C : r.line = a /\ r.span = b /\ r[t] > 0)
  <2> HIDE DEF O
  <2>1. QED
    OBVIOUS
<1>5. /\ V \subseteq M \X Sides /\ Mt \subseteq M /\ Mf \subseteq M
      /\ \A i \in M : (i \in Mt <=> R[i].true > 0) /\ (i \in Mf <=> R[i].false > 0)
      /\ \A i \in M : (<<i, "true">> \in V <=> R[i].true > 0) /\ (<<i, "false">> \in V <=> R[i].false > 0)
  <2>1. /\ Mt \subseteq M /\ Mf \subseteq M
        /\ \A i \in M : (i \in Mt <=> R[i].true > 0) /\ (i \in Mf <=> R[i].false > 0)
    <3> HIDE DEF M
    <3>1. QED
      OBVIOUS
  <2> HIDE DEF M, Mt, Mf
  <2>2. V \subseteq M \X Sides
    BY <2>1
  <2>3. \A i \in M : (<<i, "true">> \in V <=> i \in Mt) /\ (<<i, "false">> \in V <=> i \in Mf)
    OBVIOUS
  <2>4. QED
    BY <2>1, <2>2, <2>3
<1>6. \A t \in Sides : t = "true" \/ t = "false"
  OBVIOUS
<1>7. "true" \in Sides /\ "false" \in Sides
  OBVIOUS
<1>8. IsFiniteSet(Sides) /\ Cardinality(Sides) = 2
  <2>1. IsFiniteSet({"true"}) /\ Cardinality({"true"}) = 1
    BY FS_Singleton
  <2>2. IsFiniteSet({"true"} \union {"false"}) /\ Cardinality({"true"} \union {"false"}) = 1 + 1
    BY <2>1, FS_AddElement
  <2>3. {"true"} \union {"false"} = Sides
    OBVIOUS
  <2>4. QED
    BY <2>2, <2>3
<1>9. \A x \in C : x \in X <=> x.line \in lines /\ x.span \notin spans
  OBVIOUS
<1>10. X \subseteq C
  OBVIOUS
<1>11. V = (Mt \X {"true"}) \union (Mf \X {"false"}) /\ (Mt \X {"true"}) \intersect (Mf \X {"false"}) = {}
  OBVIOUS
<1> HIDE DEF M, X, O, W, Sides, f, Mt, Mf, V
<1>12. /\ IsFiniteSet(M) /\ IsFiniteSet(Mt) /\ IsFiniteSet(Mf)
       /\ Cardinality(M) \in Nat /\ Cardinality(Mt) \in Nat /\ Cardinality(Mf) \in Nat
  <2>1. R \in Seq(Regions(C))
    BY DEF Merged
  <2>2. DOMAIN R = 1..Len(R) /\ Len(R) \in Int /\ 1 \in Int
    BY <2>1
  <2>3. IsFiniteSet(DOMAIN R)
    BY <2>2, FS_Interval
  <2>4. M \in SUBSET DOMAIN R /\ Mt \in SUBSET DOMAIN R /\ Mf \in SUBSET DOMAIN R
    BY <1>1, <1>5
  <2>5. IsFiniteSet(M) /\ IsFiniteSet(Mt) /\ IsFiniteSet(Mf)
    BY <2>3, <2>4, FS_Subset
  <2>6. QED
    BY <2>5, FS_CardinalityType
<1>13. \A x, y \in M \X Sides : f[x] = f[y] => x = y
  <2>1. SUFFICES ASSUME NEW x \in M \X Sides, NEW y \in M \X Sides, f[x] = f[y]
                 PROVE  x = y
    OBVIOUS
  <2>2. PICK i \in M, t \in Sides : x = <<i, t>>
    BY <1>2
  <2>3. PICK j \in M, u \in Sides : y = <<j, u>>
    BY <1>2
  <2>4. <<R[i].line, R[i].span, t>> = <<R[j].line, R[j].span, u>>
    BY <1>2, <2>1, <2>2, <2>3
  <2>5. Same(R[i], R[j]) /\ t = u
    BY <2>4 DEF Same
  <2>6. QED
    BY <1>1, <2>2, <2>3, <2>5 DEF Merged
<1>14. O = {f[x] : x \in M \X Sides}
  <2>1. ASSUME NEW o \in O
        PROVE  \E x \in M \X Sides : o = f[x]
    <3>1. PICK r \in X, t \in Sides : o = <<r.line, r.span, t>>
      BY <1>3
    <3>2. PICK i \in DOMAIN R : Same(r, R[i])
      BY <1>10 DEF Merged
    <3>3. i \in M /\ R[i].line = r.line /\ R[i].span = r.span
      BY <1>1, <1>9, <1>10, <3>2 DEF Same
    <3>4. o = f[<<i, t>>] /\ <<i, t>> \in M \X Sides
      BY <1>2, <3>1, <3>3
    <3>5. QED
      BY <3>4
  <2>2. ASSUME NEW x \in M \X Sides
        PROVE  f[x] \in O
    <3>1. PICK i \in M, t \in Sides : x = <<i, t>>
      BY <1>2
    <3>2. PICK r \in C : Same(r, R[i])
      BY <1>1 DEF Merged
    <3>3. r \in X /\ R[i].line = r.line /\ R[i].span = r.span
      BY <1>1, <1>9, <3>2 DEF Same
    <3>4. f[x] = <<r.line, r.span, t>>
      BY <1>2, <3>1, <3>3
    <3>5. QED
      BY <1>3, <3>3, <3>4
  <2>3. QED
    BY <2>1, <2>2
<1>15. Cardinality(O) = 2 * Cardinality(M)
  <2>1. IsFiniteSet(M \X Sides) /\ Cardinality(M \X Sides) = Cardinality(M) * 2
    BY <1>8, <1>12, FS_Product
  <2>2. Cardinality(O) = Cardinality(M \X Sides)
    BY <1>13, <1>14, <2>1, ImagesCount
  <2>3. QED
    BY <1>12, <2>1, <2>2
<1>16. \A x \in M \X Sides : f[x] \in W <=> x \in V
  <2>1. SUFFICES ASSUME NEW x \in M \X Sides
                 PROVE  f[x] \in W <=> x \in V
    OBVIOUS
  <2>2. PICK i \in M, t \in Sides : x = <<i, t>>
    BY <1>2
  <2>3. /\ f[x] = <<R[i].line, R[i].span, t>> /\ f[x] \in O
    BY <1>2, <1>14, <2>2
  <2>4. f[x] \in W <=> \E r \in C : r.line = R[i].line /\ r.span = R[i].span /\ r[t] > 0
    BY <1>4, <2>3
  <2>5. /\ R[i].true > 0 <=> \E r \in C : r.line = R[i].line /\ r.span = R[i].span /\ r["true"] > 0
        /\ R[i].false > 0 <=> \E r \in C : r.line = R[i].line /\ r.span = R[i].span /\ r["false"] > 0
    BY <1>1 DEF Merged, SeenTrue, SeenFalse, Same
  <2>6. CASE t = "true"
    BY <1>5, <2>2, <2>4, <2>5, <2>6
  <2>7. CASE t = "false"
    BY <1>5, <2>2, <2>4, <2>5, <2>7
  <2>8. QED
    BY <1>6, <2>6, <2>7
<1>17. W = {f[x] : x \in V}
  BY <1>4, <1>5, <1>14, <1>16
<1>18. Cardinality(W) = Cardinality(Mt) + Cardinality(Mf)
  <2>1. \A x, y \in V : f[x] = f[y] => x = y
    BY <1>5, <1>13
  <2>2. /\ IsFiniteSet(Mt \X {"true"}) /\ Cardinality(Mt \X {"true"}) = Cardinality(Mt) * 1
        /\ IsFiniteSet(Mf \X {"false"}) /\ Cardinality(Mf \X {"false"}) = Cardinality(Mf) * 1
    <3>1. /\ IsFiniteSet({"true"}) /\ Cardinality({"true"}) = 1
          /\ IsFiniteSet({"false"}) /\ Cardinality({"false"}) = 1
      BY FS_Singleton
    <3>2. IsFiniteSet(Mt \X {"true"}) /\ Cardinality(Mt \X {"true"}) = Cardinality(Mt) * Cardinality({"true"})
      BY <1>12, <3>1, FS_Product
    <3>3. IsFiniteSet(Mf \X {"false"}) /\ Cardinality(Mf \X {"false"}) = Cardinality(Mf) * Cardinality({"false"})
      BY <1>12, <3>1, FS_Product
    <3>4. QED
      BY <3>1, <3>2, <3>3
  <2>3. Cardinality((Mt \X {"true"}) \intersect (Mf \X {"false"})) = 0
    BY <1>11, FS_EmptySet
  <2>4. IsFiniteSet(V) /\ Cardinality(V) = Cardinality(Mt) * 1 + Cardinality(Mf) * 1 - 0
    BY <1>11, <2>2, <2>3, FS_Union
  <2>5. Cardinality(W) = Cardinality(V)
    BY <1>17, <2>1, <2>4, ImagesCount
  <2>6. QED
    BY <1>12, <2>4, <2>5
<1>19. QED
  BY <1>12, <1>15, <1>18 DEF M, X, O, W, Mt, Mf, CountsOutcomes

-----------------------------------------------------------------------------
(***************************************************************************)
(* Decisions.                                                              *)
(***************************************************************************)

\* The values differ, so far as anybody looked, in this condition only.
Alone(n, c, v, w) == {o \in 1..n : {v[o], w[o]} = {"true", "false"}} = {c}

\* They are seen to differ in it, and are absent or agree in every other.
Apart(n, c, v, w) ==
  /\ v[c] # "absent" /\ w[c] # "absent" /\ v[c] # w[c]
  /\ \A o \in (1..n) \ {c} : v[o] = "absent" \/ w[o] = "absent" \/ v[o] = w[o]

\* The tool and the definition mean the same by a pair that shows a condition.
LEMMA DecidedAlone ==
  ASSUME NEW n \in Nat, NEW c \in 1..n,
         NEW v \in [1..n -> {"true", "false", "absent"}], NEW w \in [1..n -> {"true", "false", "absent"}]
  PROVE  Alone(n, c, v, w) <=> Apart(n, c, v, w)
<1> DEFINE Differ(o) == {v[o], w[o]} = {"true", "false"}
           Seen(o) == v[o] # "absent" /\ w[o] # "absent" /\ v[o] # w[o]
<1>1. \A a, b \in {"true", "false", "absent"} :
        {a, b} = {"true", "false"} <=> a # "absent" /\ b # "absent" /\ a # b
  OBVIOUS
<1>2. \A o \in 1..n : Differ(o) <=> Seen(o)
  <2>1. \A o \in 1..n : v[o] \in {"true", "false", "absent"} /\ w[o] \in {"true", "false", "absent"}
    OBVIOUS
  <2>2. QED
    BY <1>1, <2>1
<1> HIDE DEF Differ
<1>3. {o \in 1..n : Differ(o)} = {c} <=> Seen(c) /\ \A o \in (1..n) \ {c} : ~Seen(o)
  BY <1>2
<1>4. QED
  BY <1>3 DEF Differ, Alone, Apart

\* A decision is independently covered exactly when each of its conditions decides.
LEMMA CoveredDecides ==
  ASSUME NEW d, IsDecision(d)
  PROVE  DecisionIsIndependentlyCovered(d)
           <=> d.conditions > 0 /\ \A c \in 1..d.conditions : Decides(d, c)
<1> DEFINE n == d.conditions
<1>1. \A v, w \in d.vectors : \A c \in 1..n : Alone(n, c, v.values, w.values) <=> Apart(n, c, v.values, w.values)
  <2>1. n \in Nat /\ \A v \in d.vectors : v.values \in [1..n -> {"true", "false", "absent"}]
    BY DEF IsDecision
  <2> HIDE DEF n
  <2>2. QED
    BY <2>1, DecidedAlone
<1>2. DecisionIsIndependentlyCovered(d)
        <=> n > 0 /\ \A c \in 1..n : \E v, w \in d.vectors :
              v.executed /\ w.executed /\ v.result # w.result /\ Apart(n, c, v.values, w.values)
  BY DEF DecisionIsIndependentlyCovered, Apart
<1>3. \A c : Decides(d, c) <=> \E v, w \in {x \in d.vectors : x.executed} :
                                 v.result # w.result /\ Alone(n, c, v.values, w.values)
  BY DEF Decides, Alone
<1> HIDE DEF n
<1>4. QED
  BY <1>1, <1>2, <1>3 DEF n

-----------------------------------------------------------------------------
(***************************************************************************)
(* The diff.                                                               *)
(***************************************************************************)

\* The last row with some marks moves with each row that has one of them.
LEMMA LastMoves ==
  ASSUME NEW marks, NEW i \in Nat, i > 0
  PROVE  /\ LastOf(i, marks) \in 0..(i - 1)
         /\ LastOf(i, marks) > 0 => rows[LastOf(i, marks)].mark \in marks
         /\ i = 1 => LastOf(i, marks) = 0
         /\ LastOf(i + 1, marks) = IF rows[i].mark \in marks THEN i ELSE LastOf(i, marks)
<1> DEFINE S(k) == {0} \union {j \in 1..(k - 1) : rows[j].mark \in marks}
<1>1. /\ S(i) \in SUBSET (0..(i - 1)) /\ S(i) # {} /\ i - 1 \in Nat
      /\ \A k \in S(i) : k > 0 => rows[k].mark \in marks
  OBVIOUS
<1>2. S(i + 1) = IF rows[i].mark \in marks THEN S(i) \union {i} ELSE S(i)
  OBVIOUS
<1>3. \A k : LastOf(k, marks) = Max(S(k))
  BY DEF LastOf
<1> HIDE DEF S
<1>4. Max(S(i)) \in S(i) /\ Max(S(i)) \in 0..(i - 1)
  BY <1>1, MaxExists
<1>5. CASE rows[i].mark \in marks
  <2>1. S(i + 1) \in SUBSET Int /\ i \in S(i + 1) /\ \A k \in S(i + 1) : k <= i
    BY <1>1, <1>2, <1>5
  <2>2. Max(S(i + 1)) = i
    BY <2>1, MaxIs
  <2>3. QED
    BY <1>1, <1>3, <1>4, <1>5, <2>2
<1>6. CASE rows[i].mark \notin marks
  BY <1>1, <1>2, <1>3, <1>4, <1>6
<1>7. QED
  BY <1>5, <1>6

\* The marks that end a hunk, and those of the rows of the new file.
Enders == {"+++", "---", "diff", "index", "other", "@@"}
NewRows == {"+", "context"}

\* The line a row adds is counted from the head of its hunk.
LEMMA LineMoves ==
  ASSUME NEW i \in Nat, i > 0, LastOf(i + 1, {"@@"}) > 0,
         \A j \in 1..i : rows[j].mark = "@@" => rows[j].start \in Nat
  PROVE  /\ AddedLine(i + 1) \in Nat
         /\ rows[i].mark = "@@" => AddedLine(i + 1) = rows[i].start
         /\ rows[i].mark # "@@" /\ rows[i].mark \in NewRows => AddedLine(i + 1) = AddedLine(i) + 1
         /\ rows[i].mark # "@@" /\ rows[i].mark \notin NewRows => AddedLine(i + 1) = AddedLine(i)
<1> DEFINE h == LastOf(i + 1, {"@@"})
           C(a, b) == {j \in a..b : rows[j].mark \in NewRows}
<1>1. /\ h \in 1..i /\ rows[h].mark = "@@"
      /\ rows[i].mark = "@@" => h = i
      /\ rows[i].mark # "@@" => h = LastOf(i, {"@@"})
  <2>1. h \in 0..((i + 1) - 1) /\ (h > 0 => rows[h].mark \in {"@@"})
    BY LastMoves
  <2>2. h = IF rows[i].mark \in {"@@"} THEN i ELSE LastOf(i, {"@@"})
    BY LastMoves
  <2>3. QED
    BY <2>1, <2>2
<1>2. AddedLine(i + 1) = rows[h].start + Cardinality(C(h, i))
  BY DEF AddedLine, NewRows
<1>3. rows[i].mark # "@@" => AddedLine(i) = rows[h].start + Cardinality(C(h, i - 1))
  BY <1>1 DEF AddedLine, NewRows
<1>4. \A a, b \in Int : IsFiniteSet(C(a, b)) /\ Cardinality(C(a, b)) \in Nat
  <2>1. SUFFICES ASSUME NEW a \in Int, NEW b \in Int
                 PROVE  IsFiniteSet(C(a, b)) /\ Cardinality(C(a, b)) \in Nat
    OBVIOUS
  <2>2. IsFiniteSet(a..b) /\ C(a, b) \in SUBSET (a..b)
    BY FS_Interval
  <2>3. IsFiniteSet(C(a, b))
    BY <2>2, FS_Subset
  <2>4. QED
    BY <2>3, FS_CardinalityType
<1>5. /\ IsFiniteSet(C(h, i - 1)) /\ Cardinality(C(h, i - 1)) \in Nat /\ Cardinality(C(h, i)) \in Nat
      /\ rows[h].start \in Nat
  <2>1. h \in Int /\ i - 1 \in Int /\ i \in Int
    BY <1>1
  <2> HIDE DEF C, h
  <2>2. QED
    BY <1>1, <1>4, <2>1
<1>6. CASE rows[i].mark = "@@"
  <2>1. C(i, i) = {}
    BY <1>6 DEF NewRows
  <2>2. QED
    BY <1>1, <1>2, <1>6, <2>1, FS_EmptySet
<1>7. CASE rows[i].mark # "@@" /\ rows[i].mark \in NewRows
  <2>1. C(h, i) = C(h, i - 1) \union {i} /\ i \notin C(h, i - 1)
    BY <1>1, <1>7
  <2>2. Cardinality(C(h, i)) = Cardinality(C(h, i - 1)) + 1
    <3> DEFINE B == C(h, i - 1)
    <3>1. IsFiniteSet(B) /\ i \notin B
      BY <1>5, <2>1
    <3> HIDE DEF B
    <3>2. Cardinality(B \union {i}) = Cardinality(B) + 1
      BY <3>1, FS_AddElement
    <3>3. QED
      BY <2>1, <3>2 DEF B
  <2> HIDE DEF C
  <2>3. QED
    BY <1>1, <1>2, <1>3, <1>5, <1>7, <2>2
<1>8. CASE rows[i].mark # "@@" /\ rows[i].mark \notin NewRows
  <2>1. C(h, i) = C(h, i - 1)
    BY <1>1, <1>8
  <2> HIDE DEF C
  <2>2. QED
    BY <1>1, <1>2, <1>3, <1>5, <1>8, <2>1
<1>9. QED
  BY <1>6, <1>7, <1>8

\* What one row of a diff is read as, when it is what its mark says.
DiffStates ==
  [file : DOMAIN Unit \union {None}, next : Nat, inHunk : BOOLEAN, malformed : BOOLEAN,
   changed : SUBSET ((DOMAIN Unit) \X Nat)]

Unread == [file |-> None, next |-> 0, inHunk |-> FALSE, malformed |-> FALSE, changed |-> {}]

\* A row that adds a line to a file, in a hunk of that file.
Adds(j) ==
  /\ rows[j].mark = "+"
  /\ LastOf(j, Enders) = LastOf(j, {"@@"})
  /\ LastOf(j, {"+++"}) > 0
  /\ rows[LastOf(j, {"+++"})].path # None

AddedRow(j) == <<rows[LastOf(j, {"+++"})].path, AddedLine(j)>>

AddedRows(i) == {AddedRow(j) : j \in {k \in 1..i : Adds(k)}}

\* The state of the reader after i rows says what those rows say.
Tracks(s, i) ==
  /\ s.file = IF LastOf(i + 1, {"+++"}) > 0 THEN rows[LastOf(i + 1, {"+++"})].path ELSE None
  /\ LastOf(i + 1, {"+++"}) > 0 => LastOf(i + 1, Enders) > 0
  /\ s.file # None => (s.inHunk <=> LastOf(i + 1, {"@@"}) > 0 /\ LastOf(i + 1, Enders) = LastOf(i + 1, {"@@"}))
  /\ s.file # None /\ s.inHunk => s.next = AddedLine(i + 1)
  /\ \A j \in 1..i : rows[j].mark = "@@" => rows[j].start \in Nat
  /\ s.changed = AddedRows(i)

\* One row is read into a state of the reader.
LEMMA RowIsRead ==
  ASSUME NEW s \in DiffStates, ~s.malformed, NEW row, IsDiffRow(row), Reads(row) = row.mark
  PROVE  LET next == DiffRow(s, row)
             open == s.inHunk /\ s.file # None
         IN /\ next \in DiffStates
            /\ row.mark = "+++" => next = [s EXCEPT !.file = row.path, !.inHunk = FALSE]
            /\ row.mark \in Headers => next = [s EXCEPT !.inHunk = FALSE]
            /\ row.mark = "@@" => /\ row.start = None => next.malformed
                                  /\ row.start # None =>
                                       row.start \in Nat /\ next = [s EXCEPT !.next = row.start, !.inHunk = TRUE]
            /\ row.mark = "+" /\ open =>
                 next = [s EXCEPT !.next = @ + 1, !.changed = @ \union {<<s.file, s.next>>}]
            /\ row.mark = "context" /\ open => next = [s EXCEPT !.next = @ + 1]
            /\ row.mark = "other" /\ open => next = [s EXCEPT !.inHunk = FALSE]
            /\ row.mark \in {"-", "~"} \/ (row.mark \in {"+", "context", "other"} /\ ~open) => next = s
<1> DEFINE next == DiffRow(s, row)
           open == s.inHunk /\ s.file # None
<1>1. row.mark \in {"+++", "---", "diff", "index", "@@", "+", "-", "~", "context", "other"}
  BY DEF IsDiffRow
<1>2. /\ s = [file |-> s.file, next |-> s.next, inHunk |-> s.inHunk, malformed |-> s.malformed, changed |-> s.changed]
      /\ s.file \in DOMAIN Unit \union {None} /\ s.next \in Nat /\ s.inHunk \in BOOLEAN /\ s.malformed \in BOOLEAN
      /\ s.changed \in SUBSET ((DOMAIN Unit) \X Nat)
  BY DEF DiffStates
<1>3. CASE row.mark = "+++"
  <2>1. next = [s EXCEPT !.file = row.path, !.inHunk = FALSE]
    BY <1>3 DEF DiffRow, Headers
  <2>2. row.path \in DOMAIN Unit \union {None}
    BY <1>3 DEF IsDiffRow
  <2> HIDE DEF next
  <2>3. next \in DiffStates
    BY <1>2, <2>1, <2>2 DEF DiffStates
  <2>4. QED
    BY <1>3, <2>1, <2>3 DEF Headers, next
<1>4. CASE row.mark \in Headers
  <2>1. next = [s EXCEPT !.inHunk = FALSE]
    BY <1>4 DEF DiffRow, Headers
  <2> HIDE DEF next
  <2>2. next \in DiffStates
    BY <1>2, <2>1 DEF DiffStates
  <2>3. QED
    BY <1>4, <2>1, <2>2 DEF Headers, next
<1>5. CASE row.mark = "@@"
  <2>1. /\ row.start = None => next = [s EXCEPT !.malformed = TRUE]
        /\ row.start # None => next = [s EXCEPT !.next = row.start, !.inHunk = TRUE]
    BY <1>5 DEF DiffRow, Headers
  <2>2. row.start \in Nat \union {None}
    BY <1>5 DEF IsDiffRow
  <2> HIDE DEF next
  <2>3. next \in DiffStates /\ (row.start = None => next.malformed)
    BY <1>2, <2>1, <2>2 DEF DiffStates
  <2>4. QED
    BY <1>5, <2>1, <2>2, <2>3 DEF Headers, next
<1>6. CASE row.mark \in {"-", "~"} \/ (row.mark \in {"+", "context", "other"} /\ ~open)
  <2>1. next = s
    BY <1>6 DEF DiffRow, Headers
  <2>2. QED
    BY <1>6, <2>1 DEF Headers
<1>7. CASE row.mark = "+" /\ open
  <2>1. next = [s EXCEPT !.next = @ + 1, !.changed = @ \union {<<s.file, s.next>>}]
    BY <1>7 DEF DiffRow, Headers
  <2>2. <<s.file, s.next>> \in (DOMAIN Unit) \X Nat /\ s.next + 1 \in Nat
    <3>1. s.file \in DOMAIN Unit /\ s.next \in Nat
      BY <1>2, <1>7
    <3>2. QED
      BY <3>1
  <2>3. s.changed \union {<<s.file, s.next>>} \in SUBSET ((DOMAIN Unit) \X Nat)
    BY <1>2, <2>2
  <2> HIDE DEF next
  <2>4. next \in DiffStates
    <3> DEFINE new == s.changed \union {<<s.file, s.next>>}
               line == s.next + 1
    <3>1. next = [s EXCEPT !.next = line, !.changed = new]
      BY <2>1
    <3>2. new \in SUBSET ((DOMAIN Unit) \X Nat) /\ line \in Nat
      BY <2>2, <2>3
    <3> HIDE DEF new, line
    <3>3. next = [file |-> s.file, next |-> line, inHunk |-> s.inHunk, malformed |-> s.malformed, changed |-> new]
      BY <1>2, <3>1
    <3>4. QED
      BY <1>2, <3>2, <3>3 DEF DiffStates
  <2>5. QED
    BY <1>7, <2>1, <2>4 DEF Headers, next
<1>8. CASE row.mark = "context" /\ open
  <2>1. next = [s EXCEPT !.next = @ + 1]
    BY <1>8 DEF DiffRow, Headers
  <2> HIDE DEF next
  <2>2. next \in DiffStates
    <3> DEFINE line == s.next + 1
    <3>1. next = [s EXCEPT !.next = line] /\ line \in Nat
      BY <1>2, <2>1
    <3> HIDE DEF line
    <3>2. next = [file |-> s.file, next |-> line, inHunk |-> s.inHunk, malformed |-> s.malformed,
                  changed |-> s.changed]
      BY <1>2, <3>1
    <3>3. QED
      BY <1>2, <3>1, <3>2 DEF DiffStates
  <2>3. QED
    BY <1>8, <2>1, <2>2 DEF Headers, next
<1>9. CASE row.mark = "other" /\ open
  <2>1. next = [s EXCEPT !.inHunk = FALSE]
    BY <1>9 DEF DiffRow, Headers
  <2> HIDE DEF next
  <2>2. next \in DiffStates
    BY <1>2, <2>1 DEF DiffStates
  <2>3. QED
    BY <1>9, <2>1, <2>2 DEF Headers, next
<1> HIDE DEF next
<1>10. QED
  BY <1>1, <1>3, <1>4, <1>5, <1>6, <1>7, <1>8, <1>9 DEF Headers, next

\* What the rows so far add grows by what one row adds.
LEMMA AddedRowsGrow ==
  ASSUME NEW i \in Nat, i > 0
  PROVE  AddedRows(i) = AddedRows(i - 1) \union (IF Adds(i) THEN {AddedRow(i)} ELSE {})
<1>1. 1..i = (1..(i - 1)) \union {i}
  OBVIOUS
<1>2. QED
  BY <1>1 DEF AddedRows

\* A reader that says what the rows before one say, says after it what they say with it.
LEMMA RowIsTracked ==
  ASSUME NEW i \in Nat, i > 0, NEW s \in DiffStates, ~s.malformed, Tracks(s, i - 1),
         IsDiffRow(rows[i]), Reads(rows[i]) = rows[i].mark,
         ~DiffRow(s, rows[i]).malformed
  PROVE  Tracks(DiffRow(s, rows[i]), i)
<1> DEFINE row == rows[i]
           next == DiffRow(s, row)
           open == s.inHunk /\ s.file # None
           P == LastOf(i, {"+++"})
           E == LastOf(i, Enders)
           H == LastOf(i, {"@@"})
           P2 == LastOf(i + 1, {"+++"})
           E2 == LastOf(i + 1, Enders)
           H2 == LastOf(i + 1, {"@@"})
<1>1. /\ P \in 0..(i - 1) /\ E \in 0..(i - 1) /\ H \in 0..(i - 1)
      /\ P2 = IF row.mark = "+++" THEN i ELSE P
      /\ E2 = IF row.mark \in Enders THEN i ELSE E
      /\ H2 = IF row.mark = "@@" THEN i ELSE H
  <2>1. /\ P2 = IF row.mark \in {"+++"} THEN i ELSE P
        /\ E2 = IF row.mark \in Enders THEN i ELSE E
        /\ H2 = IF row.mark \in {"@@"} THEN i ELSE H
    BY LastMoves
  <2>2. P \in 0..(i - 1) /\ E \in 0..(i - 1) /\ H \in 0..(i - 1)
    BY LastMoves
  <2>3. QED
    BY <2>1, <2>2
<1>2. /\ s.file = IF P > 0 THEN rows[P].path ELSE None
      /\ P > 0 => E > 0
      /\ s.file # None => (s.inHunk <=> H > 0 /\ E = H)
      /\ s.file # None /\ s.inHunk => s.next = AddedLine(i)
      /\ \A j \in 1..(i - 1) : rows[j].mark = "@@" => rows[j].start \in Nat
      /\ s.changed = AddedRows(i - 1)
  <2>1. (i - 1) + 1 = i
    OBVIOUS
  <2>2. QED
    BY <2>1 DEF Tracks
<1>3. Adds(i) <=> row.mark = "+" /\ open
  BY <1>1, <1>2 DEF Adds
<1>4. Adds(i) => AddedRow(i) = <<s.file, s.next>>
  BY <1>2, <1>3 DEF AddedRow, Adds
<1>5. AddedRows(i) = s.changed \union (IF Adds(i) THEN {<<s.file, s.next>>} ELSE {})
  BY <1>2, <1>4, AddedRowsGrow
<1>6. row.mark \in {"+++", "---", "diff", "index", "@@", "+", "-", "~", "context", "other"}
  BY DEF IsDiffRow
<1>7. /\ row.mark = "+++" => next = [s EXCEPT !.file = row.path, !.inHunk = FALSE]
      /\ row.mark \in Headers => next = [s EXCEPT !.inHunk = FALSE]
      /\ row.mark = "@@" => row.start \in Nat /\ next = [s EXCEPT !.next = row.start, !.inHunk = TRUE]
      /\ row.mark = "+" /\ open =>
           next = [s EXCEPT !.next = @ + 1, !.changed = @ \union {<<s.file, s.next>>}]
      /\ row.mark = "context" /\ open => next = [s EXCEPT !.next = @ + 1]
      /\ row.mark = "other" /\ open => next = [s EXCEPT !.inHunk = FALSE]
      /\ row.mark \in {"-", "~"} \/ (row.mark \in {"+", "context", "other"} /\ ~open) => next = s
  BY RowIsRead
<1>8. s = [file |-> s.file, next |-> s.next, inHunk |-> s.inHunk, malformed |-> s.malformed, changed |-> s.changed]
      /\ s.inHunk \in BOOLEAN
  BY DEF DiffStates
<1>9. \A j \in 1..i : rows[j].mark = "@@" => rows[j].start \in Nat
  BY <1>2, <1>7
<1>10. H2 > 0 => /\ row.mark = "@@" => AddedLine(i + 1) = row.start
                 /\ row.mark # "@@" /\ row.mark \in NewRows => AddedLine(i + 1) = AddedLine(i) + 1
                 /\ row.mark # "@@" /\ row.mark \notin NewRows => AddedLine(i + 1) = AddedLine(i)
  BY <1>9, LineMoves
<1> HIDE DEF row, next, P, E, H, P2, E2, H2
<1>11. SUFFICES /\ next.file = IF P2 > 0 THEN rows[P2].path ELSE None
                /\ P2 > 0 => E2 > 0
                /\ next.file # None => (next.inHunk <=> H2 > 0 /\ E2 = H2)
                /\ next.file # None /\ next.inHunk => next.next = AddedLine(i + 1)
                /\ next.changed = AddedRows(i)
  BY <1>9 DEF Tracks, next, row, P2, E2, H2
<1>12. rows[i] = row
  BY DEF row
<1>13. CASE row.mark = "+++"
  <2>1. /\ next.file = row.path /\ ~next.inHunk /\ next.changed = s.changed
    BY <1>7, <1>8, <1>13
  <2>2. QED
    BY <1>1, <1>3, <1>5, <1>12, <1>13, <2>1 DEF Enders
<1>14. CASE row.mark \in Headers
  <2>1. /\ next.file = s.file /\ ~next.inHunk /\ next.changed = s.changed
    BY <1>7, <1>8, <1>14
  <2>2. QED
    BY <1>1, <1>2, <1>3, <1>5, <1>14, <2>1 DEF Enders, Headers
<1>15. CASE row.mark = "@@"
  <2>1. /\ next.file = s.file /\ next.inHunk /\ next.changed = s.changed /\ next.next = row.start
    BY <1>7, <1>8, <1>15
  <2>2. QED
    BY <1>1, <1>2, <1>3, <1>5, <1>10, <1>15, <2>1 DEF Enders
<1>16. CASE row.mark = "+" /\ open
  <2>1. /\ next.file = s.file /\ next.inHunk /\ next.next = s.next + 1
        /\ next.changed = s.changed \union {<<s.file, s.next>>}
    BY <1>7, <1>8, <1>16
  <2>2. QED
    BY <1>1, <1>2, <1>3, <1>5, <1>10, <1>16, <2>1 DEF Enders, NewRows
<1>17. CASE row.mark = "context" /\ open
  <2>1. /\ next.file = s.file /\ next.inHunk /\ next.next = s.next + 1 /\ next.changed = s.changed
    BY <1>7, <1>8, <1>17
  <2>2. QED
    BY <1>1, <1>2, <1>3, <1>5, <1>10, <1>17, <2>1 DEF Enders, NewRows
<1>18. CASE row.mark = "other" /\ open
  <2>1. /\ next.file = s.file /\ ~next.inHunk /\ next.changed = s.changed
    BY <1>7, <1>8, <1>18
  <2>2. QED
    BY <1>1, <1>2, <1>3, <1>5, <1>18, <2>1 DEF Enders
<1>19. CASE row.mark \in {"-", "~"}
  <2>1. next = s
    BY <1>7, <1>19
  <2>2. QED
    BY <1>1, <1>2, <1>3, <1>5, <1>10, <1>19, <2>1 DEF Enders, NewRows
<1>20. CASE row.mark \in {"+", "context", "other"} /\ ~open
  <2>1. next = s
    BY <1>7, <1>20
  <2>2. QED
    BY <1>1, <1>2, <1>3, <1>5, <1>20, <2>1 DEF Enders
<1>21. QED
  BY <1>6, <1>13, <1>14, <1>15, <1>16, <1>17, <1>18, <1>19, <1>20 DEF Headers

\* Rows of which each has its form and is what its mark says.
RowsAreDiff == IsList(rows) /\ (\A row \in Range(rows) : IsDiffRow(row)) /\ Plain

\* What is read of a diff that is not refused is every line its hunks add.
LEMMA DiffIsRead ==
  ASSUME RowsAreDiff
  PROVE  LET s == ParseUnifiedDiff(rows)
         IN s \in DiffStates /\ (~s.malformed => s.changed = AddedRows(Len(rows)))
<1> DEFINE n == Len(rows)
           Step(s, i) == DiffRow(s, rows[i])
           G == [i \in 1..n |-> [s \in DiffStates |-> Step(s, i)]]
           Solves(it) == it = [s \in SUBSET (1..n) |->
                                 IF s = {} THEN Unread ELSE Step(it[s \ {Max(s)}], Max(s))]
           chosen == CHOOSE it : Solves(it)
<1>1. /\ n \in Nat /\ DOMAIN rows = 1..n
      /\ \A i \in 1..n : IsDiffRow(rows[i]) /\ Reads(rows[i]) = rows[i].mark
  <2>1. n \in Nat /\ DOMAIN rows = 1..n
    BY DEF IsList, RowsAreDiff
  <2>2. \A i \in 1..n : rows[i] \in Range(rows)
    BY <2>1 DEF Range
  <2>3. QED
    BY <2>1, <2>2 DEF RowsAreDiff, Plain
<1>2. \A s \in DiffStates : \A i \in 1..n :
        /\ Step(s, i) \in DiffStates
        /\ s.malformed => Step(s, i) = s
  <2>1. SUFFICES ASSUME NEW s \in DiffStates, NEW i \in 1..n
                 PROVE  Step(s, i) \in DiffStates /\ (s.malformed => Step(s, i) = s)
    OBVIOUS
  <2>2. CASE s.malformed
    BY <2>2 DEF DiffRow
  <2>3. CASE ~s.malformed
    <3>1. IsDiffRow(rows[i]) /\ Reads(rows[i]) = rows[i].mark
      BY <1>1
    <3>2. Step(s, i) \in DiffStates
      BY <2>3, <3>1, RowIsRead
    <3>3. QED
      BY <2>3, <3>2
  <2>4. QED
    BY <2>2, <2>3
<1>3. ParseUnifiedDiff(rows) = chosen[1..n]
  BY <1>1 DEF ParseUnifiedDiff, FoldLeft, MapThenFoldSet, Unread
<1> HIDE DEF n, Step
<1>4. G \in [1..n -> [DiffStates -> DiffStates]] /\ \A i \in 1..n : \A s \in DiffStates : G[i][s] = Step(s, i)
  BY <1>2
<1>5. Unread \in DiffStates /\ ~Unread.malformed /\ \A s \in SUBSET (1..n) : s # {} => Max(s) \in 1..n
  BY <1>1, MaxOfPart DEF Unread, DiffStates
<1> HIDE DEF G
<1>6. \E it : Solves(it)
  <2>1. PICK it \in [SUBSET (1..n) -> DiffStates] : Recursion(it, DiffStates, Unread, n, G)
    BY <1>1, <1>4, <1>5, FoldExists
  <2>2. \A s \in SUBSET (1..n) : s # {} => it[s] = Step(it[s \ {Max(s)}], Max(s))
    BY <1>4, <1>5, <2>1 DEF Recursion
  <2>3. Solves(it)
    BY <2>1, <2>2 DEF Recursion
  <2>4. QED
    BY <2>3
<1>7. Solves(chosen)
  BY <1>6
<1> HIDE DEF chosen
<1>8. Recursion(chosen, DiffStates, Unread, n, G)
  BY <1>4, <1>5, <1>7 DEF Recursion
<1>9. PICK f : Passes(f, DiffStates, Unread, n, G) /\ f[n] = chosen[1..n]
  BY <1>1, <1>4, <1>5, <1>8, FoldSteps
<1> DEFINE T == {i \in Nat : i <= n => f[i] \in DiffStates /\ (~f[i].malformed => Tracks(f[i], i))}
<1>10. 0 \in T
  <2>1. /\ LastOf(0 + 1, {"+++"}) = 0
        /\ AddedRows(0) = {}
    BY LastMoves DEF AddedRows
  <2>2. Tracks(Unread, 0)
    BY <2>1 DEF Tracks, Unread
  <2>3. QED
    BY <1>5, <1>9, <2>2 DEF Passes
<1>11. ASSUME NEW i \in Nat, i \in T
       PROVE  i + 1 \in T
  <2>1. SUFFICES ASSUME i + 1 <= n
                 PROVE  f[i + 1] \in DiffStates /\ (~f[i + 1].malformed => Tracks(f[i + 1], i + 1))
    OBVIOUS
  <2>2. /\ i + 1 \in 1..n /\ (i + 1) - 1 = i /\ f[i] \in DiffStates /\ (~f[i].malformed => Tracks(f[i], i))
    BY <1>1, <1>11, <2>1
  <2>3. f[i + 1] = Step(f[i], i + 1) /\ f[i + 1] \in DiffStates
    BY <1>2, <1>4, <1>9, <2>2 DEF Passes
  <2>4. ASSUME ~f[i + 1].malformed
        PROVE  Tracks(f[i + 1], i + 1)
    <3>1. ~f[i].malformed
      BY <1>2, <2>2, <2>3, <2>4
    <3>2. Tracks(f[i], (i + 1) - 1) /\ i + 1 \in Nat /\ i + 1 > 0
      BY <2>2, <3>1
    <3>3. IsDiffRow(rows[i + 1]) /\ Reads(rows[i + 1]) = rows[i + 1].mark
      BY <1>1, <2>2
    <3>4. ~DiffRow(f[i], rows[i + 1]).malformed
      BY <2>3, <2>4 DEF Step
    <3>5. Tracks(DiffRow(f[i], rows[i + 1]), i + 1)
      BY <2>2, <3>1, <3>2, <3>3, <3>4, RowIsTracked
    <3>6. QED
      BY <2>3, <3>5 DEF Step
  <2>5. QED
    BY <2>3, <2>4
<1> HIDE DEF T
<1>12. n \in T
  BY <1>1, <1>10, <1>11, SetInduction
<1>13. QED
  BY <1>1, <1>3, <1>9, <1>12 DEF T, Tracks, n

\* The lines a diff changes in a file are those its hunks add there.
LEMMA ChangedIsAdded ==
  ASSUME RowsAreDiff, ~ParseUnifiedDiff(rows).malformed, found.changed = ParseUnifiedDiff(rows).changed,
         None \notin DOMAIN Unit
  PROVE  /\ \A u \in DOMAIN Unit : ChangedLines(u) = Added(u)
         /\ ChangedUnits = {u \in DOMAIN Unit : Unit[u].maintained /\ Added(u) # {}}
<1>1. found.changed \in SUBSET ((DOMAIN Unit) \X Nat) /\ found.changed = AddedRows(Len(rows))
  BY DiffIsRead DEF DiffStates
<1>2. Len(rows) \in Nat /\ DOMAIN rows = 1..Len(rows)
  BY DEF RowsAreDiff, IsList
<1>3. ASSUME NEW u \in DOMAIN Unit, NEW l
      PROVE  <<u, l>> \in found.changed <=> l \in Added(u)
  <2>1. \A j \in DOMAIN rows :
          Adds(j) /\ AddedRow(j)[1] = u
            <=> /\ rows[j].mark = "+"
                /\ LastOf(j, Enders) = LastOf(j, {"@@"})
                /\ LastOf(j, {"+++"}) > 0
                /\ rows[LastOf(j, {"+++"})].path = u
    BY DEF Adds, AddedRow
  <2>2. <<u, l>> \in found.changed <=> \E j \in DOMAIN rows : Adds(j) /\ AddedRow(j) = <<u, l>>
    BY <1>1, <1>2 DEF AddedRows
  <2>3. \A j : AddedRow(j) = <<u, l>> <=> AddedRow(j)[1] = u /\ AddedLine(j) = l
    BY DEF AddedRow
  <2>4. l \in Added(u) <=> \E j \in DOMAIN rows :
                             /\ rows[j].mark = "+"
                             /\ LastOf(j, Enders) = LastOf(j, {"@@"})
                             /\ LastOf(j, {"+++"}) > 0
                             /\ rows[LastOf(j, {"+++"})].path = u
                             /\ AddedLine(j) = l
    BY DEF Added, Enders
  <2>5. QED
    BY <2>1, <2>2, <2>3, <2>4
<1>4. \A x \in found.changed : x[1] \in DOMAIN Unit /\ x = <<x[1], x[2]>>
  BY <1>1
<1>5. \A u, l : l \in ChangedLines(u) <=> <<u, l>> \in found.changed
  BY <1>4 DEF ChangedLines
<1>6. \A u : u \in ChangedUnits <=> u \in DOMAIN Unit /\ Unit[u].maintained /\ \E l : <<u, l>> \in found.changed
  BY <1>4 DEF ChangedUnits
<1>7. QED
  BY <1>3, <1>5, <1>6

-----------------------------------------------------------------------------
(***************************************************************************)
(* Counted lines.                                                          *)
(***************************************************************************)

\* Numbers given to the positions of a sequence have a bound.
LEMMA NumbersBounded ==
  ASSUME NEW n \in Nat, NEW f \in [1..n -> Nat]
  PROVE  \E b \in Nat : \A i \in 1..n : f[i] <= b
<1> DEFINE T == {m \in Nat : m <= n => \E b \in Nat : \A i \in 1..m : f[i] <= b}
<1>1. 0 \in T
  OBVIOUS
<1>2. ASSUME NEW m \in Nat, m \in T
      PROVE  m + 1 \in T
  <2>1. SUFFICES ASSUME m + 1 <= n
                 PROVE  \E b \in Nat : \A i \in 1..(m + 1) : f[i] <= b
    OBVIOUS
  <2>2. PICK b \in Nat : \A i \in 1..m : f[i] <= b
    BY <1>2, <2>1
  <2>3. f[m + 1] \in Nat /\ b + f[m + 1] \in Nat
    BY <2>1
  <2>4. \A i \in 1..(m + 1) : f[i] <= b + f[m + 1]
    BY <2>1, <2>2, <2>3
  <2>5. QED
    BY <2>3, <2>4
<1> HIDE DEF T
<1>3. n \in T
  BY <1>1, <1>2, SetInduction
<1>4. QED
  BY <1>3 DEF T

\* The lines that were counted and never ran.
BlankOf(segments) ==
  {s.line : s \in {x \in Range(segments) :
     x.hasCount /\ \A y \in Range(segments) : y.hasCount /\ y.line = x.line => y.count = 0}}

\* A line has the greatest count of its segments, so it counts as never run
\* exactly when none of them ran.
LEMMA LinesCounted ==
  ASSUME NEW segments, IsList(segments), \A x \in Range(segments) : x.line \in Nat /\ x.count \in Nat
  PROVE  /\ {l \in DOMAIN LineCounts(segments) : LineCounts(segments)[l] = 0} = BlankOf(segments)
         /\ IsFiniteSet(BlankOf(segments)) /\ BlankOf(segments) \in SUBSET Nat
<1> DEFINE n == Len(segments)
           counted == {i \in 1..n : segments[i].hasCount}
           Counts(l) == {segments[i].count : i \in {j \in counted : segments[j].line = l}}
           lines == {segments[i].line : i \in counted}
<1>1. /\ n \in Nat /\ DOMAIN segments = 1..n /\ Range(segments) = {segments[i] : i \in 1..n}
      /\ \A i \in 1..n : segments[i].line \in Nat /\ segments[i].count \in Nat
  <2>1. n \in Nat /\ DOMAIN segments = 1..n
    BY DEF IsList
  <2>2. Range(segments) = {segments[i] : i \in 1..n} /\ \A i \in 1..n : segments[i] \in Range(segments)
    BY <2>1 DEF Range
  <2>3. QED
    BY <2>1, <2>2
<1>2. LineCounts(segments) = [l \in lines |-> Max(Counts(l))]
  BY <1>1 DEF LineCounts
<1>3. PICK b \in Nat : \A i \in 1..n : segments[i].count <= b
  <2> DEFINE f == [i \in 1..n |-> segments[i].count]
  <2>1. f \in [1..n -> Nat]
    BY <1>1
  <2> HIDE DEF f, n
  <2>2. PICK b \in Nat : \A i \in 1..n : f[i] <= b
    BY <1>1, <2>1, NumbersBounded
  <2>3. QED
    BY <2>2 DEF f
<1>4. PICK c \in Nat : \A i \in 1..n : segments[i].line <= c
  <2> DEFINE f == [i \in 1..n |-> segments[i].line]
  <2>1. f \in [1..n -> Nat]
    BY <1>1
  <2> HIDE DEF f, n
  <2>2. PICK c \in Nat : \A i \in 1..n : f[i] <= c
    BY <1>1, <2>1, NumbersBounded
  <2>3. QED
    BY <2>2 DEF f
<1>5. ASSUME NEW l \in lines
      PROVE  Max(Counts(l)) = 0 <=> \A i \in counted : segments[i].line = l => segments[i].count = 0
  <2>1. \A i \in counted : segments[i].line = l => segments[i].count \in Counts(l)
    OBVIOUS
  <2>2. \A x \in Counts(l) : \E i \in counted : segments[i].line = l /\ segments[i].count = x
    OBVIOUS
  <2>3. \E i \in counted : segments[i].line = l
    BY <1>5
  <2>4. \A i \in counted : segments[i].count \in 0..b
    BY <1>1, <1>3
  <2> HIDE DEF Counts, counted, lines
  <2>5. Counts(l) \in SUBSET (0..b) /\ Counts(l) # {}
    BY <2>1, <2>2, <2>3, <2>4
  <2>6. Max(Counts(l)) \in Counts(l) /\ \A k \in Counts(l) : k <= Max(Counts(l))
    BY <2>5, MaxExists
  <2>7. \A i \in counted : segments[i].count \in Nat
    BY <1>1 DEF counted
  <2>8. QED
    BY <2>5, <2>1, <2>2, <2>6, <2>7
<1>6. \A l : l \in BlankOf(segments) <=>
        \E i \in counted : segments[i].line = l /\ \A j \in counted : segments[j].line = l => segments[j].count = 0
  BY <1>1 DEF BlankOf
<1>7. \A l : l \in lines <=> \E i \in counted : segments[i].line = l
  OBVIOUS
<1>8. BlankOf(segments) \in SUBSET (0..c)
  BY <1>1, <1>4, <1>6
<1>9. IsFiniteSet(0..c)
  BY FS_Interval
<1>10. IsFiniteSet(BlankOf(segments)) /\ BlankOf(segments) \in SUBSET Nat
  <2>1. 0..c \in SUBSET Nat
    OBVIOUS
  <2>2. QED
    BY <1>8, <1>9, <2>1, FS_Subset
<1> HIDE DEF counted, Counts, lines
<1>11. {l \in DOMAIN LineCounts(segments) : LineCounts(segments)[l] = 0} = {l \in lines : Max(Counts(l)) = 0}
  BY <1>2
<1>12. QED
  BY <1>5, <1>6, <1>7, <1>10, <1>11

-----------------------------------------------------------------------------
(***************************************************************************)
(* The summary.                                                            *)
(***************************************************************************)

\* In a finite set with a strict total order, the number of elements below an
\* element is its place.
LEMMA Ranking ==
  ASSUME NEW S, IsFiniteSet(S), NEW below \in [S -> SUBSET S],
         \A x \in S : x \notin below[x],
         \A x, y \in S : x # y => x \in below[y] \/ y \in below[x],
         \A x, y \in S : x \in below[y] => below[x] \subseteq below[y]
  PROVE  /\ Cardinality(S) \in Nat
         /\ \A x \in S : Cardinality(below[x]) \in 0..(Cardinality(S) - 1)
         /\ \A x, y \in S : x \in below[y] <=> Cardinality(below[x]) < Cardinality(below[y])
         /\ \A x, y \in S : Cardinality(below[x]) = Cardinality(below[y]) => x = y
         /\ \A k \in 0..(Cardinality(S) - 1) : \E x \in S : Cardinality(below[x]) = k
<1>1. Cardinality(S) \in Nat
  BY FS_CardinalityType
<1>2. \A x \in S : /\ IsFiniteSet(below[x]) /\ Cardinality(below[x]) \in Nat
                   /\ Cardinality(below[x]) < Cardinality(S)
  <2>1. SUFFICES ASSUME NEW x \in S
                 PROVE  /\ IsFiniteSet(below[x]) /\ Cardinality(below[x]) \in Nat
                        /\ Cardinality(below[x]) < Cardinality(S)
    OBVIOUS
  <2>2. below[x] \in SUBSET S /\ below[x] # S
    BY <2>1
  <2>3. /\ IsFiniteSet(below[x]) /\ Cardinality(below[x]) <= Cardinality(S)
        /\ Cardinality(S) # Cardinality(below[x])
    BY <2>2, FS_Subset
  <2>4. Cardinality(below[x]) \in Nat
    BY <2>3, FS_CardinalityType
  <2>5. QED
    BY <1>1, <2>3, <2>4
<1>3. \A x, y \in S : x \in below[y] => Cardinality(below[x]) < Cardinality(below[y])
  <2>1. SUFFICES ASSUME NEW x \in S, NEW y \in S, x \in below[y]
                 PROVE  Cardinality(below[x]) < Cardinality(below[y])
    OBVIOUS
  <2>2. below[x] \in SUBSET below[y] /\ below[x] # below[y]
    BY <2>1
  <2>3. IsFiniteSet(below[y])
    BY <1>2
  <2>4. /\ Cardinality(below[x]) <= Cardinality(below[y])
        /\ Cardinality(below[y]) # Cardinality(below[x])
    BY <2>2, <2>3, FS_Subset
  <2>5. QED
    BY <1>2, <2>4
<1>4. \A x, y \in S : Cardinality(below[x]) < Cardinality(below[y]) => x \in below[y]
  BY <1>2, <1>3
<1>5. \A x, y \in S : Cardinality(below[x]) = Cardinality(below[y]) => x = y
  BY <1>2, <1>3
<1> DEFINE rank == [x \in S |-> Cardinality(below[x])]
<1>6. \A k \in 0..(Cardinality(S) - 1) : \E x \in S : Cardinality(below[x]) = k
  <2>1. IsFiniteSet(0..(Cardinality(S) - 1)) /\ Cardinality(0..(Cardinality(S) - 1)) = Cardinality(S)
    <3>1. 0 \in Int /\ Cardinality(S) - 1 \in Int
      BY <1>1
    <3>2. /\ IsFiniteSet(0..(Cardinality(S) - 1))
          /\ Cardinality(0..(Cardinality(S) - 1)) =
               IF 0 > Cardinality(S) - 1 THEN 0 ELSE (Cardinality(S) - 1) - 0 + 1
      BY <3>1, FS_Interval
    <3>3. QED
      BY <1>1, <3>2
  <2>2. rank \in [S -> 0..(Cardinality(S) - 1)]
    BY <1>1, <1>2
  <2>3. rank \in Injection(S, 0..(Cardinality(S) - 1))
    <3>1. \A x, y \in S : rank[x] = rank[y] => x = y
      BY <1>5
    <3>2. QED
      BY <2>2, <3>1 DEF Injection, IsInjective
  <2>4. rank \in Surjection(S, 0..(Cardinality(S) - 1))
    BY <2>1, <2>3, FS_Injection
  <2>5. QED
    BY <2>4 DEF Surjection
<1>7. QED
  BY <1>1, <1>2, <1>3, <1>4, <1>5, <1>6

\* As many numbers of a set have fewer than some room below them as the room
\* allows.
LEMMA FirstOnes ==
  ASSUME NEW S \in SUBSET Nat, IsFiniteSet(S), NEW room \in Nat
  PROVE  LET first == {l \in S : Cardinality({k \in S : k < l}) < room}
         IN Cardinality(first) = IF room < Cardinality(S) THEN room ELSE Cardinality(S)
<1> DEFINE below == [l \in S |-> {k \in S : k < l}]
           first == {l \in S : Cardinality(below[l]) < room}
           m == IF room < Cardinality(S) THEN room ELSE Cardinality(S)
           rank == [l \in S |-> Cardinality(below[l])]
<1>1. /\ Cardinality(S) \in Nat
      /\ \A x \in S : Cardinality(below[x]) \in 0..(Cardinality(S) - 1)
      /\ \A x, y \in S : Cardinality(below[x]) = Cardinality(below[y]) => x = y
      /\ \A k \in 0..(Cardinality(S) - 1) : \E x \in S : Cardinality(below[x]) = k
  <2>1. /\ below \in [S -> SUBSET S]
        /\ \A x \in S : x \notin below[x]
        /\ \A x, y \in S : x # y => x \in below[y] \/ y \in below[x]
        /\ \A x, y \in S : x \in below[y] => below[x] \subseteq below[y]
    <3>1. below \in [S -> SUBSET S] /\ \A x, y : y \in S => (x \in below[y] <=> x \in S /\ x < y)
      OBVIOUS
    <3> HIDE DEF below
    <3>2. \A x, y \in S : x \in below[y] => \A z \in below[x] : z \in below[y]
      BY <3>1
    <3>3. \A x, y \in S : x # y => x < y \/ y < x
      OBVIOUS
    <3>4. \A x \in S : ~(x < x)
      OBVIOUS
    <3>5. QED
      BY <3>1, <3>2, <3>3, <3>4, Zenon
  <2> HIDE DEF below
  <2>2. QED
    BY <2>1, Ranking
<1>2. {l \in S : Cardinality({k \in S : k < l}) < room} = first
  OBVIOUS
<1> HIDE DEF below
<1>3. {rank[l] : l \in first} = 0..(m - 1)
  <2>1. ASSUME NEW l \in first
        PROVE  rank[l] \in 0..(m - 1)
    <3>1. l \in S /\ Cardinality(below[l]) < room /\ rank[l] = Cardinality(below[l])
      OBVIOUS
    <3>2. QED
      BY <1>1, <3>1
  <2>2. ASSUME NEW k \in 0..(m - 1)
        PROVE  \E l \in first : rank[l] = k
    <3>1. k \in 0..(Cardinality(S) - 1) /\ k < room
      BY <1>1
    <3>2. PICK l \in S : Cardinality(below[l]) = k
      BY <1>1, <3>1
    <3>3. QED
      BY <3>1, <3>2
  <2> HIDE DEF first, rank, m
  <2>3. QED
    BY <2>1, <2>2
<1>4. IsFiniteSet(first) /\ \A x, y \in first : rank[x] = rank[y] => x = y
  <2>1. first \in SUBSET S
    OBVIOUS
  <2>2. IsFiniteSet(first)
    BY <2>1, FS_Subset
  <2>3. QED
    BY <1>1, <2>1, <2>2
<1>5. Cardinality(0..(m - 1)) = m
  <2>1. 0 \in Int /\ m - 1 \in Int /\ m \in Nat
    BY <1>1
  <2> HIDE DEF m
  <2>2. Cardinality(0..(m - 1)) = IF 0 > m - 1 THEN 0 ELSE (m - 1) - 0 + 1
    BY <2>1, FS_Interval
  <2>3. QED
    BY <2>1, <2>2
<1> HIDE DEF first, rank, m
<1>6. Cardinality({rank[l] : l \in first}) = Cardinality(first)
  BY <1>4, ImagesCount
<1>7. QED
  BY <1>2, <1>3, <1>5, <1>6 DEF m

\* Pairing the members of a set with one thing keeps the count.
LEMMA PairsCount ==
  ASSUME NEW S, IsFiniteSet(S), NEW u
  PROVE  IsFiniteSet({u} \X S) /\ Cardinality({u} \X S) = Cardinality(S)
<1>1. IsFiniteSet({u}) /\ Cardinality({u}) = 1
  BY FS_Singleton
<1>2. IsFiniteSet({u} \X S) /\ Cardinality({u} \X S) = Cardinality({u}) * Cardinality(S)
  BY <1>1, FS_Product
<1>3. Cardinality(S) \in Nat
  BY FS_CardinalityType
<1>4. QED
  BY <1>1, <1>2, <1>3

\* Sets that share nothing count together.
LEMMA DisjointCount ==
  ASSUME NEW S, IsFiniteSet(S), NEW T, IsFiniteSet(T), S \intersect T = {}
  PROVE  IsFiniteSet(S \union T) /\ Cardinality(S \union T) = Cardinality(S) + Cardinality(T)
<1>1. Cardinality(S \intersect T) = 0
  BY FS_EmptySet
<1>2. Cardinality(S) \in Nat /\ Cardinality(T) \in Nat
  BY FS_CardinalityType
<1>3. /\ IsFiniteSet(S \union T)
      /\ Cardinality(S \union T) = Cardinality(S) + Cardinality(T) - Cardinality(S \intersect T)
  BY FS_Union
<1>4. QED
  BY <1>1, <1>2, <1>3

\* The files that were read have paths, finitely many lines that never ran, and counts.
FilesAreRead ==
  /\ IsFiniteSet(DOMAIN found.files) /\ DOMAIN found.files \subseteq DOMAIN Unit
  /\ \A u \in DOMAIN found.files :
       /\ IsFiniteSet(Uncovered(u)) /\ Uncovered(u) \in SUBSET Nat
       /\ found.files[u].summary.covered \in Nat /\ found.files[u].summary.count \in Nat

\* The uncovered lines of some of them.
AllUncovered(us) == UNION {{u} \X Uncovered(u) : u \in us}

Below(u) == {v \in DOMAIN found.files : Unit[v].place < Unit[u].place}

\* The files that were read in the order of their paths.
Order ==
  [i \in 1..Cardinality(DOMAIN found.files) |-> CHOOSE u \in DOMAIN found.files : Cardinality(Below(u)) = i - 1]

\* In that order each file comes once.
LEMMA FilesInOrder ==
  ASSUME FilesAreRead
  PROVE  LET n == Cardinality(DOMAIN found.files)
         IN /\ n \in Nat /\ DOMAIN Order = 1..n
            /\ \A i \in 1..n : Order[i] \in DOMAIN found.files
            /\ \A i, j \in 1..n : Order[i] = Order[j] => i = j
            /\ \A u \in DOMAIN found.files : \E i \in 1..n : Order[i] = u
<1> DEFINE S == DOMAIN found.files
           n == Cardinality(S)
           below == [u \in S |-> Below(u)]
<1>1. IsFiniteSet(S) /\ \A u \in S : u \in DOMAIN Unit
  BY DEF FilesAreRead
<1>2. /\ \A u \in S : Unit[u].place \in Nat
      /\ \A u, v \in S : Unit[u].place = Unit[v].place => u = v
  BY <1>1, VerifyAssumption
<1>3. below \in [S -> SUBSET S] /\ \A u, v : v \in S => (u \in below[v] <=> u \in S /\ Unit[u].place < Unit[v].place)
  BY DEF Below
<1>4. \A u \in S : Cardinality(below[u]) = Cardinality(Below(u))
  OBVIOUS
<1> HIDE DEF below, S
<1>5. /\ n \in Nat
      /\ \A u \in S : Cardinality(below[u]) \in 0..(n - 1)
      /\ \A u, v \in S : Cardinality(below[u]) = Cardinality(below[v]) => u = v
      /\ \A k \in 0..(n - 1) : \E u \in S : Cardinality(below[u]) = k
  <2>1. \A u \in S : u \notin below[u]
    BY <1>2, <1>3
  <2>2. \A u, v \in S : u # v => u \in below[v] \/ v \in below[u]
    BY <1>2, <1>3
  <2>3. \A u, v \in S : u \in below[v] => below[u] \subseteq below[v]
    <3>1. SUFFICES ASSUME NEW u \in S, NEW v \in S, u \in below[v], NEW w \in below[u]
                   PROVE  w \in below[v]
      OBVIOUS
    <3>2. w \in S /\ Unit[w].place < Unit[u].place /\ Unit[u].place < Unit[v].place
      BY <1>3, <3>1
    <3>3. QED
      BY <1>2, <1>3, <3>2
  <2>4. QED
    BY <1>1, <1>3, <2>1, <2>2, <2>3, Ranking
<1>6. \A i \in 1..n : Order[i] \in S /\ Cardinality(below[Order[i]]) = i - 1
  <2>1. SUFFICES ASSUME NEW i \in 1..n
                 PROVE  Order[i] \in S /\ Cardinality(below[Order[i]]) = i - 1
    OBVIOUS
  <2>2. i - 1 \in 0..(n - 1)
    BY <1>5
  <2>3. \E u \in S : Cardinality(Below(u)) = i - 1
    BY <1>4, <1>5, <2>2
  <2>4. Order[i] = CHOOSE u \in S : Cardinality(Below(u)) = i - 1
    BY DEF Order, S
  <2>5. QED
    BY <1>4, <2>3, <2>4
<1>7. DOMAIN Order = 1..n
  BY DEF Order, S
<1>8. \A i, j \in 1..n : Order[i] = Order[j] => i = j
  BY <1>5, <1>6
<1>9. ASSUME NEW u \in S
      PROVE  \E i \in 1..n : Order[i] = u
  <2>1. Cardinality(below[u]) + 1 \in 1..n /\ (Cardinality(below[u]) + 1) - 1 = Cardinality(below[u])
    BY <1>5
  <2>2. Cardinality(below[Order[Cardinality(below[u]) + 1]]) = Cardinality(below[u])
        /\ Order[Cardinality(below[u]) + 1] \in S
    BY <1>6, <2>1
  <2>3. QED
    BY <1>5, <2>1, <2>2
<1>10. QED
  BY <1>5, <1>6, <1>7, <1>8, <1>9 DEF S

Sums ==
  [count : Nat, omitted : Nat, listed : SUBSET ((DOMAIN found.files) \X Nat), covered : Nat, total : Nat]

NoSums == [count |-> 0, omitted |-> 0, listed |-> {}, covered |-> 0, total |-> 0]

\* The lines of a file there is still room for.
Fits(s, u) == {l \in Uncovered(u) : Cardinality({k \in Uncovered(u) : k < l}) < MaxListed - s.count}

\* What one file adds to the sums.
Summed(s, u) ==
  [count   |-> s.count + Cardinality(Fits(s, u)),
   omitted |-> s.omitted + Cardinality(Uncovered(u) \ Fits(s, u)),
   listed  |-> s.listed \union ({u} \X Fits(s, u)),
   covered |-> s.covered + found.files[u].summary.covered,
   total   |-> s.total + found.files[u].summary.count]

\* The sums list what there was room for of these lines, and count the rest.
SumsUp(s, lines) ==
  /\ s \in Sums
  /\ IsFiniteSet(lines) /\ s.listed \subseteq lines
  /\ s.count = Cardinality(s.listed) /\ s.count <= MaxListed
  /\ s.count + s.omitted = Cardinality(lines)
  /\ s.omitted > 0 => s.count = MaxListed

\* The lines of a file that fit are finitely many, as are those left out.
LEMMA FitsAreFinite ==
  ASSUME FilesAreRead, NEW u \in DOMAIN found.files, NEW s
  PROVE  /\ IsFiniteSet(Fits(s, u)) /\ Fits(s, u) \subseteq Uncovered(u) /\ Fits(s, u) \in SUBSET Nat
         /\ IsFiniteSet(Uncovered(u) \ Fits(s, u))
         /\ Cardinality(Fits(s, u)) \in Nat /\ Cardinality(Uncovered(u) \ Fits(s, u)) \in Nat
         /\ Cardinality(Uncovered(u)) = Cardinality(Fits(s, u)) + Cardinality(Uncovered(u) \ Fits(s, u))
<1> DEFINE lines == Uncovered(u)
           fits == Fits(s, u)
<1>1. IsFiniteSet(lines) /\ lines \in SUBSET Nat
  BY DEF FilesAreRead
<1>2. fits \in SUBSET lines
  BY DEF Fits
<1> HIDE DEF lines, fits
<1>3. IsFiniteSet(fits) /\ lines \ fits \in SUBSET lines
  BY <1>1, <1>2, FS_Subset
<1>4. IsFiniteSet(lines \ fits)
  BY <1>1, <1>3, FS_Subset
<1>5. Cardinality(fits) \in Nat /\ Cardinality(lines \ fits) \in Nat
  BY <1>3, <1>4, FS_CardinalityType
<1>6. Cardinality(fits \union (lines \ fits)) = Cardinality(fits) + Cardinality(lines \ fits)
  BY <1>3, <1>4, DisjointCount
<1>7. fits \union (lines \ fits) = lines
  BY <1>2
<1>8. QED
  BY <1>1, <1>2, <1>3, <1>4, <1>5, <1>6, <1>7 DEF lines, fits

\* One more file is summed.
LEMMA FileIsSummed ==
  ASSUME FilesAreRead, NEW u \in DOMAIN found.files, NEW s \in Sums
  PROVE  /\ Summed(s, u) \in Sums
         /\ \A us \in SUBSET DOMAIN found.files :
              SumsUp(s, AllUncovered(us)) /\ u \notin us => SumsUp(Summed(s, u), AllUncovered(us \union {u}))
<1> DEFINE fits == Fits(s, u)
           over == Uncovered(u) \ Fits(s, u)
           next == Summed(s, u)
<1>1. /\ IsFiniteSet(fits) /\ fits \subseteq Uncovered(u) /\ fits \in SUBSET Nat
      /\ Cardinality(fits) \in Nat /\ Cardinality(over) \in Nat
      /\ Cardinality(Uncovered(u)) = Cardinality(fits) + Cardinality(over)
  BY FitsAreFinite
<1>2. /\ s.count \in Nat /\ s.omitted \in Nat /\ s.covered \in Nat /\ s.total \in Nat
      /\ s.listed \in SUBSET ((DOMAIN found.files) \X Nat)
  BY DEF Sums
<1>3. /\ next.count = s.count + Cardinality(fits) /\ next.omitted = s.omitted + Cardinality(over)
      /\ next.listed = s.listed \union ({u} \X fits)
  BY DEF Summed
<1>4. next \in Sums
  <2>1. {u} \X fits \in SUBSET ((DOMAIN found.files) \X Nat)
    BY <1>1
  <2>2. s.covered + found.files[u].summary.covered \in Nat /\ s.total + found.files[u].summary.count \in Nat
    BY <1>2 DEF FilesAreRead
  <2>3. s.count + Cardinality(fits) \in Nat /\ s.omitted + Cardinality(over) \in Nat
    BY <1>1, <1>2
  <2>4. s.listed \union ({u} \X fits) \in SUBSET ((DOMAIN found.files) \X Nat)
    BY <1>2, <2>1
  <2> HIDE DEF fits, over
  <2>5. QED
    BY <2>2, <2>3, <2>4 DEF Summed, Sums, fits, over
<1>5. ASSUME NEW us \in SUBSET DOMAIN found.files, SumsUp(s, AllUncovered(us)), u \notin us
      PROVE  SumsUp(next, AllUncovered(us \union {u}))
  <2> DEFINE lines == AllUncovered(us)
             new == {u} \X Uncovered(u)
             own == {u} \X fits
  <2>1. AllUncovered(us \union {u}) = lines \union new
    BY DEF AllUncovered
  <2>2. lines \intersect new = {}
    BY <1>5 DEF AllUncovered
  <2>3. own \subseteq new
    BY <1>1
  <2>4. IsFiniteSet(Uncovered(u)) /\ Uncovered(u) \in SUBSET Nat
    BY DEF FilesAreRead
  <2>5. /\ IsFiniteSet(new) /\ Cardinality(new) = Cardinality(Uncovered(u))
        /\ IsFiniteSet(own) /\ Cardinality(own) = Cardinality(fits)
    <3> HIDE DEF fits
    <3>1. QED
      BY <1>1, <2>4, PairsCount
  <2>6. /\ IsFiniteSet(lines) /\ s.listed \subseteq lines
        /\ s.count = Cardinality(s.listed) /\ s.count <= MaxListed
        /\ s.count + s.omitted = Cardinality(lines)
        /\ s.omitted > 0 => s.count = MaxListed
    BY <1>5 DEF SumsUp
  <2>7. Cardinality(fits) = IF MaxListed - s.count < Cardinality(Uncovered(u)) THEN MaxListed - s.count
                            ELSE Cardinality(Uncovered(u))
    <3>1. MaxListed - s.count \in Nat
      BY <1>2, <2>6, VerifyAssumption
    <3>2. QED
      BY <2>4, <3>1, FirstOnes DEF Fits
  <2> HIDE DEF lines, new, own, fits, over, next
  <2>8. IsFiniteSet(s.listed) /\ s.listed \intersect own = {}
    <3>1. s.listed \in SUBSET lines
      BY <2>6
    <3>2. IsFiniteSet(s.listed)
      BY <2>6, <3>1, FS_Subset
    <3>3. QED
      BY <2>2, <2>3, <3>1, <3>2
  <2>9. IsFiniteSet(lines \union new) /\ Cardinality(lines \union new) = Cardinality(lines) + Cardinality(new)
    BY <2>2, <2>5, <2>6, DisjointCount
  <2>10. Cardinality(s.listed \union own) = Cardinality(s.listed) + Cardinality(own)
    BY <2>5, <2>8, DisjointCount
  <2>11. next.listed = s.listed \union own
    BY <1>3 DEF own
  <2>12. next.listed \subseteq lines \union new
    BY <2>3, <2>6, <2>11
  <2>13. next.count = Cardinality(next.listed)
    BY <1>3, <2>5, <2>6, <2>10, <2>11
  <2>14. MaxListed \in Nat
    BY VerifyAssumption
  <2>15. /\ next.count <= MaxListed
         /\ next.omitted > 0 => next.count = MaxListed
         /\ next.count + next.omitted = Cardinality(lines \union new)
    BY <1>1, <1>2, <1>3, <2>5, <2>6, <2>7, <2>9, <2>14
  <2>16. QED
    BY <1>4, <2>1, <2>9, <2>12, <2>13, <2>15 DEF SumsUp, lines
<1>6. QED
  BY <1>4, <1>5

\* The smaller of two numbers.
LEMMA MinOfTwo ==
  ASSUME NEW a \in Nat, NEW b \in Nat
  PROVE  Min({a, b}) = IF a <= b THEN a ELSE b
<1> DEFINE S == {a, b}
           m == IF a <= b THEN a ELSE b
           P(x) == \A y \in S : x <= y
<1>1. m \in S /\ P(m)
  OBVIOUS
<1>2. \A x \in S : P(x) => x = m
  OBVIOUS
<1> HIDE DEF P
<1>3. (CHOOSE x \in S : P(x)) \in S /\ P(CHOOSE x \in S : P(x))
  BY <1>1
<1> USE DEF P
<1>4. QED
  BY <1>2, <1>3 DEF Min

\* The summary lists uncovered lines up to the ceiling and counts those it leaves out.
LEMMA SummarySumsUp ==
  ASSUME FilesAreRead
  PROVE  LET lines == AllUncovered(DOMAIN found.files)
         IN /\ Summarize.listed \subseteq lines
            /\ Cardinality(Summarize.listed) = Min({MaxListed, Cardinality(lines)})
            /\ Cardinality(Summarize.listed) + Summarize.omitted = Cardinality(lines)
<1> DEFINE units == DOMAIN found.files
           n == Cardinality(units)
           Step(s, i) == Summed(s, Order[i])
           G == [i \in 1..n |-> [s \in Sums |-> Step(s, i)]]
           Solves(it) == it = [s \in SUBSET (1..n) |->
                                 IF s = {} THEN NoSums ELSE Step(it[s \ {Max(s)}], Max(s))]
           chosen == CHOOSE it : Solves(it)
           us(i) == {Order[k] : k \in 1..i}
<1>1. /\ n \in Nat /\ DOMAIN Order = 1..n
      /\ \A i \in 1..n : Order[i] \in units
      /\ \A i, j \in 1..n : Order[i] = Order[j] => i = j
      /\ \A u \in units : \E i \in 1..n : Order[i] = u
  BY FilesInOrder
<1>2. Summarize = chosen[1..n]
  <2>1. DOMAIN Order = 1..n
    BY <1>1
  <2>2. QED
    BY <2>1 DEF Summarize, FoldLeft, MapThenFoldSet, Summed, Fits, Order, Below, NoSums
<1> HIDE DEF Step, n, units
<1>3. \A i \in 1..n : \A s \in Sums : Step(s, i) \in Sums
  BY <1>1, FileIsSummed DEF Step, units
<1>4. G \in [1..n -> [Sums -> Sums]] /\ \A i \in 1..n : \A s \in Sums : G[i][s] = Step(s, i)
  BY <1>3
<1>5. NoSums \in Sums /\ \A s \in SUBSET (1..n) : s # {} => Max(s) \in 1..n
  BY <1>1, MaxOfPart DEF NoSums, Sums
<1> HIDE DEF G
<1>6. \E it : Solves(it)
  <2>1. PICK it \in [SUBSET (1..n) -> Sums] : Recursion(it, Sums, NoSums, n, G)
    BY <1>1, <1>4, <1>5, FoldExists
  <2>2. \A s \in SUBSET (1..n) : s # {} => it[s] = Step(it[s \ {Max(s)}], Max(s))
    BY <1>4, <1>5, <2>1 DEF Recursion
  <2>3. Solves(it)
    BY <2>1, <2>2 DEF Recursion
  <2>4. QED
    BY <2>3
<1>7. Solves(chosen)
  BY <1>6
<1> HIDE DEF chosen
<1>8. Recursion(chosen, Sums, NoSums, n, G)
  BY <1>4, <1>5, <1>7 DEF Recursion
<1>9. PICK f : Passes(f, Sums, NoSums, n, G) /\ f[n] = chosen[1..n]
  BY <1>1, <1>4, <1>5, <1>8, FoldSteps
<1> DEFINE T == {i \in Nat : i <= n => SumsUp(f[i], AllUncovered(us(i)))}
<1>10. 0 \in T
  <2>1. AllUncovered(us(0)) = {}
    BY DEF AllUncovered
  <2>2. f[0] = NoSums
    BY <1>9 DEF Passes
  <2>3. MaxListed \in Nat /\ IsFiniteSet({}) /\ Cardinality({}) = 0
    BY VerifyAssumption, FS_EmptySet
  <2>4. SumsUp(NoSums, {})
    BY <1>5, <2>3 DEF SumsUp, NoSums
  <2>5. QED
    BY <2>1, <2>2, <2>4
<1>11. ASSUME NEW i \in Nat, i \in T
       PROVE  i + 1 \in T
  <2>1. SUFFICES ASSUME i + 1 <= n
                 PROVE  SumsUp(f[i + 1], AllUncovered(us(i + 1)))
    OBVIOUS
  <2>2. /\ i + 1 \in 1..n /\ (i + 1) - 1 = i /\ i \in 0..n /\ f[i] \in Sums
        /\ SumsUp(f[i], AllUncovered(us(i)))
    BY <1>1, <1>9, <1>11, <2>1 DEF Passes
  <2>3. f[i + 1] = Summed(f[i], Order[i + 1])
    BY <1>4, <1>9, <2>2 DEF Passes, Step
  <2>4. /\ us(i) \in SUBSET DOMAIN found.files /\ Order[i + 1] \in DOMAIN found.files
        /\ Order[i + 1] \notin us(i)
    BY <1>1, <2>2 DEF units
  <2>5. us(i + 1) = us(i) \union {Order[i + 1]}
    <3>1. 1..(i + 1) = (1..i) \union {i + 1}
      OBVIOUS
    <3>2. QED
      BY <3>1
  <2> HIDE DEF us
  <2>6. SumsUp(Summed(f[i], Order[i + 1]), AllUncovered(us(i) \union {Order[i + 1]}))
    BY <2>2, <2>4, FileIsSummed
  <2>7. QED
    BY <2>3, <2>5, <2>6
<1> HIDE DEF T
<1>12. n \in T
  BY <1>1, <1>10, <1>11, SetInduction
<1>13. us(n) = units
  BY <1>1
<1>14. SumsUp(Summarize, AllUncovered(units))
  <2> HIDE DEF us
  <2>1. SumsUp(f[n], AllUncovered(us(n)))
    BY <1>1, <1>12 DEF T
  <2>2. QED
    BY <1>2, <1>9, <1>13, <2>1
<1> DEFINE lines == AllUncovered(units)
<1> HIDE DEF lines
<1>15. SumsUp(Summarize, lines)
  BY <1>14 DEF lines
<1>16. Summarize.count \in Nat /\ Summarize.omitted \in Nat /\ MaxListed \in Nat /\ Cardinality(lines) \in Nat
  BY <1>15, VerifyAssumption, FS_CardinalityType DEF SumsUp, Sums
<1>17. /\ Summarize.listed \subseteq lines /\ Summarize.count = Cardinality(Summarize.listed)
       /\ Summarize.count <= MaxListed
       /\ Summarize.count + Summarize.omitted = Cardinality(lines)
       /\ Summarize.omitted > 0 => Summarize.count = MaxListed
  BY <1>15 DEF SumsUp
<1>18. Min({MaxListed, Cardinality(lines)}) = IF MaxListed <= Cardinality(lines) THEN MaxListed ELSE Cardinality(lines)
  BY <1>16, MinOfTwo
<1>19. Cardinality(Summarize.listed) = Min({MaxListed, Cardinality(lines)})
  BY <1>16, <1>17, <1>18
<1>20. QED
  BY <1>17, <1>19 DEF lines, units

-----------------------------------------------------------------------------
(***************************************************************************)
(* What is gathered from the exports.                                      *)
(***************************************************************************)
FileAt(i, a) == tree.exports[i].files[a]

OurFiles(i) == {a \in DOMAIN tree.exports[i].files : Ours(FileAt(i, a))}

\* The first k exports have their form, name each of our files once, and have
\* been read into these files.
Gathered(files, k) ==
  /\ \A i \in 1..k : \A a \in DOMAIN tree.exports[i].files : HasItsForm(FileAt(i, a))
  /\ \A i, j \in 1..k : \A a \in OurFiles(i), b \in OurFiles(j) :
       FileAt(i, a).name = FileAt(j, b).name => i = j /\ a = b
  /\ DOMAIN files = UNION {{FileAt(i, a).name : a \in OurFiles(i)} : i \in 1..k}
  /\ IsFiniteSet(DOMAIN files)
  /\ \A i \in 1..k : \A a \in OurFiles(i) : files[FileAt(i, a).name] = ReadFile(tree.exports[i], FileAt(i, a))

\* The next export names files of ours once, and none that was read.
NamesFresh(files, k) ==
  LET d     == tree.exports[k + 1]
      names == {d.files[i].name : i \in OurFiles(k + 1)}
  IN /\ \A i \in DOMAIN d.files : d.files[i].wellFormed
     /\ \A i, j \in OurFiles(k + 1) : d.files[i].name = d.files[j].name => i = j
     /\ names \intersect DOMAIN files = {}

\* The files with those of the next export.
WithNext(files, k) ==
  LET d     == tree.exports[k + 1]
      ours  == OurFiles(k + 1)
      names == {d.files[i].name : i \in ours}
  IN [n \in names \union DOMAIN files |->
        IF n \in names THEN ReadFile(d, d.files[CHOOSE i \in ours : d.files[i].name = n]) ELSE files[n]]

\* One more export is gathered.
LEMMA ExportGathers ==
  ASSUME IsCheckout(tree), NEW k \in Nat, k < Len(tree.exports), NEW files, Gathered(files, k), NamesFresh(files, k)
  PROVE  Gathered(WithNext(files, k), k + 1)
<1> DEFINE d == tree.exports[k + 1]
           ours == OurFiles(k + 1)
           name == [i \in ours |-> d.files[i].name]
           names == {d.files[i].name : i \in ours}
           next == [n \in names \union DOMAIN files |->
                      IF n \in names THEN ReadFile(d, d.files[CHOOSE i \in ours : d.files[i].name = n])
                      ELSE files[n]]
<1>1. /\ IsList(d.files) /\ \A a \in DOMAIN d.files : HasItsForm(d.files[a])
  <2>1. k + 1 \in DOMAIN tree.exports
    BY DEF IsCheckout, IsList
  <2>2. d \in Range(tree.exports)
    BY <2>1 DEF Range
  <2>3. \A a \in DOMAIN d.files : d.files[a] \in Range(d.files)
    BY DEF Range
  <2>4. QED
    BY <2>2, <2>3 DEF IsCheckout, NamesFresh
<1>2. \A a : FileAt(k + 1, a) = d.files[a]
  BY DEF FileAt
<1>3. \A i, j \in ours : d.files[i].name = d.files[j].name => i = j
  BY DEF NamesFresh
<1>4. names \intersect DOMAIN files = {}
  BY DEF NamesFresh
<1>5. \A i \in 1..(k + 1) : i \in 1..k \/ i = k + 1
  OBVIOUS
<1>6. IsFiniteSet(names)
  <2>1. ours \in SUBSET DOMAIN d.files
    BY DEF OurFiles
  <2>2. DOMAIN d.files = 1..Len(d.files) /\ Len(d.files) \in Int /\ 1 \in Int
    BY <1>1 DEF IsList
  <2>3. IsFiniteSet(DOMAIN d.files)
    BY <2>2, FS_Interval
  <2> HIDE DEF ours
  <2>4. IsFiniteSet(ours)
    BY <2>1, <2>3, FS_Subset
  <2>5. \A i, j \in ours : name[i] = name[j] => i = j
    BY <1>3
  <2>6. {name[i] : i \in ours} = names
    OBVIOUS
  <2> HIDE DEF name, names
  <2>7. QED
    BY <2>4, <2>5, <2>6, ImagesCount
<1>7. \A i \in ours : next[d.files[i].name] = ReadFile(d, d.files[i])
  <2>1. SUFFICES ASSUME NEW i \in ours
                 PROVE  next[d.files[i].name] = ReadFile(d, d.files[i])
    OBVIOUS
  <2>2. (CHOOSE j \in ours : d.files[j].name = d.files[i].name) = i
    BY <1>3
  <2>3. d.files[i].name \in names
    OBVIOUS
  <2> HIDE DEF names, ours, d
  <2>4. QED
    BY <2>2, <2>3
<1>8. \A u \in DOMAIN files : next[u] = files[u]
  <2> HIDE DEF names, ours, d
  <2>1. QED
    BY <1>4
<1>9. DOMAIN next = names \union DOMAIN files
  OBVIOUS
<1>10. IsFiniteSet(DOMAIN next)
  <2> HIDE DEF names, next
  <2>1. IsFiniteSet(DOMAIN files)
    BY DEF Gathered
  <2>2. QED
    BY <1>6, <1>9, <2>1, FS_Union
<1>11. names = {FileAt(k + 1, a).name : a \in OurFiles(k + 1)}
  BY <1>2
<1> HIDE DEF d, ours, name, names, next
<1>12. DOMAIN next = UNION {{FileAt(i, a).name : a \in OurFiles(i)} : i \in 1..(k + 1)}
  <2>1. 1..(k + 1) = (1..k) \union {k + 1}
    OBVIOUS
  <2>2. DOMAIN files = UNION {{FileAt(i, a).name : a \in OurFiles(i)} : i \in 1..k}
    BY DEF Gathered
  <2>3. QED
    BY <1>9, <1>11, <2>1, <2>2
<1>13. \A i \in 1..(k + 1) : \A a \in DOMAIN tree.exports[i].files : HasItsForm(FileAt(i, a))
  BY <1>1, <1>2, <1>5 DEF Gathered, d
<1>14. \A i, j \in 1..(k + 1) : \A a \in OurFiles(i), b \in OurFiles(j) :
         FileAt(i, a).name = FileAt(j, b).name => i = j /\ a = b
  <2>1. SUFFICES ASSUME NEW i \in 1..(k + 1), NEW j \in 1..(k + 1), NEW a \in OurFiles(i), NEW b \in OurFiles(j),
                        FileAt(i, a).name = FileAt(j, b).name
                 PROVE  i = j /\ a = b
    OBVIOUS
  <2>2. CASE i \in 1..k /\ j \in 1..k
    BY <2>1, <2>2 DEF Gathered
  <2>3. CASE i = k + 1 /\ j = k + 1
    BY <1>2, <1>3, <2>1, <2>3 DEF ours
  <2>4. CASE i \in 1..k /\ j = k + 1
    <3>1. FileAt(i, a).name \in DOMAIN files
      BY <2>4 DEF Gathered
    <3>2. FileAt(j, b).name \in names
      BY <1>11, <2>4
    <3>3. QED
      BY <1>4, <2>1, <3>1, <3>2
  <2>5. CASE i = k + 1 /\ j \in 1..k
    <3>1. FileAt(j, b).name \in DOMAIN files
      BY <2>5 DEF Gathered
    <3>2. FileAt(i, a).name \in names
      BY <1>11, <2>5
    <3>3. QED
      BY <1>4, <2>1, <3>1, <3>2
  <2>6. QED
    BY <1>5, <2>2, <2>3, <2>4, <2>5
<1>15. \A i \in 1..(k + 1) : \A a \in OurFiles(i) :
         next[FileAt(i, a).name] = ReadFile(tree.exports[i], FileAt(i, a))
  <2>1. SUFFICES ASSUME NEW i \in 1..(k + 1), NEW a \in OurFiles(i)
                 PROVE  next[FileAt(i, a).name] = ReadFile(tree.exports[i], FileAt(i, a))
    OBVIOUS
  <2>2. CASE i \in 1..k
    <3>1. /\ FileAt(i, a).name \in DOMAIN files
          /\ files[FileAt(i, a).name] = ReadFile(tree.exports[i], FileAt(i, a))
      BY <2>2 DEF Gathered
    <3>2. QED
      BY <1>8, <3>1
  <2>3. CASE i = k + 1
    BY <1>2, <1>7, <2>3 DEF d, ours
  <2>4. QED
    BY <1>5, <2>2, <2>3
<1>16. Gathered(next, k + 1)
  BY <1>10, <1>12, <1>13, <1>14, <1>15 DEF Gathered
<1>17. next = WithNext(files, k)
  BY DEF WithNext, d, ours, names, next
<1>18. QED
  BY <1>16, <1>17

\* What is read of a file of ours is found under its name, and nothing else is.
LEMMA FileOf ==
  ASSUME IsCheckout(tree), Gathered(found.files, Len(tree.exports))
  PROVE  /\ \A u \in DOMAIN found.files : \E i \in 1..Len(tree.exports) : \E a \in OurFiles(i) : FileAt(i, a).name = u
         /\ \A i \in 1..Len(tree.exports) : \A a \in OurFiles(i) :
              /\ FileAt(i, a).name \in DOMAIN found.files
              /\ found.files[FileAt(i, a).name] = ReadFile(tree.exports[i], FileAt(i, a))
         /\ \A i \in 1..Len(tree.exports) : \A a \in DOMAIN tree.exports[i].files :
              /\ tree.exports[i] \in Range(tree.exports) /\ FileAt(i, a) \in Range(tree.exports[i].files)
              /\ HasItsForm(FileAt(i, a))
         /\ \A d \in Range(tree.exports) : \E i \in 1..Len(tree.exports) : d = tree.exports[i]
         /\ \A i \in 1..Len(tree.exports) : \A f \in Range(tree.exports[i].files) :
              \E a \in DOMAIN tree.exports[i].files : f = FileAt(i, a)
<1>1. /\ DOMAIN tree.exports = 1..Len(tree.exports)
  BY DEF IsCheckout, IsList
<1>2. \A u \in DOMAIN found.files : \E i \in 1..Len(tree.exports) : \E a \in OurFiles(i) : FileAt(i, a).name = u
  BY DEF Gathered
<1>3. \A i \in 1..Len(tree.exports) : \A a \in OurFiles(i) :
        /\ FileAt(i, a).name \in DOMAIN found.files
        /\ found.files[FileAt(i, a).name] = ReadFile(tree.exports[i], FileAt(i, a))
  BY DEF Gathered
<1>4. \A i \in 1..Len(tree.exports) : \A a \in DOMAIN tree.exports[i].files : HasItsForm(FileAt(i, a))
  BY DEF Gathered
<1>5. \A i \in 1..Len(tree.exports) : \A a \in DOMAIN tree.exports[i].files :
        tree.exports[i] \in Range(tree.exports) /\ FileAt(i, a) \in Range(tree.exports[i].files)
  BY <1>1 DEF Range, FileAt
<1>6. /\ \A d \in Range(tree.exports) : \E i \in 1..Len(tree.exports) : d = tree.exports[i]
      /\ \A i \in 1..Len(tree.exports) : \A f \in Range(tree.exports[i].files) :
           \E a \in DOMAIN tree.exports[i].files : f = FileAt(i, a)
  BY <1>1 DEF Range, FileAt
<1>7. QED
  BY <1>2, <1>3, <1>4, <1>5, <1>6

\* The blank lines of a file of ours are those of its segments.
LEMMA BlankIs ==
  ASSUME NEW f
  PROVE  Blank(f) = IF Ours(f) THEN {f.name} \X BlankOf(f.segments) ELSE {}
BY DEF Blank, BlankOf

\* The uncovered lines of the files that were read are the blank lines of the exports.
LEMMA BlankIsUncovered ==
  ASSUME IsCheckout(tree), Gathered(found.files, Len(tree.exports))
  PROVE  FilesAreRead /\ AllUncovered(DOMAIN found.files) = AllBlank
<1> DEFINE n == Len(tree.exports)
<1>1. \A i \in 1..n : \A a \in OurFiles(i) :
        /\ a \in DOMAIN tree.exports[i].files /\ Ours(FileAt(i, a)) /\ HasItsForm(FileAt(i, a))
        /\ tree.exports[i] \in Range(tree.exports) /\ FileAt(i, a) \in Range(tree.exports[i].files)
  <2>1. \A i \in 1..n : \A a \in OurFiles(i) : a \in DOMAIN tree.exports[i].files /\ Ours(FileAt(i, a))
    BY DEF OurFiles
  <2>2. QED
    BY <2>1, FileOf
<1>2. ASSUME NEW i \in 1..n, NEW a \in OurFiles(i)
      PROVE  LET f == FileAt(i, a)
                 u == f.name
             IN /\ u \in DOMAIN Unit
                /\ Uncovered(u) = BlankOf(f.segments)
                /\ IsFiniteSet(Uncovered(u)) /\ Uncovered(u) \in SUBSET Nat
                /\ found.files[u].summary.covered \in Nat /\ found.files[u].summary.count \in Nat
                /\ Blank(f) = {u} \X Uncovered(u)
  <2> DEFINE f == FileAt(i, a)
             u == f.name
  <2>1. Ours(f) /\ HasItsForm(f)
    BY <1>1
  <2>2. found.files[u] = ReadFile(tree.exports[i], f)
    BY FileOf
  <2> HIDE DEF f
  <2>3. /\ u \in DOMAIN Unit
        /\ IsList(f.segments) /\ \A x \in Range(f.segments) : x.line \in Nat /\ x.count \in Nat
        /\ f.summary.covered \in Nat /\ f.summary.count \in Nat
    BY <2>1 DEF HasItsForm
  <2>4. found.files[u].lines = LineCounts(f.segments) /\ found.files[u].summary = f.summary
    BY <2>2 DEF ReadFile
  <2>5. Uncovered(u) = BlankOf(f.segments) /\ IsFiniteSet(Uncovered(u)) /\ Uncovered(u) \in SUBSET Nat
    BY <2>3, <2>4, LinesCounted DEF Uncovered
  <2>6. Blank(f) = {u} \X Uncovered(u)
    BY <2>1, <2>5, BlankIs
  <2>7. QED
    BY <2>3, <2>4, <2>5, <2>6 DEF f
<1>3. FilesAreRead
  <2>1. IsFiniteSet(DOMAIN found.files)
    BY DEF Gathered
  <2>2. ASSUME NEW u \in DOMAIN found.files
        PROVE  /\ u \in DOMAIN Unit
               /\ IsFiniteSet(Uncovered(u)) /\ Uncovered(u) \in SUBSET Nat
               /\ found.files[u].summary.covered \in Nat /\ found.files[u].summary.count \in Nat
    <3>1. PICK i \in 1..n : \E a \in OurFiles(i) : FileAt(i, a).name = u
      BY FileOf
    <3>2. PICK a \in OurFiles(i) : FileAt(i, a).name = u
      BY <3>1
    <3>3. QED
      BY <1>2, <3>2
  <2>3. QED
    BY <2>1, <2>2 DEF FilesAreRead
<1>4. ASSUME NEW x \in AllUncovered(DOMAIN found.files)
      PROVE  x \in AllBlank
  <2>1. PICK u \in DOMAIN found.files : x \in {u} \X Uncovered(u)
    BY DEF AllUncovered
  <2>2. PICK i \in 1..n : \E a \in OurFiles(i) : FileAt(i, a).name = u
    BY FileOf
  <2>3. PICK a \in OurFiles(i) : FileAt(i, a).name = u
    BY <2>2
  <2>4. x \in Blank(FileAt(i, a))
    BY <1>2, <2>1, <2>3
  <2>5. QED
    BY <1>1, <2>4 DEF AllBlank
<1>5. ASSUME NEW x \in AllBlank
      PROVE  x \in AllUncovered(DOMAIN found.files)
  <2>1. PICK d \in Range(tree.exports) : \E f \in Range(d.files) : x \in Blank(f)
    BY DEF AllBlank
  <2>2. PICK f \in Range(d.files) : x \in Blank(f)
    BY <2>1
  <2>3. PICK i \in 1..n : d = tree.exports[i]
    BY FileOf
  <2>4. PICK a \in DOMAIN tree.exports[i].files : f = FileAt(i, a)
    BY <2>3, FileOf
  <2>5. Ours(f)
    BY <2>2, BlankIs
  <2>6. a \in OurFiles(i)
    BY <2>4, <2>5 DEF OurFiles
  <2>7. x \in {f.name} \X Uncovered(f.name)
    BY <1>2, <2>2, <2>4, <2>6
  <2>8. f.name \in DOMAIN found.files
    BY <2>4, <2>6, FileOf
  <2>9. QED
    BY <2>7, <2>8 DEF AllUncovered
<1>6. QED
  BY <1>3, <1>4, <1>5

\* A summary of what was gathered lists blank lines up to the ceiling, and counts the rest.
LEMMA SummaryIsExact ==
  ASSUME IsCheckout(tree), Gathered(found.files, Len(tree.exports))
  PROVE  /\ Summarize.listed \subseteq AllBlank
         /\ Cardinality(Summarize.listed) = Min({MaxListed, Cardinality(AllBlank)})
         /\ Cardinality(Summarize.listed) + Summarize.omitted = Cardinality(AllBlank)
BY BlankIsUncovered, SummarySumsUp

-----------------------------------------------------------------------------
(***************************************************************************)
(* One changed unit.                                                       *)
(***************************************************************************)

\* A file of ours is the only one with its name, in the only export that has it.
LEMMA OnlyFile ==
  ASSUME IsCheckout(tree), Gathered(found.files, Len(tree.exports)),
         NEW i \in 1..Len(tree.exports), NEW a \in OurFiles(i)
  PROVE  /\ \A d \in Range(tree.exports) : \A f \in Range(d.files) :
              f.name = FileAt(i, a).name => d = tree.exports[i] /\ f = FileAt(i, a)
         /\ Document(FileAt(i, a).name) = tree.exports[i]
<1> DEFINE n == Len(tree.exports)
           u == FileAt(i, a).name
<1>1. ASSUME NEW d \in Range(tree.exports), NEW f \in Range(d.files), f.name = u
      PROVE  d = tree.exports[i] /\ f = FileAt(i, a)
  <2>1. PICK j \in 1..n : d = tree.exports[j]
    BY FileOf
  <2>2. PICK b \in DOMAIN tree.exports[j].files : f = FileAt(j, b)
    BY <2>1, FileOf
  <2>3. Ours(FileAt(i, a))
    BY DEF OurFiles
  <2>4. Ours(FileAt(j, b))
    BY <1>1, <2>2, <2>3 DEF Ours
  <2>5. b \in OurFiles(j)
    BY <2>4 DEF OurFiles
  <2>6. j = i /\ b = a
    BY <1>1, <2>2, <2>5 DEF Gathered
  <2>7. QED
    BY <2>1, <2>2, <2>6
<1>2. tree.exports[i] \in Range(tree.exports) /\ FileAt(i, a) \in Range(tree.exports[i].files)
  <2>1. a \in DOMAIN tree.exports[i].files
    BY DEF OurFiles
  <2>2. QED
    BY <2>1, FileOf
<1> HIDE DEF n
<1>3. Document(u) = tree.exports[i]
  <2> DEFINE Has(d) == \E f \in Range(d.files) : f.name = u
  <2>1. Has(tree.exports[i])
    BY <1>2
  <2>2. \A d \in Range(tree.exports) : Has(d) => d = tree.exports[i]
    BY <1>1
  <2>3. Document(u) = CHOOSE d \in Range(tree.exports) : Has(d)
    BY DEF Document
  <2> HIDE DEF Has, u
  <2>4. QED
    BY <1>2, <2>1, <2>2, <2>3
<1>4. QED
  BY <1>1, <1>3

\* What is read of a unit merges every region any file of the exports has of it.
LEMMA UnitMerges ==
  ASSUME IsCheckout(tree), Gathered(found.files, Len(tree.exports)),
         NEW i \in 1..Len(tree.exports), NEW a \in OurFiles(i)
  PROVE  Merged(found.files[FileAt(i, a).name].branches, RegionsOf(FileAt(i, a).name))
<1> DEFINE d == tree.exports[i]
           g == FileAt(i, a)
           u == FileAt(i, a).name
<1>1. /\ d \in Range(tree.exports) /\ g \in Range(d.files) /\ Ours(g) /\ Document(u) = d
      /\ found.files[u] = ReadFile(d, g)
      /\ \A f \in Range(d.files) : f.name = u => f = g
  <2>1. a \in DOMAIN tree.exports[i].files /\ Ours(FileAt(i, a))
    BY DEF OurFiles
  <2>2. tree.exports[i] \in Range(tree.exports) /\ FileAt(i, a) \in Range(tree.exports[i].files)
    BY <2>1, FileOf
  <2>3. QED
    BY <2>1, <2>2, FileOf, OnlyFile
<1>2. \A f \in Range(d.files) : HasItsForm(f)
  BY FileOf
<1>3. IsList(d.files)
  BY <1>1 DEF IsCheckout
<1> HIDE DEF d, g
<1>4. u = g.name
  BY DEF g
<1>5. RegionsOf(u) = Range(g.branches) \union UNION {CreditsOf(f.expansions, u) : f \in Range(d.files)}
  <2> HIDE DEF u
  <2>1. {x \in Range(d.files) : x.name = u} = {g}
    BY <1>1, <1>4
  <2>2. UNION {Range(f.branches) : f \in {g}} = Range(g.branches)
    OBVIOUS
  <2>3. UNION {{e.region : e \in {x \in Range(f.expansions) : x.of = u}} : f \in Range(d.files)}
          = UNION {CreditsOf(f.expansions, u) : f \in Range(d.files)}
    BY DEF CreditsOf
  <2>4. QED
    BY <1>1, <2>1, <2>2, <2>3 DEF RegionsOf
<1>6. Merged(ReadFile(d, g).branches, Range(g.branches) \union UNION {CreditsOf(f.expansions, g.name) : f \in Range(d.files)})
  BY <1>1, <1>2, <1>3, BranchesMerge
<1>7. QED
  BY <1>1, <1>4, <1>5, <1>6

\* What is measured of a unit counts the outcomes its change has to see taken,
\* and those that were.
LEMMA UnitCounts ==
  ASSUME NEW u, Merged(found.files[u].branches, RegionsOf(u))
  PROVE  LET measured == Measured(tree, u, Added(u))
         IN /\ Cardinality(measured) \in Nat /\ CoveredSides(u, measured) \in Nat
            /\ Cardinality(Outcomes(u)) = 2 * Cardinality(measured)
            /\ Cardinality(Taken(u)) = CoveredSides(u, measured)
<1> DEFINE R == found.files[u].branches
           C == RegionsOf(u)
           lines == Added(u) \ tree.defaulted[u]
           spans == tree.constant[u]
           measured == Measured(tree, u, Added(u))
           M == {i \in DOMAIN R : R[i].line \in lines /\ R[i].span \notin spans}
           X == {x \in C : x.line \in lines /\ x.span \notin spans}
           O == {<<r.line, r.span, side>> : r \in X, side \in {"true", "false"}}
           W == {o \in O : \E r \in C : r.line = o[1] /\ r.span = o[2] /\ r[o[3]] > 0}
           T == {i \in M : R[i].true > 0}
           F == {i \in M : R[i].false > 0}
<1>1. measured = M
  BY DEF Measured, Exclusion
<1>2. Outcomes(u) = O /\ Taken(u) = W
  BY DEF Outcomes, Taken
<1>3. /\ IsFiniteSet(M) /\ Cardinality(O) = 2 * Cardinality(M)
      /\ Cardinality(W) = Cardinality(T) + Cardinality(F)
  <2>1. Merged(R, C)
    OBVIOUS
  <2> HIDE DEF R, C, lines, spans, M, O, W
  <2>2. CountsOutcomes(C, R, lines, spans)
    BY <2>1, OutcomesCounted
  <2>3. QED
    BY <2>2 DEF CountsOutcomes, M, X, O, W
<1>4. CoveredSides(u, measured) = Cardinality(T) + Cardinality(F)
  BY <1>1 DEF CoveredSides
<1>5. T \subseteq M /\ F \subseteq M
  OBVIOUS
<1> HIDE DEF M, O, W, measured, T, F
<1>6. Cardinality(M) \in Nat /\ Cardinality(T) \in Nat /\ Cardinality(F) \in Nat
  BY <1>3, <1>5, FS_Subset, FS_CardinalityType
<1>7. CoveredSides(u, measured) \in Nat
  BY <1>4, <1>6
<1>8. Cardinality(measured) \in Nat
  BY <1>1, <1>6
<1>9. Cardinality(Outcomes(u)) = 2 * Cardinality(measured)
  BY <1>1, <1>2, <1>3
<1>10. Cardinality(Taken(u)) = CoveredSides(u, measured)
  BY <1>2, <1>3, <1>4
<1>11. QED
  BY <1>7, <1>8, <1>9, <1>10 DEF measured

\* Some file of the exports has this name.
NamedByExport(u) == \E x \in Range(tree.exports) : \E f \in Range(x.files) : f.name = u

\* Enough of the outcomes of a change are taken for a tier, and where the tier asks
\* for it every condition of a changed decision decides.
Meets(u, tier) ==
  /\ 100 * Cardinality(Taken(u)) >= FloorPercent(tier) * Cardinality(Outcomes(u))
  /\ tier = "H" => \A y \in Range(tree.exports) : \A g \in Range(y.files) :
       g.name = u => \A e \in {z \in g.decisions : z.line \in Added(u)} :
                       e.conditions > 0 /\ \A c \in 1..e.conditions : Decides(e, c)

\* An index that is not refused gives each unit it declares one tier.
LEMMA OneTier ==
  ASSUME ~TierIndexRefused(tree), NEW d \in Declarations(tree)
  PROVE  d.tier = TierOf(tree, d.unit) /\ d.tier \in {"O", "A", "H"}
<1>1. d.tier \in {"O", "A", "H"}
  BY DEF TierIndexRefused
<1>2. ASSUME NEW e \in Declarations(tree), e.unit = d.unit
      PROVE  e = d
  <2>1. PICK r \in Declaring(tree) : d \in Range(r.declares)
    BY DEF Declarations
  <2>2. PICK s \in Declaring(tree) : e \in Range(s.declares)
    BY DEF Declarations
  <2>3. PICK i \in DOMAIN r.declares : d = r.declares[i]
    BY <2>1 DEF Range
  <2>4. PICK j \in DOMAIN s.declares : e = s.declares[j]
    BY <2>2 DEF Range
  <2>5. <<r, i>> = <<s, j>>
    BY <1>2, <2>3, <2>4 DEF TierIndexRefused
  <2>6. QED
    BY <2>3, <2>4, <2>5
<1>3. (CHOOSE e \in Declarations(tree) : e.unit = d.unit) = d
  BY <1>2
<1>4. QED
  BY <1>1, <1>3 DEF TierOf

\* So a unit earns what it must exactly when it is declared and, if it was built, meets its tier.
LEMMA EarnedIs ==
  ASSUME ~TierIndexRefused(tree), NEW u
  PROVE  Earned(u) <=> u \in DeclaredUnits(tree) /\ (NamedByExport(u) => Meets(u, TierOf(tree, u)))
<1>1. Earned(u) <=> \E d \in Declarations(tree) : d.unit = u /\ (NamedByExport(u) => Meets(u, d.tier))
  <2>1. Earned(u) <=> \E r \in Declaring(tree) : \E d \in Range(r.declares) :
                        d.unit = u /\ (NamedByExport(u) => Meets(u, d.tier))
    BY DEF Earned, NamedByExport, Meets
  <2>2. QED
    BY <2>1 DEF Declarations
<1>2. u \in DeclaredUnits(tree) <=> \E d \in Declarations(tree) : d.unit = u
  BY DEF DeclaredUnits
<1>3. \A d \in Declarations(tree) : d.unit = u => d.tier = TierOf(tree, u)
  BY OneTier
<1>4. QED
  BY <1>1, <1>2, <1>3

\* A maintained path names a file of the exports exactly when one was read of it.
LEMMA NamedIsRead ==
  ASSUME IsCheckout(tree), Gathered(found.files, Len(tree.exports)),
         NEW u \in DOMAIN Unit, Unit[u].maintained
  PROVE  NamedByExport(u) <=> u \in DOMAIN found.files
<1>1. ASSUME NamedByExport(u)
      PROVE  u \in DOMAIN found.files
  <2>1. PICK x \in Range(tree.exports) : \E f \in Range(x.files) : f.name = u
    BY <1>1 DEF NamedByExport
  <2>2. PICK f \in Range(x.files) : f.name = u
    BY <2>1
  <2>3. PICK i \in 1..Len(tree.exports) : x = tree.exports[i]
    BY FileOf
  <2>4. PICK a \in DOMAIN tree.exports[i].files : f = FileAt(i, a)
    BY <2>3, FileOf
  <2>5. a \in OurFiles(i)
    BY <2>2, <2>4, VerifyAssumption DEF OurFiles, Ours
  <2>6. QED
    BY <2>2, <2>4, <2>5, FileOf
<1>2. ASSUME u \in DOMAIN found.files
      PROVE  NamedByExport(u)
  <2>1. PICK i \in 1..Len(tree.exports) : \E a \in OurFiles(i) : FileAt(i, a).name = u
    BY <1>2, FileOf
  <2>2. PICK a \in OurFiles(i) : FileAt(i, a).name = u
    BY <2>1
  <2>3. tree.exports[i] \in Range(tree.exports) /\ FileAt(i, a) \in Range(tree.exports[i].files)
    BY FileOf DEF OurFiles
  <2>4. QED
    BY <2>2, <2>3 DEF NamedByExport
<1>3. QED
  BY <1>1, <1>2

\* Nothing is found in a declared unit exactly when it meets its tier.
LEMMA UnitMeets ==
  ASSUME IsCheckout(tree), Gathered(found.files, Len(tree.exports)), ~TierIndexRefused(tree),
         NEW u \in DOMAIN found.files, u \in DeclaredUnits(tree)
  PROVE  UnitFindings(tree, u, Added(u)) = {} <=> Meets(u, TierOf(tree, u))
<1> DEFINE tier == TierOf(tree, u)
           measured == Measured(tree, u, Added(u))
           covered == CoveredSides(u, measured)
           weak == {d \in found.files[u].decisions : d.line \in Added(u) /\ ~DecisionIsIndependentlyCovered(d)}
<1>1. PICK i \in 1..Len(tree.exports) : \E a \in OurFiles(i) : FileAt(i, a).name = u
  BY FileOf
<1>2. PICK a \in OurFiles(i) : FileAt(i, a).name = u
  BY <1>1
<1> DEFINE g == FileAt(i, a)
<1>3. /\ tree.exports[i] \in Range(tree.exports) /\ g \in Range(tree.exports[i].files)
      /\ HasItsForm(g) /\ Ours(g)
  <2>1. a \in DOMAIN tree.exports[i].files /\ Ours(g)
    BY DEF OurFiles
  <2>2. QED
    BY <2>1, FileOf
<1>4. \A d \in Range(tree.exports) : \A f \in Range(d.files) : f.name = u => f = g
  BY <1>2, OnlyFile
<1>5. found.files[u].decisions = g.decisions
  <2>1. found.files[u] = ReadFile(tree.exports[i], g)
    BY <1>2, FileOf
  <2> HIDE DEF g
  <2>2. QED
    BY <2>1 DEF ReadFile
<1>6. Merged(found.files[u].branches, RegionsOf(u))
  BY <1>2, UnitMerges
<1>7. tier \in {"O", "A", "H"}
  <2>1. PICK d \in Declarations(tree) : d.unit = u
    BY DEF DeclaredUnits
  <2>2. QED
    BY <2>1, OneTier
<1>8. MeetsFloor(covered, 2 * Cardinality(measured), FloorPercent(tier))
        <=> 100 * Cardinality(Taken(u)) >= FloorPercent(tier) * Cardinality(Outcomes(u))
  <2>1. /\ Cardinality(measured) \in Nat /\ covered \in Nat
        /\ Cardinality(Outcomes(u)) = 2 * Cardinality(measured)
        /\ Cardinality(Taken(u)) = covered
    BY <1>6, UnitCounts
  <2> HIDE DEF measured, covered, tier
  <2>2. covered * 100 = 100 * covered
    BY <2>1
  <2>3. QED
    BY <2>1, <2>2 DEF MeetsFloor
<1> HIDE DEF g
<1>9. weak = {} <=> \A y \in Range(tree.exports) : \A f \in Range(y.files) :
                      f.name = u => \A e \in {z \in f.decisions : z.line \in Added(u)} :
                                      e.conditions > 0 /\ \A c \in 1..e.conditions : Decides(e, c)
  <2>1. \A e \in g.decisions : DecisionIsIndependentlyCovered(e)
                                 <=> e.conditions > 0 /\ \A c \in 1..e.conditions : Decides(e, c)
    BY <1>3, CoveredDecides DEF HasItsForm
  <2>2. g.name = u
    BY <1>2 DEF g
  <2>3. QED
    BY <1>3, <1>4, <1>5, <2>1, <2>2
<1>10. UnitFindings(tree, u, Added(u))
         = (IF MeetsFloor(covered, 2 * Cardinality(measured), FloorPercent(tier)) THEN {} ELSE {<<"below_floor", u>>})
           \union {<<"mcdc", u, d.line>> : d \in IF tier = "H" THEN weak ELSE {}}
  BY DEF UnitFindings
<1> DEFINE Enough == MeetsFloor(covered, 2 * Cardinality(measured), FloorPercent(tier))
<1> HIDE DEF weak, tier, covered, measured
<1>11. UnitFindings(tree, u, Added(u)) = {} <=> Enough /\ (tier = "H" => weak = {})
  BY <1>10
<1>12. QED
  BY <1>8, <1>9, <1>11 DEF Meets, tier

\* The floors are found to be met exactly when the change earns it.
LEMMA FloorsAreExact ==
  ASSUME IsCheckout(tree), Gathered(found.files, Len(tree.exports)), RowsAreDiff,
         ~ParseUnifiedDiff(rows).malformed, found.changed = ParseUnifiedDiff(rows).changed,
         ~TierIndexRefused(tree)
  PROVE  FloorFindings(tree) = {} <=> ChangeEarned
<1> DEFINE Declared == DeclaredUnits(tree)
           Present == PresentUnits(tree)
           Built == DOMAIN found.files
<1>1. /\ \A u \in DOMAIN Unit : ChangedLines(u) = Added(u)
      /\ ChangedUnits = {u \in DOMAIN Unit : Unit[u].maintained /\ Added(u) # {}}
  BY ChangedIsAdded, VerifyAssumption
<1>2. \A u \in Floored(tree) : UnitFindings(tree, u, ChangedLines(u)) = {} <=> Meets(u, TierOf(tree, u))
  BY <1>1, UnitMeets DEF Floored
<1>3. FloorFindings(tree) = {} <=> /\ \A u \in Floored(tree) : UnitFindings(tree, u, ChangedLines(u)) = {}
                                   /\ (ChangedUnits \union Present) \subseteq Declared
                                   /\ Declared \subseteq Present
  <2> DEFINE undeclared == {<<"undeclared_tier", u>> : u \in (ChangedUnits \union Present) \ Declared}
             stale == {<<"stale_tier", u>> : u \in Declared \ Present}
             units == UNION {UnitFindings(tree, u, ChangedLines(u)) : u \in Floored(tree)}
  <2>1. FloorFindings(tree) = units \union undeclared \union stale
    BY DEF FloorFindings
  <2>2. units = {} <=> \A u \in Floored(tree) : UnitFindings(tree, u, ChangedLines(u)) = {}
    OBVIOUS
  <2> HIDE DEF Declared, Present
  <2>3. undeclared = {} <=> (ChangedUnits \union Present) \subseteq Declared
    OBVIOUS
  <2>4. stale = {} <=> Declared \subseteq Present
    OBVIOUS
  <2> HIDE DEF undeclared, stale, units
  <2>5. QED
    BY <2>1, <2>2, <2>3, <2>4
<1>4. \A u \in ChangedUnits : NamedByExport(u) <=> u \in Built
  BY <1>1, NamedIsRead
<1>5. \A u \in ChangedUnits : Earned(u) <=> u \in Declared /\ (u \in Built => Meets(u, TierOf(tree, u)))
  BY <1>4, EarnedIs
<1>6. ChangeEarned <=> (\A u \in ChangedUnits : Earned(u)) /\ Present = Declared
  BY <1>1 DEF ChangeEarned
<1>7. Floored(tree) = ChangedUnits \intersect Declared \intersect Built
  BY DEF Floored
<1> HIDE DEF Declared, Present, Built
<1>8. QED
  BY <1>2, <1>3, <1>5, <1>6, <1>7

-----------------------------------------------------------------------------
(***************************************************************************)
(* Requirements.                                                           *)
(***************************************************************************)

\* A binding is made by each test that ran, of each criterion it claims.
LEMMA BindingIs ==
  \A b : b \in Bindings(tree) <=>
    \E r \in Range(tree.testReports) : \E x \in r : \E c \in x.requirement : b = <<c, x.name>>
<1> DEFINE PairsOf(x) == {<<c, x.name>> : c \in x.requirement}
           tests == UNION Range(tree.testReports)
<1>1. Bindings(tree) = UNION {PairsOf(x) : x \in tests}
  BY DEF Bindings
<1>2. \A x, b : b \in PairsOf(x) <=> \E c \in x.requirement : b = <<c, x.name>>
  OBVIOUS
<1>3. \A x : x \in tests <=> \E r \in Range(tree.testReports) : x \in r
  OBVIOUS
<1> HIDE DEF PairsOf, tests
<1>4. \A b : b \in Bindings(tree) <=> \E x \in tests : b \in PairsOf(x)
  BY <1>1
<1>5. QED
  BY <1>2, <1>3, <1>4

\* A test is bound to a criterion exactly when one that ran claims it.
LEMMA Bound ==
  ASSUME NEW id
  PROVE  TestsOf(tree, id) # {} <=> Claimed(id)
<1>1. TestsOf(tree, id) # {} <=> \E b \in Bindings(tree) : b[1] = id
  BY DEF TestsOf
<1>2. ASSUME NEW r \in Range(tree.testReports), NEW x \in r, id \in x.requirement
      PROVE  \E b \in Bindings(tree) : b[1] = id
  <2>1. <<id, x.name>> \in Bindings(tree)
    BY <1>2, BindingIs
  <2>2. <<id, x.name>>[1] = id
    OBVIOUS
  <2>3. QED
    BY <2>1, <2>2
<1>3. ASSUME NEW b \in Bindings(tree), b[1] = id
      PROVE  \E r \in Range(tree.testReports) : \E x \in r : id \in x.requirement
  BY <1>3, BindingIs
<1>4. QED
  BY <1>1, <1>2, <1>3 DEF Claimed

\* No finding is left exactly when every claimed criterion is declared, and a
\* criterion is reported as bound exactly when a test claims it.
LEMMA RequirementsAreExact ==
  /\ RequirementFindings(tree) = {} <=> ClaimsAreDeclared
  /\ \A c : Discharge(tree, c) = "bound" <=> Claimed(c.id)
<1> DEFINE ids == {c.id : c \in Range(tree.criteria)}
<1>1. RequirementFindings(tree) = {} <=> \A b \in Bindings(tree) : b[1] \in ids
  BY DEF RequirementFindings
<1>2. ClaimsAreDeclared <=> \A r \in Range(tree.testReports) : \A x \in r : \A c \in x.requirement : c \in ids
  BY DEF ClaimsAreDeclared
<1> HIDE DEF ids
<1>3. (\A b \in Bindings(tree) : b[1] \in ids)
        <=> \A r \in Range(tree.testReports) : \A x \in r : \A c \in x.requirement : c \in ids
  <2>1. ASSUME \A b \in Bindings(tree) : b[1] \in ids,
               NEW r \in Range(tree.testReports), NEW x \in r, NEW c \in x.requirement
        PROVE  c \in ids
    <3>1. <<c, x.name>> \in Bindings(tree)
      BY BindingIs
    <3>2. <<c, x.name>>[1] \in ids
      BY <2>1, <3>1
    <3>3. QED
      BY <3>2
  <2>2. ASSUME \A r \in Range(tree.testReports) : \A x \in r : \A c \in x.requirement : c \in ids,
               NEW b \in Bindings(tree)
        PROVE  b[1] \in ids
    BY <2>2, BindingIs
  <2>3. QED
    BY <2>1, <2>2
<1>4. \A c : Discharge(tree, c) = "bound" <=> Claimed(c.id)
  BY Bound DEF Discharge
<1>5. QED
  BY <1>1, <1>2, <1>3, <1>4

-----------------------------------------------------------------------------
(***************************************************************************)
(* The invariant.                                                          *)
(***************************************************************************)

\* The exports are read into the files they describe, so many as were read.
ReadIsGathered ==
  /\ stage \in {"rf-verify", "exports"} => found.read \in 0..Len(tree.exports) /\ Gathered(found.files, found.read)
  /\ stage \in {"diff", "floors", "summary"} => Gathered(found.files, Len(tree.exports))

\* Floors are evaluated against a diff that was given, and read.
DiffIsGiven ==
  /\ stage \in {"exports", "diff"} /\ request.operation = "coverage_floors" => tree.diff # None
  /\ stage \in {"diff", "floors"} => request.operation = "coverage_floors"
  /\ stage = "floors" => /\ tree.diff # None /\ ~ParseUnifiedDiff(tree.diff).malformed
                         /\ found.changed = ParseUnifiedDiff(tree.diff).changed

\* A summary and a report of requirements are concluded for who asked for them,
\* and a summary has no findings.
AskedFor ==
  /\ stage = "summary" => request.operation = "coverage_summary"
  /\ stage = "requirements" => request.operation = "requirements_report"
  /\ stage = "exports" => request.operation \in {"coverage_floors", "coverage_summary"}

\* What is about to be reported is what the inputs earn.
ConcludedExactly ==
  stage = "emit" =>
    CASE request.operation = "coverage_floors"     -> Plain => (found.findings = {} <=> ChangeEarned)
      [] request.operation = "requirements_report" ->
           /\ found.findings = {} <=> ClaimsAreDeclared
           /\ \A c \in Range(tree.criteria) : found.report[c] = "bound" <=> Claimed(c.id)
      [] request.operation = "coverage_summary"    -> SummaryExact
      [] OTHER                                     -> TRUE

\* Where a run stands, and what it has read and concluded there.
VInv ==
  /\ IsCheckout(tree)
  /\ DOMAIN found = {"read", "files", "foreign", "changed", "findings", "report"}
  /\ exit # None => stage = "ended"
  /\ ReadIsGathered
  /\ DiffIsGiven
  /\ AskedFor
  /\ ConcludedExactly
  /\ stage = "ended" => VerdictIsExact

\* What an input earns does not change with the run.
LEMMA InputStands ==
  ASSUME UNCHANGED input
  PROVE  /\ tree' = tree /\ request' = request
         /\ Plain' <=> Plain
         /\ ChangeEarned' <=> ChangeEarned
         /\ ClaimsAreDeclared' <=> ClaimsAreDeclared
         /\ \A id : Claimed(id)' <=> Claimed(id)
         /\ AllBlank' = AllBlank
<1>1. tree' = tree /\ request' = request
  BY DEF tree, request
<1>2. rows' = rows
  BY <1>1 DEF rows
<1>3. Plain' <=> Plain
  BY <1>2 DEF Plain
<1>4. \A i, marks : LastOf(i, marks)' = LastOf(i, marks)
  BY <1>2 DEF LastOf
<1>5. \A i : AddedLine(i)' = AddedLine(i)
  BY <1>2, <1>4 DEF AddedLine
<1>6. \A u : Added(u)' = Added(u)
  BY <1>2, <1>4, <1>5 DEF Added
<1>7. \A u : Document(u)' = Document(u)
  BY <1>1 DEF Document
<1>8. \A u : RegionsOf(u)' = RegionsOf(u)
  BY <1>7 DEF RegionsOf
<1>9. \A u : Outcomes(u)' = Outcomes(u)
  BY <1>1, <1>6, <1>8 DEF Outcomes
<1>10. \A u : Taken(u)' = Taken(u)
  BY <1>8, <1>9 DEF Taken
<1>11. \A u : Earned(u)' <=> Earned(u)
  BY <1>1, <1>6, <1>9, <1>10 DEF Earned
<1>12. ChangeEarned' <=> ChangeEarned
  BY <1>1, <1>6, <1>11 DEF ChangeEarned
<1>13. ClaimsAreDeclared' <=> ClaimsAreDeclared
  BY <1>1 DEF ClaimsAreDeclared
<1>14. \A id : Claimed(id)' <=> Claimed(id)
  BY <1>1 DEF Claimed
<1>15. AllBlank' = AllBlank
  BY <1>1 DEF AllBlank
<1>16. QED
  BY <1>1, <1>3, <1>12, <1>13, <1>14, <1>15

\* What is gathered into some files is gathered into those found next, if they are the same.
LEMMA GatheredNext ==
  ASSUME UNCHANGED input, NEW files, NEW k, Gathered(files, k)
  PROVE  /\ found'.files = files /\ found'.read = k => Gathered(found.files, found.read)'
         /\ found'.files = files /\ Len(tree.exports) = k => Gathered(found.files, Len(tree.exports))'
<1>1. tree' = tree
  BY DEF tree
<1>2. \A i, a : FileAt(i, a)' = FileAt(i, a)
  BY <1>1 DEF FileAt
<1>3. \A i : OurFiles(i)' = OurFiles(i)
  BY <1>1, <1>2 DEF OurFiles
<1>4. QED
  BY <1>1, <1>2, <1>3 DEF Gathered

\* A run begins with nothing read.
LEMMA VerifyBegins == ASSUME Begin("rf-verify", Nothing) PROVE VInv
<1>1. PICK i \in Invocations : i.tool = "rf-verify" /\ input = [request |-> i.request, tree |-> Trees[i.tree]]
  BY DEF Begin
<1>2. tree = Trees[i.tree]
  BY <1>1 DEF tree
<1>3. IsCheckout(tree)
  BY <1>1, <1>2, VerifyAssumption
<1>4. stage = "rf-verify" /\ exit = None /\ found = Nothing
  BY DEF Begin
<1>5. Len(tree.exports) \in Nat
  BY <1>3 DEF IsCheckout, IsList
<1>6. found.read = 0 /\ found.files = <<>>
  BY <1>4 DEF Nothing
<1>7. Gathered(<<>>, 0)
  <2>1. 1..0 = {}
    OBVIOUS
  <2>2. DOMAIN <<>> = {}
    OBVIOUS
  <2>3. UNION {{FileAt(j, a).name : a \in OurFiles(j)} : j \in {}} = {}
    OBVIOUS
  <2>4. IsFiniteSet({})
    BY FS_EmptySet
  <2>5. QED
    BY <2>1, <2>2, <2>3, <2>4 DEF Gathered
<1>8. ReadIsGathered
  BY <1>4, <1>5, <1>6, <1>7 DEF ReadIsGathered
<1>9. DOMAIN found = {"read", "files", "foreign", "changed", "findings", "report"}
  BY <1>4 DEF Nothing
<1>10. DiffIsGiven /\ AskedFor /\ ConcludedExactly
  BY <1>4 DEF DiffIsGiven, AskedFor, ConcludedExactly
<1>11. QED
  BY <1>3, <1>4, <1>8, <1>9, <1>10 DEF VInv

\* A run that ends without a verdict has none to earn.
LEMMA EndsWithout ==
  ASSUME VInv, NEW class \in {"usage", "failure"}, End(class)
  PROVE  VInv'
<1>1. UNCHANGED <<input, found>> /\ stage' = "ended" /\ exit' = class
  BY DEF End
<1>2. IsCheckout(tree)'
  BY <1>1 DEF VInv, tree
<1>3. VerdictIsExact'
  BY <1>1 DEF VerdictIsExact
<1>4. ReadIsGathered' /\ DiffIsGiven' /\ AskedFor' /\ ConcludedExactly'
  BY <1>1 DEF ReadIsGathered, DiffIsGiven, AskedFor, ConcludedExactly
<1>5. QED
  BY <1>1, <1>2, <1>3, <1>4 DEF VInv

\* While a run goes on, it has no exit and so no verdict.
LEMMA GoesOn ==
  ASSUME VInv, UNCHANGED <<input, exit>>, stage # "ended", stage' # "ended",
         (DOMAIN found)' = {"read", "files", "foreign", "changed", "findings", "report"},
         ReadIsGathered', DiffIsGiven', AskedFor', ConcludedExactly'
  PROVE  VInv'
<1>1. IsCheckout(tree)'
  BY DEF VInv, tree
<1>2. exit' = None
  BY DEF VInv
<1>3. QED
  BY <1>1, <1>2 DEF VInv

\* What an invocation asks for decides where it starts.
LEMMA VerifyArgumentsKeep == ASSUME VInv, VerifyArguments PROVE VInv'
<1>1. stage = "rf-verify"
  BY DEF VerifyArguments
<1>2. CASE ~VerifyUsable
  BY <1>2, EndsWithout DEF VerifyArguments
<1>3. CASE VerifyUsable /\ ~tree.hasIndex
  BY <1>3, EndsWithout DEF VerifyArguments
<1>4. CASE VerifyUsable /\ tree.hasIndex
  <2>1. Go(IF request.operation = "requirements_report" THEN "requirements" ELSE "exports")
    BY <1>4 DEF VerifyArguments
  <2>2. /\ UNCHANGED <<input, found, exit>> /\ stage' \in {"requirements", "exports"}
        /\ stage' = "requirements" <=> request.operation = "requirements_report"
    BY <2>1 DEF Go
  <2>3. tree' = tree /\ request' = request
    BY <2>2, InputStands
  <2>4. /\ request.operation \in {"coverage_floors", "coverage_summary", "requirements_report"}
        /\ request.operation = "coverage_floors" => tree.diff # None
    BY <1>4 DEF VerifyUsable, VerifyOperations
  <2>5. ReadIsGathered'
    <3>1. found.read \in 0..Len(tree.exports) /\ Gathered(found.files, found.read)
      BY <1>1 DEF VInv, ReadIsGathered
    <3>2. Gathered(found.files, found.read)'
      BY <2>2, <3>1, GatheredNext
    <3>3. QED
      BY <2>2, <2>3, <3>1, <3>2 DEF ReadIsGathered
  <2>6. DiffIsGiven' /\ AskedFor' /\ ConcludedExactly'
    BY <2>2, <2>3, <2>4 DEF DiffIsGiven, AskedFor, ConcludedExactly
  <2>7. QED
    BY <1>1, <2>2, <2>5, <2>6, GoesOn DEF VInv
<1>5. QED
  BY <1>2, <1>3, <1>4

\* An export is read whole, or the run ends.
LEMMA ReadExportKeeps == ASSUME VInv, ReadExport PROVE VInv'
<1> DEFINE k == found.read
           d == tree.exports[k + 1]
           files == d.files
           ours == OurFiles(k + 1)
           names == {files[i].name : i \in ours}
           bad == \/ d.kind # "llvm.coverage.json.export"
                  \/ \E i \in DOMAIN files : ~files[i].wellFormed
                  \/ \E i, j \in ours : i # j /\ files[i].name = files[j].name
                  \/ names \intersect DOMAIN found.files # {}
           next == [n \in names \union DOMAIN found.files |->
                      IF n \in names THEN ReadFile(d, files[CHOOSE i \in ours : files[i].name = n])
                      ELSE found.files[n]]
<1>1. stage = "exports" /\ k < Len(tree.exports)
  BY DEF ReadExport
<1>2. k \in 0..Len(tree.exports) /\ Gathered(found.files, k)
  BY <1>1 DEF VInv, ReadIsGathered
<1>3. Len(tree.exports) \in Nat
  BY DEF VInv, IsCheckout, IsList
<1>4. k \in Nat /\ k + 1 \in 0..Len(tree.exports)
  BY <1>1, <1>2, <1>3
<1>5. CASE bad
  <2>1. End("failure")
    BY <1>5 DEF ReadExport, AppendCoverageExport, OurFiles, FileAt
  <2>2. QED
    BY <2>1, EndsWithout
<1>6. CASE ~bad
  <2>1. /\ UNCHANGED <<input, exit>> /\ stage' = stage
        /\ \E foreign : found' = [found EXCEPT !.read = @ + 1, !.foreign = foreign, !.files = next]
    BY <1>6 DEF ReadExport, AppendCoverageExport, Learn, OurFiles, FileAt
  <2> HIDE DEF next
  <2>2. /\ found'.read = k + 1 /\ found'.files = next
        /\ (DOMAIN found)' = {"read", "files", "foreign", "changed", "findings", "report"}
    BY <2>1 DEF VInv
  <2>3. Gathered(next, k + 1)
    <3>1. /\ \A i \in DOMAIN d.files : d.files[i].wellFormed
          /\ \A i, j \in OurFiles(k + 1) : d.files[i].name = d.files[j].name => i = j
          /\ {d.files[i].name : i \in OurFiles(k + 1)} \intersect DOMAIN found.files = {}
      BY <1>6
    <3>2. NamesFresh(found.files, k)
      BY <3>1 DEF NamesFresh
    <3>3. next = WithNext(found.files, k)
      BY DEF WithNext, next
    <3>4. IsCheckout(tree)
      BY DEF VInv
    <3>5. QED
      BY <1>1, <1>2, <1>4, <3>2, <3>3, <3>4, ExportGathers
  <2>4. Gathered(found.files, found.read)'
    BY <2>1, <2>2, <2>3, GatheredNext
  <2>5. tree' = tree /\ request' = request
    BY <2>1, InputStands
  <2>6. ReadIsGathered'
    BY <1>1, <1>4, <2>1, <2>2, <2>4, <2>5 DEF ReadIsGathered
  <2>7. DiffIsGiven' /\ AskedFor' /\ ConcludedExactly'
    BY <1>1, <2>1, <2>5 DEF VInv, DiffIsGiven, AskedFor, ConcludedExactly
  <2>8. QED
    BY <1>1, <2>1, <2>2, <2>6, <2>7, GoesOn
<1>7. QED
  BY <1>5, <1>6

\* When the last export is read, all of them are gathered.
LEMMA ExportsReadKeep == ASSUME VInv, ExportsRead PROVE VInv'
<1>1. stage = "exports" /\ found.read = Len(tree.exports)
  BY DEF ExportsRead
<1>2. /\ UNCHANGED <<input, found, exit>>
      /\ stage' = IF request.operation = "coverage_floors" THEN "diff" ELSE "summary"
  BY DEF ExportsRead, Go
<1>3. tree' = tree /\ request' = request
  BY <1>2, InputStands
<1>4. Gathered(found.files, Len(tree.exports))'
  <2>1. Gathered(found.files, Len(tree.exports))
    BY <1>1 DEF VInv, ReadIsGathered
  <2>2. QED
    BY <1>2, <2>1, GatheredNext
<1>5. ReadIsGathered'
  BY <1>2, <1>4 DEF ReadIsGathered
<1>6. DiffIsGiven' /\ AskedFor' /\ ConcludedExactly'
  BY <1>1, <1>2, <1>3 DEF VInv, DiffIsGiven, AskedFor, ConcludedExactly
<1>7. QED
  BY <1>1, <1>2, <1>5, <1>6, GoesOn DEF VInv

\* A diff is read whole, or the run ends.
LEMMA ReadDiffKeeps == ASSUME VInv, ReadDiff PROVE VInv'
<1> DEFINE parsed == ParseUnifiedDiff(tree.diff)
<1>1. stage = "diff"
  BY DEF ReadDiff
<1>2. CASE parsed.malformed \/ parsed.changed = {}
  <2>1. End("failure")
    BY <1>2 DEF ReadDiff
  <2>2. QED
    BY <2>1, EndsWithout
<1>3. CASE ~(parsed.malformed \/ parsed.changed = {})
  <2>1. /\ UNCHANGED <<input, exit>> /\ stage' = "floors"
        /\ found' = [found EXCEPT !.changed = parsed.changed]
    BY <1>3 DEF ReadDiff, Learn
  <2> HIDE DEF parsed
  <2>2. /\ found'.changed = parsed.changed /\ found'.files = found.files
        /\ (DOMAIN found)' = {"read", "files", "foreign", "changed", "findings", "report"}
    BY <2>1 DEF VInv
  <2>3. tree' = tree /\ request' = request
    BY <2>1, InputStands
  <2>4. Gathered(found.files, Len(tree.exports))'
    <3>1. Gathered(found.files, Len(tree.exports))
      BY <1>1 DEF VInv, ReadIsGathered
    <3>2. QED
      BY <2>1, <2>2, <3>1, GatheredNext
  <2>5. ReadIsGathered'
    BY <2>1, <2>4 DEF ReadIsGathered
  <2>6. DiffIsGiven'
    <3>1. request.operation = "coverage_floors" /\ tree.diff # None
      BY <1>1 DEF VInv, DiffIsGiven
    <3>2. ParseUnifiedDiff(tree.diff)' = parsed
      BY <2>3 DEF parsed
    <3>3. QED
      BY <1>3, <2>1, <2>2, <2>3, <3>1, <3>2 DEF DiffIsGiven
  <2>7. AskedFor' /\ ConcludedExactly'
    BY <2>1 DEF AskedFor, ConcludedExactly
  <2>8. QED
    BY <1>1, <2>1, <2>2, <2>5, <2>6, <2>7, GoesOn
<1>4. QED
  BY <1>2, <1>3

\* The floors are concluded from what was gathered and from the diff.
LEMMA FloorsKeep == ASSUME VInv, EvaluateFloors PROVE VInv'
<1>1. stage = "floors"
  BY DEF EvaluateFloors
<1>2. CASE TierIndexRefused(tree) \/ NothingToConclude(tree)
  <2>1. End("failure")
    BY <1>2 DEF EvaluateFloors
  <2>2. QED
    BY <2>1, EndsWithout
<1>3. CASE ~(TierIndexRefused(tree) \/ NothingToConclude(tree))
  <2>1. /\ UNCHANGED <<input, exit>> /\ stage' = "emit"
        /\ found' = [found EXCEPT !.findings = FloorFindings(tree)]
    BY <1>3 DEF EvaluateFloors, Learn
  <2>2. /\ found'.findings = FloorFindings(tree)
        /\ (DOMAIN found)' = {"read", "files", "foreign", "changed", "findings", "report"}
    BY <2>1 DEF VInv
  <2>3. Plain => (FloorFindings(tree) = {} <=> ChangeEarned)
    <3>1. /\ IsCheckout(tree) /\ Gathered(found.files, Len(tree.exports))
          /\ tree.diff # None /\ ~ParseUnifiedDiff(tree.diff).malformed
          /\ found.changed = ParseUnifiedDiff(tree.diff).changed
      BY <1>1 DEF VInv, ReadIsGathered, DiffIsGiven
    <3>2. Plain => RowsAreDiff
      BY <3>1 DEF RowsAreDiff, IsCheckout, rows
    <3>3. QED
      BY <1>3, <3>1, <3>2, FloorsAreExact DEF rows
  <2>4. request.operation = "coverage_floors"
    BY <1>1 DEF VInv, DiffIsGiven
  <2>5. ConcludedExactly'
    BY <2>1, <2>2, <2>3, <2>4, InputStands DEF ConcludedExactly
  <2>6. ReadIsGathered' /\ DiffIsGiven' /\ AskedFor'
    BY <2>1 DEF ReadIsGathered, DiffIsGiven, AskedFor
  <2>7. QED
    BY <1>1, <2>1, <2>2, <2>5, <2>6, GoesOn
<1>4. QED
  BY <1>2, <1>3

\* The summary is concluded from what was gathered.
LEMMA SummaryKeeps == ASSUME VInv, SummarizeCoverage PROVE VInv'
<1>1. stage = "summary"
  BY DEF SummarizeCoverage
<1>2. CASE TierIndexRefused(tree)
  <2>1. End("failure")
    BY <1>2 DEF SummarizeCoverage
  <2>2. QED
    BY <2>1, EndsWithout
<1>3. CASE ~TierIndexRefused(tree)
  <2>1. /\ UNCHANGED <<input, exit>> /\ stage' = "emit"
        /\ found' = [found EXCEPT !.report = Summarize]
    BY <1>3 DEF SummarizeCoverage, Learn
  <2>2. /\ found'.report = Summarize
        /\ (DOMAIN found)' = {"read", "files", "foreign", "changed", "findings", "report"}
    BY <2>1 DEF VInv
  <2>3. /\ Summarize.listed \subseteq AllBlank
        /\ Cardinality(Summarize.listed) = Min({MaxListed, Cardinality(AllBlank)})
        /\ Cardinality(Summarize.listed) + Summarize.omitted = Cardinality(AllBlank)
    BY <1>1, SummaryIsExact DEF VInv, ReadIsGathered
  <2>4. SummaryExact'
    BY <2>1, <2>2, <2>3, InputStands DEF SummaryExact
  <2>5. request.operation = "coverage_summary"
    BY <1>1 DEF VInv, AskedFor
  <2>6. ConcludedExactly'
    BY <2>1, <2>4, <2>5, InputStands DEF ConcludedExactly
  <2>7. ReadIsGathered' /\ DiffIsGiven' /\ AskedFor'
    BY <2>1 DEF ReadIsGathered, DiffIsGiven, AskedFor
  <2>8. QED
    BY <1>1, <2>1, <2>2, <2>6, <2>7, GoesOn
<1>4. QED
  BY <1>2, <1>3

\* The report of requirements is concluded from the inventory and the tests.
LEMMA RequirementsKeep == ASSUME VInv, BuildRequirementsReport PROVE VInv'
<1> DEFINE bad == InventoryRefused(tree) \/ \E r \in Range(tree.testReports) : \E x \in r : x.requirement = None
           report == [c \in Range(tree.criteria) |-> Discharge(tree, c)]
<1>1. stage = "requirements"
  BY DEF BuildRequirementsReport
<1>2. CASE bad
  <2>1. End("failure")
    BY <1>2 DEF BuildRequirementsReport
  <2>2. QED
    BY <2>1, EndsWithout
<1>3. CASE ~bad
  <2>1. /\ UNCHANGED <<input, exit>> /\ stage' = "emit"
        /\ found' = [found EXCEPT !.findings = RequirementFindings(tree), !.report = report]
    BY <1>3 DEF BuildRequirementsReport, Learn
  <2> HIDE DEF report
  <2>2. /\ found'.findings = RequirementFindings(tree) /\ found'.report = report
        /\ (DOMAIN found)' = {"read", "files", "foreign", "changed", "findings", "report"}
    BY <2>1 DEF VInv
  <2>3. \A c \in Range(tree.criteria) : report[c] = "bound" <=> Claimed(c.id)
    BY RequirementsAreExact DEF report
  <2>4. request.operation = "requirements_report"
    BY <1>1 DEF VInv, AskedFor
  <2>5. ConcludedExactly'
    BY <2>1, <2>2, <2>3, <2>4, RequirementsAreExact, InputStands DEF ConcludedExactly
  <2>6. ReadIsGathered' /\ DiffIsGiven' /\ AskedFor'
    BY <2>1 DEF ReadIsGathered, DiffIsGiven, AskedFor
  <2>7. QED
    BY <1>1, <2>1, <2>2, <2>5, <2>6, GoesOn
<1>4. QED
  BY <1>2, <1>3

\* The verdict that is emitted is the one concluded.
LEMMA EmitKeeps == ASSUME VInv, Emit PROVE VInv'
<1>1. stage = "emit"
  BY DEF Emit
<1>2. CASE End("failure")
  BY <1>2, EndsWithout
<1>3. CASE End(IF found.findings = {} THEN "conformant" ELSE "findings")
  <2>1. /\ UNCHANGED <<input, found>> /\ stage' = "ended"
        /\ exit' = IF found.findings = {} THEN "conformant" ELSE "findings"
    BY <1>3 DEF End
  <2>2. exit' = "conformant" <=> found.findings = {}
    BY <2>1
  <2>3. ConcludedExactly
    BY DEF VInv
  <2>4. tree' = tree /\ request' = request
    BY <2>1, InputStands
  <2>5. VerdictIsExact'
    <3>1. CASE request.operation = "coverage_floors"
      <4>1. FloorsExact'
        BY <1>1, <2>1, <2>2, <2>3, <3>1, InputStands DEF ConcludedExactly, FloorsExact
      <4>2. QED
        BY <2>4, <3>1, <4>1 DEF VerdictIsExact
    <3>2. CASE request.operation = "requirements_report"
      <4>1. RequirementsExact'
        BY <1>1, <2>1, <2>2, <2>3, <2>4, <3>2, InputStands DEF ConcludedExactly, RequirementsExact
      <4>2. QED
        BY <2>4, <3>2, <4>1 DEF VerdictIsExact
    <3>3. CASE request.operation = "coverage_summary"
      <4>1. SummaryExact'
        BY <1>1, <2>1, <2>3, <3>3, InputStands DEF ConcludedExactly, SummaryExact
      <4>2. QED
        BY <2>4, <3>3, <4>1 DEF VerdictIsExact
    <3>4. QED
      BY <2>4, <3>1, <3>2, <3>3 DEF VerdictIsExact
  <2>6. IsCheckout(tree)'
    BY <2>4 DEF VInv
  <2>7. ReadIsGathered' /\ DiffIsGiven' /\ AskedFor' /\ ConcludedExactly'
    BY <2>1 DEF ReadIsGathered, DiffIsGiven, AskedFor, ConcludedExactly
  <2>8. QED
    BY <2>1, <2>5, <2>6, <2>7 DEF VInv
<1>4. QED
  BY <1>2, <1>3 DEF Emit

\* A step that changes nothing keeps what holds.
LEMMA StutterKeeps == ASSUME VInv, UNCHANGED vars PROVE VInv'
<1>1. UNCHANGED <<input, stage, found, exit>>
  BY DEF vars
<1>2. tree' = tree /\ request' = request /\ rows' = rows
  BY <1>1 DEF tree, request, rows
<1>3. ReadIsGathered'
  <2>1. ASSUME Gathered(found.files, found.read) PROVE Gathered(found.files, found.read)'
    BY <1>1, <2>1, GatheredNext
  <2>2. ASSUME Gathered(found.files, Len(tree.exports)) PROVE Gathered(found.files, Len(tree.exports))'
    BY <1>1, <2>2, GatheredNext
  <2>3. QED
    BY <1>1, <1>2, <2>1, <2>2 DEF VInv, ReadIsGathered
<1>4. DiffIsGiven' /\ AskedFor'
  BY <1>1, <1>2 DEF VInv, DiffIsGiven, AskedFor
<1>5. SummaryExact' <=> SummaryExact
  BY <1>1, InputStands DEF SummaryExact
<1>6. ConcludedExactly'
  BY <1>1, <1>2, <1>5, InputStands DEF VInv, ConcludedExactly
<1>7. VerdictIsExact' <=> VerdictIsExact
  BY <1>1, <1>2, <1>5, InputStands DEF VerdictIsExact, FloorsExact, RequirementsExact
<1>8. IsCheckout(tree)'
  BY <1>2 DEF VInv
<1>9. QED
  BY <1>1, <1>3, <1>4, <1>6, <1>7, <1>8 DEF VInv

\* Where a run of rf-verify stands says which exports are gathered and whether the
\* diff is read, and what it has concluded is what its inputs earn.
THEOREM VerifyInvariant == VerifySpec => []VInv
<1>1. VInv /\ [VerifyNext]_vars => VInv'
  BY VerifyArgumentsKeep, ReadExportKeeps, ExportsReadKeep, ReadDiffKeeps, FloorsKeep, SummaryKeeps,
     RequirementsKeep, EmitKeeps, StutterKeeps DEF VerifyNext
<1>2. QED
  BY <1>1, VerifyBegins, PTL DEF VerifySpec

\* VerdictIsExact holds of every run: the floors, the report of requirements and the
\* summary say of every export, diff, index and inventory what they mean to.
THEOREM ExactVerdict == VerifySpec => []VerdictIsExact
<1>1. VInv => VerdictIsExact
  BY VerifyAssumption DEF VInv, VerdictIsExact
<1>2. QED
  BY <1>1, VerifyInvariant, PTL
-----------------------------------------------------------------------------
(***************************************************************************)
(* rf-archcheck.  What is computed step by step.                           *)
(***************************************************************************)

\* What each step keeps is so at the end.
LEMMA StepsKeep ==
  ASSUME NEW n \in Nat, NEW f, NEW S, f[0] \in S, \A i \in 1..n : f[i - 1] \in S => f[i] \in S
  PROVE  \A i \in 0..n : f[i] \in S
<1> DEFINE T == {m \in Nat : m <= n => f[m] \in S}
<1>1. 0 \in T
  OBVIOUS
<1>2. ASSUME NEW m \in Nat, m \in T
      PROVE  m + 1 \in T
  <2>1. SUFFICES ASSUME m + 1 <= n
                 PROVE  f[m + 1] \in S
    OBVIOUS
  <2>2. m + 1 \in 1..n /\ (m + 1) - 1 = m /\ f[m] \in S
    BY <1>2, <2>1
  <2>3. QED
    BY <2>2
<1> HIDE DEF T
<1>3. Nat \subseteq T
  BY <1>1, <1>2, SetInduction
<1>4. QED
  BY <1>3 DEF T

\* The same step over and over.
Repeats(f, D, b, n, g) ==
  f \in [0..n -> D] /\ f[0] = b /\ \A i \in 1..n : f[i] = g[f[i - 1]]

\* Steps of a set onto itself can be repeated.
LEMMA StepsExist ==
  ASSUME NEW D, NEW b \in D, NEW n \in Nat, NEW g \in [D -> D]
  PROVE  \E f : Repeats(f, D, b, n, g)
<1> DEFINE G == [i \in 1..n |-> g]
<1>1. G \in [1..n -> [D -> D]]
  OBVIOUS
<1> HIDE DEF G
<1>2. PICK it \in [SUBSET (1..n) -> D] : Recursion(it, D, b, n, G)
  BY <1>1, FoldExists
<1>3. PICK f : Passes(f, D, b, n, G)
  BY <1>1, <1>2, FoldSteps
<1>4. QED
  <2>1. Repeats(f, D, b, n, g)
    BY <1>3 DEF Passes, Repeats, G
  <2>2. QED
    BY <2>1

\* What is reached is reached step by step.
LEMMA ReachedIs ==
  ASSUME NEW relation, NEW from, NEW k \in Nat
  PROVE  \E f : /\ f[0] = from /\ f[k] = Reached(relation, from, k)
                /\ \A n \in 1..k : f[n] = Further(relation, f[n - 1])
<1> DEFINE D == SUBSET (from \union {e[2] : e \in relation})
           g == [x \in D |-> Further(relation, x)]
           Solves(f) == f = [n \in 0..k |-> IF n = 0 THEN from ELSE Further(relation, f[n - 1])]
           chosen == CHOOSE f : Solves(f)
<1>1. from \in D /\ \A x \in D : Further(relation, x) \in D
  BY DEF Further
<1>2. g \in [D -> D]
  BY <1>1
<1>3. \E f : Solves(f)
  <2>1. \A x \in D : g[x] = Further(relation, x)
    OBVIOUS
  <2> HIDE DEF D, g
  <2>5. from \in D
    BY <1>1
  <2>7. PICK f : Repeats(f, D, from, k, g)
    BY <1>2, <2>5, StepsExist
  <2>2. f \in [0..k -> D] /\ f[0] = from /\ \A i \in 1..k : f[i] = g[f[i - 1]]
    BY <2>7 DEF Repeats
  <2>3. ASSUME NEW n \in 0..k
        PROVE  f[n] = IF n = 0 THEN from ELSE Further(relation, f[n - 1])
    <3>1. CASE n # 0
      <4>1. n \in 1..k /\ n - 1 \in 0..k
        BY <3>1
      <4>2. f[n - 1] \in D
        BY <2>2, <4>1
      <4>3. QED
        BY <2>1, <2>2, <3>1, <4>1, <4>2
    <3>2. QED
      BY <2>2, <3>1
  <2>4. f = [n \in 0..k |-> IF n = 0 THEN from ELSE Further(relation, f[n - 1])]
    BY <2>2, <2>3
  <2>6. QED
    BY <2>4
<1>4. Solves(chosen)
  BY <1>3
<1>5. Reached(relation, from, k) = chosen[k]
  BY DEF Reached
<1> HIDE DEF chosen
<1>6. chosen[0] = from /\ \A n \in 1..k : chosen[n] = Further(relation, chosen[n - 1])
  BY <1>4
<1>7. QED
  BY <1>5, <1>6

\* What a closed set holds the beginning of, it holds all of that is reached.
LEMMA ReachedWithin ==
  ASSUME NEW relation, NEW from, NEW k \in Nat, NEW S, from \subseteq S,
         \A e \in relation : e[1] \in S => e[2] \in S
  PROVE  Reached(relation, from, k) \subseteq S
<1>1. PICK f : /\ f[0] = from /\ f[k] = Reached(relation, from, k)
               /\ \A n \in 1..k : f[n] = Further(relation, f[n - 1])
  BY ReachedIs
<1> DEFINE P == SUBSET S
<1>2. f[0] \in P
  BY <1>1
<1>3. \A i \in 1..k : f[i - 1] \in P => f[i] \in P
  BY <1>1 DEF Further
<1> HIDE DEF P
<1>4. f[k] \in P
  BY <1>2, <1>3, StepsKeep
<1>5. QED
  BY <1>1, <1>4 DEF P

\* What is reached stays reached.
LEMMA ReachedBy ==
  ASSUME NEW relation, NEW from, NEW k \in Nat, NEW f, \A n \in 1..k : f[n] = Further(relation, f[n - 1]),
         NEW i \in 0..k
  PROVE  \A n \in i..k : f[i] \subseteq f[n]
<1> DEFINE T == {n \in Nat : i <= n /\ n <= k => f[i] \subseteq f[n]}
<1>1. 0 \in T
  OBVIOUS
<1>2. ASSUME NEW n \in Nat, n \in T
      PROVE  n + 1 \in T
  <2>1. SUFFICES ASSUME i <= n + 1, n + 1 <= k
                 PROVE  f[i] \subseteq f[n + 1]
    OBVIOUS
  <2>2. CASE i = n + 1
    BY <2>2
  <2>3. CASE i # n + 1
    <3>1. i <= n /\ n <= k /\ n + 1 \in 1..k /\ (n + 1) - 1 = n
      BY <2>1, <2>3
    <3>2. f[i] \subseteq f[n] /\ f[n + 1] = Further(relation, f[n])
      BY <1>2, <3>1
    <3>3. QED
      BY <3>2 DEF Further
  <2>4. QED
    BY <2>2, <2>3
<1> HIDE DEF T
<1>3. Nat \subseteq T
  BY <1>1, <1>2, SetInduction
<1>4. QED
  BY <1>3 DEF T

-----------------------------------------------------------------------------
(***************************************************************************)
(* The build lane.                                                         *)
(***************************************************************************)

\* A part of a list, and what it leaves behind it.
LEMMA RestOfList ==
  ASSUME NEW N, NEW s \in Seq(N), NEW n \in 1..Len(s)
  PROVE  /\ SubSeq(s, n + 1, Len(s)) \in Seq(N)
         /\ \A i \in 1..Len(s) : i > n => s[i] \in Range(SubSeq(s, n + 1, Len(s)))
<1> DEFINE rest == SubSeq(s, n + 1, Len(s))
<1>1. Len(s) \in Nat /\ \A i \in 1..Len(s) : s[i] \in N
  BY ElementOfSeq
<1>2. rest \in Seq(N) /\ Len(rest) = Len(s) - n /\ DOMAIN rest = 1..(Len(s) - n)
      /\ \A i \in 1..(Len(s) - n) : rest[i] = s[n + i]
  <2>1. n + 1 \in Int /\ Len(s) \in Int /\ \A i \in (n + 1)..Len(s) : s[i] \in N
    BY <1>1
  <2>2. /\ rest \in Seq(N)
        /\ Len(rest) = IF n + 1 <= Len(s) THEN Len(s) - (n + 1) + 1 ELSE 0
        /\ \A i \in 1..(Len(s) - (n + 1) + 1) : rest[i] = s[(n + 1) + i - 1]
    BY <2>1, SubSeqProperties
  <2>3. Len(rest) = Len(s) - n
    BY <1>1, <2>2
  <2>4. QED
    BY <1>1, <2>2, <2>3, LenProperties
<1> HIDE DEF rest
<1>3. ASSUME NEW i \in 1..Len(s), i > n
      PROVE  s[i] \in Range(rest)
  <2>1. i - n \in 1..(Len(s) - n) /\ n + (i - n) = i
    BY <1>1, <1>3
  <2>2. rest[i - n] = s[i] /\ i - n \in DOMAIN rest
    BY <1>2, <2>1
  <2>3. QED
    BY <2>2 DEF Range
<1>4. QED
  BY <1>2, <1>3 DEF rest

\* Lists one after the other hold what each of them holds.
LEMMA BothLists ==
  ASSUME NEW N, NEW s \in Seq(N), NEW t \in Seq(N)
  PROVE  s \o t \in Seq(N) /\ Range(s) \union Range(t) \subseteq Range(s \o t)
<1>1. /\ s \o t \in Seq(N) /\ Len(s) \in Nat /\ Len(t) \in Nat
      /\ DOMAIN s = 1..Len(s) /\ DOMAIN t = 1..Len(t) /\ DOMAIN (s \o t) = 1..(Len(s) + Len(t))
      /\ \A i \in 1..(Len(s) + Len(t)) : (s \o t)[i] = IF i <= Len(s) THEN s[i] ELSE t[i - Len(s)]
  BY ConcatProperties, LenProperties
<1>2. ASSUME NEW i \in 1..Len(s)
      PROVE  s[i] \in Range(s \o t)
  BY <1>1 DEF Range
<1>3. ASSUME NEW i \in 1..Len(t)
      PROVE  t[i] \in Range(s \o t)
  <2>1. Len(s) + i \in 1..(Len(s) + Len(t)) /\ ~(Len(s) + i <= Len(s)) /\ (Len(s) + i) - Len(s) = i
    BY <1>1
  <2>2. (s \o t)[Len(s) + i] = t[i] /\ Len(s) + i \in DOMAIN (s \o t)
    BY <1>1, <2>1
  <2>3. QED
    BY <2>2 DEF Range
<1>4. QED
  BY <1>1, <1>2, <1>3 DEF Range

\* The files a build lane is made of, and where it stands: what it holds leads to
\* what it holds or is pending.
Standing(N) == [lane : SUBSET N, pending : Seq(N)]

Fresh(at) == {i \in DOMAIN at.pending : at.pending[i] \notin at.lane}

LeadsOn(t, at) == \A p \in at.lane : Range(LeadsTo(t, p)) \subseteq at.lane \union Range(at.pending)

Followed(t, at, n) ==
  /\ LeadsOn(t, at) /\ "CMakeLists.txt" \in at.lane \union Range(at.pending)
  /\ Fresh(at) = {} \/ Cardinality(at.lane) = n

\* A position of a list that meets a test has a first before it.
LEMMA FirstExists ==
  ASSUME NEW n \in Nat, NEW S \in SUBSET (1..n), S # {}
  PROVE  Min(S) \in S /\ \A i \in S : Min(S) <= i
<1> DEFINE B == {n - i : i \in S}
<1>1. B \in SUBSET (0..n) /\ B # {}
  <2>1. \A i \in S : n - i \in 0..n
    OBVIOUS
  <2>2. PICK i \in S : TRUE
    OBVIOUS
  <2>3. n - i \in B
    OBVIOUS
  <2>4. QED
    BY <2>1, <2>3
<1>2. Max(B) \in B /\ \A k \in B : k <= Max(B)
  BY <1>1, MaxExists
<1>3. PICK m \in S : Max(B) = n - m
  BY <1>2
<1>4. \A i \in S : m <= i
  <2>1. SUFFICES ASSUME NEW i \in S
                 PROVE  m <= i
    OBVIOUS
  <2>2. n - i <= n - m
    BY <1>2, <1>3
  <2>3. QED
    BY <2>2
<1>5. QED
  BY <1>3, <1>4 DEF Min

\* One more file keeps the lane standing.
LEMMA FollowKeeps ==
  ASSUME NEW t, NEW N, IsFiniteSet(N), \A p \in N : LeadsTo(t, p) \in Seq(N),
         NEW at \in Standing(N)
  PROVE  /\ FollowBuildLane(t, at) \in Standing(N)
         /\ \A n \in Nat : Followed(t, at, n) => Followed(t, FollowBuildLane(t, at), n + 1)
<1>1. at.lane \in SUBSET N /\ at.pending \in Seq(N) /\ Len(at.pending) \in Nat
      /\ DOMAIN at.pending = 1..Len(at.pending) /\ \A i \in 1..Len(at.pending) : at.pending[i] \in N
  BY LenProperties, ElementOfSeq DEF Standing
<1>2. CASE Fresh(at) = {}
  <2>1. FollowBuildLane(t, at) = at
    BY <1>2 DEF FollowBuildLane, Fresh
  <2>2. QED
    BY <1>2, <2>1 DEF Followed
<1>3. CASE Fresh(at) # {}
  <2> DEFINE next == Min(Fresh(at))
             p == at.pending[next]
             rest == SubSeq(at.pending, next + 1, Len(at.pending))
             to == FollowBuildLane(t, at)
  <2>1. next \in 1..Len(at.pending) /\ p \in N /\ p \notin at.lane /\ \A i \in Fresh(at) : next <= i
    <3>1. Fresh(at) \in SUBSET (1..Len(at.pending))
      BY <1>1 DEF Fresh
    <3>2. next \in Fresh(at) /\ \A i \in Fresh(at) : next <= i
      BY <1>1, <1>3, <3>1, FirstExists
    <3>3. QED
      BY <1>1, <3>1, <3>2 DEF Fresh
  <2>2. to = [lane |-> at.lane \union {p}, pending |-> LeadsTo(t, p) \o rest]
    BY <1>3 DEF FollowBuildLane, Fresh
  <2> HIDE DEF to, next, p
  <2>3. rest \in Seq(N) /\ \A i \in 1..Len(at.pending) : i > next => at.pending[i] \in Range(rest)
    BY <1>1, <2>1, RestOfList
  <2> HIDE DEF rest
  <2>4. LeadsTo(t, p) \in Seq(N)
    BY <2>1
  <2>5. LeadsTo(t, p) \o rest \in Seq(N)
        /\ Range(LeadsTo(t, p)) \union Range(rest) \subseteq Range(LeadsTo(t, p) \o rest)
    BY <2>3, <2>4, BothLists
  <2>6. to \in Standing(N)
    BY <1>1, <2>1, <2>2, <2>5 DEF Standing
  <2>7. at.lane \union Range(at.pending) \subseteq to.lane \union Range(to.pending)
    <3>1. ASSUME NEW i \in 1..Len(at.pending)
          PROVE  at.pending[i] \in to.lane \union Range(to.pending)
      <4>1. CASE i < next
        <5>1. i \notin Fresh(at)
          BY <1>1, <2>1, <4>1
        <5>2. QED
          BY <1>1, <2>2, <5>1 DEF Fresh
      <4>2. CASE i = next
        BY <2>2, <4>2 DEF p
      <4>3. CASE i > next
        BY <2>2, <2>3, <2>5, <4>3
      <4>4. QED
        BY <1>1, <2>1, <4>1, <4>2, <4>3
    <3>2. QED
      BY <1>1, <2>2, <3>1 DEF Range
  <2>8. ASSUME NEW n \in Nat, Followed(t, at, n)
        PROVE  Followed(t, to, n + 1)
    <3>1. LeadsOn(t, to)
      <4>1. SUFFICES ASSUME NEW q \in to.lane
                     PROVE  Range(LeadsTo(t, q)) \subseteq to.lane \union Range(to.pending)
        BY DEF LeadsOn
      <4>2. CASE q = p
        BY <2>2, <2>5, <4>2
      <4>3. CASE q \in at.lane
        BY <2>7, <2>8, <4>3 DEF Followed, LeadsOn
      <4>4. QED
        BY <2>2, <4>1, <4>2, <4>3
    <3>2. Cardinality(to.lane) = n + 1
      <4>1. IsFiniteSet(at.lane)
        BY <1>1, FS_Subset
      <4>2. Cardinality(at.lane \union {p}) = Cardinality(at.lane) + 1
        BY <2>1, <4>1, FS_AddElement
      <4>3. Cardinality(at.lane) = n
        BY <1>3, <2>8 DEF Followed
      <4>4. QED
        BY <2>2, <4>2, <4>3
    <3>3. QED
      BY <2>7, <2>8, <3>1, <3>2 DEF Followed
  <2>9. QED
    BY <2>6, <2>8 DEF to
<1>4. QED
  BY <1>2, <1>3

\* What a step computed over and over gives is what its repetition gives.
LEMMA RepeatsSolve ==
  ASSUME NEW D, NEW b \in D, NEW n \in Nat, NEW g \in [D -> D], NEW f, Repeats(f, D, b, n, g)
  PROVE  f = [i \in 0..n |-> IF i = 0 THEN b ELSE g[f[i - 1]]]
<1>1. f \in [0..n -> D] /\ f[0] = b
  BY DEF Repeats
<1>2. ASSUME NEW i \in 0..n
      PROVE  f[i] = IF i = 0 THEN b ELSE g[f[i - 1]]
  <2>1. CASE i # 0
    <3>1. i \in 1..n
      BY <2>1
    <3>2. QED
      BY <2>1, <3>1 DEF Repeats
  <2>2. QED
    BY <1>1, <2>1
<1>3. QED
  BY <1>1, <1>2

\* The lane the tool follows stands, and is full or leads nowhere else.
LEMMA BuildLaneStands ==
  ASSUME NEW t, NEW N, IsFiniteSet(N), \A p \in N : LeadsTo(t, p) \in Seq(N),
         "CMakeLists.txt" \in N, MaxFiles \in Nat
  PROVE  \E at \in Standing(N) : BuildLane(t) = at.lane /\ Followed(t, at, MaxFiles)
<1> DEFINE D == Standing(N)
           b == [lane |-> {}, pending |-> <<"CMakeLists.txt">>]
           g == [at \in D |-> FollowBuildLane(t, at)]
           Solves(f) == f = [n \in 0..MaxFiles |-> IF n = 0 THEN b ELSE FollowBuildLane(t, f[n - 1])]
           chosen == CHOOSE f : Solves(f)
<1>1. \A at \in D : FollowBuildLane(t, at) \in D
                    /\ \A n \in Nat : Followed(t, at, n) => Followed(t, FollowBuildLane(t, at), n + 1)
  BY FollowKeeps
<1>2. g \in [D -> D] /\ \A at \in D : g[at] = FollowBuildLane(t, at)
  BY <1>1
<1>3. b \in D
  BY DEF Standing
<1>4. Followed(t, b, 0)
  <2>1. Range(b.pending) = {"CMakeLists.txt"} /\ b.lane = {}
    <3>1. b.pending[1] = "CMakeLists.txt" /\ DOMAIN b.pending = {1}
      OBVIOUS
    <3>2. QED
      BY <3>1 DEF Range
  <2>2. Cardinality(b.lane) = 0
    BY FS_EmptySet
  <2> HIDE DEF b
  <2>3. QED
    BY <2>1, <2>2 DEF Followed, LeadsOn
<1>5. BuildLane(t) = chosen[MaxFiles].lane
  BY DEF BuildLane
<1> HIDE DEF D, b, g
<1>6. \E f : Solves(f)
  <2>1. PICK f : Repeats(f, D, b, MaxFiles, g)
    BY <1>2, <1>3, StepsExist
  <2>2. f = [n \in 0..MaxFiles |-> IF n = 0 THEN b ELSE g[f[n - 1]]]
    BY <1>2, <1>3, <2>1, RepeatsSolve
  <2>3. \A n \in 0..MaxFiles : n # 0 => g[f[n - 1]] = FollowBuildLane(t, f[n - 1])
    <3>1. \A n \in 0..MaxFiles : n # 0 => f[n - 1] \in D
      BY <2>1 DEF Repeats
    <3>2. QED
      BY <1>2, <3>1
  <2>4. Solves(f)
    BY <2>2, <2>3
  <2>5. QED
    BY <2>4
<1>7. Solves(chosen)
  BY <1>6
<1> HIDE DEF chosen
<1> DEFINE T == {n \in Nat : n <= MaxFiles => chosen[n] \in D /\ Followed(t, chosen[n], n)}
<1>8. 0 \in T
  BY <1>3, <1>4, <1>7
<1>9. ASSUME NEW n \in Nat, n \in T
      PROVE  n + 1 \in T
  <2>1. SUFFICES ASSUME n + 1 <= MaxFiles
                 PROVE  chosen[n + 1] \in D /\ Followed(t, chosen[n + 1], n + 1)
    OBVIOUS
  <2>2. chosen[n] \in D /\ Followed(t, chosen[n], n)
    BY <1>9, <2>1
  <2>3. n + 1 \in 0..MaxFiles /\ n + 1 # 0 /\ (n + 1) - 1 = n
    BY <2>1
  <2>4. chosen[n + 1] = FollowBuildLane(t, chosen[n])
    BY <1>7, <2>3
  <2>5. QED
    BY <1>1, <2>2, <2>4
<1> HIDE DEF T
<1>10. Nat \subseteq T
  BY <1>8, <1>9, SetInduction
<1>11. chosen[MaxFiles] \in D /\ Followed(t, chosen[MaxFiles], MaxFiles)
  BY <1>10 DEF T
<1>12. QED
  BY <1>5, <1>11 DEF D

\* The image of a finite set is finite.
LEMMA ImageFinite ==
  ASSUME NEW S, IsFiniteSet(S), NEW f
  PROVE  IsFiniteSet({f[x] : x \in S})
<1> DEFINE T == {f[x] : x \in S}
           g == [x \in S |-> f[x]]
<1>1. g \in Surjection(S, T)
  BY DEF Surjection
<1>2. QED
  BY <1>1, FS_Surjection

\* The elements of a list are finitely many.
LEMMA ListFinite ==
  ASSUME NEW s, IsList(s)
  PROVE  IsFiniteSet(Range(s)) /\ s \in Seq(Range(s)) /\ DOMAIN s = 1..Len(s) /\ Len(s) \in Nat
<1>1. s \in Seq(Range(s))
  BY DEF IsList
<1>2. Len(s) \in Nat /\ DOMAIN s = 1..Len(s)
  BY <1>1, LenProperties
<1>3. IsFiniteSet(DOMAIN s)
  BY <1>2, FS_Interval
<1>4. QED
  BY <1>1, <1>2, <1>3, ImageFinite DEF Range

\* Of a checkout whose build files fit, the tool reads all that the root leads to.
LEMMA LaneIsFollowed ==
  ASSUME IsScanned(tree), LaneFits, MaxFiles \in Nat
  PROVE  Lane \subseteq ReadableLane(tree)
<1> DEFINE lists == [p \in Scripts |-> Range(tree.files[p].subdirectories)]
           N == {"CMakeLists.txt"} \union UNION {Range(tree.files[p].subdirectories) : p \in Scripts}
<1>1. \A p \in Scripts : /\ IsList(tree.files[p].subdirectories)
                         /\ IsFiniteSet(Range(tree.files[p].subdirectories))
                         /\ tree.files[p].subdirectories \in Seq(Range(tree.files[p].subdirectories))
  BY ListFinite DEF IsScanned, Scripts
<1>2. IsFiniteSet(N)
  <2>1. IsFiniteSet(Scripts)
    <3>1. Scripts \in SUBSET (DOMAIN tree.files)
      BY DEF Scripts
    <3>2. QED
      BY <3>1, FS_Subset DEF IsScanned
  <2>2. IsFiniteSet({lists[p] : p \in Scripts})
    BY <2>1, ImageFinite
  <2>3. \A s \in {lists[p] : p \in Scripts} : IsFiniteSet(s)
    BY <1>1
  <2>4. IsFiniteSet(UNION {lists[p] : p \in Scripts})
    BY <2>2, <2>3, FS_UNION
  <2>5. UNION {lists[p] : p \in Scripts} = UNION {Range(tree.files[p].subdirectories) : p \in Scripts}
    OBVIOUS
  <2>6. IsFiniteSet({"CMakeLists.txt"})
    BY FS_Singleton
  <2> HIDE DEF lists
  <2>7. QED
    BY <2>4, <2>5, <2>6, FS_Union
<1>3. \A p \in N : LeadsTo(tree, p) \in Seq(N)
  <2>1. SUFFICES ASSUME NEW p \in N
                 PROVE  LeadsTo(tree, p) \in Seq(N)
    OBVIOUS
  <2>2. CASE Readable(tree, p)
    <3>1. p \in Scripts
      BY <2>2 DEF Scripts, Readable
    <3>2. Range(tree.files[p].subdirectories) \subseteq N
      BY <3>1
    <3> HIDE DEF N
    <3>3. tree.files[p].subdirectories \in Seq(N)
      BY <1>1, <3>1, <3>2, SeqMonotonic
    <3>4. QED
      BY <2>2, <3>3 DEF LeadsTo
  <2>3. CASE ~Readable(tree, p)
    BY <2>3 DEF LeadsTo
  <2>4. QED
    BY <2>2, <2>3
<1>4. "CMakeLists.txt" \in N /\ Cardinality(N) <= MaxFiles
  BY DEF LaneFits
<1> HIDE DEF N
<1>5. PICK at \in Standing(N) : BuildLane(tree) = at.lane /\ Followed(tree, at, MaxFiles)
  BY <1>2, <1>3, <1>4, BuildLaneStands
<1>6. Fresh(at) = {}
  <2>1. SUFFICES ASSUME NEW i \in Fresh(at), Cardinality(at.lane) = MaxFiles
                 PROVE  FALSE
    BY <1>5 DEF Followed
  <2>2. at.lane \in SUBSET N /\ at.pending[i] \in N /\ at.pending[i] \notin at.lane
    <3>1. at.lane \in SUBSET N /\ at.pending \in Seq(N) /\ i \in DOMAIN at.pending
      BY <2>1 DEF Standing, Fresh
    <3>2. at.pending[i] \in N
      BY <3>1, LenProperties, ElementOfSeq
    <3>3. QED
      BY <2>1, <3>1, <3>2 DEF Fresh
  <2>3. Cardinality(at.lane) <= Cardinality(N) /\ (Cardinality(N) = Cardinality(at.lane) => N = at.lane)
        /\ Cardinality(N) \in Nat
    BY <1>2, <2>2, FS_Subset, FS_CardinalityType
  <2>4. QED
    BY <1>4, <2>1, <2>2, <2>3
<1>7. Range(at.pending) \subseteq at.lane
  BY <1>6 DEF Fresh, Range
<1> DEFINE edges == UNION {{<<p, q>> : q \in Range(tree.files[p].subdirectories)} : p \in Scripts}
<1>8. \A e \in edges : e[1] \in at.lane => e[2] \in at.lane
  <2>1. SUFFICES ASSUME NEW p \in Scripts, NEW q \in Range(tree.files[p].subdirectories), p \in at.lane
                 PROVE  q \in at.lane
    OBVIOUS
  <2>2. q \in Range(LeadsTo(tree, p))
    BY DEF LeadsTo, Scripts
  <2>3. QED
    BY <1>5, <1>7, <2>1, <2>2 DEF Followed, LeadsOn
<1>9. {"CMakeLists.txt"} \subseteq at.lane
  BY <1>5, <1>7 DEF Followed
<1>10. Lane = Scripts \intersect Reached(edges, {"CMakeLists.txt"}, Cardinality(Scripts))
  BY DEF Lane
<1>11. Cardinality(Scripts) \in Nat
  <2>1. Scripts \in SUBSET (DOMAIN tree.files)
    BY DEF Scripts
  <2>2. QED
    BY <2>1, FS_Subset, FS_CardinalityType DEF IsScanned
<1> HIDE DEF edges
<1>12. Reached(edges, {"CMakeLists.txt"}, Cardinality(Scripts)) \subseteq at.lane
  BY <1>8, <1>9, <1>11, ReachedWithin
<1>13. QED
  BY <1>5, <1>10, <1>12 DEF ReadableLane, Scripts

\* A rule that reports nothing found nothing.
LEMMA Silent ==
  ASSUME NEW rule, NEW subjects
  PROVE  Report(rule, subjects) = {} <=> subjects = {}
BY DEF Report

\* The lane neither acquires nor discovers what it builds.
LEMMA HermeticWhenSilent ==
  ASSUME IsScanned(tree), MaxFiles \in Nat, LaneFits,
         CheckMembershipReality(tree) = {}, CheckSourceHygiene(tree) = {}
  PROVE  HermeticBuild
<1> DEFINE Acquires(l) == l.command \in AcquisitionCommands \union Transfers
<1>1. Report("RA2003", {l \in LaneLines(tree) : l.command \in DiscoveryCommands}) = {}
  BY DEF CheckMembershipReality
<1>2. /\ Report("RA5001", {l \in LaneLines(tree) : l.command = "file_GLOB"}) = {}
      /\ Report("RA5003", {l \in LaneLines(tree) : Acquires(l)}) = {}
  BY DEF CheckSourceHygiene
<1>3. \A l \in LaneLines(tree) : /\ l.command \notin DiscoveryCommands /\ l.command # "file_GLOB"
                                 /\ ~Acquires(l)
  <2> DEFINE a == {l \in LaneLines(tree) : l.command \in DiscoveryCommands}
             b == {l \in LaneLines(tree) : l.command = "file_GLOB"}
             c == {l \in LaneLines(tree) : Acquires(l)}
  <2> HIDE DEF a, b, c, Acquires
  <2>1. a = {} /\ b = {} /\ c = {}
    <3>1. Report("RA2003", a) = {} /\ Report("RA5001", b) = {} /\ Report("RA5003", c) = {}
      BY <1>1, <1>2 DEF a, b, c
    <3>2. QED
      BY <3>1, Silent
  <2>2. QED
    BY <2>1 DEF a, b, c
<1>4. SUFFICES ASSUME NEW p \in Lane, NEW l \in Range(tree.files[p].lines)
               PROVE  l.command \notin AcquisitionCommands \union DiscoveryCommands \union Transfers
                                       \union {"file_GLOB"}
  BY DEF HermeticBuild
<1>5. p \in ReadableLane(tree)
  BY LaneIsFollowed
<1>6. PICK i \in DOMAIN tree.files[p].lines : l = tree.files[p].lines[i]
  BY DEF Range
<1>7. [path |-> p, line |-> i, command |-> tree.files[p].lines[i].command,
       names |-> tree.files[p].lines[i].names] \in LaneLines(tree)
  BY <1>5 DEF LaneLines
<1>8. QED
  BY <1>3, <1>6, <1>7

\* A list repeats nothing that no position repeats.
LEMMA OnceEach ==
  ASSUME NEW s, \A i \in DOMAIN s : ~Twice(s, i)
  PROVE  IsInjective(s)
<1>1. \A i, j \in DOMAIN s : s[i] = s[j] => i = j
  BY DEF Twice
<1>2. QED
  BY <1>1 DEF IsInjective

\* Index and tree agree when the rules on membership are silent.
LEMMA MembershipWhenSilent ==
  ASSUME CheckManifestAndIndex(tree, corpus) = {}, CheckMembershipReality(tree) = {}
  PROVE  ExactMembership
<1> DEFINE unlisted == {p \in Unlisted(tree, "tool.json", "tools") : Of[p].top = "tools"}
<1>1. Report("RA2002", Unlisted(tree, "module.json", "modules")) = {} /\ Report("RA2006", unlisted) = {}
  BY DEF CheckMembershipReality
<1>2. \A p \in Walked(tree) :
        /\ Called(p, "module.json") => p \in Range(tree.index["modules"])
        /\ Called(p, "tool.json") /\ Of[p].top = "tools" => p \in Range(tree.index["tools"])
  <2> HIDE DEF unlisted
  <2>1. Unlisted(tree, "module.json", "modules") = {} /\ unlisted = {}
    BY <1>1, Silent
  <2>2. QED
    BY <2>1 DEF Unlisted, unlisted
<1>3. MembershipFindings(tree) = {} /\ ToolFindings(tree) = {}
  BY DEF CheckManifestAndIndex
<1> DEFINE Bad(n) == {<<n, i>> : i \in {j \in DOMAIN tree.index[n] :
                                \/ ~LooksLikeManifestPath(tree.index[n][j])
                                \/ Twice(tree.index[n], j)
                                \/ ~HasFile(tree, tree.index[n][j])}}
<1>4. \A n \in MembershipNames \ {"tools"} : Report("RA1003", Bad(n)) = {}
  BY <1>3 DEF MembershipFindings
<1>5. \A n \in {"modules", "targets"} : \A i \in DOMAIN tree.index[n] :
        ~Twice(tree.index[n], i) /\ HasFile(tree, tree.index[n][i])
  <2>1. SUFFICES ASSUME NEW n \in {"modules", "targets"}
                 PROVE  \A i \in DOMAIN tree.index[n] :
                          ~Twice(tree.index[n], i) /\ HasFile(tree, tree.index[n][i])
    OBVIOUS
  <2>2. n \in MembershipNames \ {"tools"}
    BY DEF MembershipNames
  <2>3. Report("RA1003", Bad(n)) = {}
    BY <1>4, <2>2
  <2> DEFINE bad == Bad(n)
  <2>4. Report("RA1003", bad) = {}
    BY <2>3
  <2> HIDE DEF bad
  <2>5. bad = {}
    BY <2>4, Silent
  <2>6. QED
    BY <2>5 DEF bad
<1> DEFINE tools == tree.index["tools"]
           NotItsManifest(p) == ~Called(p, "tool.json")
           Wrong == {<<"repository.json", i>> : i \in {j \in DOMAIN tools :
                          \/ Twice(tools, j) \/ ~LooksLikeManifestPath(tools[j])
                          \/ NotItsManifest(tools[j]) \/ ~HasFile(tree, tools[j])}}
<1>6. Wrong = {}
  BY <1>3, Silent DEF ToolFindings
<1>7. \A i \in DOMAIN tree.index["tools"] :
        ~Twice(tree.index["tools"], i) /\ HasFile(tree, tree.index["tools"][i])
  BY <1>6
<1>8. \A n \in {"modules", "targets", "tools"} :
        IsInjective(tree.index[n]) /\ Range(tree.index[n]) \subseteq Walked(tree)
  BY <1>5, <1>7, OnceEach DEF HasFile, Range
<1>9. QED
  BY <1>2, <1>8 DEF ExactMembership

\* The last entry of the history, and no other, has the seal of the rules.
LEMMA RulesWhenSilent ==
  ASSUME CheckManifestAndIndex(tree, corpus) = {}, IsScanned(tree), ~CorpusRefused(corpus)
  PROVE  RulesAccountedFor
<1> DEFINE last == corpus.history[Len(corpus.history)]
           wrong == {w \in {"seal", "version", "last seal"} :
                       CASE w = "seal"      -> SealRules(corpus.rules) # corpus.seal
                         [] w = "version"   -> last.version # corpus.policyVersion
                         [] w = "last seal" -> last.seal # corpus.seal}
           again == {j \in 1..(Len(corpus.history) - 1) : corpus.history[j].seal = corpus.seal}
<1>1. IsList(corpus.history) /\ corpus.history # <<>>
  BY DEF CorpusRefused, IsScanned, corpus
<1>2. SealFindings(tree, corpus) = {}
  BY DEF CheckManifestAndIndex
<1>3. Report("RA1006", {<<w, 0>> : w \in wrong} \union {<<"seal again", i>> : i \in again}) = {}
  BY <1>2 DEF SealFindings
<1> HIDE DEF wrong, again
<1>4. wrong = {} /\ again = {}
  <2> DEFINE both == {<<w, 0>> : w \in wrong} \union {<<"seal again", i>> : i \in again}
  <2>1. Report("RA1006", both) = {}
    BY <1>3
  <2> HIDE DEF both
  <2>2. both = {}
    BY <2>1, Silent
  <2>3. QED
    BY <2>2 DEF both
<1>5. SealRules(corpus.rules) = corpus.seal /\ last.seal = corpus.seal
  BY <1>4 DEF wrong
<1>6. Len(corpus.history) \in Nat \ {0} /\ DOMAIN corpus.history = 1..Len(corpus.history)
  BY <1>1, ListFinite, EmptySeq
<1>7. \A i \in DOMAIN corpus.history :
        corpus.history[i].seal = SealRules(corpus.rules) <=> i = Len(corpus.history)
  BY <1>4, <1>5, <1>6 DEF again
<1>8. QED
  BY <1>6, <1>7 DEF RulesAccountedFor

\* The scan for option guards, after so many lines: what guards was opened.
ScanState == [line : Nat, links : SUBSET Nat, depth : Nat, guard : Nat]

\* A guard that was opened is not above where the scan stands, and stays.
LEMMA ScanKeeps ==
  ASSUME NEW O, NEW l, NEW at \in ScanState, at.guard <= at.depth
  PROVE  /\ ScanLine(O, at, l) \in ScanState
         /\ ScanLine(O, at, l).line = at.line + 1
         /\ ScanLine(O, at, l).guard <= ScanLine(O, at, l).depth
         /\ at.links \subseteq ScanLine(O, at, l).links
         /\ at.guard # 0 => ScanLine(O, at, l).guard # 0
         /\ at.guard # 0 /\ l.command = "target_link_libraries" => at.line \in ScanLine(O, at, l).links
         /\ l.command \in {"if", "elseif"} /\ l.names \intersect O # {} => ScanLine(O, at, l).guard # 0
<1> DEFINE opens == l.command \in {"if", "elseif", "endif"}
           depth == IF opens THEN at.depth + 1 ELSE at.depth
           guard == IF opens /\ at.guard = 0 /\ l.names \intersect O # {} THEN depth ELSE at.guard
           links == IF guard # 0 /\ l.command = "target_link_libraries"
                      THEN at.links \union {at.line} ELSE at.links
           ended == l.command = "endif"
           to == ScanLine(O, at, l)
<1>1. at.line \in Nat /\ at.links \in SUBSET Nat /\ at.depth \in Nat /\ at.guard \in Nat
  BY DEF ScanState
<1>2. /\ ended => to = [line |-> at.line + 1, links |-> links, depth |-> depth - 1,
                        guard |-> IF depth = guard THEN 0 ELSE guard]
      /\ ~ended => to = [line |-> at.line + 1, links |-> links, depth |-> depth, guard |-> guard]
  BY DEF ScanLine
<1>3. links \in SUBSET Nat /\ at.links \subseteq links
      /\ (at.guard # 0 /\ l.command = "target_link_libraries" => at.line \in links)
  BY <1>1
<1>4. CASE ended
  <2>1. l.command = "endif" /\ opens /\ depth = at.depth + 1
    BY <1>4
  <2>2. IF depth = guard THEN at.guard = 0 ELSE guard = at.guard
    BY <1>1, <2>1
  <2>3. to = [line |-> at.line + 1, links |-> links, depth |-> at.depth,
              guard |-> IF depth = guard THEN 0 ELSE guard]
    BY <1>1, <1>2, <1>4, <2>1
  <2> HIDE DEF guard, links, depth
  <2>4. to.line = at.line + 1 /\ to.links = links /\ to.depth = at.depth
        /\ to.guard = IF depth = guard THEN 0 ELSE guard
    BY <2>3
  <2>5. to.guard = at.guard
    BY <2>2, <2>4
  <2>6. to \in ScanState
    BY <1>1, <1>3, <2>2, <2>3 DEF ScanState
  <2> HIDE DEF to
  <2>7. QED
    BY <1>1, <1>3, <2>1, <2>4, <2>5, <2>6 DEF to
<1>5. CASE ~ended
  <2>1. to = [line |-> at.line + 1, links |-> links, depth |-> depth, guard |-> guard]
    BY <1>2, <1>5
  <2>2. depth \in Nat /\ guard \in Nat /\ guard <= depth /\ (at.guard # 0 => guard # 0)
        /\ (l.command \in {"if", "elseif"} /\ l.names \intersect O # {} => guard # 0)
    BY <1>1
  <2> HIDE DEF guard, links, depth
  <2>3. to \in ScanState /\ to.line = at.line + 1 /\ to.links = links /\ to.depth = depth /\ to.guard = guard
    BY <1>1, <1>3, <2>1, <2>2 DEF ScanState
  <2> HIDE DEF to
  <2>4. QED
    BY <1>3, <2>2, <2>3 DEF to
<1>6. QED
  BY <1>4, <1>5

\* No line that links after a branch on an option escapes the scan.
LEMMA ScanFinds ==
  ASSUME NEW O, NEW s, IsList(s), NEW i \in 1..Len(s), NEW j \in 1..Len(s), j < i,
         s[i].command = "target_link_libraries", s[j].command \in {"if", "elseif"},
         s[j].names \intersect O # {}
  PROVE  i \in Guarded(O, s)
<1> DEFINE D == {at \in ScanState : at.guard <= at.depth}
           n == Len(s)
           b == [line |-> 1, links |-> {}, depth |-> 0, guard |-> 0]
           G == [k \in 1..n |-> [at \in D |-> ScanLine(O, at, s[k])]]
           Solves(it) == it = [p \in SUBSET (1..n) |->
                                 IF p = {} THEN b ELSE ScanLine(O, it[p \ {Max(p)}], s[Max(p)])]
           chosen == CHOOSE it : Solves(it)
<1>1. n \in Nat /\ DOMAIN s = 1..n
  BY ListFinite
<1>2. \A k \in 1..n : \A at \in D : ScanLine(O, at, s[k]) \in D
  BY ScanKeeps
<1>3. G \in [1..n -> [D -> D]] /\ \A k \in 1..n : \A at \in D : G[k][at] = ScanLine(O, at, s[k])
  BY <1>2
<1>4. b \in D /\ b.line = 1 /\ \A p \in SUBSET (1..n) : p # {} => Max(p) \in 1..n
  BY <1>1, MaxOfPart DEF ScanState
<1>5. Guarded(O, s) = chosen[1..n].links
  BY <1>1 DEF Guarded, FoldLeft, MapThenFoldSet
<1> HIDE DEF G, b, n
<1>6. \E it : Solves(it)
  <2> HIDE DEF D
  <2>1. PICK it \in [SUBSET (1..n) -> D] : Recursion(it, D, b, n, G)
    BY <1>1, <1>3, <1>4, FoldExists
  <2>2. \A p \in SUBSET (1..n) : p # {} => it[p] = ScanLine(O, it[p \ {Max(p)}], s[Max(p)])
    BY <1>3, <1>4, <2>1 DEF Recursion
  <2>3. Solves(it)
    BY <2>1, <2>2 DEF Recursion
  <2>4. QED
    BY <2>3
<1>7. Solves(chosen)
  BY <1>6
<1> HIDE DEF chosen
<1>8. PICK f : Passes(f, D, b, n, G) /\ f[n] = chosen[1..n]
  <2> HIDE DEF D
  <2>1. Recursion(chosen, D, b, n, G)
    BY <1>3, <1>4, <1>7 DEF Recursion
  <2>2. QED
    BY <1>1, <1>3, <1>4, <2>1, FoldSteps
<1>9. \A k \in 1..n : f[k - 1] \in D /\ f[k] = ScanLine(O, f[k - 1], s[k])
  <2> HIDE DEF D
  <2>1. SUFFICES ASSUME NEW k \in 1..n
                 PROVE  f[k - 1] \in D /\ f[k] = ScanLine(O, f[k - 1], s[k])
    OBVIOUS
  <2>2. k - 1 \in 0..n
    BY <1>1, <2>1
  <2>3. QED
    BY <1>3, <1>8, <2>2 DEF Passes
<1> DEFINE T == {k \in Nat : k <= n => /\ f[k].line = k + 1
                                       /\ j <= k => f[k].guard # 0
                                       /\ i <= k => i \in f[k].links}
<1>10. 0 \in T
  BY <1>1, <1>4, <1>8 DEF Passes, n
<1>11. ASSUME NEW k \in Nat, k \in T
       PROVE  k + 1 \in T
  <2>1. SUFFICES ASSUME k + 1 <= n
                 PROVE  /\ f[k + 1].line = (k + 1) + 1
                        /\ j <= k + 1 => f[k + 1].guard # 0
                        /\ i <= k + 1 => i \in f[k + 1].links
    OBVIOUS
  <2>2. k + 1 \in 1..n /\ (k + 1) - 1 = k /\ k <= n
    BY <1>1, <2>1
  <2>3. f[k] \in D /\ f[k + 1] = ScanLine(O, f[k], s[k + 1])
    BY <1>9, <2>2
  <2>4. f[k].line = k + 1 /\ (j <= k => f[k].guard # 0) /\ (i <= k => i \in f[k].links)
    BY <1>11, <2>2
  <2> DEFINE to == f[k + 1]
             l == s[k + 1]
  <2>5. /\ to.line = f[k].line + 1 /\ f[k].links \subseteq to.links
        /\ f[k].guard # 0 => to.guard # 0
        /\ f[k].guard # 0 /\ l.command = "target_link_libraries" => f[k].line \in to.links
        /\ l.command \in {"if", "elseif"} /\ l.names \intersect O # {} => to.guard # 0
    BY <2>3, ScanKeeps
  <2> HIDE DEF to
  <2>6. to.line = (k + 1) + 1
    BY <2>4, <2>5
  <2>7. ASSUME j <= k + 1
        PROVE  to.guard # 0
    <3>1. CASE j = k + 1
      BY <2>5, <3>1
    <3>2. CASE j <= k
      BY <2>4, <2>5, <3>2
    <3>3. QED
      BY <2>7, <3>1, <3>2
  <2>8. ASSUME i <= k + 1
        PROVE  i \in to.links
    <3>1. CASE i = k + 1
      <4>1. j <= k
        BY <3>1
      <4>2. QED
        BY <2>4, <2>5, <3>1, <4>1
    <3>2. CASE i <= k
      BY <2>4, <2>5, <3>2
    <3>3. QED
      BY <2>8, <3>1, <3>2
  <2>9. QED
    BY <2>6, <2>7, <2>8 DEF to
<1> HIDE DEF T
<1>12. Nat \subseteq T
  BY <1>10, <1>11, SetInduction
<1>13. i \in f[n].links
  <2>1. n \in T /\ i <= n
    BY <1>1, <1>12 DEF n
  <2>2. QED
    BY <1>1, <2>1 DEF T
<1>14. QED
  BY <1>5, <1>8, <1>13

\* No edge of the build is linked on an option when the closures are silent.
LEMMA UnconditionalWhenSilent ==
  ASSUME IsScanned(tree), MaxFiles \in Nat, LaneFits, CheckNegativeClosures(tree) = {}
  PROVE  UnconditionalEdges
<1> DEFINE options == UNION {UNION {l.names : l \in {x \in Range(tree.files[p].lines) : x.command = "option"}}
                              : p \in Lane}
<1>1. \A p \in ReadableLane(tree) :
        Report("RA4002", {<<p, i>> : i \in Guarded(Options(tree), tree.files[p].lines)}) = {}
  <2> DEFINE Scan(p) == Report("RA4002", {<<p, i>> : i \in Guarded(Options(tree), tree.files[p].lines)})
  <2>1. UNION {Scan(p) : p \in ReadableLane(tree)} \subseteq CheckNegativeClosures(tree)
    BY Zenon DEF CheckNegativeClosures
  <2> HIDE DEF Scan
  <2>2. \A p \in ReadableLane(tree) : Scan(p) = {}
    BY <2>1
  <2>3. QED
    BY <2>2 DEF Scan
<1>2. Lane \subseteq ReadableLane(tree)
  BY LaneIsFollowed
<1>3. options \subseteq Options(tree)
  BY <1>2 DEF Options
<1> HIDE DEF options
<1>4. SUFFICES ASSUME NEW p \in Lane, NEW i \in DOMAIN tree.files[p].lines,
                      NEW j \in DOMAIN tree.files[p].lines,
                      tree.files[p].lines[i].command = "target_link_libraries",
                      tree.files[p].lines[j].command \in {"if", "elseif"},
                      tree.files[p].lines[j].names \intersect options # {},
                      Inside(tree.files[p].lines, i, j)
               PROVE  FALSE
  BY DEF UnconditionalEdges, options
<1>5. IsList(tree.files[p].lines)
  BY DEF IsScanned, Lane, Scripts
<1>6. i \in 1..Len(tree.files[p].lines) /\ j \in 1..Len(tree.files[p].lines) /\ j < i
  BY <1>4, <1>5, ListFinite DEF Inside
<1>7. tree.files[p].lines[j].names \intersect Options(tree) # {}
  BY <1>3, <1>4
<1>8. i \in Guarded(Options(tree), tree.files[p].lines)
  BY <1>4, <1>5, <1>6, <1>7, ScanFinds
<1>9. QED
  BY <1>1, <1>2, <1>8 DEF Report

-----------------------------------------------------------------------------
(***************************************************************************)
(* Includes and the modules they are of.                                   *)
(***************************************************************************)

\* A list begins with another when it has it place by place.
LEMMA PrefixIs ==
  ASSUME NEW s, NEW t, IsList(s), IsList(t)
  PROVE  IsPrefix(s, t) <=> Len(s) <= Len(t) /\ \A i \in 1..Len(s) : s[i] = t[i]
<1> DEFINE S == Range(s) \union Range(t)
<1>1. s \in Seq(S) /\ t \in Seq(S) /\ Len(s) \in Nat /\ Len(t) \in Nat
  BY SeqMonotonic, LenProperties DEF IsList
<1>2. \A i \in 1..Len(s) : s[i] \in S
  BY <1>1, ElementOfSeq
<1>3. \A i \in 1..Len(t) : t[i] \in S
  BY <1>1, ElementOfSeq
<1> HIDE DEF S
<1>4. SUFFICES ASSUME Len(s) <= Len(t)
               PROVE  SubSeq(s, 1, Len(s)) = SubSeq(t, 1, Len(s)) <=> \A i \in 1..Len(s) : s[i] = t[i]
  BY DEF IsPrefix
<1> DEFINE a == SubSeq(s, 1, Len(s))
           b == SubSeq(t, 1, Len(s))
<1>5. a \in Seq(S) /\ Len(a) = Len(s) /\ \A i \in 1..Len(s) : a[i] = s[i]
  BY <1>1, <1>2, SubSeqProperties
<1>6. b \in Seq(S) /\ Len(b) = Len(s) /\ \A i \in 1..Len(s) : b[i] = t[i]
  <2>1. \A i \in 1..Len(s) : t[i] \in S
    BY <1>1, <1>3, <1>4
  <2>2. QED
    BY <1>1, <2>1, SubSeqProperties
<1> HIDE DEF a, b
<1>7. (\A i \in 1..Len(s) : a[i] = b[i]) => a = b
  BY <1>5, <1>6, SeqEqual
<1>8. a = b <=> \A i \in 1..Len(s) : s[i] = t[i]
  BY <1>5, <1>6, <1>7
<1>9. QED
  BY <1>8 DEF a, b

\* Two beginnings of one list: the shorter begins the longer.
LEMMA PrefixesCompare ==
  ASSUME NEW s, NEW r, NEW t, IsList(s), IsList(r), IsList(t), IsPrefix(s, t), IsPrefix(r, t),
         Len(s) <= Len(r)
  PROVE  IsPrefix(s, r)
<1>1. Len(s) \in Nat /\ Len(r) \in Nat
  BY ListFinite
<1>2. \A i \in 1..Len(s) : s[i] = t[i] /\ i \in 1..Len(r)
  BY <1>1, PrefixIs
<1>3. \A i \in 1..Len(r) : r[i] = t[i]
  BY PrefixIs
<1>4. QED
  BY <1>2, <1>3, PrefixIs

\* The module of an include is the one whose identity begins it and is not gone on
\* with by another that does.
LEMMA OwnerIsFound ==
  ASSUME IsScanned(tree), NEW n \in Modules(tree), NEW target, IsList(target), Owns(n, target)
  PROVE  ModuleOfInclude(target, Modules(tree)) = n.id
<1> DEFINE owners == {m \in Modules(tree) : m.id # None /\ IsStrictPrefix(m.id, target)}
           lengths == {Len(m.id) : m \in owners}
           Longest(m) == \A o \in owners : Len(o.id) <= Len(m.id)
           chosen == CHOOSE m \in owners : Longest(m)
<1>1. n \in owners
  BY DEF Owns
<1>2. \A m \in owners : IsList(m.id) /\ IsPrefix(m.id, target) /\ m \in Modules(tree)
                        /\ IsStrictPrefix(m.id, target) /\ m.id # None
  BY DEF IsScanned, IsStrictPrefix
<1>3. ModuleOfInclude(target, Modules(tree)) = IF owners = {} THEN None ELSE chosen.id
  BY DEF ModuleOfInclude
<1> HIDE DEF owners
<1>4. Len(target) \in Nat /\ \A m \in owners : Len(m.id) \in 0..Len(target)
  <2>1. \A m \in owners : Len(m.id) \in Nat
    BY <1>2, ListFinite
  <2>2. \A m \in owners : Len(m.id) <= Len(target)
    BY <1>2 DEF IsPrefix
  <2>3. Len(target) \in Nat
    BY ListFinite
  <2>4. QED
    BY <2>1, <2>2, <2>3
<1>5. PICK w \in owners : Longest(w)
  <2>1. lengths \in SUBSET (0..Len(target)) /\ lengths # {}
    BY <1>1, <1>4
  <2>2. Max(lengths) \in lengths /\ \A k \in lengths : k <= Max(lengths)
    BY <1>4, <2>1, MaxExists
  <2>3. PICK w \in owners : Max(lengths) = Len(w.id)
    BY <2>2
  <2>4. Longest(w)
    BY <2>2, <2>3
  <2>5. QED
    BY <2>4
<1>6. chosen \in owners /\ Longest(chosen)
  BY <1>5
<1> HIDE DEF chosen
<1>7. IsPrefix(n.id, chosen.id)
  BY <1>1, <1>2, <1>6, PrefixesCompare
<1>8. chosen.id = n.id
  <2>1. SUFFICES ASSUME n.id # chosen.id
                 PROVE  FALSE
    OBVIOUS
  <2>2. IsStrictPrefix(n.id, chosen.id)
    BY <1>7, <2>1 DEF IsStrictPrefix
  <2>3. QED
    BY <1>2, <1>6, <2>2 DEF Owns
<1>9. QED
  BY <1>1, <1>3, <1>8

\* Every include is covered when the rules on edges are silent.
LEMMA IncludesWhenSilent ==
  ASSUME IsScanned(tree), CheckDependencyEdges(tree) = {}
  PROVE  EveryIncludeDeclared
<1> DEFINE IncludesOf(m, p) == UNION {IncludeFindings(tree, m, p, inc) : inc \in tree.files[p].includes}
<1>1. \A m \in Modules(tree) : SourceFindings(tree, m) = {}
  BY DEF CheckDependencyEdges
<1> HIDE DEF IncludesOf
<1>3. \A m \in Modules(tree) : \A p \in {q \in Under(tree, m.root) : FirstPartySource(q) /\ Readable(tree, q)} :
        IncludesOf(m, p) = {}
  BY <1>1 DEF SourceFindings, IncludesOf
<1>4. SUFFICES ASSUME NEW m \in Modules(tree), NEW n \in Modules(tree), NEW p \in Under(tree, m.root),
                      FirstPartySource(p), Readable(tree, p), m.id # n.id,
                      NEW inc \in tree.files[p].includes, Owns(n, inc.target)
               PROVE  \E c \in Admitted(p) : n.id \in m.edges[c]
  BY DEF EveryIncludeDeclared
<1>5. IncludesOf(m, p) = {}
  BY <1>3, <1>4
<1>6. IncludeFindings(tree, m, p, inc) = {}
  BY <1>5 DEF IncludesOf
<1>7. ModuleOfInclude(inc.target, Modules(tree)) = n.id /\ n.id # None
  <2>1. IsList(inc.target)
    BY <1>4 DEF IsScanned, Readable
  <2>2. QED
    BY <1>4, <2>1, OwnerIsFound DEF Owns
<1> DEFINE wrong == {x \in {"header", "shipped"} :
                       /\ n.id \notin m.edges["public"]
                       /\ x = "header" => "include" \in Of[p].zones
                       /\ x = "shipped" => "tests" \notin Of[p].zones /\ n.id \in m.edges["test"]}
           misuses == {<<p, inc, x>> : x \in wrong}
<1>8. Declares(m, n.id) /\ Report("RA3002", misuses) = {}
  BY <1>4, <1>6, <1>7 DEF IncludeFindings
<1> HIDE DEF wrong
<1>9. wrong = {}
  <2>1. misuses = {}
    <3> HIDE DEF misuses
    <3>1. QED
      BY <1>8, Silent
  <2>2. QED
    BY <2>1
<1>10. /\ n.id \in m.edges["public"] \/ "include" \notin Of[p].zones
       /\ n.id \in m.edges["public"] \/ "tests" \in Of[p].zones \/ n.id \notin m.edges["test"]
  BY <1>9 DEF wrong
<1>11. PICK c \in Categories : n.id \in m.edges[c]
  BY <1>8 DEF Declares
<1>12. CASE n.id \in m.edges["public"]
  <2>1. "public" \in Admitted(p)
    BY DEF Admitted, Categories
  <2>2. QED
    BY <1>12, <2>1
<1>13. CASE n.id \notin m.edges["public"]
  <2>1. "include" \notin Of[p].zones /\ ("tests" \in Of[p].zones \/ c # "test")
    BY <1>10, <1>11, <1>13
  <2>2. c \in Admitted(p)
    BY <2>1 DEF Admitted
  <2>3. QED
    BY <1>11, <2>2
<1>14. QED
  BY <1>12, <1>13

-----------------------------------------------------------------------------
(***************************************************************************)
(* The search for a cycle.                                                 *)
(***************************************************************************)

Ids(modules) == {m.id : m \in modules}

SearchState(modules) == [visiting : Seq(Nodes(modules)), done : SUBSET Nodes(modules), cycle : BOOLEAN]

\* There is nothing left to visit.
Searched(modules, at) == at.visiting = <<>> /\ Ids(modules) \subseteq at.done

\* What leads on from what is in it stays in it.
Closed(modules, C) == \A id \in C : Production(modules, id) \subseteq C

\* Where the search stands after n steps.  The nodes it visits are one way along the
\* edges; no way leads from a node it is done with to one it is not done with, or back.
Way(modules, at) ==
  /\ \A i, j \in 1..Len(at.visiting) : at.visiting[i] = at.visiting[j] => i = j
  /\ \A i \in 1..Len(at.visiting) : at.visiting[i] \notin at.done
  /\ \A i \in 1..Len(at.visiting) :
       i # Len(at.visiting) => at.visiting[i + 1] \in Production(modules, at.visiting[i])

Done(modules, at) ==
  /\ Closed(modules, at.done)
  /\ \A id \in at.done : \E C \in SUBSET Nodes(modules) :
       Closed(modules, C) /\ Production(modules, id) \subseteq C /\ id \notin C

Counted(modules, at, n) ==
  at.cycle \/ Searched(modules, at) \/ 2 * Cardinality(at.done) + Len(at.visiting) = n

ComesBack(modules, at) ==
  at.cycle => /\ at.visiting # <<>>
              /\ \E i \in 1..Len(at.visiting) :
                   at.visiting[i] \in Production(modules, Last(at.visiting))

Search(modules, at, n) ==
  Way(modules, at) /\ Done(modules, at) /\ Counted(modules, at, n) /\ ComesBack(modules, at)

\* Edges lead from nodes to nodes.
LEMMA EdgesStay ==
  ASSUME NEW modules
  PROVE  /\ Ids(modules) \subseteq Nodes(modules)
         /\ \A id \in Nodes(modules) : Production(modules, id) \subseteq Nodes(modules)
         /\ \A id : Production(modules, id) # {} => id \in Ids(modules)
<1>1. \A id : Production(modules, id) # {} => id \in Ids(modules)
  BY DEF Production, Ids
<1>2. Nodes(modules) = Ids(modules) \union UNION {Production(modules, id) : id \in Ids(modules)}
  BY DEF Nodes, Ids
<1>3. QED
  BY <1>1, <1>2

\* What is left open leads to nodes.
LEMMA OpenIsNode ==
  ASSUME NEW modules, NEW at \in SearchState(modules), at.visiting # <<>>
  PROVE  Last(at.visiting) \in Nodes(modules) /\ Len(at.visiting) \in Nat \ {0}
         /\ Last(at.visiting) = at.visiting[Len(at.visiting)]
<1>1. at.visiting \in Seq(Nodes(modules)) /\ Len(at.visiting) \in Nat \ {0}
  BY EmptySeq DEF SearchState
<1>2. Len(at.visiting) \in 1..Len(at.visiting)
  BY <1>1
<1>3. QED
  BY <1>1, <1>2, ElementOfSeq DEF Last

\* One more step of the search: done with a node.
LEMMA LeaveKeeps ==
  ASSUME NEW modules, IsFiniteSet(Nodes(modules)), NEW at \in SearchState(modules), NEW n \in Nat,
         Search(modules, at, n), ~at.cycle, at.visiting # <<>>,
         Production(modules, Last(at.visiting)) \subseteq at.done
  PROVE  LET to == [visiting |-> Front(at.visiting), done |-> at.done \union {Last(at.visiting)}, cycle |-> FALSE]
         IN to \in SearchState(modules) /\ Search(modules, to, n + 1)
<1> DEFINE to == [visiting |-> Front(at.visiting), done |-> at.done \union {Last(at.visiting)}, cycle |-> FALSE]
           v == Last(at.visiting)
           L == Len(at.visiting)
<1>1. at.visiting \in Seq(Nodes(modules)) /\ at.done \in SUBSET Nodes(modules)
  BY DEF SearchState
<1>2. v \in Nodes(modules) /\ L \in Nat \ {0} /\ v = at.visiting[L] /\ L \in 1..L
  BY OpenIsNode
<1>3. Way(modules, at) /\ Done(modules, at) /\ (Searched(modules, at) \/ 2 * Cardinality(at.done) + L = n)
  BY DEF Search, Counted
<1>4. v \notin at.done
  BY <1>2, <1>3 DEF Way
<1>5. to = [visiting |-> Front(at.visiting), done |-> at.done \union {v}, cycle |-> FALSE]
  OBVIOUS
<1> HIDE DEF v, L
<1>6. /\ Front(at.visiting) \in Seq(Nodes(modules)) /\ Len(Front(at.visiting)) = L - 1
      /\ \A i \in 1..(L - 1) : Front(at.visiting)[i] = at.visiting[i]
  <2>1. \A i \in 1..L : at.visiting[i] \in Nodes(modules)
    BY <1>1, ElementOfSeq DEF L
  <2>2. \A i \in 1..(L - 1) : at.visiting[i] \in Nodes(modules)
    BY <1>2, <2>1
  <2>3. 1 \in Int /\ L - 1 \in Int /\ Front(at.visiting) = SubSeq(at.visiting, 1, L - 1)
    BY <1>2 DEF Front, L
  <2>4. /\ SubSeq(at.visiting, 1, L - 1) \in Seq(Nodes(modules))
        /\ Len(SubSeq(at.visiting, 1, L - 1)) = IF 1 <= L - 1 THEN L - 1 - 1 + 1 ELSE 0
        /\ \A i \in 1..(L - 1 - 1 + 1) : SubSeq(at.visiting, 1, L - 1)[i] = at.visiting[1 + i - 1]
    BY <2>2, <2>3, SubSeqProperties
  <2>5. Len(SubSeq(at.visiting, 1, L - 1)) = L - 1
    BY <1>2, <2>4
  <2>6. \A i \in 1..(L - 1) : SubSeq(at.visiting, 1, L - 1)[i] = at.visiting[i]
    BY <1>2, <2>4
  <2>7. QED
    BY <2>3, <2>4, <2>5, <2>6
<1> HIDE DEF to
<1>7. to.visiting = Front(at.visiting) /\ to.done = at.done \union {v} /\ ~to.cycle
      /\ to \in SearchState(modules)
  BY <1>1, <1>2, <1>5, <1>6 DEF SearchState
<1>8. Way(modules, to)
  <2>1. ASSUME NEW i \in 1..(L - 1)
        PROVE  /\ i \in 1..L /\ i # L /\ to.visiting[i] = at.visiting[i]
               /\ i # L - 1 => to.visiting[i + 1] = at.visiting[i + 1]
    <3>1. i \in 1..L /\ i # L /\ (i # L - 1 => i + 1 \in 1..(L - 1))
      BY <1>2
    <3>2. QED
      BY <1>6, <1>7, <3>1
  <2>2. \A i, j \in 1..(L - 1) : to.visiting[i] = to.visiting[j] => i = j
    BY <1>3, <2>1 DEF Way, L
  <2>3. \A i \in 1..(L - 1) : to.visiting[i] \notin to.done
    BY <1>2, <1>3, <1>7, <2>1 DEF Way, L
  <2>4. \A i \in 1..(L - 1) : i # L - 1 => to.visiting[i + 1] \in Production(modules, to.visiting[i])
    BY <1>3, <2>1 DEF Way, L
  <2>5. Len(to.visiting) = L - 1
    BY <1>6, <1>7
  <2>6. QED
    BY <2>2, <2>3, <2>4, <2>5 DEF Way
<1>9. Done(modules, to)
  <2>1. Closed(modules, to.done)
    BY <1>3, <1>7 DEF Done, Closed, v
  <2>2. \E C \in SUBSET Nodes(modules) : Closed(modules, C) /\ Production(modules, v) \subseteq C /\ v \notin C
    BY <1>1, <1>3, <1>4 DEF Done, v
  <2>3. QED
    BY <1>3, <1>7, <2>1, <2>2 DEF Done
<1>10. Counted(modules, to, n + 1)
  <2>1. IsFiniteSet(at.done)
    BY <1>1, FS_Subset
  <2>2. Cardinality(to.done) = Cardinality(at.done) + 1 /\ Cardinality(at.done) \in Nat
    BY <1>4, <1>7, <2>1, FS_AddElement, FS_CardinalityType
  <2>3. ~Searched(modules, at)
    BY DEF Searched
  <2>4. 2 * Cardinality(at.done) + L = n
    BY <1>3, <2>3
  <2>5. Len(to.visiting) = L - 1
    BY <1>6, <1>7
  <2>6. 2 * Cardinality(to.done) + Len(to.visiting) = n + 1
    BY <1>2, <2>2, <2>4, <2>5
  <2>7. QED
    BY <2>6 DEF Counted
<1>11. ComesBack(modules, to)
  BY <1>7 DEF ComesBack
<1>12. to \in SearchState(modules) /\ Search(modules, to, n + 1)
  BY <1>7, <1>8, <1>9, <1>10, <1>11 DEF Search
<1>13. QED
  BY <1>12 DEF to, v

\* One more step of the search: a node entered.
LEMMA EnterKeeps ==
  ASSUME NEW modules, IsFiniteSet(Nodes(modules)), NEW at \in SearchState(modules), NEW n \in Nat,
         Search(modules, at, n), ~at.cycle, NEW next \in Nodes(modules), next \notin at.done,
         ~Searched(modules, at),
         at.visiting # <<>> => next \in Production(modules, Last(at.visiting)),
         next \notin Range(at.visiting)
  PROVE  LET to == [visiting |-> Append(at.visiting, next), done |-> at.done, cycle |-> FALSE]
         IN to \in SearchState(modules) /\ Search(modules, to, n + 1)
<1> DEFINE to == [visiting |-> Append(at.visiting, next), done |-> at.done, cycle |-> FALSE]
           L == Len(at.visiting)
<1>1. at.visiting \in Seq(Nodes(modules)) /\ at.done \in SUBSET Nodes(modules)
      /\ L \in Nat /\ DOMAIN at.visiting = 1..L
  BY LenProperties DEF SearchState
<1>2. Way(modules, at) /\ Done(modules, at) /\ 2 * Cardinality(at.done) + L = n
  BY DEF Search, Counted
<1>3. to = [visiting |-> Append(at.visiting, next), done |-> at.done, cycle |-> FALSE]
  OBVIOUS
<1>4. /\ Append(at.visiting, next) \in Seq(Nodes(modules)) /\ Len(Append(at.visiting, next)) = L + 1
      /\ \A i \in 1..L : Append(at.visiting, next)[i] = at.visiting[i]
      /\ Append(at.visiting, next)[L + 1] = next
  BY <1>1, AppendProperties DEF L
<1>5. \A i \in 1..L : at.visiting[i] # next
  BY <1>1 DEF Range
<1>6. L # 0 => at.visiting # <<>> /\ Last(at.visiting) = at.visiting[L]
  BY <1>1, EmptySeq DEF Last, L
<1> HIDE DEF to, L
<1>7. to.visiting = Append(at.visiting, next) /\ to.done = at.done /\ ~to.cycle
      /\ to \in SearchState(modules)
  BY <1>1, <1>3, <1>4 DEF SearchState
<1>8. Way(modules, to)
  <2>1. \A i \in 1..L : to.visiting[i] = at.visiting[i] /\ at.visiting[i] # next
    BY <1>4, <1>5, <1>7
  <2>2. to.visiting[L + 1] = next /\ Len(to.visiting) = L + 1
    BY <1>4, <1>7
  <2>3. \A i \in 1..(L + 1) : i = L + 1 \/ i \in 1..L
    BY <1>1
  <2>4. \A i, j \in 1..(L + 1) : to.visiting[i] = to.visiting[j] => i = j
    BY <1>2, <2>1, <2>2, <2>3 DEF Way, L
  <2>5. \A i \in 1..(L + 1) : to.visiting[i] \notin to.done
    BY <1>2, <1>7, <2>1, <2>2, <2>3 DEF Way, L
  <2>6. ASSUME NEW i \in 1..(L + 1), i # L + 1
        PROVE  to.visiting[i + 1] \in Production(modules, to.visiting[i])
    <3>1. i \in 1..L
      BY <1>1, <2>6
    <3>2. CASE i = L
      <4>1. at.visiting[L] = Last(at.visiting) /\ next \in Production(modules, Last(at.visiting))
        BY <1>1, <1>6, <3>1
      <4>2. QED
        BY <2>1, <2>2, <3>1, <3>2, <4>1
    <3>3. CASE i # L
      <4>1. i + 1 \in 1..L
        BY <1>1, <3>1, <3>3
      <4>2. QED
        BY <1>2, <2>1, <3>1, <3>3, <4>1 DEF Way, L
    <3>4. QED
      BY <3>2, <3>3
  <2>7. QED
    BY <2>2, <2>4, <2>5, <2>6 DEF Way
<1>9. Done(modules, to)
  BY <1>2, <1>7 DEF Done
<1>10. Counted(modules, to, n + 1)
  <2>1. Len(to.visiting) = L + 1 /\ Cardinality(to.done) = Cardinality(at.done) /\ Cardinality(at.done) \in Nat
    BY <1>1, <1>4, <1>7, FS_Subset, FS_CardinalityType
  <2>2. 2 * Cardinality(to.done) + Len(to.visiting) = n + 1
    BY <1>1, <1>2, <2>1
  <2>3. QED
    BY <2>2 DEF Counted
<1>11. ComesBack(modules, to)
  BY <1>7 DEF ComesBack
<1>12. to \in SearchState(modules) /\ Search(modules, to, n + 1)
  BY <1>7, <1>8, <1>9, <1>10, <1>11 DEF Search
<1>13. QED
  BY <1>12 DEF to

\* One more step of the search, whichever it is.
LEMMA VisitKeeps ==
  ASSUME NEW modules, IsFiniteSet(Nodes(modules)), NEW at \in SearchState(modules), NEW n \in Nat,
         Search(modules, at, n)
  PROVE  Visit(modules, at) \in SearchState(modules) /\ Search(modules, Visit(modules, at), n + 1)
<1> DEFINE open == (IF at.visiting = <<>> THEN Ids(modules)
                    ELSE Production(modules, Last(at.visiting))) \ at.done
           next == CHOOSE id \in open : TRUE
           left == [visiting |-> Front(at.visiting), done |-> at.done \union {Last(at.visiting)},
                    cycle |-> FALSE]
           back == [visiting |-> at.visiting, done |-> at.done, cycle |-> TRUE]
           more == [visiting |-> Append(at.visiting, next), done |-> at.done, cycle |-> FALSE]
           to == Visit(modules, at)
<1>1. /\ at.cycle \/ (open = {} /\ at.visiting = <<>>) => to = at
      /\ ~at.cycle /\ open = {} /\ at.visiting # <<>> => to = left
      /\ ~at.cycle /\ open # {} /\ next \in Range(at.visiting) => to = back
      /\ ~at.cycle /\ open # {} /\ next \notin Range(at.visiting) => to = more
  BY DEF Visit, Ids
<1> HIDE DEF to
<1>2. open # {} => next \in open
  OBVIOUS
<1>3. open \subseteq Nodes(modules) /\ open \intersect at.done = {}
  BY EdgesStay, OpenIsNode
<1>4. CASE at.cycle \/ (open = {} /\ at.visiting = <<>>)
  <2>1. to = at
    BY <1>1, <1>4
  <2>2. at.cycle \/ Searched(modules, at)
    BY <1>4 DEF Searched
  <2>3. Counted(modules, at, n + 1)
    BY <2>2 DEF Counted
  <2>4. QED
    BY <2>1, <2>3 DEF Search, to
<1>5. CASE ~at.cycle /\ open = {} /\ at.visiting # <<>>
  <2>1. Production(modules, Last(at.visiting)) \subseteq at.done
    BY <1>5
  <2>2. left \in SearchState(modules) /\ Search(modules, left, n + 1)
    BY <1>5, <2>1, LeaveKeeps
  <2>3. QED
    BY <1>1, <1>5, <2>2 DEF to
<1>6. CASE ~at.cycle /\ open # {} /\ next \in Range(at.visiting)
  <2>1. PICK i \in DOMAIN at.visiting : at.visiting[i] = next
    BY <1>6 DEF Range
  <2>2. at.visiting \in Seq(Nodes(modules)) /\ at.done \in SUBSET Nodes(modules)
        /\ DOMAIN at.visiting = 1..Len(at.visiting)
    BY LenProperties DEF SearchState
  <2>3. at.visiting # <<>>
    <3>1. SUFFICES ASSUME at.visiting = <<>>
                   PROVE  FALSE
      OBVIOUS
    <3>2. DOMAIN at.visiting = {}
      BY <3>1
    <3>3. QED
      BY <2>1, <3>2
  <2>4. next \in Production(modules, Last(at.visiting))
    BY <1>2, <1>6, <2>3
  <2> DEFINE it == back
  <2>5. it.visiting = at.visiting /\ it.done = at.done /\ it.cycle
    OBVIOUS
  <2>6. it \in SearchState(modules)
    BY <2>2 DEF SearchState
  <2>7. to = it
    BY <1>1, <1>6
  <2> HIDE DEF it, next, open
  <2>8. Way(modules, it) /\ Done(modules, it)
    BY <2>5 DEF Search, Way, Done
  <2>9. Counted(modules, it, n + 1)
    BY <2>5 DEF Counted
  <2>10. ComesBack(modules, it)
    BY <2>1, <2>2, <2>3, <2>4, <2>5 DEF ComesBack
  <2>11. QED
    BY <2>6, <2>7, <2>8, <2>9, <2>10 DEF Search, to
<1>7. CASE ~at.cycle /\ open # {} /\ next \notin Range(at.visiting)
  <2>1. next \in Nodes(modules) /\ next \notin at.done
        /\ (at.visiting # <<>> => next \in Production(modules, Last(at.visiting)))
    BY <1>2, <1>3, <1>7
  <2>2. ~Searched(modules, at)
    BY <1>7 DEF Searched
  <2> HIDE DEF next, open
  <2>3. more \in SearchState(modules) /\ Search(modules, more, n + 1)
    BY <1>7, <2>1, <2>2, EnterKeeps
  <2>4. to = more
    BY <1>1, <1>7 DEF open, next
  <2>5. QED
    BY <2>3, <2>4 DEF to
<1>8. QED
  BY <1>4, <1>5, <1>6, <1>7

\* The search stops, and where it does says whether there is a cycle.
LEMMA SearchEnds ==
  ASSUME NEW modules, IsFiniteSet(Nodes(modules))
  PROVE  \E at \in SearchState(modules) :
           /\ HasCycle(modules) = at.cycle
           /\ Search(modules, at, 2 * Cardinality(Nodes(modules)))
<1> DEFINE last == 2 * Cardinality(Nodes(modules))
           b == [visiting |-> <<>>, done |-> {}, cycle |-> FALSE]
           D == {at \in SearchState(modules) : \E n \in Nat : Search(modules, at, n)}
           g == [at \in D |-> Visit(modules, at)]
           Solves(f) == f = [n \in 0..last |-> IF n = 0 THEN b ELSE Visit(modules, f[n - 1])]
           chosen == CHOOSE f : Solves(f)
<1>1. last \in Nat
  BY FS_CardinalityType
<1>2. b \in SearchState(modules) /\ Search(modules, b, 0)
  <2>1. b.visiting = <<>> /\ b.done = {} /\ ~b.cycle /\ b \in SearchState(modules)
    BY DEF SearchState
  <2>2. Cardinality(b.done) = 0 /\ Len(b.visiting) = 0
    BY <2>1, FS_EmptySet
  <2> HIDE DEF b
  <2>3. Way(modules, b)
    BY <2>1, <2>2 DEF Way
  <2>4. Done(modules, b) /\ ComesBack(modules, b)
    BY <2>1 DEF Done, ComesBack, Closed
  <2>5. Counted(modules, b, 0)
    BY <2>2 DEF Counted
  <2>6. QED
    BY <2>1, <2>3, <2>4, <2>5 DEF Search
<1>3. \A at \in D : Visit(modules, at) \in D
  <2>1. SUFFICES ASSUME NEW at \in SearchState(modules), NEW n \in Nat, Search(modules, at, n)
                 PROVE  Visit(modules, at) \in D
    OBVIOUS
  <2>2. Visit(modules, at) \in SearchState(modules) /\ Search(modules, Visit(modules, at), n + 1)
    BY <2>1, VisitKeeps
  <2>3. n + 1 \in Nat
    OBVIOUS
  <2>4. QED
    BY <2>2, <2>3
<1>4. b \in D
  BY <1>2
<1>5. HasCycle(modules) = chosen[last].cycle
  BY DEF HasCycle
<1>6. g \in [D -> D] /\ \A at \in D : g[at] = Visit(modules, at)
  BY <1>3
<1> HIDE DEF D, b, g, last
<1>7. \E f : Solves(f)
  <2>1. PICK f : Repeats(f, D, b, last, g)
    BY <1>1, <1>4, <1>6, StepsExist
  <2>2. f = [n \in 0..last |-> IF n = 0 THEN b ELSE g[f[n - 1]]]
    BY <1>1, <1>4, <1>6, <2>1, RepeatsSolve
  <2>3. \A n \in 0..last : n # 0 => g[f[n - 1]] = Visit(modules, f[n - 1])
    <3>1. \A n \in 0..last : n # 0 => f[n - 1] \in D
      BY <1>1, <2>1 DEF Repeats
    <3>2. QED
      BY <1>6, <3>1
  <2>4. Solves(f)
    BY <2>2, <2>3
  <2>5. QED
    BY <2>4
<1>8. Solves(chosen)
  BY <1>7
<1> HIDE DEF chosen
<1> DEFINE T == {n \in Nat : n <= last => chosen[n] \in SearchState(modules) /\ Search(modules, chosen[n], n)}
<1>9. 0 \in T
  BY <1>1, <1>2, <1>8
<1>10. ASSUME NEW n \in Nat, n \in T
      PROVE  n + 1 \in T
  <2>1. SUFFICES ASSUME n + 1 <= last
                 PROVE  chosen[n + 1] \in SearchState(modules) /\ Search(modules, chosen[n + 1], n + 1)
    OBVIOUS
  <2>2. chosen[n] \in SearchState(modules) /\ Search(modules, chosen[n], n)
    BY <1>1, <1>10, <2>1
  <2>3. n + 1 \in 0..last /\ n + 1 # 0 /\ (n + 1) - 1 = n
    BY <1>1, <2>1
  <2>4. chosen[n + 1] = Visit(modules, chosen[n])
    BY <1>8, <2>3
  <2>5. QED
    BY <2>2, <2>4, VisitKeeps
<1> HIDE DEF T
<1>11. Nat \subseteq T
  BY <1>9, <1>10, SetInduction
<1>12. chosen[last] \in SearchState(modules) /\ Search(modules, chosen[last], last)
  BY <1>1, <1>11 DEF T
<1>13. QED
  BY <1>5, <1>12 DEF last

\* A search that found no way back has been everywhere.
LEMMA SearchedAll ==
  ASSUME NEW modules, IsFiniteSet(Nodes(modules)), NEW at \in SearchState(modules), ~at.cycle,
         Search(modules, at, 2 * Cardinality(Nodes(modules)))
  PROVE  Ids(modules) \subseteq at.done
<1> DEFINE L == Len(at.visiting)
           left == Nodes(modules) \ at.done
<1>1. at.visiting \in Seq(Nodes(modules)) /\ at.done \in SUBSET Nodes(modules) /\ L \in Nat
      /\ at.visiting \in [1..L -> Nodes(modules)] /\ DOMAIN at.visiting = 1..L
  BY LenProperties DEF SearchState
<1>2. SUFFICES ASSUME 2 * Cardinality(at.done) + L = 2 * Cardinality(Nodes(modules))
               PROVE  Ids(modules) \subseteq at.done
  BY DEF Search, Counted, Searched
<1>3. Way(modules, at)
  BY DEF Search
<1>4. at.visiting \in Injection(1..L, left)
  <2>1. \A i \in 1..L : at.visiting[i] \in left
    BY <1>1, <1>3 DEF Way
  <2>2. at.visiting \in [1..L -> left]
    BY <1>1, <2>1
  <2>3. IsInjective(at.visiting)
    BY <1>1, <1>3 DEF Way, IsInjective
  <2>4. QED
    BY <2>2, <2>3 DEF Injection
<1>5. IsFiniteSet(at.done) /\ IsFiniteSet(left) /\ Cardinality(at.done) <= Cardinality(Nodes(modules))
      /\ (Cardinality(Nodes(modules)) = Cardinality(at.done) => Nodes(modules) = at.done)
  BY <1>1, FS_Subset
<1>6. Cardinality(left) = Cardinality(Nodes(modules)) - Cardinality(at.done)
  <2>1. Nodes(modules) \intersect at.done = at.done
    BY <1>1
  <2>2. Cardinality(Nodes(modules) \ at.done)
          = Cardinality(Nodes(modules)) - Cardinality(Nodes(modules) \cap at.done)
    BY FS_Difference, Zenon
  <2>3. QED
    BY <2>1, <2>2
<1> HIDE DEF left, L
<1>7. Cardinality(1..L) <= Cardinality(left) /\ Cardinality(1..L) = L
  <2>1. Cardinality(1..L) <= Cardinality(left)
    BY <1>4, <1>5, FS_Injection
  <2>2. Cardinality(1..L) = L
    BY <1>1, FS_Interval
  <2>3. QED
    BY <2>1, <2>2
<1>8. Cardinality(Nodes(modules)) \in Nat /\ Cardinality(at.done) \in Nat
  BY <1>5, FS_CardinalityType
<1>9. Cardinality(Nodes(modules)) = Cardinality(at.done)
  <2> DEFINE a == Cardinality(Nodes(modules))
             c == Cardinality(at.done)
  <2>1. a \in Nat /\ c \in Nat /\ L \in Nat /\ L <= a - c /\ 2 * c + L = 2 * a /\ c <= a
    BY <1>1, <1>2, <1>5, <1>6, <1>7, <1>8 DEF L
  <2> HIDE DEF a, c
  <2>2. a = c
    BY <2>1
  <2>3. QED
    BY <2>2 DEF a, c
<1>10. QED
  BY <1>5, <1>9, EdgesStay

\* The modules of a checkout, and the nodes of their graph, are finitely many.
LEMMA NodesFinite ==
  ASSUME IsScanned(tree)
  PROVE  IsFiniteSet(Modules(tree)) /\ IsFiniteSet(Nodes(Modules(tree)))
         /\ Cardinality(Ids(Modules(tree))) <= Cardinality(Modules(tree))
         /\ IsFiniteSet(Ids(Modules(tree)))
<1> DEFINE named == Named(tree, "module.json")
           module == [p \in named |->
             [root |-> Of[p].dir, id |-> Manifest(tree, p).id,
              edges |-> [c \in Categories |-> IF c \in DOMAIN Manifest(tree, p).dependencies
                                                THEN Manifest(tree, p).dependencies[c] ELSE {}]]]
           modules == Modules(tree)
           pairs == modules \X Categories
           edges == [x \in pairs |-> x[1].edges[x[2]]]
           identity == [m \in modules |-> m.id]
<1>1. IsFiniteSet(modules)
  <2>1. named \in SUBSET (DOMAIN tree.files)
    BY DEF Named, Manifests, Parses, Readable
  <2>2. IsFiniteSet(named)
    BY <2>1, FS_Subset DEF IsScanned
  <2>3. IsFiniteSet({module[p] : p \in named})
    <3> HIDE DEF module, named
    <3>1. QED
      BY <2>2, ImageFinite
  <2>4. modules = {module[p] : p \in named}
    BY DEF Modules
  <2>5. QED
    BY <2>3, <2>4
<1>2. \A m \in modules : \A c \in Categories : IsFiniteSet(m.edges[c])
  BY DEF IsScanned
<1> HIDE DEF modules
<1>3. IsFiniteSet(Categories)
  <2>1. Categories = {"public"} \union ({"private"} \union ({"test"} \union ({"tool"} \union {"hostOnly"})))
    BY DEF Categories
  <2>2. IsFiniteSet({"tool"} \union {"hostOnly"})
    BY FS_Singleton, FS_Union
  <2>3. IsFiniteSet({"test"} \union ({"tool"} \union {"hostOnly"}))
    BY <2>2, FS_Singleton, FS_Union
  <2>4. IsFiniteSet({"private"} \union ({"test"} \union ({"tool"} \union {"hostOnly"})))
    BY <2>3, FS_Singleton, FS_Union
  <2>5. IsFiniteSet({"public"} \union ({"private"} \union ({"test"} \union ({"tool"} \union {"hostOnly"}))))
    BY <2>4, FS_Singleton, FS_Union
  <2>6. QED
    BY <2>1, <2>5
<1>4. IsFiniteSet(pairs)
  BY <1>1, <1>3, FS_Product
<1>5. IsFiniteSet(UNION {edges[x] : x \in pairs})
  <2>1. \A s \in {edges[x] : x \in pairs} : IsFiniteSet(s)
    <3>1. SUFFICES ASSUME NEW x \in pairs
                   PROVE  IsFiniteSet(edges[x])
      OBVIOUS
    <3>2. x[1] \in modules /\ x[2] \in Categories
      OBVIOUS
    <3>3. QED
      BY <1>2, <3>2
  <2> HIDE DEF edges, pairs
  <2>2. IsFiniteSet({edges[x] : x \in pairs})
    BY <1>4, ImageFinite
  <2>3. QED
    BY <2>1, <2>2, FS_UNION
<1>6. IsFiniteSet(Ids(modules)) /\ Cardinality(Ids(modules)) <= Cardinality(modules)
  <2>1. identity \in Surjection(modules, Ids(modules))
    BY DEF Surjection, Ids
  <2>2. QED
    BY <1>1, <2>1, FS_Surjection
<1>7. Nodes(modules) \subseteq Ids(modules) \union UNION {edges[x] : x \in pairs}
  <2>1. SUFFICES ASSUME NEW id, NEW to \in Production(modules, id)
                 PROVE  to \in UNION {edges[x] : x \in pairs}
    BY DEF Nodes, Ids
  <2>2. PICK m \in modules, c \in Categories : to \in m.edges[c]
    BY DEF Production
  <2>3. <<m, c>> \in pairs /\ edges[<<m, c>>] = m.edges[c]
    OBVIOUS
  <2>4. QED
    BY <2>2, <2>3
<1>8. IsFiniteSet(Nodes(modules))
  <2> HIDE DEF edges, pairs
  <2>1. IsFiniteSet(Ids(modules) \union UNION {edges[x] : x \in pairs})
    BY <1>5, <1>6, FS_Union
  <2>2. QED
    BY <1>7, <2>1, FS_Subset
<1>9. QED
  BY <1>1, <1>6, <1>8 DEF modules

\* The edges Acyclic walks along.
ShippedEdges ==
  UNION {{m.id} \X UNION {m.edges[c] : c \in Categories \ {"test", "tool"}} : m \in Modules(tree)}

\* They are the production edges.
LEMMA EdgesAre ==
  \A a, b : <<a, b>> \in ShippedEdges <=> b \in Production(Modules(tree), a)
<1>1. ASSUME NEW a, NEW b, <<a, b>> \in ShippedEdges
      PROVE  b \in Production(Modules(tree), a)
  <2>1. PICK m \in Modules(tree) : a = m.id /\ b \in UNION {m.edges[c] : c \in Categories \ {"test", "tool"}}
    BY <1>1 DEF ShippedEdges
  <2>2. QED
    BY <2>1 DEF Production
<1>2. ASSUME NEW a, NEW b, b \in Production(Modules(tree), a)
      PROVE  <<a, b>> \in ShippedEdges
  <2>1. PICK m \in Modules(tree), c \in Categories \ {"test", "tool"} : m.id = a /\ b \in m.edges[c]
    BY <1>2 DEF Production
  <2>2. <<a, b>> \in {m.id} \X UNION {m.edges[d] : d \in Categories \ {"test", "tool"}}
    BY <2>1
  <2>3. QED
    BY <2>2 DEF ShippedEdges
<1>3. QED
  BY <1>1, <1>2

After(s) == {e[2] : e \in {x \in ShippedEdges : x[1] \in s}}

\* No way comes back when the search finds none.
LEMMA AcyclicWhenSilent ==
  ASSUME IsScanned(tree), ~HasCycle(Modules(tree))
  PROVE  Acyclic
<1> DEFINE modules == Modules(tree)
           k == Cardinality(modules)
<1>1. IsFiniteSet(Nodes(modules)) /\ k \in Nat
  BY NodesFinite, FS_CardinalityType
<1>2. PICK at \in SearchState(modules) :
        HasCycle(modules) = at.cycle /\ Search(modules, at, 2 * Cardinality(Nodes(modules)))
  BY <1>1, SearchEnds
<1>3. Ids(modules) \subseteq at.done
  BY <1>1, <1>2, SearchedAll
<1>4. ASSUME NEW m \in modules
      PROVE  m.id \notin Reached(ShippedEdges, After({m.id}), k)
  <2>1. m.id \in at.done
    BY <1>3 DEF Ids
  <2>2. PICK C \in SUBSET Nodes(modules) :
          Closed(modules, C) /\ Production(modules, m.id) \subseteq C /\ m.id \notin C
    BY <1>2, <2>1 DEF Search, Done
  <2>3. \A e \in ShippedEdges : e = <<e[1], e[2]>>
    BY DEF ShippedEdges
  <2>4. \A e \in ShippedEdges : e[2] \in Production(modules, e[1])
    BY <2>3, EdgesAre
  <2>5. \A e \in ShippedEdges : e[1] \in C => e[2] \in C
    BY <2>2, <2>4 DEF Closed
  <2>6. After({m.id}) \subseteq C
    BY <2>2, <2>4 DEF After
  <2>7. Reached(ShippedEdges, After({m.id}), k) \subseteq C
    BY <1>1, <2>5, <2>6, ReachedWithin
  <2>8. QED
    BY <2>2, <2>7
<1>5. QED
  BY <1>4 DEF Acyclic, ShippedEdges, After

\* What the search takes for a way back is one.
LEMMA CycleIsReal ==
  ASSUME IsScanned(tree), HasCycle(Modules(tree))
  PROVE  ~Acyclic
<1> DEFINE modules == Modules(tree)
           k == Cardinality(modules)
<1>1. IsFiniteSet(Nodes(modules)) /\ k \in Nat /\ IsFiniteSet(Ids(modules)) /\ Cardinality(Ids(modules)) <= k
  BY NodesFinite, FS_CardinalityType
<1>2. PICK at \in SearchState(modules) :
        at.cycle /\ Search(modules, at, 2 * Cardinality(Nodes(modules)))
  BY <1>1, SearchEnds
<1> DEFINE v == at.visiting
           L == Len(at.visiting)
<1>3. at.visiting # <<>> /\ v \in Seq(Nodes(modules)) /\ L \in Nat \ {0} /\ DOMAIN v = 1..L
      /\ v \in [1..L -> Nodes(modules)] /\ Last(at.visiting) = v[L]
  <2>1. at.visiting # <<>>
    BY <1>2 DEF Search, ComesBack
  <2>2. QED
    BY <2>1, OpenIsNode, LenProperties DEF SearchState
<1>4. PICK i \in 1..L : v[i] \in Production(modules, v[L])
  BY <1>2, <1>3 DEF Search, ComesBack
<1>5. /\ \A a, b \in 1..L : v[a] = v[b] => a = b
      /\ \A a \in 1..L : a # L => v[a + 1] \in Production(modules, v[a])
  BY <1>2 DEF Search, Way
<1> HIDE DEF v, L, modules
<1>6. \A a \in 1..L : v[a] \in Ids(modules)
  <2>1. \A a \in 1..L : Production(modules, v[a]) # {}
    BY <1>3, <1>4, <1>5
  <2>2. QED
    BY <2>1, EdgesStay
<1>7. L <= k
  <2>1. v \in [1..L -> Ids(modules)]
    BY <1>3, <1>6
  <2>2. IsInjective(v)
    BY <1>3, <1>5 DEF IsInjective
  <2>3. v \in Injection(1..L, Ids(modules))
    BY <2>1, <2>2 DEF Injection
  <2>4. Cardinality(1..L) <= Cardinality(Ids(modules))
    BY <1>1, <2>3, FS_Injection
  <2>5. Cardinality(1..L) = L
    BY <1>3, FS_Interval
  <2>6. Cardinality(Ids(modules)) \in Nat
    BY <1>1, FS_CardinalityType
  <2>7. QED
    BY <1>1, <1>3, <2>4, <2>5, <2>6
<1> HIDE DEF k
<1>8. PICK f : /\ f[0] = After({v[i]}) /\ f[k] = Reached(ShippedEdges, After({v[i]}), k)
               /\ \A n \in 1..k : f[n] = Further(ShippedEdges, f[n - 1])
  BY <1>1, ReachedIs
<1>9. \A a, b : b \in Production(modules, a) => <<a, b>> \in ShippedEdges
  BY EdgesAre DEF modules
<1> DEFINE T == {n \in Nat : i + n <= L => v[IF i + n = L THEN i ELSE i + n + 1] \in f[n]}
<1>10. 0 \in T
  <2>1. v[IF i = L THEN i ELSE i + 1] \in Production(modules, v[i])
    BY <1>4, <1>5
  <2>2. <<v[i], v[IF i = L THEN i ELSE i + 1]>> \in ShippedEdges
    BY <1>9, <2>1
  <2>3. v[IF i = L THEN i ELSE i + 1] \in After({v[i]})
    BY <2>2 DEF After
  <2>4. i + 0 = i
    BY <1>3
  <2>5. QED
    BY <1>8, <2>3, <2>4
<1>11. ASSUME NEW n \in Nat, n \in T
       PROVE  n + 1 \in T
  <2>1. SUFFICES ASSUME i + (n + 1) <= L
                 PROVE  v[IF i + (n + 1) = L THEN i ELSE i + (n + 1) + 1] \in f[n + 1]
    OBVIOUS
  <2> DEFINE a == i + n + 1
             b == IF a = L THEN i ELSE a + 1
  <2>2. i + n <= L /\ i + n # L /\ a \in 1..L /\ n + 1 \in 1..k /\ (n + 1) - 1 = n
        /\ i + (n + 1) = a
    BY <1>1, <1>3, <1>7, <2>1
  <2>3. v[a] \in f[n]
    BY <1>11, <2>2
  <2>4. v[b] \in Production(modules, v[a])
    BY <1>4, <1>5, <2>2
  <2>5. <<v[a], v[b]>> \in ShippedEdges
    BY <1>9, <2>4
  <2>6. f[n + 1] = Further(ShippedEdges, f[n])
    BY <1>8, <2>2
  <2>7. v[b] \in f[n + 1]
    BY <2>3, <2>5, <2>6 DEF Further
  <2>8. QED
    BY <2>2, <2>7
<1> HIDE DEF T
<1>12. Nat \subseteq T
  BY <1>10, <1>11, SetInduction
<1>13. L - i \in 0..k /\ i + (L - i) = L /\ L - i \in Nat
  BY <1>1, <1>3, <1>7
<1>14. v[i] \in f[L - i]
  BY <1>12, <1>13 DEF T
<1>15. v[i] \in f[k]
  <2>1. k \in (L - i)..k
    BY <1>1, <1>13
  <2>2. \A n \in (L - i)..k : f[L - i] \subseteq f[n]
    BY <1>1, <1>8, <1>13, ReachedBy
  <2>3. QED
    BY <1>14, <2>1, <2>2
<1>16. PICK m \in modules : m.id = v[i]
  BY <1>6 DEF Ids
<1>17. m.id \in Reached(ShippedEdges, After({m.id}), k)
  BY <1>8, <1>15, <1>16
<1>18. QED
  BY <1>17 DEF Acyclic, ShippedEdges, After, k, modules

\* The search finds a cycle exactly when a way along production edges comes back.
THEOREM CyclesAreFound ==
  ASSUME IsScanned(tree)
  PROVE  HasCycle(Modules(tree)) <=> ~Acyclic
BY AcyclicWhenSilent, CycleIsReal

-----------------------------------------------------------------------------
(***************************************************************************)
(* The run of rf-archcheck.                                                *)
(***************************************************************************)

Checking == Range(Groups) \union {"conclude", "report"}

\* Where a run stands says what was asked of it, and that the rules were loaded.
AskedOf ==
  /\ stage = "corpus" => ArchcheckUsable
  /\ stage = "explain" => request.operation = "explain_rule"
  /\ stage = "model" => ArchcheckUsable /\ request.operation # "explain_rule" /\ ~CorpusRefused(corpus)
  /\ stage = "list" => request.operation = "list_rules"
  /\ stage \in Checking => request.operation = "check_repository" /\ ~CorpusRefused(corpus)

\* The groups of checks that are behind a run.
Behind == {i \in DOMAIN Groups : stage \in {Groups[j] : j \in {k \in DOMAIN Groups : i < k}}
                                            \union {"conclude", "report"}}

\* A sink that holds nothing and dropped nothing was given nothing.
SinkTells ==
  stage \in Checking /\ found.findings = {} /\ ~found.overflowed /\ ~found.unknown =>
    \A i \in Behind : Findings(Groups[i]) = {}

\* A report is written of a sink that dropped nothing.
ReportWhole == stage = "report" => ~found.overflowed /\ ~found.unknown

\* A clean exit of a check is one at which every group was silent.
AllSilent ==
  exit = "clean" /\ request.operation = "check_repository" =>
    ~CorpusRefused(corpus) /\ \A i \in DOMAIN Groups : Findings(Groups[i]) = {}

AInv ==
  /\ IsScanned(tree)
  /\ exit = "clean" => stage = "ended"
  /\ AskedOf /\ SinkTells /\ ReportWhole /\ AllSilent

LEMMA GroupsAre ==
  /\ DOMAIN Groups = 1..7 /\ Len(Groups) = 7
  /\ \A i, j \in DOMAIN Groups : Groups[i] = Groups[j] => i = j
  /\ \A i \in DOMAIN Groups : Groups[i] \notin {"conclude", "report", "ended", "rf-archcheck", "corpus", "model",
                                               "explain", "list"}
<1>1. DOMAIN Groups = 1..7 /\ Len(Groups) = 7
  BY DEF Groups
<1>2. /\ Groups[1] = "manifests" /\ Groups[2] = "membership" /\ Groups[3] = "edges"
      /\ Groups[4] = "closures" /\ Groups[5] = "hygiene" /\ Groups[6] = "separation"
      /\ Groups[7] = "projections"
  BY DEF Groups
<1>3. \A i \in 1..7 : i \in {1, 2, 3, 4, 5, 6, 7}
  OBVIOUS
<1>4. QED
  BY <1>1, <1>2, <1>3

LEMMA CheckingIs ==
  /\ \A i \in DOMAIN Groups : Groups[i] \in Checking
  /\ Checking = {Groups[i] : i \in DOMAIN Groups} \union {"conclude", "report"}
  /\ {"ended", "rf-archcheck", "corpus", "model", "explain", "list"} \intersect Checking = {}
BY GroupsAre DEF Checking, Range

LEMMA ArchcheckBegins == ASSUME Begin("rf-archcheck", NothingFound) PROVE AInv
<1>1. PICK i \in Invocations : i.tool = "rf-archcheck" /\ input = [request |-> i.request, tree |-> Trees[i.tree]]
  BY DEF Begin
<1>2. tree = Trees[i.tree]
  BY <1>1 DEF tree
<1>3. IsScanned(tree)
  BY <1>1, <1>2, ArchcheckAssumption
<1>4. stage = "rf-archcheck" /\ exit # "clean"
  BY ArchcheckAssumption DEF Begin, Exits
<1>5. stage \notin Checking
  BY <1>4, CheckingIs
<1>6. QED
  BY <1>3, <1>4, <1>5 DEF AInv, AskedOf, SinkTells, ReportWhole, AllSilent

\* What the tool was given does not change.
LEMMA ScannedStands ==
  ASSUME input' = input
  PROVE  /\ tree' = tree /\ request' = request /\ corpus' = corpus
         /\ IsScanned(tree)' <=> IsScanned(tree)
         /\ \A i \in DOMAIN Groups : Findings(Groups[i])' = Findings(Groups[i])
         /\ CorpusRefused(corpus)' <=> CorpusRefused(corpus)
         /\ ArchcheckUsable' <=> ArchcheckUsable
<1>1. tree' = tree /\ request' = request
  BY DEF tree, request
<1>2. corpus' = corpus
  BY <1>1 DEF corpus
<1>3. QED
  BY <1>1, <1>2 DEF Findings, ArchcheckUsable

\* A run ends in a way its exit tells of.
LEMMA EndKeeps ==
  ASSUME AInv, NEW class, End(class),
         class = "clean" /\ request.operation = "check_repository" =>
           ~CorpusRefused(corpus) /\ \A i \in DOMAIN Groups : Findings(Groups[i]) = {}
  PROVE  AInv'
<1>1. stage' = "ended" /\ exit' = class /\ input' = input /\ found' = found
  BY DEF End
<1>2. stage' \notin Checking
  BY <1>1, CheckingIs
<1>3. AllSilent'
  BY <1>1, ScannedStands DEF AllSilent
<1>4. Checking' = Checking
  BY DEF Checking
<1>5. AskedOf' /\ SinkTells' /\ ReportWhole'
  BY <1>1, <1>2, <1>4 DEF AskedOf, SinkTells, ReportWhole
<1>6. QED
  BY <1>1, <1>3, <1>5, ScannedStands DEF AInv

\* A run goes on to a step before the checks.
LEMMA GoKeeps ==
  ASSUME AInv, NEW next, Go(next), next \in {"corpus", "model", "explain", "list"},
         next = "corpus" => ArchcheckUsable,
         next = "explain" => request.operation = "explain_rule",
         next = "model" => ArchcheckUsable /\ request.operation # "explain_rule" /\ ~CorpusRefused(corpus),
         next = "list" => request.operation = "list_rules",
         stage # "ended"
  PROVE  AInv'
<1>1. stage' = next /\ exit' = exit /\ input' = input /\ found' = found
  BY DEF Go
<1>2. exit' # "clean"
  BY <1>1 DEF AInv
<1>3. stage' \notin Checking /\ Checking' = Checking
  BY <1>1, CheckingIs DEF Checking
<1>4. AskedOf'
  BY <1>1, <1>3, ScannedStands DEF AskedOf
<1>5. SinkTells' /\ ReportWhole' /\ AllSilent'
  BY <1>1, <1>2, <1>3 DEF SinkTells, ReportWhole, AllSilent
<1>6. QED
  BY <1>1, <1>2, <1>4, <1>5, ScannedStands DEF AInv

LEMMA ArchcheckArgumentsKeep ==
  ASSUME AInv, ArchcheckArguments
  PROVE  AInv'
<1>1. CASE ArchcheckUsable
  <2>1. Go("corpus") /\ stage # "ended"
    BY <1>1 DEF ArchcheckArguments
  <2>2. QED
    BY <1>1, <2>1, GoKeeps
<1>2. CASE ~ArchcheckUsable
  <2>1. End("usage")
    BY <1>2 DEF ArchcheckArguments
  <2>2. QED
    BY <2>1, EndKeeps
<1>3. QED
  BY <1>1, <1>2

LEMMA LoadCorpusKeeps ==
  ASSUME AInv, LoadCorpus
  PROVE  AInv'
<1>1. stage = "corpus" /\ ArchcheckUsable
  BY DEF LoadCorpus, AInv, AskedOf
<1>2. \/ End("internal")
      \/ Go("explain") /\ request.operation = "explain_rule"
      \/ Go("model") /\ request.operation # "explain_rule" /\ ~CorpusRefused(corpus)
  BY DEF LoadCorpus
<1>3. CASE End("internal")
  BY <1>3, EndKeeps
<1>4. CASE Go("explain") /\ request.operation = "explain_rule"
  BY <1>1, <1>4, GoKeeps
<1>5. CASE Go("model") /\ request.operation # "explain_rule" /\ ~CorpusRefused(corpus)
  BY <1>1, <1>5, GoKeeps
<1>6. QED
  BY <1>2, <1>3, <1>4, <1>5

LEMMA LoadModelKeeps ==
  ASSUME AInv, LoadModel
  PROVE  AInv'
<1>1. stage = "model" /\ ArchcheckUsable /\ request.operation # "explain_rule" /\ ~CorpusRefused(corpus)
  BY DEF LoadModel, AInv, AskedOf
<1>2. \/ End("internal")
      \/ Go("list") /\ request.operation = "list_rules"
      \/ Go(Groups[1]) /\ request.operation # "list_rules"
  BY DEF LoadModel
<1>3. CASE End("internal")
  BY <1>3, EndKeeps
<1>4. CASE Go("list") /\ request.operation = "list_rules"
  BY <1>1, <1>4, GoKeeps
<1>5. CASE Go(Groups[1]) /\ request.operation # "list_rules"
  <2>1. stage' = Groups[1] /\ exit' = exit /\ input' = input /\ found' = found
    BY <1>5 DEF Go
  <2>2. exit' # "clean"
    BY <1>1, <2>1 DEF AInv
  <2>3. request.operation = "check_repository"
    BY <1>1, <1>5 DEF ArchcheckUsable, ArchcheckOperations
  <2>4. stage' \in Checking /\ stage' \notin {"conclude", "report", "ended", "corpus", "model", "explain", "list"}
        /\ Checking' = Checking
    BY <2>1, GroupsAre, CheckingIs DEF Checking
  <2>5. AskedOf'
    BY <1>1, <2>1, <2>3, <2>4, ScannedStands DEF AskedOf
  <2>6. Behind' = {}
    <3>1. SUFFICES ASSUME NEW i \in DOMAIN Groups, NEW j \in DOMAIN Groups, i < j, Groups[1] = Groups[j]
                   PROVE  FALSE
      BY <2>1, <2>4 DEF Behind
    <3>2. j = 1
      BY <3>1, GroupsAre
    <3>3. QED
      BY <3>1, <3>2, GroupsAre
  <2>7. SinkTells'
    BY <2>6 DEF SinkTells
  <2>8. ReportWhole' /\ AllSilent'
    BY <2>2, <2>4 DEF ReportWhole, AllSilent
  <2>9. QED
    BY <2>1, <2>2, <2>5, <2>7, <2>8, ScannedStands DEF AInv
<1>6. QED
  BY <1>2, <1>3, <1>4, <1>5

LEMMA ExplainRuleKeeps ==
  ASSUME AInv, ExplainRule
  PROVE  AInv'
<1>1. request.operation = "explain_rule"
  BY DEF ExplainRule, AInv, AskedOf
<1>2. QED
  BY <1>1, EndKeeps DEF ExplainRule

LEMMA ListRulesKeep ==
  ASSUME AInv, ListRules
  PROVE  AInv'
<1>1. request.operation = "list_rules" /\ stage' = "ended" /\ exit' = "clean" /\ input' = input
  BY DEF ListRules, AInv, AskedOf
<1>2. stage' \notin Checking /\ Checking' = Checking
  BY <1>1, CheckingIs DEF Checking
<1>3. AllSilent'
  BY <1>1, ScannedStands DEF AllSilent
<1>4. AskedOf' /\ SinkTells' /\ ReportWhole'
  BY <1>1, <1>2 DEF AskedOf, SinkTells, ReportWhole
<1>5. QED
  BY <1>1, <1>3, <1>4, ScannedStands DEF AInv

\* What the sink holds after a group, when it is empty.
LEMMA SinkEmpty ==
  ASSUME NEW reported, Sink(reported), found'.findings = {}, ~found'.overflowed, ~found'.unknown
  PROVE  reported = {} /\ found.findings = {} /\ ~found.overflowed /\ ~found.unknown
<1> DEFINE known == found.findings \union {f \in reported : Carries(corpus, f[1])}
           full  == Cardinality(known) > MaxFindings
<1>1. found' = [findings   |-> IF full THEN found.findings ELSE known,
                overflowed |-> found.overflowed \/ full,
                unknown    |-> found.unknown \/ \E f \in reported : ~Carries(corpus, f[1])]
  BY DEF Sink
<1>2. ~(found.overflowed \/ full) /\ ~(found.unknown \/ \E f \in reported : ~Carries(corpus, f[1]))
  BY <1>1
<1>3. known = {}
  BY <1>1, <1>2
<1>4. QED
  BY <1>2, <1>3

LEMMA CheckKeeps ==
  ASSUME AInv, Check
  PROVE  AInv'
<1>1. PICK i \in DOMAIN Groups :
        /\ stage = Groups[i] /\ Sink(Findings(Groups[i]))
        /\ stage' = IF i = Len(Groups) THEN "conclude" ELSE Groups[i + 1]
        /\ input' = input /\ exit' = exit
  BY DEF Check
<1>2. stage \in Checking /\ stage # "ended"
  BY <1>1, CheckingIs, GroupsAre
<1>3. i \in 1..7 /\ (i # 7 => i + 1 \in DOMAIN Groups)
  BY <1>1, GroupsAre
<1>4. stage' \in Checking /\ stage' \notin {"report", "ended", "corpus", "model", "explain", "list"}
      /\ Checking' = Checking
  BY <1>1, <1>3, GroupsAre, CheckingIs DEF Checking
<1>5. exit' # "clean"
  BY <1>1, <1>2 DEF AInv
<1>6. AskedOf'
  BY <1>1, <1>2, <1>4, ScannedStands DEF AInv, AskedOf
<1>7. Behind' \subseteq Behind \union {i}
  <2>1. SUFFICES ASSUME NEW k \in DOMAIN Groups, k \in Behind', k # i
                 PROVE  k \in Behind
    BY DEF Behind
  <2>2. k < i
    <3>1. k \in 1..7
      BY GroupsAre
    <3>2. CASE i = 7
      BY <1>3, <2>1, <3>1, <3>2
    <3>3. CASE i # 7
      <4>1. stage' = Groups[i + 1] /\ i + 1 \in DOMAIN Groups
        BY <1>1, <1>3, <3>3, GroupsAre
      <4>2. stage' \notin {"conclude", "report"}
        BY <4>1, GroupsAre
      <4>3. PICK j \in DOMAIN Groups : k < j /\ stage' = Groups[j]
        BY <2>1, <4>2 DEF Behind
      <4>4. j = i + 1
        BY <4>1, <4>3, GroupsAre
      <4>5. QED
        BY <1>3, <2>1, <3>1, <4>3, <4>4
    <3>4. QED
      BY <3>2, <3>3
  <2>3. QED
    BY <1>1, <2>2 DEF Behind
<1>8. SinkTells'
  <2>1. SUFFICES ASSUME found'.findings = {}, ~found'.overflowed, ~found'.unknown, NEW k \in Behind'
                 PROVE  Findings(Groups[k])' = {}
    BY DEF SinkTells
  <2>2. Findings(Groups[i]) = {} /\ found.findings = {} /\ ~found.overflowed /\ ~found.unknown
    BY <1>1, <2>1, SinkEmpty
  <2>3. \A j \in Behind : Findings(Groups[j]) = {}
    BY <1>2, <2>2 DEF AInv, SinkTells
  <2>4. k \in DOMAIN Groups /\ Findings(Groups[k]) = {}
    BY <1>7, <2>1, <2>2, <2>3 DEF Behind
  <2>5. QED
    BY <1>1, <2>4, ScannedStands
<1>9. ReportWhole' /\ AllSilent'
  BY <1>4, <1>5 DEF ReportWhole, AllSilent
<1>10. QED
  BY <1>1, <1>5, <1>6, <1>8, <1>9, ScannedStands DEF AInv

\* When all groups are behind it, a run knows what each of them reported.
LEMMA AllBehind ==
  ASSUME stage \in {"conclude", "report"}
  PROVE  Behind = DOMAIN Groups /\ stage \in Checking
BY CheckingIs DEF Behind

LEMMA ConcludeKeeps ==
  ASSUME AInv, Conclude
  PROVE  AInv'
<1>1. stage = "conclude" /\ stage \in Checking
  BY AllBehind DEF Conclude
<1>2. CASE found.unknown \/ found.overflowed
  <2>1. End("internal")
    BY <1>2 DEF Conclude
  <2>2. QED
    BY <2>1, EndKeeps
<1>3. CASE ~(found.unknown \/ found.overflowed)
  <2>1. stage' = "report" /\ input' = input /\ exit' = exit /\ found' = found
    BY <1>3 DEF Conclude, Go
  <2>2. stage' \in Checking /\ Checking' = Checking
    BY <2>1, CheckingIs DEF Checking
  <2>3. exit' # "clean"
    BY <1>1, <2>1 DEF AInv
  <2>4. AskedOf'
    BY <1>1, <2>1, <2>2, ScannedStands DEF AInv, AskedOf
  <2>5. Behind = DOMAIN Groups
    BY <1>1, AllBehind
  <2>6. SinkTells'
    <3>1. SUFFICES ASSUME found.findings = {}, ~found.overflowed, ~found.unknown, NEW k \in Behind'
                   PROVE  Findings(Groups[k])' = {}
      BY <2>1 DEF SinkTells
    <3>2. k \in DOMAIN Groups
      BY DEF Behind
    <3>3. Findings(Groups[k]) = {}
      BY <1>1, <2>5, <3>1, <3>2 DEF AInv, SinkTells
    <3>4. QED
      BY <2>1, <3>2, <3>3, ScannedStands
  <2>7. ReportWhole' /\ AllSilent'
    BY <1>3, <2>1, <2>3 DEF ReportWhole, AllSilent
  <2>8. QED
    BY <2>1, <2>3, <2>4, <2>6, <2>7, ScannedStands DEF AInv
<1>4. QED
  BY <1>2, <1>3

LEMMA WriteReportKeeps ==
  ASSUME AInv, WriteReport
  PROVE  AInv'
<1>1. stage = "report" /\ stage \in Checking /\ Behind = DOMAIN Groups
  BY AllBehind DEF WriteReport
<1>2. ~found.overflowed /\ ~found.unknown /\ ~CorpusRefused(corpus)
  BY <1>1 DEF AInv, ReportWhole, AskedOf
<1>3. CASE End("internal")
  BY <1>3, EndKeeps
<1>4. CASE End("clean") /\ found.findings = {}
  <2>1. \A i \in DOMAIN Groups : Findings(Groups[i]) = {}
    BY <1>1, <1>2, <1>4 DEF AInv, SinkTells
  <2>2. QED
    BY <1>2, <1>4, <2>1, EndKeeps
<1>5. CASE End("findings")
  BY <1>5, EndKeeps
<1>6. QED
  BY <1>3, <1>4, <1>5 DEF WriteReport

LEMMA ArchcheckStutters ==
  ASSUME AInv, UNCHANGED vars
  PROVE  AInv'
<1>1. input' = input /\ stage' = stage /\ found' = found /\ exit' = exit
  BY DEF vars
<1>2. Checking' = Checking /\ Behind' = Behind
  BY <1>1 DEF Checking, Behind
<1>3. AskedOf' /\ ReportWhole'
  BY <1>1, <1>2, ScannedStands DEF AInv, AskedOf, ReportWhole
<1>4. SinkTells'
  <2>1. \A i \in Behind : i \in DOMAIN Groups
    BY DEF Behind
  <2>2. QED
    BY <1>1, <1>2, <2>1, ScannedStands DEF AInv, SinkTells
<1>5. AllSilent'
  BY <1>1, ScannedStands DEF AInv, AllSilent
<1>6. QED
  BY <1>1, <1>3, <1>4, <1>5, ScannedStands DEF AInv

\* A run of rf-archcheck that has seen nothing amiss was told so by every group of
\* checks behind it, and a clean exit of a check by all of them.
THEOREM ArchcheckInvariant == ArchcheckSpec => []AInv
<1>1. AInv /\ [ArchcheckNext]_vars => AInv'
  BY ArchcheckArgumentsKeep, LoadCorpusKeeps, LoadModelKeeps, ExplainRuleKeeps, ListRulesKeep,
     CheckKeeps, ConcludeKeeps, WriteReportKeeps, ArchcheckStutters DEF ArchcheckNext
<1>2. QED
  BY <1>1, ArchcheckBegins, PTL DEF ArchcheckSpec

\* Groups that are all silent are about a clean checkout.
LEMMA SilenceIsClean ==
  ASSUME IsScanned(tree), ~CorpusRefused(corpus), \A i \in DOMAIN Groups : Findings(Groups[i]) = {}
  PROVE  /\ Acyclic /\ EveryIncludeDeclared
         /\ LaneFits => HermeticBuild /\ UnconditionalEdges
         /\ ExactMembership /\ RulesAccountedFor
<1>1. /\ CheckManifestAndIndex(tree, corpus) = {} /\ CheckMembershipReality(tree) = {}
      /\ CheckDependencyEdges(tree) = {} /\ CheckNegativeClosures(tree) = {}
      /\ CheckSourceHygiene(tree) = {}
  <2>1. DOMAIN Groups = 1..7 /\ Groups[1] = "manifests" /\ Groups[2] = "membership" /\ Groups[3] = "edges"
        /\ Groups[4] = "closures" /\ Groups[5] = "hygiene"
    BY GroupsAre DEF Groups
  <2>2. Findings("manifests") = {} /\ Findings("membership") = {} /\ Findings("edges") = {}
        /\ Findings("closures") = {} /\ Findings("hygiene") = {}
    BY <2>1
  <2>3. QED
    BY <2>2 DEF Findings
<1>2. ~HasCycle(Modules(tree))
  <2> DEFINE cycles == {c \in {"cycle"} : HasCycle(Modules(tree))}
  <2>1. Report("RA3003", cycles) \subseteq CheckDependencyEdges(tree)
    BY DEF CheckDependencyEdges
  <2> HIDE DEF cycles
  <2>2. cycles = {}
    BY <1>1, <2>1, Silent
  <2>3. QED
    BY <2>2 DEF cycles
<1>3. MaxFiles \in Nat
  BY ArchcheckAssumption
<1>4. Acyclic /\ EveryIncludeDeclared
  BY <1>1, <1>2, AcyclicWhenSilent, IncludesWhenSilent
<1>5. LaneFits => HermeticBuild /\ UnconditionalEdges
  BY <1>1, <1>3, HermeticWhenSilent, UnconditionalWhenSilent
<1>6. ExactMembership /\ RulesAccountedFor
  BY <1>1, MembershipWhenSilent, RulesWhenSilent
<1>7. QED
  BY <1>4, <1>5, <1>6

\* CleanIsEarned holds of every run: the search for cycles, the walk of the build
\* lane, the scan for guards and the rules say of every checkout what they mean to.
THEOREM EarnedClean == ArchcheckSpec => []CleanIsEarned
<1>1. AInv => CleanIsEarned
  BY SilenceIsClean DEF AInv, AllSilent, CleanIsEarned
<1>2. QED
  BY <1>1, ArchcheckInvariant, PTL
====
