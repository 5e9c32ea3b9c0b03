---- MODULE EvidenceTrees ----
(***************************************************************************)
(* Checkouts for rf-evidence: one that every operation accepts, the trees  *)
(* that differ from it in one respect, and the trees in which a directory  *)
(* cannot be opened while something it should have met is amiss.           *)
(***************************************************************************)
EXTENDS ToolRun, Naturals, Sequences, TLC

Spell(dirs, name, ext) ==
  (IF dirs = <<>> THEN name ELSE dirs[Len(dirs)] \o "/" \o name)
    :> [dir |-> IF dirs = <<>> THEN "" ELSE dirs[Len(dirs)], dirs |-> {dirs[i] : i \in 1..Len(dirs)},
        top |-> IF dirs = <<>> THEN name ELSE dirs[1], name |-> name, ext |-> ext, admissible |-> TRUE]

OneTool     == <<"tools", "tools/rf_evidence">>
OtherTool   == <<"tools", "tools/rf_verify">>
Workflows   == <<".github", ".github/workflows">>
Maintained  == <<"evidence", "evidence/policies">>
BaseModule  == <<"source", "source/base">>

Spelling ==
     Spell(<<>>, "repository.json", ".json")
  @@ Spell(<<>>, "notes.txt", ".txt")
  @@ Spell(OneTool, "tool.json", ".json")
  @@ Spell(OneTool, "CMakeLists.txt", ".txt")
  @@ Spell(OneTool \o <<"tools/rf_evidence/tests">>, "CMakeLists.txt", ".txt")
  @@ Spell(OneTool \o <<"tools/rf_evidence/src">>, "main.cpp", ".cpp")
  @@ Spell(OtherTool, "tool.json", ".json")
  @@ Spell(OtherTool, "CMakeLists.txt", ".txt")
  @@ Spell(OtherTool \o <<"tools/rf_verify/tests">>, "CMakeLists.txt", ".txt")
  @@ Spell(<<"tools", "tools/other">>, "tool.json", ".json")
  @@ Spell(<<"Tools", "Tools/rf_verify">>, "tool.json", ".json")
  @@ Spell(Workflows, "ci.yml", ".yml")
  @@ Spell(<<"ci", "ci/images">>, "Dockerfile", "")
  @@ Spell(<<"evidence">>, "evidence.json", ".json")
  @@ Spell(<<"evidence">>, "receipt.json", ".json")
  @@ Spell(<<"evidence">>, "Evidence.json", ".json")
  @@ Spell(<<"evidence", "evidence/registries">>, "metrics.json", ".json")
  @@ Spell(Maintained, "ci.json", ".json")
  @@ Spell(Maintained, "late.json", ".json")
  @@ Spell(BaseModule, "module.json", ".json")
  @@ Spell(<<"docs">>, "README.md", ".md")
  @@ Spell(<<"docs">>, "readme.md", ".md")
  @@ Spell(<<"docs">>, "a.md", ".md") @@ Spell(<<"docs">>, "b.md", ".md") @@ Spell(<<"docs">>, "c.md", ".md")
  @@ Spell(<<"schemas">>, "extra.schema.json", ".schema.json")
  @@ Spell(<<"out">>, "x.json", ".json")
  @@ Spell(<<".codex">>, "x.json", ".json")
  @@ Spell(<<"apps">>, "x.json", ".json")
  @@ Spell(<<"cmake">>, "module.json", ".json")
  @@ Spell(<<"source">>, "stray.cpp", ".cpp")
  @@ "../x" :> [dir |-> "..", dirs |-> {".."}, top |-> "..", name |-> "x", ext |-> "", admissible |-> FALSE]

Folded ==
  [s \in {"Zip", "Zip.archive", "Actions", "docs/README.md", "Tools", "Tools/rf_verify/tool.json", "Rf_Verify",
          "evidence/Evidence.json"} |->
     CASE s = "Zip" -> "zip" [] s = "Zip.archive" -> "zip.archive" [] s = "Actions" -> "actions"
       [] s = "docs/README.md" -> "docs/readme.md" [] s = "Rf_Verify" -> "rf_verify"
       [] s = "Tools" -> "tools" [] s = "evidence/Evidence.json" -> "evidence/evidence.json"
       [] s = "Tools/rf_verify/tool.json" -> "tools/rf_verify/tool.json"]

ByteOrder ==
     "../x" :> 1 @@ "Tools/rf_verify/tool.json" :> 2 @@ "tools/other/tool.json" :> 3
  @@ "tools/rf_evidence/tool.json" :> 4 @@ "tools/rf_verify/tool.json" :> 5 @@ "cmake/module.json" :> 6
  @@ "Zip" :> 1 @@ "llvm" :> 2 @@ "ninja" :> 3 @@ "zip" :> 4

Admission == [catalog |-> 4, licences |-> 2, materials |-> 1, artifacts |-> 3, verifiers |-> 1, managed |-> 1]

Ordinary == [kind |-> "regular", lines |-> 10, installs |-> FALSE, uses |-> {}, digests |-> {}]

UseOf(local, action, commit) == [local |-> local, action |-> action, commit |-> commit]

Mit == [spdx |-> "MIT", redistribution |-> "allowed", approval |-> "approved"]

CatalogEntry(id) == [id |-> id, provider |-> "lock", terms |-> Mit, advisories |-> "watched"]

Licence(id, covers) ==
  [id |-> id, material |-> "third_party/licenses/notices.md", section |-> "mit", covers |-> covers, terms |-> Mit]

Artifact(id, catalogId) ==
  [id |-> id, catalogId |-> catalogId, licence |-> "mit.tools", required |-> FALSE, scheme |-> "none",
   verifiers |-> <<>>, archive |-> "root" :> 1, platform |-> "platform.any", digest |-> id, bytes |-> 1,
   prepares |-> {}]

Fetch(id, catalogId, kind, reference, pin) ==
  [id |-> id, catalogId |-> catalogId, licence |-> "mit.hosted", kind |-> kind, reference |-> reference, pin |-> pin]

ToolManifest(id, thirdParty, managedTools) ==
  [id |-> id, target |-> id, policy |-> TRUE, tools |-> <<>>, modules |-> <<>>, thirdParty |-> thirdParty,
   managedTools |-> managedTools, distribution |-> [repositoryOnly |-> TRUE, elsewhere |-> {}]]

Authority(class, media, path) == [class |-> class, media |-> media, path |-> path]

Registry == Authority("metric_registry", "metric registry v1", "evidence/registries/metrics.json")
Policy   == Authority("evaluation_policy", "evaluation policy v1", "evidence/policies/ci.json")

AcceptedFiles ==
  [p \in {"repository.json", "tools/rf_evidence/tool.json", "tools/rf_evidence/CMakeLists.txt",
          "tools/rf_evidence/tests/CMakeLists.txt", "tools/rf_evidence/src/main.cpp",
          "tools/rf_verify/tool.json", "tools/rf_verify/CMakeLists.txt",
          "tools/rf_verify/tests/CMakeLists.txt", ".github/workflows/ci.yml", "ci/images/Dockerfile",
          "evidence/evidence.json", "evidence/registries/metrics.json", "evidence/policies/ci.json",
          "source/base/module.json", "docs/README.md", "schemas/extra.schema.json", "out/x.json",
          ".codex/x.json", "notes.txt"} |->
     CASE p = ".github/workflows/ci.yml" ->
            [Ordinary EXCEPT !.uses = {UseOf(TRUE, <<"here">>, None), UseOf(FALSE, <<"Actions", "cache", "save">>, "c1"),
                                       UseOf(FALSE, <<"actions", "cache", "restore">>, "c1")}]
       [] p = "ci/images/Dockerfile" -> [Ordinary EXCEPT !.digests = {"d1"}]
       [] OTHER -> Ordinary]

AcceptedTree ==
  [files |-> AcceptedFiles,
   listing |-> [p \in DOMAIN Spelling |-> 1],
   closed |-> {}, malformed |-> {}, oracle |-> TRUE,
   repository |-> [version |-> 4, tools |-> <<"tools/rf_evidence/tool.json", "tools/rf_verify/tool.json">>,
                   evidenceIndex |-> "evidence/evidence.json", modules |-> <<"source/base/module.json">>,
                   targets |-> <<>>, packagingPolicies |-> <<>>, profiles |-> <<>>],
   manifests |-> "tools/rf_evidence/tool.json" :> ToolManifest("rf_evidence", <<"zip">>, <<"llvm">>)
              @@ "tools/rf_verify/tool.json"   :> ToolManifest("rf_verify", <<"llvm", "zip">>, <<>>),
   authorities |-> <<Registry, Policy>>,
   documents |-> [p \in {"evidence/registries/metrics.json", "evidence/policies/ci.json",
                         "evidence/policies/late.json"} |-> [generation |-> 1, binds |-> TRUE]],
   catalog |-> <<CatalogEntry("zip"), CatalogEntry("llvm"), CatalogEntry("cache"), CatalogEntry("ubuntu")>>,
   texts |-> "third_party/licenses/notices.md" :> [identity |-> 1, sections |-> {"mit"}],
   licences |-> [version |-> 1,
                 materials |-> <<[path |-> "third_party/licenses/notices.md", placed |-> TRUE, identity |-> 1]>>,
                 entries |-> <<Licence("mit.tools", <<"zip", "llvm">>), Licence("mit.hosted", <<"cache", "ubuntu">>)>>],
   artifacts |-> <<[Artifact("zip.archive", "zip") EXCEPT !.prepares =
                      {[path |-> "seven_zip/7zz", bytes |-> 2, digest |-> "7zz"]}],
                   [Artifact("llvm.key", "llvm") EXCEPT !.platform = "platform.windows",
                                                        !.archive = "roots" :> 2],
                   [Artifact("llvm.tar", "llvm") EXCEPT !.required = TRUE, !.scheme = "gpg",
                      !.verifiers = <<"llvm.key">>, !.archive = "rootless" :> [top |-> 1, entries |-> 2]]>>,
   fetches |-> <<Fetch("cache.action", "cache", "github_action", <<"actions", "cache">>, "c1"),
                 Fetch("ubuntu.image", "ubuntu", "container_image", <<"ubuntu">>, "d1")>>,
   toolchain |-> [version |-> 1, verifiers |-> <<"llvm.key">>,
                  managed |-> <<[id |-> "llvm", artifacts |-> <<"llvm.tar">>]>>, sdk |-> TRUE],
   cache |-> [d \in {"zip.archive", "llvm.key", "llvm.tar"} |-> [bytes |-> 1, digest |-> d]],
   prepared |-> "seven_zip/7zz" :> [bytes |-> 2, digest |-> "7zz"],
   markers |-> {"cmake", "cosign", "gnupg", "seven_zip"}, cmake |-> "4.4.0", provenance |-> TRUE]

(***************************************************************************)
(* What differs.                                                           *)
(***************************************************************************)
Holding(p, file) == [AcceptedTree EXCEPT !.files = (p :> file) @@ @]

Leaving(p) == [AcceptedTree EXCEPT !.files = [q \in DOMAIN @ \ {p} |-> @[q]]]

Link == [Ordinary EXCEPT !.kind = "link"]

Licensing(entries) == [AcceptedTree EXCEPT !.licences.entries = entries]

Declared(p, field, value) == [AcceptedTree EXCEPT !.manifests[p][field] = value]

Using(uses) == Holding(".github/workflows/ci.yml", [Ordinary EXCEPT !.uses = uses])

T == AcceptedTree

Memberships ==
  <<[T EXCEPT !.oracle = FALSE], [T EXCEPT !.repository.version = 3],
    [T EXCEPT !.repository.tools = <<>>],
    [T EXCEPT !.repository.tools = <<"tools/rf_verify/tool.json", "tools/rf_evidence/tool.json">>],
    [T EXCEPT !.repository.tools = <<"tools/rf_evidence/tool.json">>],
    [T EXCEPT !.repository.tools = <<"../x">> \o @],
    [T EXCEPT !.repository.tools = <<"tools/other/tool.json">> \o @],
    [T EXCEPT !.repository.tools = <<"Tools/rf_verify/tool.json">> \o @,
              !.manifests = "Tools/rf_verify/tool.json" :> ToolManifest("other", <<>>, <<>>) @@ @],
    [T EXCEPT !.malformed = {"catalog"}], [T EXCEPT !.malformed = {"licences"}],
    [T EXCEPT !.malformed = {"artifacts"}], [T EXCEPT !.malformed = {"tools/rf_verify/tool.json"}],
    [T EXCEPT !.malformed = {"evidence/evidence.json"}], [T EXCEPT !.malformed = {"evidence/policies/ci.json"}],
    Declared("tools/rf_verify/tool.json", "policy", FALSE),
    Declared("tools/rf_verify/tool.json", "id", "rf_evidence"),
    Declared("tools/rf_evidence/tool.json", "target", "Rf_Verify"),
    Declared("tools/rf_verify/tool.json", "thirdParty", <<"zip", "llvm">>),
    Declared("tools/rf_verify/tool.json", "thirdParty", <<"ninja">>),
    Declared("tools/rf_verify/tool.json", "thirdParty", <<"Zip">>),
    Declared("tools/rf_verify/tool.json", "managedTools", <<"zip">>),
    Declared("tools/rf_verify/tool.json", "modules", <<"zip">>),
    Declared("tools/rf_verify/tool.json", "distribution", [repositoryOnly |-> FALSE, elsewhere |-> {}]),
    Declared("tools/rf_verify/tool.json", "distribution", [repositoryOnly |-> TRUE, elsewhere |-> {"sdkExposure"}]),
    Holding("tools/other/tool.json", Ordinary), Holding("tools/other/tool.json", Link),
    [T EXCEPT !.repository.evidenceIndex = "../x"], Leaving("evidence/evidence.json"),
    [T EXCEPT !.authorities = <<[Registry EXCEPT !.class = "baseline"], Policy>>],
    [T EXCEPT !.authorities = <<[Registry EXCEPT !.media = Policy.media], Policy>>],
    [T EXCEPT !.authorities = <<[Registry EXCEPT !.path = "../x"], Policy>>],
    [T EXCEPT !.authorities = <<Registry, Policy, Policy>>],
    [T EXCEPT !.authorities = <<Registry>>], [T EXCEPT !.authorities = <<Policy>>],
    [T EXCEPT !.authorities = @ \o @], Leaving("evidence/policies/ci.json"),
    Holding("evidence/policies/late.json", Link), Holding("evidence/receipt.json", Ordinary),
    Holding("evidence/Evidence.json", Ordinary)>>

Licences ==
  <<[T EXCEPT !.catalog = Tail(@)], [T EXCEPT !.catalog = <<CatalogEntry("Zip")>> \o @],
    [T EXCEPT !.catalog[1].id = "Zip"],
    [T EXCEPT !.catalog[1].provider = None], [T EXCEPT !.catalog[1].terms.approval = "restricted"],
    [T EXCEPT !.catalog[2].advisories = "ignored"],
    [T EXCEPT !.catalog[1].advisories = None], [T EXCEPT !.catalog[2].advisories = None],
    [T EXCEPT !.licences.version = 2], [T EXCEPT !.licences.materials = <<>>],
    [T EXCEPT !.licences.materials[1].placed = FALSE], [T EXCEPT !.licences.materials[1].identity = 2],
    [T EXCEPT !.licences.materials = @ \o @], [T EXCEPT !.texts["third_party/licenses/notices.md"].sections = {}],
    Licensing(<<Licence("mit.tools", <<"zip", "llvm">>)>>),
    Licensing(<<Licence("mit.tools", <<"zip", "llvm">>), Licence("mit.hosted", <<>>)>>),
    Licensing(<<Licence("mit.tools", <<"zip", "llvm">>), Licence("mit.hosted", <<"cache">>)>>),
    Licensing(<<Licence("mit.tools", <<"zip", "llvm">>), Licence("mit.hosted", <<"cache", "ubuntu", "zip">>)>>),
    Licensing(<<Licence("mit.tools", <<"zip", "llvm">>), Licence("mit.hosted", <<"cache", "ubuntu", "Zip">>)>>),
    Licensing(<<Licence("mit.tools", <<"zip", "llvm">>), Licence("mit.tools", <<"cache", "ubuntu">>)>>),
    Licensing(<<Licence("mit.tools", <<"zip", "ninja">>), Licence("mit.hosted", <<"cache", "ubuntu">>)>>),
    Licensing(<<[Licence("mit.tools", <<"zip", "llvm">>) EXCEPT !.material = "notices"],
                Licence("mit.hosted", <<"cache", "ubuntu">>)>>)>>

Locks ==
  <<[T EXCEPT !.artifacts = Tail(@)], [T EXCEPT !.artifacts[1].catalogId = "ninja"],
    [T EXCEPT !.artifacts[1].licence = "none"], [T EXCEPT !.artifacts[1].id = "llvm.key"],
    [T EXCEPT !.artifacts[1].required = TRUE], [T EXCEPT !.artifacts[3].verifiers = <<"gone">>],
    [T EXCEPT !.artifacts[3].verifiers = @ \o @], [T EXCEPT !.artifacts[3].scheme = "gpg_sigstore"],
    [T EXCEPT !.artifacts[1].archive = [a \in {"root", "roots"} |-> 2]],
    [T EXCEPT !.artifacts[2].archive = "roots" :> 1],
    [T EXCEPT !.artifacts[3].archive["rootless"].top = 3],
    [T EXCEPT !.fetches[1].id = "Zip.archive"], [T EXCEPT !.fetches[1].id = "ubuntu.image"],
    [T EXCEPT !.fetches[1].catalogId = "ninja"], [T EXCEPT !.fetches[1].pin = "c2"],
    [T EXCEPT !.fetches[1].reference = <<"actions", "cache", "save">>],
    [T EXCEPT !.fetches[2].pin = "d2"], [T EXCEPT !.fetches = Tail(@)],
    Using({}), Using({UseOf(FALSE, <<"actions", "cache">>, None)}),
    Using({UseOf(FALSE, <<"actions", "cache">>, "c1"), UseOf(FALSE, <<"actions", "cache">>, "c2")}),
    Using({UseOf(FALSE, <<"actions", "cache">>, "c1"), UseOf(FALSE, <<"checkout">>, "c1")}),
    Leaving(".github/workflows/ci.yml"), Leaving("ci/images/Dockerfile"),
    [T EXCEPT !.toolchain.version = 2], [T EXCEPT !.toolchain.verifiers = @ \o @],
    [T EXCEPT !.toolchain.verifiers = <<"gone">>], [T EXCEPT !.toolchain.verifiers = <<"cache.action">>],
    [T EXCEPT !.toolchain.managed[1].id = "ninja"], [T EXCEPT !.toolchain.managed[1].artifacts = <<"gone">>],
    [T EXCEPT !.toolchain.managed = @ \o @], [T EXCEPT !.toolchain.sdk = FALSE]>>

Audited ==
  <<[T EXCEPT !.files = [p \in {"docs/a.md", "docs/b.md", "docs/c.md"} |-> Ordinary] @@ @],
    Holding("tools/rf_evidence/src/main.cpp", [Ordinary EXCEPT !.lines = 1500]),
    Holding("tools/rf_evidence/src/main.cpp", Link),
    Holding("tools/rf_verify/CMakeLists.txt", [Ordinary EXCEPT !.installs = TRUE]),
    Holding("tools/rf_verify/tests/CMakeLists.txt", [Ordinary EXCEPT !.installs = TRUE]),
    Leaving("tools/rf_verify/tests/CMakeLists.txt"),
    [Leaving("tools/rf_verify/tests/CMakeLists.txt")
       EXCEPT !.files["tools/rf_verify/CMakeLists.txt"].installs = TRUE],
    [T EXCEPT !.repository.profiles = <<"tools/rf_verify/tool.json">>],
    [T EXCEPT !.repository.tools = <<"cmake/module.json">>,
              !.manifests = "cmake/module.json" :> ToolManifest("late", <<>>, <<>>) @@ @],
    Holding("apps/x.json", Ordinary), Holding("cmake/module.json", Ordinary),
    Holding("source/stray.cpp", Ordinary), Holding("docs/readme.md", Link), Leaving("repository.json"),
    [T EXCEPT !.documents["evidence/policies/ci.json"].generation = 2],
    [T EXCEPT !.documents["evidence/policies/ci.json"].binds = FALSE],
    [T EXCEPT !.files = "evidence/policies/late.json" :> Ordinary @@ @,
              !.authorities = @ \o <<[Registry EXCEPT !.path = "evidence/policies/late.json"]>>],
    [T EXCEPT !.artifacts = [i \in DOMAIN @ |-> [@[i] EXCEPT !.platform = "platform.linux"]]],
    [T EXCEPT !.artifacts[1].prepares = None], [T EXCEPT !.artifacts[1].digest = "lost"],
    [T EXCEPT !.cache["llvm.key"].bytes = 2], [T EXCEPT !.cache["llvm.tar"].digest = "other"],
    [T EXCEPT !.prepared["seven_zip/7zz"].digest = "other"],
    [T EXCEPT !.markers = @ \ {"gnupg"}], [T EXCEPT !.cmake = "4.3.0"], [T EXCEPT !.provenance = FALSE]>>

\* A directory that cannot be opened, before or after the rest of what a walk meets.
Shutting(tree_, dir, place) ==
  [tree_ EXCEPT !.closed = {dir}, !.listing = [p \in DOMAIN @ |-> IF dir \in Spelling[p].dirs THEN place ELSE 1]]

Closed ==
  {"closed"} \X {"tools/rf_evidence/src", "evidence/policies", ".github/workflows", "ci/images", "source"}
    \X {0, 2} \X {"accepted", "unlisted", "stray"}

Closing(k) ==
  Shutting(CASE k[4] = "accepted" -> T
             [] k[4] = "unlisted" -> Holding("evidence/receipt.json", Ordinary)
             [] k[4] = "stray"    -> Holding("tools/other/tool.json", Ordinary), k[2], k[3])

MCEvidenceTrees ==
  [k \in {<<"accepted">>} \union ({"membership"} \X DOMAIN Memberships) \union ({"licence"} \X DOMAIN Licences)
           \union ({"lock"} \X DOMAIN Locks) \union ({"audited"} \X DOMAIN Audited) \union Closed
   |-> CASE k[1] = "accepted"   -> AcceptedTree
         [] k[1] = "membership" -> Memberships[k[2]]
         [] k[1] = "licence"    -> Licences[k[2]]
         [] k[1] = "lock"       -> Locks[k[2]]
         [] k[1] = "audited"    -> Audited[k[2]]
         [] k[1] = "closed"     -> Closing(k)]

EvidenceOperations ==
  {"validate repository", "graph repository", "explain dependency", "inspect source-ownership",
   "load evidence-index", "audit shipping-closure", "review licenses", "audit paths", "verify-offline",
   "put blob", "graph module"}

\* Every operation over every tree; every form of command line over the accepted one.
MCEvidenceInvocations ==
  [tool : {"rf-evidence"},
   request : [operation : EvidenceOperations, escalates : {FALSE}, wellFormed : {TRUE}, rootResolves : {TRUE},
              report : {None}, tool : {"rf_verify"}, host : {"windows-x86_64"}],
   tree : DOMAIN MCEvidenceTrees]
  \union
  [tool : {"rf-evidence"},
   request : [operation : EvidenceOperations, escalates : BOOLEAN, wellFormed : BOOLEAN, rootResolves : BOOLEAN,
              report : {None, "placed", "outside"}, tool : {None, "rf_verify", "other"},
              host : {None, "linux-x86_64", "macos"}],
   tree : {<<"accepted">>}]
====
