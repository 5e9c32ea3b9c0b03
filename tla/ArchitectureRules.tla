---- MODULE ArchitectureRules ----
(***************************************************************************)
(* What rf-archcheck makes of a checkout: the walk over it, the model it   *)
(* loads, and the seven groups of checks, each an operator from the model  *)
(* to findings.                                                            *)
(*                                                                         *)
(* A tree is a record: files maps a path to what is there, index is what   *)
(* repository.json lists, catalog the third-party catalogue.  A path is a  *)
(* name, and Of what the code reads off its characters: its directory and  *)
(* all above it, which zones it lies in (/src/, /include/, /tests/,        *)
(* /targets/), name and extension; an empty directory is an entry too.     *)
(* What it reads off a file's text (includes, build commands, members) are *)
(* fields of the file.  A module identity is the sequence of its segments  *)
(* after "rawframe".  A finding is <<rule, subject>>, the subject with its *)
(* place in the file or array where the code reports one.                  *)
(***************************************************************************)
EXTENDS ToolRun, Naturals, Sequences, FiniteSets, SequencesExt, FiniteSetsExt, Functions

CONSTANTS
  Of,                \* what a path's characters say
  MaxDepth,          \* kMaximumDirectoryDepth
  MaxFiles,          \* kMaximumScannedFiles
  MaxRules           \* kMaximumRules

Report(rule, subjects) == {<<rule, s>> : s \in subjects}

(***************************************************************************)
(* The walk.                                                               *)
(***************************************************************************)
Unwalked == {".git", "out"}

MetByWalk(t) == {p \in DOMAIN t.files : Of[p].top \notin Unwalked}

Walked(t) == {p \in MetByWalk(t) : t.files[p].kind # "directory"}

\* The walk refuses the tree rather than leave out what it cannot name.
WalkRefused(t) ==
  \/ \E p \in MetByWalk(t) : \/ t.files[p].kind \notin {"regular", "directory"}
                             \/ ~Of[p].admissible
                             \/ Of[p].depth > MaxDepth
  \/ Cardinality(Walked(t)) > MaxFiles

HasFile(t, p) == p \in Walked(t)

HasDirectory(t, d) ==
  \/ \E p \in MetByWalk(t) : d \in Of[p].dirs
  \/ d \in MetByWalk(t) \ Walked(t)

\* The path ends in a slash and the name: at the top it does not.
Called(p, name) == Of[p].name = name /\ Of[p].dirs # {}

\* readTextFile.  The checks pass over what it refuses.
Readable(t, p) == p \in DOMAIN t.files /\ t.files[p].kind = "regular" /\ ~t.files[p].big

FirstPartySource(p) == Of[p].ext \in {".cpp", ".h"} /\ Of[p].top \in {"tools", "source"}

(***************************************************************************)
(* The model.                                                              *)
(***************************************************************************)
MembershipNames == {"modules", "targets", "platforms", "configurations", "instrumentations",
                    "packagingPolicies", "profiles", "tools"}

ListedPaths(t) == UNION {Range(t.index[n]) : n \in MembershipNames}

Parses(t, p) == Readable(t, p) /\ t.files[p].json # None

\* A listed manifest that is there has to parse; one that is absent is left to
\* the rules.
ModelRefused(t) ==
  \/ WalkRefused(t)
  \/ ~Parses(t, "repository.json")
  \/ \E p \in ListedPaths(t) : HasFile(t, p) /\ ~Parses(t, p)

\* The manifests present; the corpus is one of them when the walk met it.
Manifests(t) ==
  LET corpora == {p \in {t.corpusPath} : HasFile(t, p)}
  IN {p \in {"repository.json"} \union ListedPaths(t) \union corpora : Parses(t, p)}

Named(t, name) == {p \in Manifests(t) : Called(p, name)}

Manifest(t, p) == t.files[p].json

Tools(t) == {p \in Manifests(t) : p \in Range(t.index["tools"])}

\* The catalogue is read, not judged: without one nothing is third-party.
CatalogEntries(t) ==
  IF Parses(t, "third_party/catalog.json") THEN t.catalog ELSE {}

\* Where the build file p leads, in the order of its lines.
LeadsTo(t, p) == IF Readable(t, p) THEN t.files[p].subdirectories ELSE <<>>

\* One more file of the lane: the first pending one that is not in it yet, before
\* the rest what it leads to.
FollowBuildLane(t, at) ==
  LET new  == {i \in DOMAIN at.pending : at.pending[i] \notin at.lane}
      next == Min(new)
      p    == at.pending[next]
  IN IF new = {} THEN at
     ELSE [lane    |-> at.lane \union {p},
           pending |-> LeadsTo(t, p) \o SubSeq(at.pending, next + 1, Len(at.pending))]

\* The lane is full at the ceiling, and ends there without a word.
BuildLane(t) ==
  LET followed[n \in 0..MaxFiles] ==
        IF n = 0 THEN [lane |-> {}, pending |-> <<"CMakeLists.txt">>]
        ELSE FollowBuildLane(t, followed[n - 1])
  IN followed[MaxFiles].lane

ReadableLane(t) == {p \in BuildLane(t) : Readable(t, p)}

\* What the readable build files say, line by line.
LaneLines(t) ==
  UNION {{[path |-> p, line |-> i, command |-> t.files[p].lines[i].command,
           names |-> t.files[p].lines[i].names] : i \in DOMAIN t.files[p].lines}
         : p \in ReadableLane(t)}

(***************************************************************************)
(* The rule corpus.  A seal is taken to be what it seals: the members of   *)
(* every rule, in order.                                                   *)
(***************************************************************************)
SealRules(rules) == rules

CorpusRefused(c) ==
  \/ c = None
  \/ c.policyVersion < 1
  \/ c.history = <<>>
  \/ \E i \in 1..(Len(c.history) - 1) : c.history[i + 1].version <= c.history[i].version
  \/ c.rules = <<>>
  \/ Len(c.rules) > MaxRules
  \/ \E i \in DOMAIN c.rules : ~c.rules[i].wellFormed
  \/ \E i \in 1..(Len(c.rules) - 1) : c.rules[i].number >= c.rules[i + 1].number

Carries(c, rule) == \E i \in DOMAIN c.rules : c.rules[i].id = rule

(***************************************************************************)
(* checkManifestAndIndex: RA1002 to RA1006.                                *)
(***************************************************************************)
\* One explicit manifest path: no wildcard, no bare directory.
LooksLikeManifestPath(p) == Of[p].explicit

Twice(seq, i) == \E j \in DOMAIN seq \ {i} : seq[j] = seq[i]

MembershipFindings(t) ==
  UNION {Report("RA1003",
           {<<n, i>> : i \in {j \in DOMAIN t.index[n] :
                                \/ ~LooksLikeManifestPath(t.index[n][j])
                                \/ Twice(t.index[n], j)
                                \/ ~HasFile(t, t.index[n][j])}})
         : n \in MembershipNames \ {"tools"}}

ToolFindings(t) ==
  LET tools == t.index["tools"]
      NotItsManifest(p) == ~Called(p, "tool.json")
  IN Report("RA1004",
       {<<"repository.json", i>> : i \in {j \in DOMAIN tools : \/ Twice(tools, j)
                                                     \/ ~LooksLikeManifestPath(tools[j])
                                                     \/ NotItsManifest(tools[j])
                                                     \/ ~HasFile(t, tools[j])}}
       \union {<<p, 0>> : p \in {q \in Tools(t) :
                                 \/ NotItsManifest(q)
                                 \/ \E r \in Tools(t) \ {q} : Manifest(t, r).id = Manifest(t, q).id}})

\* inspectStrings: a value that belongs in a lock, a registry or a workstation.
\* The schema reference is the one path a manifest carries.
Suspect(s) ==
  \/ s.is \in {"url", "range", "tag", "secret"}
  \/ s.is = "local path" /\ s.key # "$schema"

IdentityFindings(t) ==
  UNION {Report("RA1005", {<<p, s>> : s \in {x \in Manifest(t, p).strings : Suspect(x)}})
         : p \in Manifests(t)}

FormFindings(t) ==
  Report("RA1002", {p \in Manifests(t) : ~Manifest(t, p).maintainedForm})

\* The seal follows the rules, and the history ends with the seal and the
\* version and has not had the seal before.
SealFindings(t, c) ==
  LET last == c.history[Len(c.history)]
      wrong == {w \in {"seal", "version", "last seal"} :
                  CASE w = "seal"      -> SealRules(c.rules) # c.seal
                    [] w = "version"   -> last.version # c.policyVersion
                    [] w = "last seal" -> last.seal # c.seal}
  IN Report("RA1006",
       {<<w, 0>> : w \in wrong}
         \union {<<"seal again", i>> :
                   i \in {j \in 1..(Len(c.history) - 1) : c.history[j].seal = c.seal}})

CheckManifestAndIndex(t, c) ==
  FormFindings(t) \union MembershipFindings(t) \union ToolFindings(t)
    \union IdentityFindings(t) \union SealFindings(t, c)

(***************************************************************************)
(* checkMembershipReality: RA2001 to RA2006.                               *)
(***************************************************************************)
AcceptedModules ==
  {<<"base">>, <<"result">>, <<"diagnostics">>, <<"execution">>, <<"composition">>,
   <<"schema">>, <<"world">>, <<"content">>, <<"luau">>, <<"network">>,
   <<"world", "snapshot">>, <<"world", "luau">>, <<"world", "replication">>,
   <<"network", "loopback">>, <<"network", "quic">>, <<"schema", "compiler">>,
   <<"host", "dedicated_server">>}

ForbiddenNames == {"core", "common", "shared", "misc", "helpers", "utils", "util", "managers",
                   "manager", "engine"}

DiscoveryCommands == {"aux_source_directory", "subdirs"}

Unlisted(t, name, array) ==
  {p \in Walked(t) : Called(p, name) /\ p \notin Range(t.index[array])}

CheckMembershipReality(t) ==
  LET modules == {p \in Named(t, "module.json") : Manifest(t, p).id # None}
  IN Report("RA2001", {p \in Range(t.index["modules"]) : ~HasDirectory(t, Of[p].dir)})
     \union Report("RA2002", Unlisted(t, "module.json", "modules"))
     \union Report("RA2003", {l \in LaneLines(t) : l.command \in DiscoveryCommands})
     \union Report("RA2004", {p \in modules : Manifest(t, p).id \notin AcceptedModules})
     \union Report("RA2005", {p \in modules : Last(Manifest(t, p).id) \in ForbiddenNames})
     \union Report("RA2006", {p \in Unlisted(t, "tool.json", "tools") : Of[p].top = "tools"})

(***************************************************************************)
(* checkDependencyEdges: RA3001 to RA3005.                                 *)
(***************************************************************************)
\* The categories the code reads.
Categories == {"public", "private", "test", "tool", "hostOnly"}

\* collectModules.  An absent identity is the empty text: it begins no include,
\* and every line contains it.
Modules(t) ==
  {[root |-> Of[p].dir,
    id |-> Manifest(t, p).id,
    edges |-> [c \in Categories |-> IF c \in DOMAIN Manifest(t, p).dependencies
                                      THEN Manifest(t, p).dependencies[c] ELSE {}]]
   : p \in Named(t, "module.json")}

Declares(m, id) == \E c \in Categories : id \in m.edges[c]

\* moduleOfInclude: the longest identity the included path begins with.
ModuleOfInclude(target, modules) ==
  LET owners == {m \in modules : m.id # None /\ IsStrictPrefix(m.id, target)}
  IN IF owners = {} THEN None
     ELSE (CHOOSE m \in owners : \A n \in owners : Len(n.id) <= Len(m.id)).id

\* The findings about one include of a file f by a module m.
IncludeFindings(t, m, p, inc) ==
  LET owner == ModuleOfInclude(inc.target, Modules(t))
  IN IF owner \in {None, m.id} THEN {}
     ELSE IF ~Declares(m, owner) THEN {<<"RA3001", <<p, inc>>>>}
     ELSE Report("RA3002", {<<p, inc, misuse>> : misuse \in
            {x \in {"header", "shipped"} :
               /\ owner \notin m.edges["public"]
               /\ x = "header" => "include" \in Of[p].zones
               /\ x = "shipped" => "tests" \notin Of[p].zones /\ owner \in m.edges["test"]}})

\* hasCycle: a depth-first search over the production edges, from every module,
\* that shares what earlier searches are done with.
PublicProduction(modules, id) ==
  UNION {m.edges["public"] : m \in {n \in modules : n.id = id}}

Production(modules, id) ==
  UNION {m.edges[c] : m \in {n \in modules : n.id = id}, c \in Categories \ {"test", "tool"}}

Nodes(modules) ==
  LET ids == {m.id : m \in modules} IN ids \union UNION {Production(modules, id) : id \in ids}

\* One step of the search.  The node it visits leads on to one it is not done
\* with, which it enters or is already visiting; or it is done with the node.
\* Visiting none, it takes up another module.
Visit(modules, at) ==
  LET open == (IF at.visiting = <<>> THEN {m.id : m \in modules}
               ELSE Production(modules, Last(at.visiting))) \ at.done
      next == CHOOSE id \in open : TRUE
  IN CASE at.cycle \/ (open = {} /\ at.visiting = <<>>) -> at
       [] ~at.cycle /\ open = {} /\ at.visiting # <<>> ->
            [visiting |-> Front(at.visiting), done |-> at.done \union {Last(at.visiting)},
             cycle |-> FALSE]
       [] ~at.cycle /\ open # {} /\ next \in Range(at.visiting) ->
            [visiting |-> at.visiting, done |-> at.done, cycle |-> TRUE]
       [] ~at.cycle /\ open # {} /\ next \notin Range(at.visiting) ->
            [visiting |-> Append(at.visiting, next), done |-> at.done, cycle |-> FALSE]

\* A node is entered once and left once.
HasCycle(modules) ==
  LET last == 2 * Cardinality(Nodes(modules))
      searched[n \in 0..last] ==
        IF n = 0 THEN [visiting |-> <<>>, done |-> {}, cycle |-> FALSE]
        ELSE Visit(modules, searched[n - 1])
  IN searched[last].cycle

Under(t, root) == {p \in Walked(t) : root \in Of[p].dirs}

\* The findings about the includes of a module's sources.
SourceFindings(t, m) ==
  UNION {UNION {IncludeFindings(t, m, p, inc) : inc \in t.files[p].includes}
         : p \in {q \in Under(t, m.root) : FirstPartySource(q) /\ Readable(t, q)}}

\* The edges the build file of a module adds to its manifest.
Linked(t, m) ==
  {e \in Walked(t) \X ({n.id : n \in Modules(t)} \ {m.id}) :
     /\ Of[e[1]].dir = m.root /\ Of[e[1]].name = "CMakeLists.txt" /\ Readable(t, e[1])
     /\ \E l \in t.files[e[1]].links : e[2] = None \/ IsPrefix(e[2], l)}

\* A line of the lane that says again what manifests or catalogue say.
Restates(t, l) ==
  LET ids == {m.id : m \in Modules(t)}
  IN /\ l.command \in {"target_link_libraries", "find_package"}
     /\ \/ l.names \intersect (ids \union {e.id : e \in CatalogEntries(t)}) # {}
        \/ None \in ids

CheckDependencyEdges(t) ==
  (UNION {SourceFindings(t, m) : m \in Modules(t)})
    \union Report("RA3003", {c \in {"cycle"} : HasCycle(Modules(t))})
    \union (UNION {Report("RA3004", {e \in Linked(t, m) : ~Declares(m, e[2])}) : m \in Modules(t)})
    \union Report("RA3005", {l \in LaneLines(t) : Restates(t, l)})

(***************************************************************************)
(* checkNegativeClosures: RA4001, RA4002, RA4004.                          *)
(***************************************************************************)
ClientOnly == {"render", "window", "ui", "input", "audio", "studio", "editor"}

Targets(t) == Named(t, "target.json") \union {p \in Manifests(t) : "targets" \in Of[p].zones}

\* RA4002.  An option of the lane guards from the line of its if to the endif of
\* the same depth.  Every if( counts, and endif( and elseif( contain one.
Options(t) ==
  UNION {l.names : l \in {x \in UNION {Range(t.files[p].lines) : p \in ReadableLane(t)} :
                            x.command = "option"}}

ScanLine(options, at, l) ==
  LET opens == l.command \in {"if", "elseif", "endif"}
      depth == IF opens THEN at.depth + 1 ELSE at.depth
      guard == IF opens /\ at.guard = 0 /\ l.names \intersect options # {}
                 THEN depth ELSE at.guard
      links == IF guard # 0 /\ l.command = "target_link_libraries"
                 THEN at.links \union {at.line} ELSE at.links
  IN IF l.command = "endif"
       THEN [line |-> at.line + 1, links |-> links, depth |-> depth - 1,
             guard |-> IF depth = guard THEN 0 ELSE guard]
       ELSE [line |-> at.line + 1, links |-> links, depth |-> depth, guard |-> guard]

Guarded(options, lines) ==
  FoldLeft(LAMBDA at, l : ScanLine(options, at, l),
           [line |-> 1, links |-> {}, depth |-> 0, guard |-> 0], lines).links

CheckNegativeClosures(t) ==
  LET Closure(p) == Manifest(t, p).resolvedClosure
      Server     == {p \in Targets(t) : Manifest(t, p).role = "server"}
      Remote     == {p \in Targets(t) : Manifest(t, p).role # "loopback"}
      Reach(targets, Bad(_)) ==
        UNION {{<<p, m>> : m \in {x \in Closure(p) : Bad(x)}} : p \in targets}
      Client(m)   == Range(m) \intersect ClientOnly # {}
      Loopback(m) == m = <<"network", "loopback">>
      Compiler(m) == m = <<"schema", "compiler">>
  IN Report("RA4001", Reach(Server, Client))
     \union Report("RA4004", Reach(Remote, Loopback) \union Reach(Targets(t), Compiler))
     \union UNION {Report("RA4002", {<<p, i>> : i \in Guarded(Options(t), t.files[p].lines)})
                   : p \in ReadableLane(t)}

(***************************************************************************)
(* checkSourceHygiene: RA5001 to RA5005.                                   *)
(***************************************************************************)
AcquisitionCommands == {"FetchContent_Declare", "FetchContent_MakeAvailable",
                        "FetchContent_Populate", "ExternalProject_Add"}

\* A call of file() goes by its mode, file_GLOB is file(GLOB ...); UPLOAD is judged
\* like DOWNLOAD.
Transfers == {"file_DOWNLOAD", "file_UPLOAD"}

ArtifactNames == {"CMakeCache.txt", "cmake_install.cmake", "compile_commands.json"}

ArtifactExtensions == {".vcxproj", ".sln", ".xcodeproj", ".o", ".obj", ".pdb", ".ilk", ".exp",
                       ".suo"}

PublicHeader(p) == "include" \in Of[p].zones /\ Of[p].ext = ".h"

MaintainedSource(p) ==
  /\ Of[p].top \in {"source", "tools"}
  /\ "tests" \notin Of[p].zones /\ Of[p].zones \intersect {"src", "include"} # {}

\* The angled includes of catalogued libraries, by the token of their identity.
Exposed(t, paths, allowed) ==
  UNION {{<<p, x[1], x[2].id>> : x \in
            {y \in t.files[p].includes \X CatalogEntries(t) :
               y[1].angled /\ y[1].target[1] = y[2].token /\ y[2].id \notin allowed}}
         : p \in {q \in paths : Readable(t, q)}}

CheckSourceHygiene(t) ==
  LET Acquires(l) == l.command \in AcquisitionCommands \union Transfers
      Undeclared(tool) ==
        Exposed(t, {p \in Under(t, Of[tool].dir) : MaintainedSource(p)},
                Manifest(t, tool).thirdParty)
  IN Report("RA5001", {l \in LaneLines(t) : l.command = "file_GLOB"})
     \union Report("RA5003", {l \in LaneLines(t) : Acquires(l)})
     \union Report("RA5002", {p \in Walked(t) : /\ MaintainedSource(p)
                                                /\ Of[p].ext \notin {".cpp", ".h"}})
     \union (UNION {Report("RA5004", Undeclared(tool)) : tool \in Tools(t)})
     \union Report("RA5005", {p \in Walked(t) : \/ Of[p].ext \in ArtifactExtensions
                                                \/ Of[p].name \in ArtifactNames
                                                \/ Of[p].top \in {".vs", ".idea", ".vscode"}}
                               \union {d \in {"CMakeFiles"} : HasDirectory(t, d)})

(***************************************************************************)
(* checkGeneratedAndVendoredSeparation: RA6001 to RA6004.                  *)
(***************************************************************************)
OriginMembers == {"catalogId", "upstreamProject", "version", "revision", "sourceUrl", "sha256",
                  "licenseReference", "importedPaths", "importProcedure", "patches"}

Inspectable == {".cpp", ".h", ".cmake", ".json", ".luau", ".txt"}

\* What a vendored entry lacks of an origin record.
OriginFindings(t, e) ==
  CASE e.provider # "vendor_origin" -> {<<e.id, "provider">>}
    [] ~HasFile(t, e.reference)     -> {<<e.id, "reference">>}
    [] ~Parses(t, e.reference)      -> {<<e.reference, "json">>}
    [] OTHER -> {<<e.reference, m>> : m \in OriginMembers \ Manifest(t, e.reference).members}

VendoredRoots(t) ==
  UNION {Manifest(t, e.reference).importedPaths :
         e \in {x \in CatalogEntries(t) : x.class = "vendored_source" /\ Parses(t, x.reference)}}

CheckSeparation(t) ==
  LET vendored   == {e \in CatalogEntries(t) : e.class = "vendored_source"}
      maintained == (ListedPaths(t) \union {t.evidenceIndex, t.corpusPath}) \ {None}
  IN Report("RA6001", {p \in Walked(t) : /\ t.files[p].generated
                                         /\ Of[p].ext \in Inspectable
                                         /\ Of[p].top # "third_party"
                                         /\ Readable(t, p)})
     \union Report("RA6002", UNION {OriginFindings(t, e) : e \in vendored})
     \union Report("RA6003", {p \in maintained :
                              Of[p].dirs \intersect ({"out"} \union VendoredRoots(t)) # {}})
     \union Report("RA6004", Exposed(t, {p \in Walked(t) : PublicHeader(p)}, {}))

(***************************************************************************)
(* checkManifestProjections: RA7001, RA7002.                               *)
(***************************************************************************)
RegistrarFindings(t, p) ==
  LET registrar == Manifest(t, p).registrar
      table     == registrar.path
  IN CASE registrar = None     -> {}
       [] table = None         -> {p}
       [] ~HasFile(t, table)   -> {table}
       [] ~Parses(t, table)    -> {table}
       [] OTHER -> {x \in {table} : Manifest(t, table).entries # registrar.entries}

SchemaFindings(t, p) ==
  LET declared == Manifest(t, p).componentSchemas
      onDisk   == {q \in Under(t, Of[p].dir) : Of[q].ext = ".component.luau"}
  IN IF declared = None THEN {}
     ELSE {<<p, q>> : q \in declared \ onDisk} \union {<<q, q>> : q \in onDisk \ declared}

CheckManifestProjections(t) ==
  UNION {Report("RA7001", RegistrarFindings(t, p)) \union Report("RA7002", SchemaFindings(t, p))
         : p \in Manifests(t)}

(***************************************************************************)
(* countSubjects: what each rule had to look at.                           *)
(***************************************************************************)
Population(t, rule) ==
  LET Files(Test(_)) == Cardinality({p \in Walked(t) : Test(p)})
      IsModule(p)    == Called(p, "module.json")
      IsTool(p)      == Called(p, "tool.json")
      IsSource(p)    == \/ Of[p].top = "source" /\ "tests" \notin Of[p].zones
                        \/ Of[p].top = "tools" /\ "src" \in Of[p].zones
  IN CASE rule \in {"RA1002", "RA1005", "RA6003"} -> Cardinality(Manifests(t))
       [] rule = "RA1003" -> Cardinality(MembershipNames)
       [] rule = "RA1004" -> Len(t.index["tools"])
       [] rule = "RA1006" -> 1
       [] rule = "RA2001" -> Len(t.index["modules"])
       [] rule \in {"RA2002", "RA2004", "RA2005", "RA3003", "RA3004", "RA7002"} -> Files(IsModule)
       [] rule \in {"RA2003", "RA3005", "RA4002", "RA5001", "RA5003"} -> Cardinality(BuildLane(t))
       [] rule = "RA2006" -> Files(IsTool)
       [] rule \in {"RA3001", "RA3002", "RA5002", "RA5004", "RA6001"} -> Files(IsSource)
       [] rule \in {"RA4001", "RA4004", "RA7001"} -> Len(t.index["targets"])
       [] rule = "RA5005" -> Cardinality(Walked(t))
       [] rule = "RA6002" -> Cardinality({e \in CatalogEntries(t) : e.class = "vendored_source"})
       [] rule = "RA6004" -> Files(PublicHeader)
       [] OTHER -> 0
====
