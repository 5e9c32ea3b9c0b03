---- MODULE ArchcheckTrees ----
(***************************************************************************)
(* Checkouts for rf-archcheck: one that is clean, every tree that differs  *)
(* from it in one respect a rule is about, and families of module graphs,  *)
(* includes, build lanes and guarded blocks.                               *)
(***************************************************************************)
EXTENDS ToolRun, Naturals, Sequences, TLC

Path(dirs, zones, name, ext) ==
  [dir |-> IF dirs = <<>> THEN "" ELSE dirs[Len(dirs)], dirs |-> {dirs[i] : i \in 1..Len(dirs)},
   top |-> IF dirs = <<>> THEN name ELSE dirs[1], zones |-> zones, name |-> name, ext |-> ext,
   depth |-> Len(dirs), admissible |-> TRUE, explicit |-> ext = ".json"]

Base  == <<"source", "source/base">>
World == <<"source", "source/world">>
Luau  == <<"source", "source/world", "source/world/luau">>
Tool  == <<"tools", "tools/one">>

PathFacts ==
     "repository.json"          :> Path(<<>>, {}, "repository.json", ".json")
  @@ "CMakeLists.txt"           :> Path(<<>>, {}, "CMakeLists.txt", ".txt")
  @@ "rules.json"               :> Path(<<"tools">>, {}, "rules.json", ".json")
  @@ "third_party/catalog.json" :> Path(<<"third_party">>, {}, "catalog.json", ".json")
  @@ "origin.json"              :> Path(<<"third_party">>, {}, "origin.json", ".json")
  @@ "registrar.json"           :> Path(<<"source">>, {}, "registrar.json", ".json")
  @@ "server.json"              :> Path(<<"targets", "targets/server">>, {}, "target.json", ".json")
  @@ "base/module.json"         :> Path(Base, {}, "module.json", ".json")
  @@ "base/CMakeLists.txt"      :> Path(Base, {}, "CMakeLists.txt", ".txt")
  @@ "base/a.h"                 :> Path(Base, {"include"}, "a.h", ".h")
  @@ "base/a.cpp"               :> Path(Base, {"src"}, "a.cpp", ".cpp")
  @@ "base/t.cpp"               :> Path(Base, {"tests"}, "t.cpp", ".cpp")
  @@ "base/th.h"                :> Path(Base, {"tests", "include"}, "th.h", ".h")
  @@ "base/s.luau"              :> Path(Base, {}, "s", ".component.luau")
  @@ "world/module.json"        :> Path(World, {}, "module.json", ".json")
  @@ "world/CMakeLists.txt"     :> Path(World, {}, "CMakeLists.txt", ".txt")
  @@ "luau/module.json"         :> Path(Luau, {}, "module.json", ".json")
  @@ "luau/CMakeLists.txt"      :> Path(Luau, {}, "CMakeLists.txt", ".txt")
  @@ "luau/a.cpp"               :> Path(Luau, {"src"}, "a.cpp", ".cpp")
  @@ "one/tool.json"            :> Path(Tool, {}, "tool.json", ".json")
  @@ "one/main.cpp"             :> Path(Tool, {"src"}, "main.cpp", ".cpp")
  @@ "one/main.cc"              :> Path(Tool, {"src"}, "main.cc", ".cc")
  @@ "one/main.o"               :> Path(Tool, {}, "main.o", ".o")
  @@ "base/x"                   :> Path(Base \o <<"CMakeFiles">>, {}, "x", "")
  @@ "CMakeFiles"               :> Path(<<>>, {}, "CMakeFiles", "")
  @@ "source/gone"              :> Path(<<"source">>, {}, "gone", "")
  @@ "module.json"              :> Path(<<>>, {}, "module.json", ".json")
  @@ "out/x.json"               :> Path(<<"out">>, {}, "x.json", ".json")
  @@ "vendored.json"            :> Path(<<"third_party", "third_party/v">>, {}, "v.json", ".json")
  @@ "gone/module.json"         :> Path(<<"source", "source/gone">>, {}, "module.json", ".json")
  @@ "deep"                     :> [Path(<<"source">>, {}, "deep", "") EXCEPT !.depth = 9]
  @@ "odd:name"                 :> [Path(<<>>, {}, "odd:name", "") EXCEPT !.admissible = FALSE]
  @@ "source/*"                 :> [Path(<<"source">>, {}, "*", "") EXCEPT !.explicit = FALSE]

File == [kind |-> "regular", big |-> FALSE, json |-> None, includes |-> {}, lines |-> <<>>,
         subdirectories |-> <<>>, links |-> {}, generated |-> FALSE]

Members == [maintainedForm |-> TRUE, strings |-> {[key |-> "$schema", is |-> "local path"]},
            id |-> None, dependencies |-> <<>>, thirdParty |-> {}, role |-> "server",
            resolvedClosure |-> {}, registrar |-> None, entries |-> <<>>,
            componentSchemas |-> None, importedPaths |-> {"third_party/v"},
            members |-> {"catalogId", "upstreamProject", "version", "revision", "sourceUrl", "sha256",
                         "licenseReference", "importedPaths", "importProcedure", "patches"}]

Json(m) == [File EXCEPT !.json = m]

Edges(public, private, test) ==
  "public" :> public @@ "private" :> private @@ "test" :> test

ModuleJson(id, dependencies) ==
  Json([Members EXCEPT !.id = id, !.dependencies = dependencies])

Line(command, names) == [command |-> command, names |-> names]

Rule(id, number) == [id |-> id, number |-> number, wellFormed |-> TRUE]

RuleIds ==
  <<"RA1002", "RA1003", "RA1004", "RA1005", "RA1006", "RA2001", "RA2002", "RA2003", "RA2004",
    "RA2005", "RA2006", "RA3001", "RA3002", "RA3003", "RA3004", "RA3005", "RA4001", "RA4002",
    "RA4004", "RA5001", "RA5002", "RA5003", "RA5004", "RA5005", "RA6001", "RA6002", "RA6003",
    "RA6004", "RA7001", "RA7002">>

Rules == [i \in 1..Len(RuleIds) |-> Rule(RuleIds[i], i)]

Lost == SelectSeq(Rules, LAMBDA r : r.id # "RA2002")

Corpus(version, rules, seal, history) ==
  [policyVersion |-> version, rules |-> rules, seal |-> seal, history |-> history]

Was(version, seal) == [version |-> version, seal |-> seal]

Entry == [id |-> "library.zip", token |-> "zip", class |-> "vendored_source",
          provider |-> "vendor_origin", reference |-> "origin.json"]

CleanTree ==
  [files |->
        "repository.json"          :> Json(Members)
     @@ "CMakeLists.txt"           :> [File EXCEPT !.subdirectories = <<"base/CMakeLists.txt">>]
     @@ "rules.json"               :> Json(Members)
     @@ "third_party/catalog.json" :> Json(Members)
     @@ "origin.json"              :> Json(Members)
     @@ "registrar.json"           :> Json([Members EXCEPT !.entries = <<1, 2>>])
     @@ "server.json"              :> Json([Members EXCEPT !.resolvedClosure = {<<"base">>},
                                             !.registrar = [path |-> "registrar.json",
                                                            entries |-> <<1, 2>>]])
     @@ "base/module.json"         :> Json([Members EXCEPT !.id = <<"base">>,
                                             !.componentSchemas = {"base/s.luau"}])
     @@ "base/CMakeLists.txt"      :> File
     @@ "base/a.h"                 :> File
     @@ "base/s.luau"              :> File
     @@ "world/module.json"        :> ModuleJson(<<"world">>, Edges({<<"base">>}, {}, {}))
     @@ "luau/module.json"         :> ModuleJson(<<"world", "luau">>, Edges({}, {<<"world">>}, {}))
     @@ "one/tool.json"            :> Json([Members EXCEPT !.id = <<"one">>,
                                             !.thirdParty = {"library.zip"}])
     @@ "one/main.cpp"             :> [File EXCEPT !.includes =
                                         {[target |-> <<"zip", "zip.h">>, angled |-> TRUE]}]
     @@ "out/x.json"               :> [File EXCEPT !.kind = "link"],
   index |-> [modules |-> <<"base/module.json", "world/module.json", "luau/module.json">>,
              targets |-> <<"server.json">>, tools |-> <<"one/tool.json">>,
              platforms |-> <<>>, configurations |-> <<>>, instrumentations |-> <<>>,
              packagingPolicies |-> <<>>, profiles |-> <<>>],
   catalog |-> {Entry},
   evidenceIndex |-> None,
   corpusPath |-> "rules.json",
   corpus |-> Corpus(2, Rules, Rules, <<Was(1, Lost), Was(2, Rules)>>)]

(***************************************************************************)
(* Trees that differ from it.                                              *)
(***************************************************************************)
Put(p, f) == [CleanTree EXCEPT !.files = (p :> f) @@ @]

Take(p) == [CleanTree EXCEPT !.files = [q \in DOMAIN @ \ {p} |-> @[q]]]

With(p, member, value) == Put(p, Json([CleanTree.files[p].json EXCEPT ![member] = value]))

Index(array, paths) == [CleanTree EXCEPT !.index[array] = paths]

InCorpus(c) == [CleanTree EXCEPT !.corpus = c]

Include(target, angled) == [target |-> target, angled |-> angled]

Walks ==
  <<Put("deep", File), Put("odd:name", File), Put("base/x", [File EXCEPT !.kind = "link"]),
   Take("repository.json"), Put("server.json", File), Take("third_party/catalog.json")>>

Corpora ==
  LET corpora == <<
     None,
     Corpus(0, Rules, Rules, <<Was(2, Rules)>>),
     Corpus(2, Rules, Rules, <<>>),
     Corpus(2, Rules, Rules, <<Was(2, Lost), Was(2, Rules)>>),
     Corpus(2, <<>>, Rules, <<Was(2, Rules)>>),
     Corpus(2, <<[Rules[1] EXCEPT !.wellFormed = FALSE]>>, Rules, <<Was(2, Rules)>>),
     Corpus(2, <<Rules[2], Rules[1]>>, Rules, <<Was(2, Rules)>>),
     Corpus(2, Lost, Rules, <<Was(2, Rules)>>),
     Corpus(2, Lost, Lost, <<Was(2, Rules)>>),
     Corpus(3, Lost, Lost, <<Was(2, Rules)>>),
     Corpus(3, Lost, Lost, <<Was(1, Lost), Was(2, Rules), Was(3, Lost)>>),
     Corpus(3, Lost, Lost, <<Was(2, Rules), Was(3, Lost)>>)>>
  IN [i \in DOMAIN corpora |-> InCorpus(corpora[i])]
     \o <<[InCorpus(Corpus(3, Lost, Lost, <<Was(3, Lost)>>)) EXCEPT !.index["modules"] = Tail(@)]>>

Defects ==
  <<With("one/tool.json", "maintainedForm", FALSE),
   With("one/tool.json", "strings", {[key |-> "x", is |-> "local path"]}),
   With("one/tool.json", "strings", {[key |-> "token", is |-> "secret"]}),
   With("one/tool.json", "id", <<"two">>),
   With("base/module.json", "id", <<"common">>),
   With("base/module.json", "id", None),
   With("world/module.json", "id", <<"base">>),
   With("base/module.json", "componentSchemas", {}),
   With("base/module.json", "componentSchemas", {"base/s.luau", "base/a.h"}),
   With("server.json", "resolvedClosure", {<<"world", "ui">>}),
   With("server.json", "resolvedClosure", {<<"network", "loopback">>, <<"schema", "compiler">>}),
   With("registrar.json", "entries", <<2, 1>>),
   With("server.json", "registrar", [path |-> None, entries |-> <<>>]),
   With("origin.json", "members", {"version"}),
   Take("registrar.json"), Take("origin.json"),
   Index("modules", <<"base/module.json", "world/module.json">>),
   Index("modules", CleanTree.index["modules"] \o <<"base/module.json">>),
   Index("modules", CleanTree.index["modules"] \o <<"gone/module.json">>),
   Index("configurations", <<"source/*">>),
   Index("configurations", <<"vendored.json">>),
   Index("configurations", <<"out/x.json">>),
   Index("tools", <<>>),
   Index("tools", <<"one/tool.json", "one/tool.json">>),
   Index("tools", <<"server.json", "one/tool.json">>),
   Take("world/module.json"), Take("one/tool.json"),
   Put("one/main.cc", File), Put("one/main.o", File), Put("base/x", File),
   Put("CMakeFiles", [File EXCEPT !.kind = "directory"]),
   [Index("modules", CleanTree.index["modules"] \o <<"gone/module.json">>)
      EXCEPT !.files = ("source/gone" :> [File EXCEPT !.kind = "directory"]) @@ @],
   Put("module.json", Json(Members)),
   [Put("module.json", Json(Members)) EXCEPT !.index["modules"] = Append(@, "module.json")],
   Put("base/a.h", [File EXCEPT !.generated = TRUE]),
   Put("base/a.h", [File EXCEPT !.includes = {Include(<<"zip", "zip.h">>, TRUE)}]),
   Put("luau/CMakeLists.txt", [File EXCEPT !.links = {<<"base">>, <<"world">>}]),
   [CleanTree EXCEPT !.catalog = {[Entry EXCEPT !.provider = "lock"]}],
   [With("one/tool.json", "thirdParty", {}) EXCEPT !.catalog = {[Entry EXCEPT !.class = "locked"]}]>>

\* Every graph of the production edges of three modules.
Ids == {<<"base">>, <<"world">>, <<"world", "luau">>}

Graphs == {"graph"} \X (SUBSET Ids) \X (SUBSET Ids) \X (SUBSET Ids)

Graph(k) ==
  [CleanTree EXCEPT !.files =
        "base/module.json"  :> ModuleJson(<<"base">>, Edges({}, k[2], {}))
     @@ "world/module.json" :> ModuleJson(<<"world">>, Edges(k[3], {}, {<<"base">>}))
     @@ "luau/module.json"  :> ModuleJson(<<"world", "luau">>, Edges({}, k[4], {}))
     @@ @]

\* One include by one file, of a module declared in any combination of categories.
Includes ==
  {"include"} \X (SUBSET {"public", "private", "test", "testOnly"}) \X {<<"world">>, <<"world", "luau">>}
    \X {"base/a.h", "base/a.cpp", "base/t.cpp", "base/th.h", "luau/a.cpp"}
    \X {<<"world", "w.h">>, <<"world", "luau", "l.h">>, <<"else", "e.h">>}

Including(k) ==
  [CleanTree EXCEPT !.files =
        "base/module.json" :> ModuleJson(<<"base">>,
           [c \in {"public", "private", "test", "testOnly"} |-> IF c \in k[2] THEN {k[3]} ELSE {}])
     @@ k[4] :> [File EXCEPT !.includes = {Include(k[5], FALSE)}]
     @@ @]

\* What leads where among the build files, and what one of them does.
Lanes ==
  {"lane"}
    \X {<<>>, <<"world/CMakeLists.txt">>, <<"gone", "base/CMakeLists.txt">>}
    \X {<<>>, <<"CMakeLists.txt">>}
    \X {<<>>, <<"world/CMakeLists.txt", "base/CMakeLists.txt">>}
    \X {"file_GLOB", "file_DOWNLOAD", "FetchContent_Declare", "aux_source_directory",
        "find_package", "message"}

Leading(k) ==
  [CleanTree EXCEPT !.files =
        "CMakeLists.txt"       :> [File EXCEPT !.subdirectories = k[2]]
     @@ "base/CMakeLists.txt"  :> [File EXCEPT !.subdirectories = k[3],
                                               !.lines = <<Line(k[5], {"library.zip"})>>]
     @@ "world/CMakeLists.txt" :> [File EXCEPT !.subdirectories = k[4]]
     @@ @]

\* Blocks of up to five lines under an option and another condition.
Commands ==
  {Line("if", {"WITH"}), Line("if", {"OTHER"}), Line("elseif", {"WITH"}), Line("endif", {}),
   Line("target_link_libraries", {})}

Count(lines, command) == Len(SelectSeq(lines, LAMBDA l : l.command = command))

WellNested(lines) ==
  /\ Count(lines, "if") = Count(lines, "endif")
  /\ \A k \in DOMAIN lines :
       LET open == Count(SubSeq(lines, 1, k), "if") - Count(SubSeq(lines, 1, k), "endif")
       IN open >= 0 /\ (lines[k].command = "elseif" => open > 0)

Blocks ==
  {"block"} \X {s \in UNION {[1..n -> Commands] : n \in 1..5} : WellNested(s)}

Guarding(k) ==
  [CleanTree EXCEPT !.files["base/CMakeLists.txt"].lines = <<Line("option", {"WITH"})>> \o k[2]]

MCArchcheckTrees ==
  [k \in {<<"clean">>} \union ({"walk"} \X DOMAIN Walks) \union ({"corpus"} \X DOMAIN Corpora)
           \union ({"defect"} \X DOMAIN Defects) \union Graphs \union Includes \union Lanes \union Blocks
   |-> CASE k[1] = "clean"   -> CleanTree
         [] k[1] = "walk"    -> Walks[k[2]]
         [] k[1] = "corpus"  -> Corpora[k[2]]
         [] k[1] = "defect"  -> Defects[k[2]]
         [] k[1] = "graph"   -> Graph(k)
         [] k[1] = "include" -> Including(k)
         [] k[1] = "lane"    -> Leading(k)
         [] k[1] = "block"   -> Guarding(k)]

\* check_repository over every tree, every operation over the clean one.
MCArchcheckInvocations ==
  [tool : {"rf-archcheck"},
   request : [operation : {"check_repository"}, wellFormed : {TRUE}, rule : {None}, report : {FALSE}],
   tree : DOMAIN MCArchcheckTrees]
  \union
  [tool : {"rf-archcheck"},
   request : [operation : {"check_repository", "list_rules", "explain_rule", "no_such_operation"},
              wellFormed : BOOLEAN, rule : {None, "RA1002", "RA9999"}, report : BOOLEAN],
   tree : {<<"clean">>}]
====
