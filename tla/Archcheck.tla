---- MODULE Archcheck ----
(***************************************************************************)
(* One invocation of rf-archcheck over a checkout: arguments, corpus,      *)
(* model, the groups of checks one after another into one sink, the        *)
(* report, the exit.                                                       *)
(***************************************************************************)
EXTENDS ArchitectureRules

CONSTANT MaxFindings  \* kMaximumFindings

Exits == {"clean", "findings", "usage", "internal"}

Groups == <<"manifests", "membership", "edges", "closures", "hygiene", "separation", "projections">>

ArchcheckOperations == {"check_repository", "list_rules", "explain_rule"}

corpus == tree.corpus

NothingFound == [findings |-> {}, overflowed |-> FALSE, unknown |-> FALSE]

\* Every option takes a value, --root is required, explain_rule needs its rule.
ArchcheckUsable ==
  /\ request.operation \in ArchcheckOperations
  /\ request.wellFormed
  /\ request.operation = "explain_rule" => request.rule # None

ArchcheckArguments ==
  /\ stage = "rf-archcheck"
  /\ IF ArchcheckUsable THEN Go("corpus") ELSE End("usage")

LoadCorpus ==
  /\ stage = "corpus"
  /\ CASE CorpusRefused(corpus)                -> End("internal")
       [] request.operation = "explain_rule" -> Go("explain")
       [] OTHER                                 -> Go("model")

LoadModel ==
  /\ stage = "model"
  /\ CASE ModelRefused(tree)                   -> End("internal")
       [] request.operation = "list_rules" -> Go("list")
       [] OTHER                              -> Go(Groups[1])

ExplainRule ==
  /\ stage = "explain"
  /\ End(IF Carries(corpus, request.rule) THEN "clean" ELSE "usage")

\* list_rules prints the population of every rule.
ListRules ==
  /\ stage = "list"
  /\ found' = [found EXCEPT !.findings =
                 {<<r.id, Population(tree, r.id)>> : r \in Range(corpus.rules)}]
  /\ stage' = "ended" /\ exit' = "clean"
  /\ UNCHANGED input

Findings(group) ==
  CASE group = "manifests"   -> CheckManifestAndIndex(tree, corpus)
    [] group = "membership"  -> CheckMembershipReality(tree)
    [] group = "edges"       -> CheckDependencyEdges(tree)
    [] group = "closures"    -> CheckNegativeClosures(tree)
    [] group = "hygiene"     -> CheckSourceHygiene(tree)
    [] group = "separation"  -> CheckSeparation(tree)
    [] group = "projections" -> CheckManifestProjections(tree)

\* The sink keeps what the corpus knows; a finding repeated in one place is
\* counted once.  What a full sink drops no longer matters, since nothing it
\* holds will be printed.
Sink(reported) ==
  LET known == found.findings \union {f \in reported : Carries(corpus, f[1])}
      full  == Cardinality(known) > MaxFindings
  IN found' = [findings   |-> IF full THEN found.findings ELSE known,
               overflowed |-> found.overflowed \/ full,
               unknown    |-> found.unknown \/ \E f \in reported : ~Carries(corpus, f[1])]

Check ==
  \E i \in DOMAIN Groups :
    /\ stage = Groups[i]
    /\ Sink(Findings(Groups[i]))
    /\ stage' = IF i = Len(Groups) THEN "conclude" ELSE Groups[i + 1]
    /\ UNCHANGED <<input, exit>>

\* Neither a rule the corpus lost nor a ceiling that was reached may look like a
\* verdict.
Conclude ==
  /\ stage = "conclude"
  /\ IF found.unknown \/ found.overflowed THEN End("internal") ELSE Go("report")

WriteReport ==
  /\ stage = "report"
  /\ \/ request.report /\ End("internal")
     \/ End(IF found.findings = {} THEN "clean" ELSE "findings")

ArchcheckNext ==
  \/ ArchcheckArguments \/ LoadCorpus \/ LoadModel \/ ExplainRule \/ ListRules
  \/ Check \/ Conclude \/ WriteReport

ArchcheckSpec == Begin("rf-archcheck", NothingFound) /\ [][ArchcheckNext]_vars

(***************************************************************************)
(* What the walk, the readers and the scans leave of a checkout: an index  *)
(* of lists of paths, build files line by line, identities in segments.    *)
(***************************************************************************)
IsScanned(t) ==
  /\ IsFiniteSet(DOMAIN t.files)
  /\ \A n \in MembershipNames : IsList(t.index[n])
  /\ \A p \in DOMAIN t.files :
       /\ IsList(t.files[p].lines) /\ IsList(t.files[p].subdirectories)
       /\ \A inc \in t.files[p].includes : IsList(inc.target)
  /\ \A m \in Modules(t) :
       /\ m.id # None => IsList(m.id)
       /\ \A c \in Categories : IsFiniteSet(m.edges[c])
  /\ t.corpus # None => IsList(t.corpus.history)

ASSUME ArchcheckAssumption ==
  /\ MaxFiles \in Nat /\ None \notin Exits
  /\ \A i \in Invocations : i.tool = "rf-archcheck" => IsScanned(Trees[i.tree])

(***************************************************************************)
(* What a clean checkout is, without the searches and scans of the code.   *)
(***************************************************************************)
\* What a relation reaches from a set in at most so many steps.
Further(relation, from) == from \union {e[2] : e \in {x \in relation : x[1] \in from}}

Reached(relation, from, steps) ==
  LET reached[n \in 0..steps] == IF n = 0 THEN from ELSE Further(relation, reached[n - 1])
  IN reached[steps]

\* No walk along production edges comes back.
Acyclic ==
  LET modules == Modules(tree)
      shipped == Categories \ {"test", "tool"}
      edges   == UNION {{m.id} \X UNION {m.edges[c] : c \in shipped} : m \in modules}
      After(s) == {e[2] : e \in {x \in edges : x[1] \in s}}
  IN \A m \in modules : m.id \notin Reached(edges, After({m.id}), Cardinality(modules))

\* A public header needs a public edge, shipped source one that ships.
Admitted(p) ==
  {c \in Categories : /\ "include" \in Of[p].zones => c = "public"
                      /\ "tests" \notin Of[p].zones => c # "test"}

Owns(n, target) ==
  /\ n.id # None /\ IsStrictPrefix(n.id, target)
  /\ ~\E o \in Modules(tree) :
        o.id # None /\ IsStrictPrefix(o.id, target) /\ IsStrictPrefix(n.id, o.id)

EveryIncludeDeclared ==
  \A m, n \in Modules(tree) : \A p \in Under(tree, m.root) :
    \/ ~FirstPartySource(p)
    \/ ~Readable(tree, p)
    \/ m.id = n.id
    \/ \A inc \in tree.files[p].includes :
         \/ ~Owns(n, inc.target)
         \/ \E c \in Admitted(p) : n.id \in m.edges[c]

\* What the root build file leads to, over any number of build files.
Scripts == {p \in DOMAIN tree.files : Readable(tree, p)}

Lane ==
  LET edges == UNION {{<<p, q>> : q \in Range(tree.files[p].subdirectories)} : p \in Scripts}
  IN Scripts \intersect Reached(edges, {"CMakeLists.txt"}, Cardinality(Scripts))

\* The build files name no more than the lane may hold.
LaneFits ==
  Cardinality({"CMakeLists.txt"} \union
              UNION {Range(tree.files[p].subdirectories) : p \in Scripts}) <= MaxFiles

\* Nothing of it acquires or discovers what it builds.
HermeticBuild ==
  \A p \in Lane : \A l \in Range(tree.files[p].lines) :
    l.command \notin AcquisitionCommands \union DiscoveryCommands \union Transfers
                     \union {"file_GLOB"}

\* Line i of a build file stands in the block that line j opens.
Inside(lines, i, j) ==
  LET Count(command, k) == Cardinality({x \in (j + 1)..k : lines[x].command = command})
  IN j < i /\ \A k \in j..(i - 1) : Count("endif", k) <= Count("if", k)

UnconditionalEdges ==
  LET options == UNION {UNION {l.names : l \in {x \in Range(tree.files[p].lines) : x.command = "option"}}
                        : p \in Lane}
  IN \A p \in Lane : \A i, j \in DOMAIN tree.files[p].lines :
       ~ /\ tree.files[p].lines[i].command = "target_link_libraries"
         /\ tree.files[p].lines[j].command \in {"if", "elseif"}
         /\ tree.files[p].lines[j].names \intersect options # {}
         /\ Inside(tree.files[p].lines, i, j)

\* The index lists the modules and tools of the tree, each once.
ExactMembership ==
  /\ \A p \in Walked(tree) :
       /\ Called(p, "module.json") => p \in Range(tree.index["modules"])
       /\ Called(p, "tool.json") /\ Of[p].top = "tools" => p \in Range(tree.index["tools"])
  /\ \A n \in {"modules", "targets", "tools"} :
       /\ Range(tree.index[n]) \subseteq Walked(tree)
       /\ IsInjective(tree.index[n])

\* The rules in force have their own entry, the last, in the history.
RulesAccountedFor ==
  {i \in DOMAIN corpus.history : corpus.history[i].seal = SealRules(corpus.rules)}
    = {Len(corpus.history)}

(***************************************************************************)
(* A clean exit was earned: the module graph has no cycle, every include   *)
(* is covered by an edge of a category its place admits, the build reaches *)
(* nothing that acquires, discovers or links on an option, index and tree  *)
(* agree, and the rules are those of the last policy version.  The tool    *)
(* finds these out by searches that share state and by scans that carry a  *)
(* depth; here they are plain statements about the tree, the ones about    *)
(* the build for trees whose build files fit the lane.                     *)
(***************************************************************************)
CleanIsEarned ==
  exit = "clean" /\ request.operation = "check_repository" =>
    /\ Acyclic /\ EveryIncludeDeclared
    /\ LaneFits => HermeticBuild /\ UnconditionalEdges
    /\ ExactMembership /\ RulesAccountedFor
====
