---- MODULE VerifyTool ----
(***************************************************************************)
(* rf-verify: coverage floors over the lines a change touched, the summary *)
(* of a whole tree, and the report of which test discharges which          *)
(* acceptance criterion.                                                   *)
(*                                                                         *)
(* A coverage export is a sequence of files, each with its branch regions, *)
(* MC/DC decisions, counted lines and macro expansions.  A region is       *)
(* [line, span, true, false], the span a name for the exact source span it *)
(* covers; an expansion is [of, region], a region of another file.  A file *)
(* is wellFormed when what is read of it has its form: of a foreign one    *)
(* only the name and the expansions.  A diff is a sequence of rows as git  *)
(* writes them; Unit holds what the code reads off the characters of a     *)
(* path.                                                                   *)
(***************************************************************************)
EXTENDS ToolRun, Naturals, Sequences, FiniteSets, SequencesExt, FiniteSetsExt, Functions

CONSTANTS
  Unit,              \* of a path: [place, maintained, translation, foreign]
  MaxCount,          \* the largest execution count, the maximum of int64_t
  MaxListed          \* kMaximumReportedUncoveredLines

Nothing == [read     |-> 0,              \* exports appended
            files    |-> <<>>,           \* unit -> coverage
            foreign  |-> 0,              \* files dropped as not ours
            changed  |-> {},             \* changed lines: <<path, line>>
            findings |-> {},
            report   |-> <<>>]           \* what is printed

(***************************************************************************)
(* Coverage exports.                                                       *)
(***************************************************************************)
Saturating(a, b) == Min({a + b, MaxCount})

\* Two counts of one side of a region.
Add(a, b) == Saturating(a, b)

Same(r, s) == r.line = s.line /\ r.span = s.span

\* Regions at one exact span are one decision.
MergeRegion(regions, r) ==
  IF \E i \in DOMAIN regions : Same(regions[i], r)
  THEN LET i == CHOOSE i \in DOMAIN regions : Same(regions[i], r)
       IN [regions EXCEPT ![i].true = Add(@, r.true), ![i].false = Add(@, r.false)]
  ELSE Append(regions, r)

MergeRegions(into, regions) == FoldLeft(MergeRegion, into, regions)

\* What the expansions of one file credit to another.
Credit(regions, expansions, name) ==
  FoldLeft(LAMBDA merged, e : IF e.of = name THEN MergeRegion(merged, e.region) ELSE merged,
           regions, expansions)

\* What the expansions of a whole document credit to a file, whoever holds them.
Credited(document, name) ==
  FoldLeft(LAMBDA regions, f : Credit(regions, f.expansions, name), <<>>, document.files)

Uncredited(document, name) == <<>>

ExpansionBranches(document, name) == Credited(document, name)

\* A line is counted when some segment with a count starts on it.
LineCounts(segments) ==
  LET counted == {i \in DOMAIN segments : segments[i].hasCount}
  IN [l \in {segments[i].line : i \in counted} |->
        Max({segments[i].count : i \in {j \in counted : segments[j].line = l}})]

\* What becomes of one file of a document.
ReadFile(document, f) ==
  [branches  |-> MergeRegions(MergeRegions(<<>>, f.branches), ExpansionBranches(document, f.name)),
   decisions |-> f.decisions,
   lines     |-> LineCounts(f.segments),
   summary   |-> f.summary]

Ours(f) == Unit[f.name].maintained /\ ~Unit[f.name].foreign

AppendCoverageExport(document) ==
  LET files == document.files
      ours  == {i \in DOMAIN files : Ours(files[i])}
      names == {files[i].name : i \in ours}
  IN IF \/ document.kind # "llvm.coverage.json.export"
        \/ \E i \in DOMAIN files : ~files[i].wellFormed
        \/ \E i, j \in ours : i # j /\ files[i].name = files[j].name
        \/ names \intersect DOMAIN found.files # {}
     THEN End("failure")
     ELSE Learn(stage, [found EXCEPT
            !.read    = @ + 1,
            !.foreign = @ + Cardinality(DOMAIN files \ ours),
            !.files   = [n \in names \union DOMAIN @ |->
                           IF n \in names THEN ReadFile(document, files[CHOOSE i \in ours : files[i].name = n])
                           ELSE @[n]]])

\* Each condition has a pair of executed vectors that shows it deciding alone.
\* An absent condition agrees with either value.
DecisionIsIndependentlyCovered(d) ==
  /\ d.conditions > 0
  /\ \A c \in 1..d.conditions : \E v, w \in d.vectors :
       /\ v.executed /\ w.executed /\ v.result # w.result
       /\ v.values[c] # "absent" /\ w.values[c] # "absent" /\ v.values[c] # w.values[c]
       /\ \A o \in (1..d.conditions) \ {c} :
            v.values[o] = "absent" \/ w.values[o] = "absent" \/ v.values[o] = w.values[o]

(***************************************************************************)
(* The diff.  A row's mark is what git meant by it, "++" or "--" its text  *)
(* when that begins so; Reads is what its characters say to a reader, who  *)
(* sees one row at a time.                                                 *)
(***************************************************************************)
Reads(row) ==
  CASE row.mark = "+" /\ row.text = "++" -> "+++"
    [] row.mark = "-" /\ row.text = "--" -> "---"
    [] OTHER                              -> row.mark

Headers == {"---", "diff", "index"}

\* A row outside the hunk of a file says nothing of it, nor does one that is gone.
DiffRow(state, row) ==
  LET reads == Reads(row)
      open  == state.inHunk /\ state.file # None
  IN IF state.malformed THEN state
     ELSE CASE reads = "+++"                      -> [state EXCEPT !.file = row.path, !.inHunk = FALSE]
            [] reads \in Headers                  -> [state EXCEPT !.inHunk = FALSE]
            [] reads = "@@" /\ row.start = None   -> [state EXCEPT !.malformed = TRUE]
            [] reads = "@@" /\ row.start # None   -> [state EXCEPT !.next = row.start, !.inHunk = TRUE]
            [] reads = "+" /\ open                ->
                 [state EXCEPT !.next = @ + 1, !.changed = @ \union {<<state.file, state.next>>}]
            [] reads = "context" /\ open          -> [state EXCEPT !.next = @ + 1]
            [] reads = "other" /\ open            -> [state EXCEPT !.inHunk = FALSE]
            [] OTHER                              -> state

ParseUnifiedDiff(rows) ==
  FoldLeft(DiffRow, [file |-> None, next |-> 0, inHunk |-> FALSE, malformed |-> FALSE, changed |-> {}], rows)

(***************************************************************************)
(* Declared tiers.                                                         *)
(***************************************************************************)
Declaring(t) == {r \in t.roots : r.declares # None}

Declarations(t) == UNION {Range(r.declares) : r \in Declaring(t)}

TierOf(t, u) == (CHOOSE d \in Declarations(t) : d.unit = u).tier

DeclaredUnits(t) == {d.unit : d \in Declarations(t)}

\* The units on disk beneath the roots that declare.
PresentUnits(t) == {u \in UNION {r.present : r \in Declaring(t)} : Unit[u].maintained}

TierIndexRefused(t) ==
  \/ \E r \in t.roots : r.declares = None /\ r.hasSource
  \/ \E d \in Declarations(t) : d.tier \notin {"O", "A", "H"}
  \/ \E r, s \in Declaring(t) : \E i \in DOMAIN r.declares, j \in DOMAIN s.declares :
       <<r, i>> # <<s, j>> /\ r.declares[i].unit = s.declares[j].unit

FloorPercent(tier) == CASE tier = "O" -> 80 [] tier = "A" -> 90 [] tier = "H" -> 100

(***************************************************************************)
(* Floors.                                                                 *)
(***************************************************************************)
\* What the compiler synthesised and what is written constant is not measured.
Exclusion(t, u, r) ==
  IF r.line \in t.defaulted[u] THEN "synthesized" ELSE IF r.span \in t.constant[u] THEN "constant" ELSE "none"

Measured(t, u, lines) ==
  {i \in DOMAIN found.files[u].branches :
     LET r == found.files[u].branches[i] IN r.line \in lines /\ Exclusion(t, u, r) = "none"}

\* Of the regions measured, the outcomes of either side that were taken.
CoveredSides(u, measured) ==
  LET branches == found.files[u].branches
  IN Cardinality({i \in measured : branches[i].true > 0}) + Cardinality({i \in measured : branches[i].false > 0})

MeetsFloor(covered, total, percent) == covered * 100 >= percent * total

UnitFindings(t, u, lines) ==
  LET measured == Measured(t, u, lines)
      covered  == CoveredSides(u, measured)
      tier     == TierOf(t, u)
      weak     == {d \in found.files[u].decisions : d.line \in lines /\ ~DecisionIsIndependentlyCovered(d)}
  IN (IF MeetsFloor(covered, 2 * Cardinality(measured), FloorPercent(tier)) THEN {} ELSE {<<"below_floor", u>>})
     \union {<<"mcdc", u, d.line>> : d \in IF tier = "H" THEN weak ELSE {}}

ChangedUnits == {p \in {x[1] : x \in found.changed} : Unit[p].maintained}

ChangedLines(u) == {x[2] : x \in {y \in found.changed : y[1] = u}}

\* The changed units a floor applies to: declared, and built by the lane.
Floored(t) == ChangedUnits \intersect DeclaredUnits(t) \intersect DOMAIN found.files

\* A changed translation unit the lane did not run, or a unit it ran that is gone.
NothingToConclude(t) ==
  \/ \E u \in ChangedUnits \intersect DeclaredUnits(t) : Unit[u].translation /\ u \notin DOMAIN found.files
  \/ \E u \in Floored(t) : u \notin t.readable

FloorFindings(t) ==
  (UNION {UnitFindings(t, u, ChangedLines(u)) : u \in Floored(t)})
  \union {<<"undeclared_tier", u>> : u \in (ChangedUnits \union PresentUnits(t)) \ DeclaredUnits(t)}
  \union {<<"stale_tier", u>> : u \in DeclaredUnits(t) \ PresentUnits(t)}

(***************************************************************************)
(* Requirements.                                                           *)
(***************************************************************************)
InventoryRefused(t) ==
  \/ \E c \in Range(t.criteria) : ~c.wellFormed \/ c.discharge \notin {"automated", "manual", "lane"}
  \/ Cardinality({c.id : c \in Range(t.criteria)}) < Len(t.criteria)

\* Every binding a test recorded, over all the reports.
Bindings(t) == UNION {{<<c, x.name>> : c \in x.requirement} : x \in UNION Range(t.testReports)}

TestsOf(t, criterion) == {b[2] : b \in {x \in Bindings(t) : x[1] = criterion}}

\* A test that ran discharges a criterion, whatever the inventory says of it.
Discharge(t, c) ==
  IF TestsOf(t, c.id) # {} THEN "bound"
  ELSE IF c.discharge \in {"manual", "lane"} THEN c.discharge ELSE "unbound"

RequirementFindings(t) ==
  {<<"undeclared_criterion", b[1]>> : b \in {x \in Bindings(t) : \A c \in Range(t.criteria) : c.id # x[1]}}

(***************************************************************************)
(* The summary: every uncovered line up to a ceiling over all files.       *)
(***************************************************************************)
Uncovered(u) == {l \in DOMAIN found.files[u].lines : found.files[u].lines[l] = 0}

\* Files come in the order of their paths, so the ceiling falls on the last.
Summarize ==
  LET units == DOMAIN found.files
      Before(u) == {v \in units : Unit[v].place < Unit[u].place}
      Step(s, u) ==
        LET lines == Uncovered(u)
            fits  == {l \in lines : Cardinality({k \in lines : k < l}) < MaxListed - s.count}
        IN [count   |-> s.count + Cardinality(fits),
            omitted |-> s.omitted + Cardinality(lines \ fits),
            listed  |-> s.listed \union ({u} \X fits),
            covered |-> s.covered + found.files[u].summary.covered,
            total   |-> s.total + found.files[u].summary.count]
  IN FoldLeft(Step, [count |-> 0, omitted |-> 0, listed |-> {}, covered |-> 0, total |-> 0],
              [i \in 1..Cardinality(units) |-> CHOOSE u \in units : Cardinality(Before(u)) = i - 1])

(***************************************************************************)
(* One invocation.                                                         *)
(***************************************************************************)
VerifyOperations == {"coverage_floors", "coverage_summary", "requirements_report"}

\* An operation without its inputs would measure something that was not asked for.
VerifyUsable ==
  /\ request.operation \in VerifyOperations
  /\ request.wellFormed
  /\ request.operation \in {"coverage_floors", "coverage_summary"} => tree.exports # <<>>
  /\ request.operation = "coverage_floors" => tree.diff # None
  /\ request.operation = "requirements_report" => tree.testReports # <<>>

VerifyArguments ==
  /\ stage = "rf-verify"
  /\ CASE ~VerifyUsable                                  -> End("usage")
       [] VerifyUsable /\ ~tree.hasIndex                 -> End("failure")
       [] VerifyUsable /\ tree.hasIndex                  ->
            Go(IF request.operation = "requirements_report" THEN "requirements" ELSE "exports")

ReadExport ==
  /\ stage = "exports"
  /\ found.read < Len(tree.exports)
  /\ AppendCoverageExport(tree.exports[found.read + 1])

ExportsRead ==
  /\ stage = "exports"
  /\ found.read = Len(tree.exports)
  /\ Go(IF request.operation = "coverage_floors" THEN "diff" ELSE "summary")

\* A diff that touches nothing measures nothing.
ReadDiff ==
  /\ stage = "diff"
  /\ LET parsed == ParseUnifiedDiff(tree.diff)
     IN IF parsed.malformed \/ parsed.changed = {} THEN End("failure")
        ELSE Learn("floors", [found EXCEPT !.changed = parsed.changed])

EvaluateFloors ==
  /\ stage = "floors"
  /\ IF TierIndexRefused(tree) \/ NothingToConclude(tree) THEN End("failure")
     ELSE Learn("emit", [found EXCEPT !.findings = FloorFindings(tree)])

SummarizeCoverage ==
  /\ stage = "summary"
  /\ IF TierIndexRefused(tree) THEN End("failure")
     ELSE Learn("emit", [found EXCEPT !.report = Summarize])

BuildRequirementsReport ==
  /\ stage = "requirements"
  /\ IF InventoryRefused(tree) \/ \E r \in Range(tree.testReports) : \E x \in r : x.requirement = None
     THEN End("failure")
     ELSE Learn("emit", [found EXCEPT
            !.findings = RequirementFindings(tree),
            !.report   = [c \in Range(tree.criteria) |-> Discharge(tree, c)]])

\* A report may be written only beneath the report root, and before the verdict.
Emit ==
  /\ stage = "emit"
  /\ \/ request.report # "elsewhere" /\ End(IF found.findings = {} THEN "conformant" ELSE "findings")
     \/ request.report # None /\ End("failure")

VerifyNext ==
  \/ VerifyArguments \/ ReadExport \/ ExportsRead \/ ReadDiff \/ EvaluateFloors
  \/ SummarizeCoverage \/ BuildRequirementsReport \/ Emit

VerifySpec == Begin("rf-verify", Nothing) /\ [][VerifyNext]_vars

(***************************************************************************)
(* What the readers of JSON, of a diff and of paths leave of documents as  *)
(* llvm-cov and git write them: a count is of executions, never negative.  *)
(***************************************************************************)
IsRegion(r) == r \in [line : {r.line}, span : {r.span}, true : Nat, false : Nat]

IsDecision(d) ==
  d.conditions \in Nat /\ \A v \in d.vectors : v.values \in [1..d.conditions -> {"true", "false", "absent"}]

\* Of a file that is not ours only the name and the expansions are read.
HasItsForm(f) ==
  /\ f.name \in DOMAIN Unit
  /\ IsList(f.expansions) /\ \A e \in Range(f.expansions) : IsRegion(e.region)
  /\ Ours(f) =>
       /\ IsList(f.branches) /\ \A r \in Range(f.branches) : IsRegion(r)
       /\ IsList(f.segments) /\ \A x \in Range(f.segments) : x.line \in Nat /\ x.count \in Nat
       /\ \A d \in f.decisions : IsDecision(d)
       /\ f.summary \in [covered : Nat, count : Nat]

IsDiffRow(row) ==
  /\ row.mark \in {"+++", "---", "diff", "index", "@@", "+", "-", "~", "context", "other"}
  /\ row.mark = "+++" => row.path \in DOMAIN Unit \union {None}
  /\ row.mark = "@@" => row.start \in Nat \union {None}

IsCheckout(t) ==
  /\ IsList(t.exports)
  /\ \A d \in Range(t.exports) : IsList(d.files) /\ \A f \in Range(d.files) : f.wellFormed => HasItsForm(f)
  /\ t.diff # None => IsList(t.diff) /\ \A row \in Range(t.diff) : IsDiffRow(row)

\* A maintained path is one of the repository; paths are ordered; None is neither
\* a path nor an exit.
ASSUME VerifyAssumption ==
  /\ MaxCount \in Nat \ {0} /\ MaxListed \in Nat
  /\ None \notin DOMAIN Unit \union {"conformant", "findings"}
  /\ \A u \in DOMAIN Unit : Unit[u].place \in Nat /\ (Unit[u].maintained => ~Unit[u].foreign)
  /\ \A u, v \in DOMAIN Unit : Unit[u].place = Unit[v].place => u = v
  /\ \A i \in Invocations : i.tool = "rf-verify" => IsCheckout(Trees[i.tree])

(***************************************************************************)
(* What the verdicts mean, without folds, readers or counters.             *)
(***************************************************************************)
rows == tree.diff

\* The last row before i with one of these marks.
LastOf(i, marks) == Max({0} \union {j \in 1..(i - 1) : rows[j].mark \in marks})

\* The line of the new file that row i of a hunk adds, and of which file.
AddedLine(i) ==
  LET hunk == LastOf(i, {"@@"})
  IN rows[hunk].start + Cardinality({j \in hunk..(i - 1) : rows[j].mark \in {"+", "context"}})

Added(u) ==
  {AddedLine(i) : i \in {j \in DOMAIN rows :
     /\ rows[j].mark = "+"
     /\ LastOf(j, {"+++", "---", "diff", "index", "other", "@@"}) = LastOf(j, {"@@"})
     /\ LastOf(j, {"+++"}) > 0
     /\ rows[LastOf(j, {"+++"})].path = u}}

\* No text of the change looks like a header of the diff.
Plain == \A i \in DOMAIN rows : Reads(rows[i]) = rows[i].mark

\* Every region any file of an export says about u: its own, and the
\* expansions of its macros, in whatever file they were made.
Document(u) == CHOOSE d \in Range(tree.exports) : \E f \in Range(d.files) : f.name = u

RegionsOf(u) ==
  (UNION {Range(f.branches) : f \in {x \in Range(Document(u).files) : x.name = u}})
  \union UNION {{e.region : e \in {x \in Range(f.expansions) : x.of = u}} : f \in Range(Document(u).files)}

\* The outcomes a change has to see taken, and those somebody took.
Outcomes(u) ==
  {<<r.line, r.span, side>> : r \in {x \in RegionsOf(u) : /\ x.line \in Added(u) \ tree.defaulted[u]
                                                           /\ x.span \notin tree.constant[u]},
                              side \in {"true", "false"}}

Taken(u) == {o \in Outcomes(u) : \E r \in RegionsOf(u) : r.line = o[1] /\ r.span = o[2] /\ r[o[3]] > 0}

\* A pair of runs that differ, so far as anybody looked, in one condition only.
Decides(d, c) ==
  \E v, w \in {x \in d.vectors : x.executed} :
    /\ v.result # w.result
    /\ {o \in 1..d.conditions : {v.values[o], w.values[o]} = {"true", "false"}} = {c}

Earned(u) ==
  \E r \in Declaring(tree) : \E d \in Range(r.declares) :
    /\ d.unit = u
    /\ (\E x \in Range(tree.exports) : \E f \in Range(x.files) : f.name = u)
       => /\ 100 * Cardinality(Taken(u)) >= FloorPercent(d.tier) * Cardinality(Outcomes(u))
          /\ d.tier = "H" => \A y \in Range(tree.exports) : \A g \in Range(y.files) :
               g.name = u => \A e \in {z \in g.decisions : z.line \in Added(u)} :
                               e.conditions > 0 /\ \A c \in 1..e.conditions : Decides(e, c)

\* The lines of one file that were counted and never ran.
Blank(f) ==
  {<<f.name, s.line>> : s \in {x \in Range(f.segments) :
     Ours(f) /\ x.hasCount /\ \A y \in Range(f.segments) : y.hasCount /\ y.line = x.line => y.count = 0}}

\* Every changed unit earns its floor, and the declarations are those of the tree.
ChangeEarned ==
  /\ \A u \in {x \in DOMAIN Unit : Unit[x].maintained} : Added(u) # {} => Earned(u)
  /\ PresentUnits(tree) = DeclaredUnits(tree)

FloorsExact == Plain => (exit = "conformant" <=> ChangeEarned)

\* The criterion has a test that ran and claims it.
Claimed(id) == \E r \in Range(tree.testReports) : \E x \in r : id \in x.requirement

ClaimsAreDeclared ==
  \A r \in Range(tree.testReports) : \A x \in r : x.requirement \subseteq {c.id : c \in Range(tree.criteria)}

RequirementsExact ==
  /\ exit = "conformant" <=> ClaimsAreDeclared
  /\ \A c \in Range(tree.criteria) : found.report[c] = "bound" <=> Claimed(c.id)

AllBlank == UNION {UNION {Blank(f) : f \in Range(d.files)} : d \in Range(tree.exports)}

SummaryExact ==
  /\ found.report.listed \subseteq AllBlank
  /\ Cardinality(found.report.listed) = Min({MaxListed, Cardinality(AllBlank)})
  /\ Cardinality(found.report.listed) + found.report.omitted = Cardinality(AllBlank)

(***************************************************************************)
(* The exit of a run that concluded is the one its inputs earn.  For       *)
(* floors: every changed unit is declared and each outcome and condition   *)
(* on an added line is covered to its tier's floor, counting what macro    *)
(* expansions anywhere in the document executed, and the declarations are  *)
(* those of the tree.  For requirements: no test claims a criterion nobody *)
(* declared, and a criterion counts as discharged by a test exactly when   *)
(* one that ran claims it.  For a summary: every uncovered line is listed  *)
(* or counted as left out.  The tool reads rows one at a time, merges and  *)
(* saturates counts; here the inputs are looked at whole.                  *)
(***************************************************************************)
VerdictIsExact ==
  exit \in {"conformant", "findings"} =>
    CASE request.operation = "coverage_floors"     -> FloorsExact
      [] request.operation = "requirements_report" -> RequirementsExact
      [] request.operation = "coverage_summary"    -> SummaryExact
      [] OTHER                                     -> TRUE
====
