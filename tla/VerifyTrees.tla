---- MODULE VerifyTrees ----
(***************************************************************************)
(* Checkouts for rf-verify: one whose change is covered, and families that *)
(* differ from it in the diff, the counts, the decisions, the expansions,  *)
(* the tiers, the split into exports or the recorded requirements.         *)
(***************************************************************************)
EXTENDS ToolRun, Naturals, Sequences, TLC

Place(place, maintained, translation, foreign) ==
  [place |-> place, maintained |-> maintained, translation |-> translation, foreign |-> foreign]

UnitFacts ==
     "a.cpp"     :> Place(1, TRUE, TRUE, FALSE)
  @@ "b.h"       :> Place(2, TRUE, FALSE, FALSE)
  @@ "readme.md" :> Place(3, FALSE, FALSE, FALSE)
  @@ "system.h"  :> Place(4, FALSE, FALSE, TRUE)

MCMaxCount == 3

Region(line, span, t, f) == [line |-> line, span |-> span, true |-> t, false |-> f]

Expansion(of, r) == [of |-> of, region |-> r]

Segment(line, count) == [line |-> line, count |-> count, hasCount |-> TRUE]

Covered(name, branches) ==
  [name |-> name, wellFormed |-> TRUE, branches |-> branches, decisions |-> {}, expansions |-> <<>>,
   segments |-> <<Segment(1, 1), Segment(2, 0), Segment(2, 1), [Segment(3, 0) EXCEPT !.hasCount = FALSE],
                  Segment(4, 0)>>,
   summary |-> [count |-> 4, covered |-> 2]]

Export(files) == [kind |-> "llvm.coverage.json.export", files |-> files]

Row(mark) == [mark |-> mark, text |-> "", path |-> None, start |-> None]
NewFile(p) == [Row("+++") EXCEPT !.path = p]
Hunk(n)   == [Row("@@") EXCEPT !.start = n]

\* Lines 2 and 3 of a.cpp and line 1 of b.h are new.
Change ==
  <<Row("diff"), Row("index"), Row("---"), NewFile("a.cpp"), Hunk(1), Row("context"), Row("-"), Row("+"), Row("+"), Row("~"),
    Row("diff"), Row("---"), NewFile("b.h"), Hunk(1), Row("+"), Row("other"), Row("+")>>

AllTaken == <<Region(2, "s", 1, 1), Region(3, "t", 1, 2), Region(9, "u", 0, 0)>>

Declare(u, tier) == [unit |-> u, tier |-> tier]

Root(declares) == [declares |-> declares, hasSource |-> TRUE, present |-> {"a.cpp", "b.h", "readme.md"}]

Criterion(id, discharge) == [id |-> id, discharge |-> discharge, wellFormed |-> TRUE]

Test(name, requirement) == [name |-> name, requirement |-> requirement]

CoveredTree ==
  [hasIndex    |-> TRUE,
   exports     |-> <<Export(<<Covered("a.cpp", AllTaken), Covered("system.h", <<>>)>>)>>,
   diff        |-> Change,
   roots       |-> {Root(<<Declare("a.cpp", "A"), Declare("b.h", "O")>>)},
   readable    |-> {"a.cpp", "b.h"},
   defaulted   |-> [u \in DOMAIN UnitFacts |-> {}],
   constant    |-> [u \in DOMAIN UnitFacts |-> {}],
   criteria    |-> <<Criterion("c", "automated"), Criterion("m", "manual"), Criterion("l", "lane")>>,
   testReports |-> <<{Test("x", {"c"}), Test("y", {})}>>]

\* Counts, and what a macro's expansion in either file adds to them.
Counts == {"counts"} \X {0, MCMaxCount} \X {0, 3} \X {0, 1}

Counting(k) ==
  [CoveredTree EXCEPT !.exports =
     <<Export(<<[Covered("a.cpp", <<Region(2, "s", k[2], 1), Region(2, "s", 0, k[3]), Region(3, "t", 1, 1)>>)
                   EXCEPT !.expansions = <<Expansion("b.h", Region(1, "m", k[3], k[2]))>>],
                [Covered("b.h", <<Region(1, "m", k[4], 1)>>)
                   EXCEPT !.expansions = <<Expansion("a.cpp", Region(2, "s", k[4], 0))>>]>>)>>]

\* One decision of two conditions under some of its vectors, on a changed line or not.
Vectors ==
  {[values |-> <<"false", "absent">>, result |-> FALSE, executed |-> TRUE],
   [values |-> <<"true", "false">>, result |-> FALSE, executed |-> TRUE],
   [values |-> <<"false", "true">>, result |-> FALSE, executed |-> FALSE],
   [values |-> <<"true", "true">>, result |-> TRUE, executed |-> TRUE]}

Decisions == {"decision"} \X {"H", "A"} \X {3, 9} \X (SUBSET Vectors)

Deciding(k) ==
  [CoveredTree EXCEPT
     !.roots = {Root(<<Declare("a.cpp", k[2]), Declare("b.h", "O")>>)},
     !.exports[1].files[1].decisions = {[line |-> k[3], conditions |-> 2, vectors |-> k[4]]}]

\* Five regions of which so many have an outcome nobody took, at each floor.
Floors == {"floor"} \X {"O", "A", "H"} \X (0..3)

Flooring(k) ==
  [CoveredTree EXCEPT
     !.roots = {Root(<<Declare("a.cpp", k[2]), Declare("b.h", "O")>>)},
     !.exports[1].files[1].branches = [i \in 1..5 |-> Region(2, i, 1, IF i > k[3] THEN 1 ELSE 0)]]

Missed == [CoveredTree EXCEPT !.exports[1].files[1].branches = <<Region(2, "s", 1, 0)>>]

Diffs ==
  <<<<>>, <<Row("diff"), Row("---"), NewFile("a.cpp"), Row("@@"), Row("+")>>,
    <<NewFile("a.cpp"), Hunk(3), Row("+"), Row("+")>>,
    <<NewFile("a.cpp"), Row("+"), Hunk(9), Row("+")>>,
    <<NewFile("a.cpp"), Hunk(3), Row("-"), Row("context"), Hunk(8), Row("context"), Row("+")>>,
    <<NewFile("readme.md"), Hunk(1), Row("+"), NewFile("b.h"), Hunk(1), Row("-")>>,
    <<NewFile("a.cpp"), Hunk(7), [Row("-") EXCEPT !.text = "--"], Row("context"), Row("+"), Row("context"), Row("+")>>,
    <<NewFile("a.cpp"), Hunk(8), [Row("+") EXCEPT !.text = "++", !.path = "b.h"], Row("+")>>>>

Tiers ==
  <<{Root(None)}, {[Root(None) EXCEPT !.hasSource = FALSE]}, {Root(<<Declare("a.cpp", "A")>>)},
    {Root(<<Declare("b.h", "A")>>)}, {Root(<<Declare("a.cpp", "X"), Declare("b.h", "A")>>)},
    {Root(<<Declare("a.cpp", "A"), Declare("b.h", "A"), Declare("a.cpp", "O")>>)},
    {[Root(<<Declare("a.cpp", "A"), Declare("b.h", "A")>>) EXCEPT !.present = {"a.cpp"}]}>>

Exports ==
  <<<<>>, <<Export(<<Covered("b.h", <<>>)>>)>>, <<[Export(<<>>) EXCEPT !.kind = "other"]>>,
    <<Export(<<Covered("b.h", <<>>)>>), Export(<<Covered("a.cpp", AllTaken)>>)>>,
    <<Export(<<Covered("a.cpp", AllTaken)>>), Export(<<Covered("a.cpp", AllTaken)>>)>>,
    <<Export(<<[Covered("a.cpp", <<>>) EXCEPT !.wellFormed = FALSE]>>)>>,
    <<Export(<<Covered("a.cpp", AllTaken),
               [Covered("b.h", <<>>) EXCEPT !.segments[1].count = 0, !.summary.covered = 1]>>)>>>>

Others ==
  <<Missed, [Missed EXCEPT !.defaulted["a.cpp"] = {2}], [Missed EXCEPT !.constant["a.cpp"] = {"s"}],
    [Missed EXCEPT !.constant["a.cpp"] = {"t"}],
    [CoveredTree EXCEPT !.readable = {"b.h"}], [CoveredTree EXCEPT !.hasIndex = FALSE],
    [CoveredTree EXCEPT !.diff = None]>>

Criteria ==
  <<<<Criterion("c", "manual"), Criterion("c", "lane")>>, <<Criterion("c", "someday")>>,
    <<[Criterion("c", "lane") EXCEPT !.wellFormed = FALSE]>>>>

\* What three tests of two reports recorded.
Recorded == {"recorded"} \X (SUBSET {"m", "l", "unknown"}) \X {{}, {"m"}, {"unknown"}}

Reports == <<<<>>, <<{Test("x", None)}>>>>

MCVerifyTrees ==
  [k \in {<<"covered">>} \union Counts \union Decisions \union Floors \union Recorded
           \union ({"diff"} \X DOMAIN Diffs) \union ({"tier"} \X DOMAIN Tiers)
           \union ({"export"} \X DOMAIN Exports) \union ({"other"} \X DOMAIN Others)
           \union ({"criteria"} \X DOMAIN Criteria) \union ({"report"} \X DOMAIN Reports)
   |-> CASE k[1] = "covered"  -> CoveredTree
         [] k[1] = "counts"   -> Counting(k)
         [] k[1] = "decision" -> Deciding(k)
         [] k[1] = "floor"    -> Flooring(k)
         [] k[1] = "diff"     -> [CoveredTree EXCEPT !.diff = Diffs[k[2]]]
         [] k[1] = "tier"     -> [CoveredTree EXCEPT !.roots = Tiers[k[2]]]
         [] k[1] = "export"   -> [CoveredTree EXCEPT !.exports = Exports[k[2]]]
         [] k[1] = "other"    -> Others[k[2]]
         [] k[1] = "criteria" -> [CoveredTree EXCEPT !.criteria = Criteria[k[2]]]
         [] k[1] = "report"   -> [CoveredTree EXCEPT !.testReports = Reports[k[2]]]
         [] k[1] = "recorded" -> [CoveredTree EXCEPT !.testReports =
              <<{Test("x", k[2])}, {Test("y", k[3]), Test("z", {"c"})}>>]]

MCVerifyRuns ==
  [tool : {"rf-verify"},
   request : [operation : {"coverage_floors", "coverage_summary", "requirements_report"},
              wellFormed : {TRUE}, report : {None}],
   tree : DOMAIN MCVerifyTrees]
  \union
  [tool : {"rf-verify"},
   request : [operation : {"coverage_floors", "coverage_summary", "requirements_report", "no_such_operation"},
              wellFormed : BOOLEAN, report : {None, "out/verify/r.json", "elsewhere"}],
   tree : {<<"covered">>}]
====
