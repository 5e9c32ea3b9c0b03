---- MODULE RecordTrees ----
(***************************************************************************)
(* Records for rf-evidence, with the store, the runs that happened and the *)
(* verifier they are judged by: sound ones of every kind, those that       *)
(* differ from a sound one in one respect, and every way in which a claim, *)
(* the bundle it names and what a run really signed can disagree.          *)
(***************************************************************************)
EXTENDS RecordRules, TLC

Statement ==
  [subjectName |-> "archive", subjectDigest |-> "subject", builderId |-> Producer, sourceCommit |-> "c1",
   sourceRef |-> ProtectedRef, workflowPath |-> EntryWorkflow, workflowRef |-> ProtectedRef, run |-> <<7, 1>>,
   sourceRepository |-> SourceUri, environment |-> HostedRunner]

\* What else a statement can say: of another artifact, of a run that entered
\* elsewhere, from a branch, from a fork, on a machine of one's own.
Elsewise ==
  [subjectName |-> "other", subjectDigest |-> "other", builderId |-> "trusted-verification@branch",
   sourceCommit |-> "c2", sourceRef |-> "refs/pull/1", workflowPath |-> "pull-request",
   workflowRef |-> "refs/pull/1", run |-> <<7, 2>>, sourceRepository |-> "https://github.com/fork/rawframe",
   environment |-> "self-hosted"]

\* A statement that is not of the lane at all is what a branch really gets.
OfABranch == [Statement EXCEPT !.sourceRef = "refs/pull/1", !.workflowPath = "pull-request",
                               !.workflowRef = "refs/pull/1", !.run = <<8, 1>>]

OfARetry == [Statement EXCEPT !.run = <<7, 2>>, !.sourceCommit = "c2"]

Claiming(statement) ==
  [f \in Facts |-> statement[f]]
    @@ [sourceRepository |-> IF statement.sourceRepository = SourceUri THEN SourcePath ELSE "fork/rawframe",
        bundle |-> [media |-> "sigstore", bytes |-> 3, digest |-> "bundle"]]

Stored(statement) ==
  [d \in {"subject", "other", "bundle"} |->
     [bytes |-> IF d = "bundle" THEN 3 ELSE 5, digest |-> d,
      bundle |-> IF d = "bundle" THEN [enveloped |-> TRUE, statement |-> statement] ELSE None]]

Ran(statement, signer) == [statement |-> statement, signer |-> signer]

Plainly(provenance, attestation) == [provenance |-> provenance, attestation |-> attestation, remote |-> FALSE]

Promotion ==
  [tier |-> "tier_0", receipt |-> "receipt", set |-> "set", revision |-> "r1", change |-> "r2", review |-> "r3",
   first |-> TRUE, predecessor |-> None, chain |-> 0, state |-> "active", successor |-> None,
   metrics |-> <<"latency", "memory">>, absolute |-> {"latency"}, relative |-> {}]

Record(kind) ==
  [form |-> "canonical", kind |-> kind, shaped |-> TRUE, version |-> 1, verdictMember |-> kind \in OutcomeKinds,
   sound |-> TRUE, digest |-> "record", bytes |-> 9, promotion |-> Promotion,
   trust |-> IF kind \in {"attempt_plan", "metric_registry"} THEN None ELSE Plainly(Untrusted, None)]

Judged(record) ==
  [record |-> record, oracle |-> TRUE, closed |-> {},
   descriptor |-> [form |-> "canonical", media |-> <<record.kind, 1>>, bytes |-> 9, digest |-> "record"],
   store |-> Stored(Statement), runs |-> {Ran(Statement, Producer)},
   cosign |-> {"linux-x86_64"}, trustedRoots |-> {"linux-x86_64", "windows-x86_64"}]

Receipt == Record("raw_run_receipt")

Trusting(claim) == [Receipt EXCEPT !.trust = Plainly(Trusted, claim)]

TrustedTree == Judged(Trusting(Claiming(Statement)))

(***************************************************************************)
(* What differs.                                                           *)
(***************************************************************************)
Differing(record) ==
  <<[record EXCEPT !.form = "authored"], [record EXCEPT !.form = "malformed"], [record EXCEPT !.form = "missing"],
    [record EXCEPT !.kind = "opinion"], [record EXCEPT !.shaped = FALSE], [record EXCEPT !.version = 2],
    [record EXCEPT !.verdictMember = ~@], [record EXCEPT !.sound = FALSE],
    [record EXCEPT !.trust = None], [record EXCEPT !.trust = Plainly(Untrusted, Claiming(Statement))],
    [record EXCEPT !.trust = Plainly(Trusted, None)], [record EXCEPT !.trust = Plainly("operator", None)],
    [record EXCEPT !.trust = Plainly(Trusted, Claiming(Statement))],
    [record EXCEPT !.trust = [Plainly(Untrusted, None) EXCEPT !.remote = TRUE]], record>>

Baseline(promotion) == [Record("baseline_record") EXCEPT !.promotion = promotion]

Promotions ==
  <<[Promotion EXCEPT !.tier = "tier_2"], [Promotion EXCEPT !.receipt = "set"],
    [Promotion EXCEPT !.change = "r1"], [Promotion EXCEPT !.review = "r2"], [Promotion EXCEPT !.review = "receipt"],
    [Promotion EXCEPT !.review = "r1"],
    [Promotion EXCEPT !.first = FALSE], [Promotion EXCEPT !.predecessor = "b0"],
    [Promotion EXCEPT !.first = FALSE, !.predecessor = "b0", !.chain = MaxPredecessorChain],
    [Promotion EXCEPT !.first = FALSE, !.predecessor = "b0", !.chain = MaxPredecessorChain + 1],
    [Promotion EXCEPT !.successor = "b2"], [Promotion EXCEPT !.state = "revoked"],
    [Promotion EXCEPT !.state = "superseded", !.successor = "b2"],
    [Promotion EXCEPT !.metrics = <<>>, !.absolute = {}], [Promotion EXCEPT !.metrics = <<"latency", "latency">>],
    [Promotion EXCEPT !.metrics = [i \in 1..MaxAffectedMetrics |-> i], !.absolute = {1}],
    [Promotion EXCEPT !.metrics = [i \in 1..(MaxAffectedMetrics + 1) |-> i], !.absolute = {1}],
    [Promotion EXCEPT !.relative = {"latency"}], [Promotion EXCEPT !.absolute = {"latency", "size"}]>>

\* The claim, the bundle or both say otherwise in one fact, and a run signed
\* either what the bundle says or what was to be said.
Disagreeing ==
  {"claim", "bundle", "both"} \X (DOMAIN Statement) \X {"signed", "unsigned"}

Disagreement(k) ==
  LET other == [Statement EXCEPT ![k[2]] = Elsewise[k[2]]]
      says  == IF k[1] = "claim" THEN Statement ELSE other
      claim == IF k[1] = "bundle" THEN Statement ELSE other
  IN [Judged(Trusting(Claiming(claim))) EXCEPT
        !.store = Stored(says),
        !.runs  = {Ran(IF k[3] = "signed" THEN other ELSE Statement, Producer)}]

Provenances ==
  <<TrustedTree,
    [Judged(Trusting(Claiming(OfABranch))) EXCEPT !.store = Stored(OfABranch), !.runs = @ \union {Ran(OfABranch, Producer)}],
    [Judged(Trusting(Claiming(OfARetry))) EXCEPT !.store = Stored(OfARetry), !.runs = @ \union {Ran(OfARetry, Producer)}],
    [Judged(Trusting(Claiming(Statement))) EXCEPT !.store = Stored(OfARetry), !.runs = @ \union {Ran(OfARetry, Producer)}],
    [TrustedTree EXCEPT !.runs = {Ran(Statement, "someone else")}], [TrustedTree EXCEPT !.runs = {}],
    [TrustedTree EXCEPT !.cosign = {}], [TrustedTree EXCEPT !.trustedRoots = {}],
    [TrustedTree EXCEPT !.store = [d \in {"other", "bundle"} |-> @[d]]],
    [TrustedTree EXCEPT !.store = [d \in {"subject", "other"} |-> @[d]]],
    [TrustedTree EXCEPT !.store["subject"].digest = "tampered"],
    [TrustedTree EXCEPT !.store["subject"] = Stored(Statement)["other"]],
    [TrustedTree EXCEPT !.store["bundle"].digest = "tampered"], [TrustedTree EXCEPT !.store["bundle"].bytes = 4],
    [TrustedTree EXCEPT !.store["bundle"].bundle = None],
    [TrustedTree EXCEPT !.store["bundle"].bundle.enveloped = FALSE],
    [TrustedTree EXCEPT !.record.trust.attestation.run = <<0, 1>>],
    [TrustedTree EXCEPT !.record.trust.attestation.bundle.digest = "subject"],
    [TrustedTree EXCEPT !.record.trust.attestation.sourceRepository = SourceUri],
    [TrustedTree EXCEPT !.oracle = FALSE],
    [TrustedTree EXCEPT !.descriptor.form = "authored"], [TrustedTree EXCEPT !.descriptor.media = <<"evidence_set", 1>>],
    [TrustedTree EXCEPT !.descriptor.bytes = 8], [TrustedTree EXCEPT !.descriptor.digest = "other"]>>

MCRecordTrees ==
  [k \in ({"kind"} \X RecordKinds \X (1..Len(Differing(Receipt)))) \union ({"promotion"} \X DOMAIN Promotions)
           \union ({"provenance"} \X DOMAIN Provenances) \union Disagreeing
   |-> CASE k[1] = "kind"       -> Judged(Differing(Record(k[2]))[k[3]])
         [] k[1] = "promotion"  -> Judged(Baseline(Promotions[k[2]]))
         [] k[1] = "provenance" -> Provenances[k[2]]
         [] OTHER               -> Disagreement(k)]

RecordRequest ==
  [operation : Recording, escalates : {FALSE}, wellFormed : {TRUE}, rootResolves : {TRUE}, report : {None},
   tool : {None}, host : {None, "linux-x86_64", "windows-x86_64"}, record : {TRUE}, described : BOOLEAN]

\* Either operation on every record, with and without a descriptor and a host;
\* every form of command line on one.
MCRecordInvocations ==
  [tool : {"rf-evidence"}, request : RecordRequest, tree : DOMAIN MCRecordTrees]
  \union
  [tool : {"rf-evidence"},
   request : [operation : Recording, escalates : BOOLEAN, wellFormed : BOOLEAN, rootResolves : BOOLEAN,
              report : {None, "placed"}, tool : {None}, host : {None, "linux-x86_64"}, record : BOOLEAN,
              described : {TRUE}],
   tree : {<<"provenance", 1>>}]
====
