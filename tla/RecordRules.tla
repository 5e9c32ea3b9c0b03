---- MODULE RecordRules ----
(***************************************************************************)
(* What rf-evidence holds one record to before it says anything about it:  *)
(* form and kind, its descriptor, its schema and the rules of its kind,    *)
(* the promotion a baseline record describes, and the provenance it        *)
(* claims.  Each is the condition under which it refuses.                  *)
(*                                                                         *)
(* A record's members are those the rules read.  sound says whether what   *)
(* the rules of its kind ask beyond the schema holds; for plans,           *)
(* registries and policies these rules are in Evaluation.  A digest is a   *)
(* name for the bytes that have it.                                        *)
(***************************************************************************)
EXTENDS ToolRun, Naturals, Sequences, FiniteSets, Functions

Recording == {"canonicalize record", "validate record"}

ProducerKinds == {"raw_run_receipt", "evidence_set", "attempt_plan"}

\* Maintained by hand, and held to say no more of an outcome than a producer.
MaintainedKinds == {"metric_registry", "evaluation_policy"}

\* The kinds that exist to state an outcome.
OutcomeKinds == {"evaluation_receipt", "baseline_record"}

RecordKinds == ProducerKinds \union MaintainedKinds \union OutcomeKinds

\* The media type of a kind names its generation, and there is one.
MediaType(kind) == <<kind, 1>>

Untrusted == "diagnostic_untrusted"
Trusted   == "trusted_ci"

(***************************************************************************)
(* Schemas: the part of them that the rules repeat.                        *)
(***************************************************************************)
TrustShaped(trust) ==
  /\ trust.provenance \in {Untrusted, Trusted}
  /\ trust.provenance = Trusted <=> trust.attestation # None

MaxAffectedMetrics == 64
MaxPredecessorChain == 32

PromotionShaped(b) ==
  /\ b.tier = "tier_0"
  /\ b.first <=> b.predecessor = None
  /\ b.chain <= MaxPredecessorChain
  /\ Len(b.metrics) \in 1..MaxAffectedMetrics

OfSchema(r) ==
  /\ r.shaped
  /\ r.version = MediaType(r.kind)[2]
  /\ r.verdictMember <=> r.kind \in OutcomeKinds
  /\ r.trust = None <=> r.kind \in {"attempt_plan", "metric_registry"}
  /\ r.trust # None => TrustShaped(r.trust)
  /\ r.kind = "baseline_record" => PromotionShaped(r.promotion)

(***************************************************************************)
(* Form, descriptor and the gate of a kind.                                *)
(***************************************************************************)
\* An authored record is made canonical; one that is validated already is.
Ingested(r, operation) ==
  /\ r.form \in (IF operation = "canonicalize record" THEN {"authored", "canonical"} ELSE {"canonical"})
  /\ r.kind \in RecordKinds

Describes(d, r) ==
  /\ d.form = "canonical"
  /\ d.media = MediaType(r.kind)
  /\ d.bytes = r.bytes
  /\ d.digest = r.digest

\* A change that is not the revision itself promotes it, under a review that is
\* neither the change nor the verdict, in a chain without a gap.
PromotionRefused(r) ==
  LET b == r.promotion
  IN \/ b.tier # "tier_0"
     \/ r.trust.provenance # Untrusted
     \/ r.trust.remote                                  \* a reference with a scheme
     \/ b.receipt = b.set
     \/ b.change \in {b.revision, b.review}
     \/ b.review = b.receipt
     \/ b.first <=> b.predecessor # None
     \/ b.chain > MaxPredecessorChain
     \/ b.state = "active" <=> b.successor # None
     \/ Len(b.metrics) \notin 1..MaxAffectedMetrics
     \/ ~IsInjective(b.metrics)
     \/ b.relative # {}
     \/ ~ b.absolute \subseteq Range(b.metrics)

GateRefused(r) ==
  \/ r.kind \notin OutcomeKinds /\ r.verdictMember
  \/ ~tree.oracle
  \/ ~OfSchema(r)
  \/ r.version # MediaType(r.kind)[2]
  \/ ~r.sound
  \/ r.kind = "baseline_record" /\ PromotionRefused(r)

(***************************************************************************)
(* Attestation.  A claim says of itself what the statement in the bundle   *)
(* must say, and both are held to the identities compiled into the tool.   *)
(***************************************************************************)
SourceUri       == "https://github.com/Rawframe-Project/rawframe"
SourcePath      == "Rawframe-Project/rawframe"
ProtectedRef    == "refs/heads/main"
EntryWorkflow   == "verify-main"
Producer        == "trusted-verification@refs/heads/main"
HostedRunner    == "github-hosted"

\* What a claim and a statement both spell, in one spelling.
Facts == {"subjectName", "subjectDigest", "builderId", "sourceCommit", "sourceRef",
          "workflowPath", "workflowRef", "run"}

\* A run is <<id, attempt>>.
ClaimRefused(claim) == \E i \in 1..2 : claim.run[i] = 0

\* The one accepted envelope, about one subject, by a numbered run on a hosted machine.
Decodes(bundle) ==
  /\ bundle # None
  /\ bundle.enveloped
  /\ bundle.statement.environment = HostedRunner
  /\ \A i \in 1..2 : bundle.statement.run[i] > 0

Held(digest) == digest \in DOMAIN tree.store

\* The bytes at a digest are read again, whatever they were when they were put.
MeasuredAt(digest) == tree.store[digest].digest

\* Both name the protected lane, in the two spellings of its repository.
OfTheLane(claim, statement) ==
  /\ statement.sourceRepository = SourceUri /\ claim.sourceRepository = SourcePath
  /\ statement.sourceRef = ProtectedRef
  /\ statement.workflowPath = EntryWorkflow /\ statement.workflowRef = ProtectedRef
  /\ statement.builderId = Producer

\* The verifier vouches for a statement about these bytes that a run signed
\* under the identity it is given: signatures are not forged.
Vouched(statement, digest) ==
  \E r \in tree.runs : r.signer = Producer /\ r.statement = statement /\ statement.subjectDigest = digest

SignatureRefused(host, statement, digest) ==
  \/ host \notin tree.cosign \intersect tree.trustedRoots
  \/ ~Vouched(statement, digest)

BundleRefused(claim) ==
  LET held == tree.store[claim.bundle.digest]
  IN \/ ~Held(claim.bundle.digest)
     \/ claim.bundle.bytes # held.bytes
     \/ claim.bundle.digest # held.digest
     \/ ~Decodes(held.bundle)

AttestationRefused(claim, host) ==
  LET statement == tree.store[claim.bundle.digest].bundle.statement
  IN \/ ClaimRefused(claim)
     \/ BundleRefused(claim)
     \/ ~Held(claim.subjectDigest)
     \/ \E said \in {claim, statement} : MeasuredAt(claim.subjectDigest) # said.subjectDigest
     \/ \E f \in Facts : claim[f] # statement[f]
     \/ ~OfTheLane(claim, statement)
     \/ SignatureRefused(host, statement, MeasuredAt(claim.subjectDigest))

\* A run that was admitted for one subject is not admitted for another.
Replayed(claim, admitted) ==
  \E a \in admitted : a.run = claim.run /\ a.subjectDigest # claim.subjectDigest

TrustRefused(r, host, admitted) ==
  /\ r.trust # None
  /\ CASE r.trust.provenance = Untrusted -> r.trust.attestation # None
       [] r.trust.provenance = Trusted ->
            \/ r.trust.attestation = None
            \/ host = None
            \/ AttestationRefused(r.trust.attestation, host)
            \/ Replayed(r.trust.attestation, admitted)
       [] OTHER -> TRUE
====
