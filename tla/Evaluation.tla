---- MODULE Evaluation ----
(***************************************************************************)
(* From receipts to a verdict: the assemble and evaluate operations of     *)
(* rf_evidence (record_command.cpp), with assembleEvidenceSet, the         *)
(* registry, the policy and evaluateEvidenceSet behind them.               *)
(*                                                                         *)
(* Assembly reads a declared plan of attempts and the receipts it names    *)
(* out of the blob store, and writes a ledger that says which attempts are *)
(* eligible.  Evaluation reads a ledger, the one maintained policy and its *)
(* registry, and again every eligible receipt; it decides the checks phase *)
(* by phase and emits an evaluation receipt.                               *)
(*                                                                         *)
(* The commands run one at a time, each any number of times, over the same *)
(* inputs.  Between and during runs a stored receipt can be damaged, so    *)
(* that the store refuses it (the promise of ContentStore), and maintained *)
(* files can be laid out in another order.  What a schema rejects never    *)
(* reaches this code and is not among the inputs.                          *)
(***************************************************************************)
EXTENDS Scale, Sequences, FiniteSets

CONSTANTS
  ReceiptOf,        \* what each digest in the store stands for
  NoDigest,         \* the null receipt of a planned attempt
  NoAttempt,        \* an attempt that supersedes nothing
  Plans,            \* attempt plans
  Ledgers,          \* evidence sets that no assembly of ours has written
  Indexes,          \* what the evidence index may name: registries, policies
  MaxDepth,         \* kMaximumSupersedesDepth
  MaxDamage,        \* bound: how many receipts are damaged
  None              \* no plan, no evidence set, no facts, no receipt

Digests == DOMAIN ReceiptOf

ASSUME EvaluationAssumption ==
  /\ NoDigest \notin Digests
  /\ MaxDepth \in Nat /\ MaxDamage \in Nat

Elements(s) == {s[i] : i \in DOMAIN s}
Distinct(s, Field(_)) == \A i, j \in DOMAIN s : Field(s[i]) = Field(s[j]) => i = j
IsList(s) == s \in Seq(Elements(s))

Statuses == {"completed", "invalid_environment", "invalid_harness",
             "infrastructure_error", "workload_failure"}

\* A plan, a policy and an index, however their lists are ordered.
Layouts(p) == [attemptCount : {p.attemptCount}, repetitionCount : {p.repetitionCount},
               attempts : Seq(Elements(p.attempts))]
PolicyLayouts(p) == [registry : {p.registry}, entries : Seq(Elements(p.entries))]

\* What the schemas of the records let through: lists where they say array, an
\* integer where they say one, at least one entry in a policy, and facts and
\* identities that are there.
ASSUME SchemaAssumption ==
  /\ \A d \in Digests : LET r == ReceiptOf[d] IN
       /\ r.status \in Statuses /\ r.facts # None
       /\ \A o \in Elements(r.observed) : o.value \in Int
  /\ \A p \in Plans : /\ p \in Layouts(p) /\ None \notin Layouts(p)
                       /\ \A a \in Elements(p.attempts) : a.id # NoAttempt
  /\ \A s \in Ledgers : s # None /\ IsList(s.attempts)
  /\ \A x \in Indexes :
       /\ x \in [registries : {x.registries}, policies : Seq(Elements(x.policies))]
       /\ \A r \in Elements(x.registries) : \A m \in Elements(r.metrics) : m.rounding \in Roundings
       /\ \A p \in Elements(x.policies) :
            /\ p \in PolicyLayouts(p) /\ p.entries # <<>>
            /\ \A e \in Elements(p.entries) : e.key \in Int /\ e.bound \in Int

VARIABLES
  plan,             \* the attempt plan, as it is laid out now
  evidenceSet,      \* the evidence set file
  index,            \* the maintained registries and policies
  intact,           \* the receipts the store can still return
  pc,               \* where the running command is
  cursor,           \* the attempt or run it has come to
  agreed,           \* the compatibility facts the receipts so far agree on
  statuses,         \* their terminal statuses, in ordinal order
  runs,             \* the eligible runs read so far
  phase,            \* the phase the evaluation has come to
  outcomes,         \* what came of each check
  receipt,          \* the last evaluation receipt that was emitted
  exit              \* the exit code of the last command

inputs == <<plan, evidenceSet, index, intact>>
locals == <<cursor, agreed, statuses, runs, phase, outcomes>>
vars   == <<inputs, pc, locals, receipt, exit>>

Phases == <<"completeness", "correctness", "hard_ceiling">>
Failed == {"bound_violated", "observation_missing"}
Init ==
  /\ \/ plan \in Plans /\ evidenceSet = None
     \/ plan = None /\ evidenceSet \in Ledgers
  /\ index \in Indexes
  /\ intact = Digests
  /\ pc = "idle" /\ cursor = 1 /\ agreed = None /\ statuses = <<>> /\ runs = <<>>
  /\ phase = 1 /\ outcomes = <<>>
  /\ receipt = None /\ exit = None

\* A command ends without a result; its locals go.
Refuse ==
  /\ pc' = "idle" /\ exit' = 3
  /\ cursor' = 1 /\ agreed' = None /\ statuses' = <<>> /\ runs' = <<>>
  /\ phase' = 1 /\ outcomes' = <<>>
  /\ UNCHANGED <<inputs, receipt>>
----
(***************************************************************************)
(* Assembly.                                                               *)
(***************************************************************************)
Identities(p) == {a.id : a \in Elements(p.attempts)}

\* checkScheduleAccounting: nothing planned is missing, doubled or extra.
ScheduleAccounted(p) ==
  /\ Len(p.attempts) = p.attemptCount
  /\ Distinct(p.attempts, LAMBDA a : a.id)
  /\ Distinct(p.attempts, LAMBDA a : a.ordinal)
  /\ {a.ordinal : a \in Elements(p.attempts)} = 1..Len(p.attempts)
  /\ \A a \in Elements(p.attempts) : a.repetition <= p.repetitionCount
  /\ 1..p.repetitionCount \subseteq {a.repetition : a \in Elements(p.attempts)}

\* The attempt that attempt id replaces, if it replaces one.
Supersedes(p, id) ==
  IF id \in Identities(p) THEN (CHOOSE a \in Elements(p.attempts) : a.id = id).supersedes
  ELSE NoAttempt

\* Mutant: a chain of retries that loops is not noticed.
ChainsStay(p) ==
  \A a \in Elements(p.attempts) : a.supersedes \in Identities(p) \union {NoAttempt}

\* checkSupersedesChains: every chain stays in the plan, meets no attempt twice
\* and ends within MaxDepth steps.
ChainsHold(p) ==
  \A id \in Identities(p) :
    \E chain \in [0..(MaxDepth + 1) -> Identities(p) \union {NoAttempt}] :
      /\ chain[0] = id /\ chain[MaxDepth + 1] = NoAttempt
      /\ \A n \in 0..MaxDepth : chain[n + 1] = Supersedes(p, chain[n])
      /\ \A n \in 1..MaxDepth : \A m \in 0..(n - 1) :
           chain[n] # NoAttempt => chain[m] # chain[n]

\* The planned attempts in the order of their ordinals, not of the listing.
Ordered(p) ==
  [n \in 1..Len(p.attempts) |-> CHOOSE a \in Elements(p.attempts) : a.ordinal = n]

ParsePlan ==
  /\ pc = "idle" /\ plan # None
  /\ IF ScheduleAccounted(plan) /\ ChainsHold(plan)
     THEN pc' = "gather" /\ UNCHANGED <<inputs, locals, receipt, exit>>
     ELSE Refuse

Planned == Ordered(plan)[cursor]

\* The next attempt's receipt is read and must agree with those before it.
GatherRefuses ==
  /\ pc = "gather" /\ cursor <= Len(plan.attempts)
  /\ Planned.receipt # NoDigest
  /\ \/ Planned.receipt \notin intact
     \/ agreed # None /\ ReceiptOf[Planned.receipt].facts # agreed
  /\ Refuse

Gather ==
  /\ pc = "gather" /\ cursor <= Len(plan.attempts)
  /\ IF Planned.receipt = NoDigest
     THEN statuses' = Append(statuses, "no_receipt") /\ UNCHANGED agreed
     ELSE LET r == ReceiptOf[Planned.receipt] IN
          /\ Planned.receipt \in intact
          /\ agreed \in {None, r.facts}
          /\ agreed' = r.facts /\ statuses' = Append(statuses, r.status)
  /\ cursor' = cursor + 1
  /\ UNCHANGED <<inputs, pc, runs, phase, outcomes, receipt, exit>>

\* The numbers of S in ascending order.
Ascending(S) ==
  [k \in 1..Cardinality(S) |-> CHOOSE n \in S : Cardinality({m \in S : m < n}) = k - 1]

\* An attempt is eligible when it completed and no retry superseded it.
EligibleOf(ordered, status) ==
  LET superseded == {a.supersedes : a \in Elements(ordered)}
      counted == Ascending({n \in 1..Len(ordered) : /\ status[n] = "completed"
                                                   /\ ordered[n].id \notin superseded})
  IN [k \in 1..Len(counted) |-> ordered[counted[k]].id]

FinishSet ==
  /\ pc = "gather" /\ cursor > Len(plan.attempts)
  /\ IF agreed = None THEN Refuse
     ELSE /\ evidenceSet' =
               [facts |-> agreed, eligible |-> EligibleOf(Ordered(plan), statuses),
                attempts |-> [n \in 1..Len(plan.attempts) |->
                                [id |-> Ordered(plan)[n].id, status |-> statuses[n],
                                 receipt |-> Ordered(plan)[n].receipt]]]
          /\ pc' = "idle" /\ exit' = 0
          /\ cursor' = 1 /\ agreed' = None /\ statuses' = <<>>
          /\ UNCHANGED <<plan, index, intact, runs, phase, outcomes, receipt>>
----
(***************************************************************************)
(* The maintained authorities.                                             *)
(***************************************************************************)
WellFormedRegistry(r) == Distinct(r.metrics, LAMBDA m : <<m.id, m.generation>>)

WellFormedPolicy(p) == Distinct(p.entries, LAMBDA e : e.key)

\* MetricRegistry::find: the identity of a metric is a pair.
Defined(r, e) == \E m \in Elements(r.metrics) : m.id = e.metric /\ m.generation = e.generation

Definition(r, e) ==
  CHOOSE m \in Elements(r.metrics) : m.id = e.metric /\ m.generation = e.generation

\* bindPolicyToRegistry, for one entry.
Binds(r, e) ==
  /\ Defined(r, e)
  /\ Definition(r, e).stability = "stable"
  /\ Definition(r, e).budget \in {"hard_ceiling", "contract_constant"}
  /\ Definition(r, e).direction = "bound_to_observation" =>
       Movable(e.bound, e.scale, Definition(r, e).scale, Definition(r, e).rounding)

Matches(p) == {i \in DOMAIN index.registries : index.registries[i].generation = p.registry}

RegistryOf(p) == index.registries[CHOOSE i \in Matches(p) : TRUE]

\* loadAuthorities, and the one policy that evaluateOperation insists on.
AuthoritiesHold ==
  /\ \A r \in Elements(index.registries) : WellFormedRegistry(r)
  /\ \A p \in Elements(index.policies) :
       /\ WellFormedPolicy(p)
       /\ Cardinality(Matches(p)) = 1
       /\ \A e \in Elements(p.entries) : Binds(RegistryOf(p), e)
  /\ Len(index.policies) = 1

Policy   == index.policies[1]
Registry == RegistryOf(Policy)

(***************************************************************************)
(* Evaluation.                                                             *)
(***************************************************************************)
\* The eligible attempts in the order of the attempts, not of that list.  An
\* identity the set repeats is taken where it is met first.
EligibleAttempts(s) ==
  LET counted == Ascending({n \in 1..Len(s.attempts) :
                              /\ s.attempts[n].id \in Elements(s.eligible)
                              /\ \A m \in 1..(n - 1) : s.attempts[m].id # s.attempts[n].id})
  IN [k \in 1..Len(counted) |-> s.attempts[counted[k]]]

\* readEligibleAttempts: the eligible list names each attempt once, and each
\* is an attempt of the set that has a receipt.
EligibleHolds(s) ==
  /\ Distinct(s.eligible, LAMBDA id : id)
  /\ \A id \in Elements(s.eligible) : \E a \in Elements(s.attempts) : a.id = id
  /\ \A a \in Elements(EligibleAttempts(s)) : a.receipt # NoDigest

Identify ==
  /\ pc = "idle" /\ evidenceSet # None
  /\ IF /\ AuthoritiesHold
        /\ evidenceSet.facts.registry = Registry.generation
        /\ EligibleHolds(evidenceSet)
     THEN pc' = "load" /\ UNCHANGED <<inputs, locals, receipt, exit>>
     ELSE Refuse

\* readObservations looks a metric up by its identifier alone.
Declared(r, o) == \E m \in Elements(r.metrics) : m.id = o.metric

FirstDeclared(r, o) ==
  r.metrics[CHOOSE i \in DOMAIN r.metrics :
              /\ r.metrics[i].id = o.metric
              /\ \A j \in 1..(i - 1) : r.metrics[j].id # o.metric]

Readable(r, observed) ==
  /\ \A o \in Elements(observed) :
       Declared(r, o) => o.unit = FirstDeclared(r, o).unit /\ o.scale \in Exponents
  /\ \A i, j \in DOMAIN observed :
       Declared(r, observed[i]) /\ observed[i].metric = observed[j].metric => i = j

NextRun == EligibleAttempts(evidenceSet)[cursor]

\* What an eligible attempt is read as: of what its receipt observed, the
\* metrics the registry declares.
Run(a) ==
  [attempt |-> a.id, receipt |-> a.receipt,
   observed |-> {o \in Elements(ReceiptOf[a.receipt].observed) : Declared(Registry, o)}]

LoadRefuses ==
  /\ pc = "load" /\ cursor <= Len(EligibleAttempts(evidenceSet))
  /\ LET d == NextRun.receipt IN
     \/ d \notin intact
     \/ ReceiptOf[d].facts.registry # Registry.generation
     \/ ~Readable(Registry, ReceiptOf[d].observed)
  /\ Refuse

Load ==
  /\ pc = "load" /\ cursor <= Len(EligibleAttempts(evidenceSet))
  /\ LET d == NextRun.receipt IN
     /\ d \in intact
     /\ ReceiptOf[d].facts.registry = Registry.generation
     /\ Readable(Registry, ReceiptOf[d].observed)
     /\ runs' = Append(runs, Run(NextRun))
  /\ cursor' = cursor + 1
  /\ UNCHANGED <<inputs, pc, agreed, statuses, phase, outcomes, receipt, exit>>

\* phaseOf: what a check asks decides its phase, never its name or its unit.
PhaseOf(e) ==
  IF e.class = "completeness" THEN 1
  ELSE IF Definition(Registry, e).budget = "hard_ceiling" THEN 3 ELSE 2

\* The checks by phase and key, whatever the layout of the policy.
Before(e, f) == PhaseOf(e) < PhaseOf(f) \/ (PhaseOf(e) = PhaseOf(f) /\ e.key < f.key)

\* Mutant: the checks stand in the order the policy lists them in.
ChecksAsListed == Policy.entries

Place(e) == Cardinality({f \in Elements(Policy.entries) : Before(f, e)}) + 1

Checks ==
  [n \in 1..Len(Policy.entries) |-> CHOOSE e \in Elements(Policy.entries) : Place(e) = n]

LoadEnds ==
  /\ pc = "load" /\ cursor > Len(EligibleAttempts(evidenceSet))
  /\ outcomes' = [n \in DOMAIN Policy.entries |-> "not_run"]
  /\ pc' = "phase" /\ phase' = 1
  /\ UNCHANGED <<inputs, cursor, agreed, statuses, runs, receipt, exit>>
----
(***************************************************************************)
(* The comparison, on the scale the metric's rule says.                    *)
(***************************************************************************)
BoundMoves(e) == Definition(Registry, e).direction = "bound_to_observation"

Rounding(e) == Definition(Registry, e).rounding

Comparable(e, o) ==
  IF BoundMoves(e) THEN Movable(e.bound, e.scale, o.scale, Rounding(e))
  ELSE Movable(o.value, o.scale, e.scale, Rounding(e))

Compared(e, o) ==
  IF BoundMoves(e)
  THEN [value |-> o.value, bound |-> Rescaled(e.bound, e.scale, o.scale, Rounding(e)),
        scale |-> o.scale]
  ELSE [value |-> Rescaled(o.value, o.scale, e.scale, Rounding(e)), bound |-> e.bound,
        scale |-> e.scale]

\* Mutant: a value at its bound does not meet it.
SatisfiesStrictly(e, o) ==
  IF e.comparison = "at_most" THEN Compared(e, o).value < Compared(e, o).bound
  ELSE Compared(e, o).value > Compared(e, o).bound

Satisfies(e, o) ==
  IF e.comparison = "at_most" THEN Compared(e, o).value <= Compared(e, o).bound
  ELSE Compared(e, o).value >= Compared(e, o).bound

Reports(run, e) == {o \in run.observed : o.metric = e.metric}

\* Mutant: a check is decided from the runs that happened to report.
JudgedByReports(e, read) ==
  IF \A r \in Elements(read) : Reports(r, e) = {} THEN "observation_missing"
  ELSE IF \E r \in Elements(read) : \E o \in Reports(r, e) : ~Satisfies(e, o)
  THEN "bound_violated"
  ELSE "passed"

Judged(e, read) ==
  IF read = <<>> \/ (\E r \in Elements(read) : Reports(r, e) = {}) THEN "observation_missing"
  ELSE IF \E r \in Elements(read) : \E o \in Reports(r, e) : ~Satisfies(e, o)
  THEN "bound_violated"
  ELSE "passed"

\* Mutant: the later phases are evaluated along with this one.
InPhaseOrLater(n) == PhaseOf(Checks[n]) >= phase

InPhase(n) == PhaseOf(Checks[n]) = phase

\* One comparison that cannot be made ends the evaluation.
PhaseRefuses ==
  /\ pc = "phase" /\ phase <= Len(Phases)
  /\ \E n \in DOMAIN outcomes : InPhase(n) /\ \E r \in Elements(runs) :
       \E o \in Reports(r, Checks[n]) : ~Comparable(Checks[n], o)
  /\ Refuse

EvaluatePhase ==
  /\ pc = "phase" /\ phase <= Len(Phases)
  /\ \A n \in DOMAIN outcomes : InPhase(n) => \A r \in Elements(runs) :
       \A o \in Reports(r, Checks[n]) : Comparable(Checks[n], o)
  /\ outcomes' = [n \in DOMAIN outcomes |->
                    IF InPhase(n) THEN Judged(Checks[n], runs) ELSE outcomes[n]]
  /\ IF \E n \in DOMAIN outcomes : outcomes'[n] \in Failed
     THEN pc' = "verdict" /\ UNCHANGED phase
     ELSE pc' = pc /\ phase' = phase + 1
  /\ UNCHANGED <<inputs, cursor, agreed, statuses, runs, receipt, exit>>

PhasesEnd ==
  /\ pc = "phase" /\ phase > Len(Phases)
  /\ pc' = "verdict"
  /\ UNCHANGED <<inputs, locals, receipt, exit>>

\* What check n lists of the runs it read: only checks that were reached list
\* what they compared.
Listed(n, read, made) ==
  LET heard == Ascending({k \in 1..Len(read) : /\ made[n] # "not_run"
                                              /\ Reports(read[k], Checks[n]) # {}})
  IN [k \in 1..Len(heard) |->
        [attempt |-> read[heard[k]].attempt,
         at |-> Compared(Checks[n], CHOOSE o \in Reports(read[heard[k]], Checks[n]) : TRUE)]]

Blocked(made) == \E n \in DOMAIN made : made[n] \in Failed

Decided(read, made, reached) ==
  [checks |-> [n \in DOMAIN made |->
                 [key |-> Checks[n].key, phase |-> Phases[PhaseOf(Checks[n])],
                  outcome |-> made[n], observations |-> Listed(n, read, made)]],
   receipts |-> [k \in 1..Len(read) |-> <<read[k].attempt, read[k].receipt>>],
   verdict |-> IF Blocked(made) THEN "failed" ELSE "passed",
   blockingPhase |-> IF Blocked(made) THEN Phases[reached] ELSE None,
   failedCount |-> Cardinality({n \in DOMAIN made : made[n] \in Failed}),
   notRunCount |-> Cardinality({n \in DOMAIN made : made[n] = "not_run"})]

\* Mutant: the runs of one evaluation are still there for the next.
EmitVerdictKeeping ==
  /\ pc = "verdict"
  /\ receipt' = Decided(runs, outcomes, phase)
  /\ pc' = "idle" /\ exit' = IF Blocked(outcomes) THEN 4 ELSE 0
  /\ cursor' = 1 /\ phase' = 1 /\ outcomes' = <<>>
  /\ UNCHANGED <<inputs, agreed, statuses, runs>>
EmitVerdict ==
  /\ pc = "verdict"
  /\ receipt' = Decided(runs, outcomes, phase)
  /\ pc' = "idle" /\ exit' = IF Blocked(outcomes) THEN 4 ELSE 0
  /\ cursor' = 1 /\ runs' = <<>> /\ phase' = 1 /\ outcomes' = <<>>
  /\ UNCHANGED <<inputs, agreed, statuses>>
----
(***************************************************************************)
(* What happens around the commands.                                       *)
(***************************************************************************)
\* The medium damages a receipt: the store no longer returns it.
Damage ==
  /\ \E d \in intact : intact' = intact \ {d}
  /\ Cardinality(Digests \ intact) < MaxDamage
  /\ UNCHANGED <<plan, evidenceSet, index, pc, locals, receipt, exit>>

Reversed(s) == [n \in DOMAIN s |-> s[Len(s) + 1 - n]]

\* A plan or a policy is written out again in another order.
RelistPlan ==
  /\ pc = "idle" /\ plan # None
  /\ plan' = [plan EXCEPT !.attempts = Reversed(@)]
  /\ UNCHANGED <<evidenceSet, index, intact, pc, locals, receipt, exit>>

RelistPolicy ==
  /\ pc = "idle"
  /\ index' = [index EXCEPT !.policies =
                 [i \in DOMAIN index.policies |->
                    [index.policies[i] EXCEPT !.entries = Reversed(@)]]]
  /\ UNCHANGED <<plan, evidenceSet, intact, pc, locals, receipt, exit>>

Assemble == ParsePlan \/ GatherRefuses \/ Gather \/ FinishSet

Evaluate ==
  \/ Identify \/ LoadRefuses \/ Load \/ LoadEnds
  \/ PhaseRefuses \/ EvaluatePhase \/ PhasesEnd \/ EmitVerdict

Next == Assemble \/ Evaluate \/ Damage \/ RelistPlan \/ RelistPolicy

Spec == Init /\ [][Next]_vars
----
(***************************************************************************)
(* What the records promise.                                               *)
(***************************************************************************)
\* The state keeps its type, and a command that is over leaves nothing of its
\* own behind for the next (the locals of evaluateEvidenceSet and assembly).
TypeOK ==
  /\ plan # None \/ evidenceSet # None
  /\ intact \subseteq Digests
  /\ pc \in {"idle", "gather", "load", "phase", "verdict"}
  /\ cursor \in Nat \ {0} /\ phase \in 1..(Len(Phases) + 1)
  /\ statuses \in Seq(Statuses \union {"no_receipt"})
  /\ outcomes \in Seq(Failed \union {"passed", "not_run"})
  /\ pc = "gather" => Len(statuses) = cursor - 1
  /\ pc \in {"load", "phase", "verdict"} => Len(runs) = cursor - 1
  /\ pc = "idle" => /\ cursor = 1 /\ agreed = None /\ statuses = <<>>
                    /\ runs = <<>> /\ phase = 1 /\ outcomes = <<>>
  /\ exit \in {None, 0, 3, 4}

\* The ledger accounts for the plan, however the plan was laid out: every
\* planned attempt stands in it once, at its ordinal, with the status of its
\* own receipt; all receipts share the facts it states; the eligible attempts
\* are exactly the completed ones that no retry replaced, in that order; and no
\* set of attempts replaces itself out of the eligible ones (assembleEvidenceSet).
LedgerIsWhole ==
  plan # None /\ evidenceSet # None =>
    LET planned == Elements(plan.attempts)
        attempts == evidenceSet.attempts
        at(id) == CHOOSE n \in DOMAIN attempts : attempts[n].id = id
        receipts == {a.receipt : a \in planned} \ {NoDigest}
    IN /\ Len(attempts) = plan.attemptCount /\ Cardinality(planned) = plan.attemptCount
       /\ {attempts[n].id : n \in DOMAIN attempts} = {a.id : a \in planned}
       /\ \A a \in planned :
            attempts[a.ordinal] =
              [id |-> a.id, receipt |-> a.receipt,
               status |-> IF a.receipt = NoDigest THEN "no_receipt"
                          ELSE ReceiptOf[a.receipt].status]
       /\ receipts # {}
       /\ \A d \in receipts : ReceiptOf[d].facts = evidenceSet.facts
       /\ \A repetition \in 1..plan.repetitionCount :
            \E a \in planned : a.repetition = repetition
       /\ Elements(evidenceSet.eligible) =
            {a.id : a \in {b \in planned : /\ attempts[b.ordinal].status = "completed"
                                           /\ \A c \in planned : c.supersedes # b.id}}
       /\ \A i, j \in DOMAIN evidenceSet.eligible :
            i < j => at(evidenceSet.eligible[i]) < at(evidenceSet.eligible[j])
       /\ \A S \in (SUBSET {a.id : a \in planned}) \ {{}} :
            \E id \in S : \A a \in planned : a.id \in S => a.supersedes # id

\* A quantity and a bound on the finest scale there is, where neither rounds.
Exact(v, scale) == v * Pow[scale - MinExponent]

\* By how much o misses the bound of e; not positive when it meets it.
Miss(e, o) ==
  IF e.comparison = "at_most" THEN Exact(o.value, o.scale) - Exact(e.bound, e.scale)
  ELSE Exact(e.bound, e.scale) - Exact(o.value, o.scale)

\* The rounding that helps a value meet its bound.
Loosening(e) ==
  IF BoundMoves(e) <=> e.comparison = "at_most"
  THEN "toward_positive_infinity" ELSE "toward_negative_infinity"

\* What a rounding can hide: less than one unit of the scale compared at.
Slack(e, o) ==
  IF Rounding(e) = Loosening(e)
  THEN Exact(1, IF BoundMoves(e) THEN o.scale ELSE e.scale) - 1 ELSE 0

Observed(d, e) == {o \in Elements(ReceiptOf[d].observed) : o.metric = e.metric}

\* A pass is earned: there are eligible attempts, the emitted receipt names one
\* raw receipt for each, and each of these reports every metric the policy
\* bounds, and meets the bound as a quantity, whatever scales the two are
\* written on and whatever was moved to compare them; only a metric that is
\* declared to round in favour of the observation lets it miss by less than a
\* unit (evaluateEvidenceSet: "an accidental pass").
PassIsEarned ==
  receipt # None /\ receipt.verdict = "passed" =>
    LET decided == receipt.receipts IN
    /\ decided # <<>>
    /\ {decided[k][1] : k \in DOMAIN decided} = Elements(evidenceSet.eligible)
    /\ \A k \in DOMAIN decided : \A e \in Elements(Policy.entries) :
         /\ Observed(decided[k][2], e) # {}
         /\ \A o \in Observed(decided[k][2], e) : Miss(e, o) <= Slack(e, o)

\* A failure has a ground in the evidence: a check that failed for a missing
\* observation has an eligible attempt without one, or none at all; a check that
\* failed its bound has a quantity that misses it: no rounding turns one that
\* meets its bound into a failure (evaluateEvidenceSet).
FailureHasGround ==
  receipt # None =>
    \A n \in DOMAIN receipt.checks : \A e \in Elements(Policy.entries) :
      LET digests == {receipt.receipts[k][2] : k \in DOMAIN receipt.receipts} IN
      e.key = receipt.checks[n].key =>
        /\ receipt.checks[n].outcome = "observation_missing" =>
             digests = {} \/ \E d \in digests : Observed(d, e) = {}
        /\ receipt.checks[n].outcome = "bound_violated" =>
             \E d \in digests : \E o \in Observed(d, e) : Miss(e, o) > 0

\* The verdict follows the phases: the checks stand in phase order and then by
\* key, all of the policy's; before the blocking phase everything passed, after
\* it nothing ran or lists an observation, and something in it failed; the
\* counts say how many, and without a failure everything ran and passed.
VerdictFollowsPhases ==
  receipt # None =>
    LET rank(n) == CHOOSE p \in DOMAIN Phases : Phases[p] = receipt.checks[n].phase
        blocking == CHOOSE p \in DOMAIN Phases : Phases[p] = receipt.blockingPhase
        with(outcome) == {n \in DOMAIN receipt.checks : receipt.checks[n].outcome = outcome}
        failed == UNION {with(o) : o \in Failed}
    IN /\ {receipt.checks[n].key : n \in DOMAIN receipt.checks}
            = {e.key : e \in Elements(Policy.entries)}
       /\ \A n, k \in DOMAIN receipt.checks : n < k =>
            \/ rank(n) < rank(k)
            \/ rank(n) = rank(k) /\ receipt.checks[n].key < receipt.checks[k].key
       /\ receipt.failedCount = Cardinality(failed)
       /\ receipt.notRunCount = Cardinality(with("not_run"))
       /\ IF failed = {}
          THEN receipt.verdict = "passed" /\ with("passed") = DOMAIN receipt.checks
          ELSE /\ receipt.verdict = "failed"
               /\ failed \subseteq {n \in DOMAIN receipt.checks : rank(n) = blocking}
               /\ \A n \in DOMAIN receipt.checks :
                    /\ rank(n) < blocking => n \in with("passed")
                    /\ rank(n) > blocking <=> n \in with("not_run")
                    /\ n \in with("not_run") => receipt.checks[n].observations = <<>>

\* Running a command again, or after its inputs were written out in another
\* order, gives the same record: neither the ledger nor the verdict depends on
\* a layout (evaluateEvidenceSet, assembleEvidenceSet).
RepeatsAreIdentical ==
  [][/\ evidenceSet # None => evidenceSet' = evidenceSet
     /\ receipt # None => receipt' = receipt]_vars

\* What a check compared was reported in the unit of the definition its bound
\* was written against (metric_registry.h: "it would silently resolve a bound
\* written against one definition onto a later, different one").
ObservedAsBound ==
  receipt # None =>
    \A n \in DOMAIN receipt.checks : \A e \in Elements(Policy.entries) :
      e.key = receipt.checks[n].key /\ receipt.checks[n].observations # <<>> =>
        \A k \in DOMAIN receipt.receipts : \A o \in Observed(receipt.receipts[k][2], e) :
          o.unit = Definition(Registry, e).unit
====
