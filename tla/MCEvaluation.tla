---- MODULE MCEvaluation ----
(***************************************************************************)
(* Evaluation over seven receipts: plans of up to four attempts, valid and  *)
(* not, evidence sets from elsewhere, and what a checkout may maintain.    *)
(* Quantities have exponents -1, 0 and 1.                                  *)
(***************************************************************************)
EXTENDS Evaluation

MCPow == [n \in 0..2 |-> 10^n]
MCMinExponent == -1

(***************************************************************************)
(* Receipts.                                                               *)
(***************************************************************************)
Observe(metric, value, scale) ==
  [metric |-> metric, unit |-> "count", value |-> value, scale |-> scale]

Here  == [registry |-> 1, host |-> "one"]
There == [registry |-> 1, host |-> "two"]
Later == [registry |-> 2, host |-> "one"]

Receipt(status, facts, observed) == [status |-> status, facts |-> facts, observed |-> observed]

MCReceiptOf ==
  [clean   |-> Receipt("completed", Here,
                 <<Observe("asserts", 0, 0), Observe("size", 119, -1)>>),
   edge    |-> Receipt("completed", Here,
                 <<Observe("size", 12, 0), Observe("noise", 1, 5), Observe("noise", 2, 5),
                   Observe("asserts", 0, 1)>>),
   breach  |-> Receipt("completed", Here,
                 <<Observe("asserts", 1, 0), Observe("size", 121, -1)>>),
   quiet   |-> Receipt("completed", Here, <<Observe("size", 100, 1)>>),
   twice   |-> Receipt("completed", Here,
                 <<Observe("asserts", 0, 0), Observe("asserts", 0, 0)>>),
   hurt    |-> Receipt("infrastructure_error", Here, <<>>),
   other   |-> Receipt("completed", There, <<Observe("asserts", 0, 0)>>),
   later   |-> Receipt("completed", Later, <<Observe("asserts", 0, 0)>>)]

(***************************************************************************)
(* Plans.                                                                  *)
(***************************************************************************)
Attempt(id, ordinal, repetition, supersedes, digest) ==
  [id |-> id, ordinal |-> ordinal, repetition |-> repetition,
   supersedes |-> supersedes, receipt |-> digest]

Plan(repetitions, attempts) ==
  [attemptCount |-> Len(attempts), repetitionCount |-> repetitions, attempts |-> attempts]

\* Two repetitions, the second one of them retried after r.
Retried(r, replaced) ==
  Plan(2, <<Attempt("c", 3, 2, "b", r), Attempt("a", 1, 1, NoAttempt, "clean"),
            Attempt("b", 2, 2, NoAttempt, replaced)>>)

Chain(ends) ==
  Plan(1, <<Attempt("a", 1, 1, ends, "hurt"), Attempt("b", 2, 1, "a", "hurt"),
            Attempt("c", 3, 1, "b", "hurt"), Attempt("d", 4, 1, "c", "clean")>>)

MCPlans ==
  { Retried("edge", "hurt"), Retried("edge", "clean"), Retried("breach", NoDigest),
    Retried("hurt", "clean"), Retried("other", "hurt"), Retried(NoDigest, "quiet"),
    Plan(1, <<Attempt("b", 2, 1, "a", "edge"), Attempt("a", 1, 1, "b", "clean"),
              Attempt("c", 3, 1, NoAttempt, "clean")>>),
    Plan(1, <<Attempt("a", 1, 1, "z", "clean")>>),
    Plan(1, <<Attempt("a", 1, 1, NoAttempt, NoDigest)>>),
    Plan(1, <<Attempt("a", 1, 1, NoAttempt, "clean"), Attempt("b", 3, 1, NoAttempt, "edge")>>),
    Plan(1, <<Attempt("a", 1, 1, NoAttempt, "clean"), Attempt("a", 2, 1, NoAttempt, "edge")>>),
    Plan(2, <<Attempt("a", 1, 1, NoAttempt, "clean")>>),
    [Plan(1, <<Attempt("a", 1, 1, NoAttempt, "clean")>>) EXCEPT !.attemptCount = 2],
    Plan(1, <<Attempt("a", 1, 1, NoAttempt, "hurt")>>),
    Chain(NoAttempt), Chain("d") }

(***************************************************************************)
(* Evidence sets that came from elsewhere.                                 *)
(***************************************************************************)
Entry(id, digest) ==
  [id |-> id, receipt |-> digest,
   status |-> IF digest = NoDigest THEN "no_receipt" ELSE MCReceiptOf[digest].status]

Ledger(facts, attempts, eligible) ==
  [facts |-> facts, attempts |-> attempts, eligible |-> eligible]

MCLedgers ==
  { Ledger(Here, <<Entry("a", "clean"), Entry("b", "edge")>>, <<"b", "a">>),
    Ledger(Here, <<Entry("a", "clean"), Entry("b", "quiet")>>, <<"a", "b">>),
    Ledger(Here, <<Entry("a", "breach"), Entry("a", "clean")>>, <<"a">>),
    Ledger(Here, <<Entry("a", "twice")>>, <<"a">>),
    Ledger(Here, <<Entry("a", "later")>>, <<"a">>),
    Ledger(Later, <<Entry("a", "later")>>, <<"a">>),
    Ledger(Here, <<Entry("a", "clean")>>, <<"a", "a">>),
    Ledger(Here, <<Entry("a", "clean")>>, <<"a", "b">>),
    Ledger(Here, <<Entry("a", NoDigest)>>, <<"a">>) }

(***************************************************************************)
(* Maintained registries and policies.                                     *)
(***************************************************************************)
Metric(id, generation, budget, direction, rounding, scale) ==
  [id |-> id, generation |-> generation, stability |-> "stable", budget |-> budget,
   direction |-> direction, rounding |-> rounding, scale |-> scale, unit |-> "count"]

Asserts == Metric("asserts", 1, "hard_ceiling", "bound_to_observation", "reject_inexact", 0)
Size(direction, rounding) == Metric("size", 1, "contract_constant", direction, rounding, 0)
Again == [Size("observation_to_bound", "reject_inexact") EXCEPT !.generation = 2]

Bound(key, class, metric, comparison, value, scale) ==
  [key |-> key, class |-> class, metric |-> metric, generation |-> 1,
   comparison |-> comparison, bound |-> value, scale |-> scale]

Keeping(registries, policies) == [registries |-> registries, policies |-> policies]

Reg(metrics) == [generation |-> 1, metrics |-> metrics]
Pol(entries) == [registry |-> 1, entries |-> entries]

Gate(comparison, value, scale) ==
  Pol(<<Bound(1, "correctness", "asserts", "at_most", 0, 0),
        Bound(3, "correctness", "size", comparison, value, scale),
        Bound(2, "completeness", "size", "at_least", 0, 0)>>)

Simple == Pol(<<Bound(1, "completeness", "asserts", "at_most", 0, 0)>>)

MCIndexes ==
  { Keeping(<<Reg(<<Size("bound_to_observation", rounding), Asserts>>)>>, <<Gate("at_most", 12, 0)>>)
      : rounding \in Roundings } \union
  { Keeping(<<Reg(<<Size("observation_to_bound", rounding), Asserts>>)>>, <<Gate("at_least", 12, 0)>>)
      : rounding \in Roundings } \union
  { Keeping(<<Reg(<<Size("observation_to_bound", rounding), Again, Asserts>>)>>,
            <<Gate("at_most", 1, 1)>>) : rounding \in Roundings } \union
  { Keeping(<<Reg(<<Asserts>>)>>, <<Simple>>),
    Keeping(<<Reg(<<Asserts>>), [Reg(<<Asserts>>) EXCEPT !.generation = 2]>>,
            <<[Simple EXCEPT !.registry = 2]>>),
    Keeping(<<Reg(<<Asserts>>)>>, <<Simple, Simple>>),
    Keeping(<<Reg(<<Asserts, Asserts>>)>>, <<Simple>>),
    Keeping(<<Reg(<<>>)>>, <<Simple>>),
    Keeping(<<Reg(<<[Asserts EXCEPT !.stability = "diagnostic"]>>)>>, <<Simple>>),
    Keeping(<<Reg(<<Asserts>>)>>, <<[Simple EXCEPT !.registry = 2]>>),
    Keeping(<<Reg(<<[Size("bound_to_observation", "reject_inexact") EXCEPT !.scale = 1], Asserts>>)>>,
            <<Gate("at_most", 12, 0)>>) }

(***************************************************************************)
(* A metric whose second generation counts another unit, and a policy that  *)
(* bounds the second.                                                      *)
(***************************************************************************)
Renewed == [Asserts EXCEPT !.generation = 2, !.unit = "nanosecond"]

MCRenewed ==
  { Keeping(<<Reg(<<Asserts, Renewed>>)>>,
            <<Pol(<<[Bound(1, "correctness", "asserts", "at_most", 0, 0)
                       EXCEPT !.generation = 2]>>)>>) }

MCClean == { Ledger(Here, <<Entry("a", "clean")>>, <<"a">>) }
====
