--------------------------- MODULE PredicateCheck ---------------------------
(* The verdict of one attestation check over all the documents of its type  *)
(* (internal/checker, internal/types/verify_multiple.go, freshness.go): how *)
(* one document is evaluated, how documents supersede each other, and how   *)
(* their outcomes are aggregated. A document is what the check can tell of  *)
(* it: whether it is bound to the image, parses and validates, whether it   *)
(* violates a rule of the policy, and its timestamp. Its metadata, which no *)
(* verdict depends on, is left out.                                         *)
EXTENDS Integers, Sequences

CONSTANTS ClockSkewTolerance,  \* how far a timestamp may lie in the future
          maxReasonableAge,    \* beyond it a timestamp is not believed
          NoTime,              \* a document without a timestamp
          NoMaxAge             \* a policy without a maximum age

ASSUME FreshnessAssumption ==
    /\ ClockSkewTolerance \in Nat
    /\ maxReasonableAge \in Nat
    /\ NoTime \notin Int
    /\ NoMaxAge \notin Int

\* The four kinds of CheckResult; an error is what a check returns instead.
PassResult == [passed |-> TRUE, status |-> "pass", missing |-> FALSE]

WarnResult == [passed |-> TRUE, status |-> "warn", missing |-> FALSE]

FailResult == [passed |-> FALSE, status |-> "fail", missing |-> FALSE]

SoftFailResult == [passed |-> FALSE, status |-> "warn", missing |-> FALSE]

Error == [error |-> TRUE]

IsError(result) == "error" \in DOMAIN result

-----------------------------------------------------------------------------
(* One document *)

\* A timestamp slightly in the future has age 0.
VerifyFreshness(age, maxAge) ==
    LET past == IF age < 0 THEN 0 ELSE age
    IN  /\ age >= -ClockSkewTolerance
        /\ past <= maxReasonableAge
        /\ maxAge # NoMaxAge => past <= maxAge

\* Freshness.Check: without a timestamp a document is only fresh when the
\* policy sets no maximum age.
FreshnessCheck(doc, maxAge, now) ==
    IF doc.time = NoTime THEN maxAge = NoMaxAge
                         ELSE VerifyFreshness(now - doc.time, maxAge)

Evaluate(doc, maxAge, now) ==
    IF doc.violates \/ ~FreshnessCheck(doc, maxAge, now) THEN FailResult ELSE PassResult

\* Verify rejects a document whose subject is not the image, or that does not
\* parse or validate, with an error.
Verify(doc, maxAge, now) == IF doc.valid THEN Evaluate(doc, maxAge, now) ELSE Error

-----------------------------------------------------------------------------
(* Several documents *)

\* A document carries a usable timestamp: it parses, and the timestamp is not
\* in the future.
timestamped(doc, now) ==
    doc.valid /\ doc.time # NoTime /\ now - doc.time >= -ClockSkewTolerance

\* Mutant: a document that cannot be parsed is dropped like an old one.
stale_Unparsable(doc, maxAge, now) ==
    timestamped(doc, now) => now - doc.time > maxAge

stale(doc, maxAge, now) == timestamped(doc, now) /\ now - doc.time > maxAge

\* The places of the documents that count: once a document is within the
\* maximum age, the older ones are superseded.
dropSuperseded(spec, docs, maxAge, now) ==
    LET current == {i \in DOMAIN docs : ~stale(docs[i], maxAge, now)}
        fresh == \E i \in current : timestamped(docs[i], now)
    IN  IF spec.superseding /\ maxAge # NoMaxAge /\ fresh THEN current ELSE DOMAIN docs

\* Any document that passes is enough.
VerifyMultipleFirstPass(results) ==
    IF \E i \in DOMAIN results : ~IsError(results[i]) /\ results[i].passed
    THEN PassResult ELSE FailResult

HardFailure(result) == IsError(result) \/ (~result.passed /\ result.status = "fail")

\* Every document has to pass; inconclusive ones alone are inconclusive.
VerifyMultipleWithMerge(results) ==
    IF DOMAIN results = {} \/ \E i \in DOMAIN results : HardFailure(results[i]) THEN FailResult
    ELSE IF \E i \in DOMAIN results : ~results[i].passed THEN SoftFailResult
    ELSE PassResult

\* Spec.VerifyMultiple. The documents are sorted out at one reading of the
\* clock and evaluated at later ones.
VerifyMultiple(spec, docs, maxAge, now, later) ==
    LET Results(places) == [i \in places |-> Verify(docs[i], maxAge, later)]
    IN  IF spec.aggregation = "FirstPass"
        THEN VerifyMultipleFirstPass(Results(DOMAIN docs))
        ELSE VerifyMultipleWithMerge(Results(dropSuperseded(spec, docs, maxAge, now)))
=============================================================================
