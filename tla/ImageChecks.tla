----------------------------- MODULE ImageChecks -----------------------------
(* How one verification reaches its verdict on an image, once it may talk to *)
(* the registry: runChecks (internal/verifier/check.go) combines the answers *)
(* for the index and the platform digest, scopes and bins the attestations,  *)
(* lets a VSA replace the direct checks, runs those checks, adds the GUAC    *)
(* result and the CEL rules, and applyEnforcement applies the mode.          *)
(*                                                                           *)
(* An answer of the registry is an error and a sequence of attestations. An  *)
(* attestation is its type, the digest it was made for, whether only builder *)
(* keys verify its signature, and the outcome its check finds in it. The     *)
(* request x of one verification carries the policy, the configuration and   *)
(* everything the environment answers.                                       *)
EXTENDS PredicateCheck

CONSTANTS Checks,   \* the attestation checks other than the VSA
          NoIndex   \* the index answer of an image that is no manifest list

ASSUME ChecksAssumption ==
    /\ {"slsa", "notation"} \subseteq Checks
    /\ Checks \intersect {"vsa", "guac", "cel", "attestation", "fetch", "internal", "none"} = {}

\* What a Fetch may report: nothing wrong; a complete set that failed
\* verification; an incomplete set (both wrap ErrVerificationFailed); a
\* registry that could not be reached; any other error.
FetchErrors == {"none", "unverified", "incomplete", "transport", "other"}

isIgnorableVerificationFailure(err) == err = "unverified"

\* A verification that Stop cancels is discarded by verifyOnce, so a verdict
\* never depends on the exception isFetchTransportFailure makes for it.
isFetchTransportFailure(err) == err = "transport"

-----------------------------------------------------------------------------
(* Fetching *)

\* The index answer as fetchIndexAttestations passes it on: the attestations
\* found, or the error with the material to keep.
fetchIndexAttestations(x) ==
    IF x.index = NoIndex THEN [found |-> <<>>, partial |-> <<>>, err |-> "none"]
    ELSE [found |-> IF x.index.err = "none" THEN x.index.atts ELSE <<>>,
          partial |-> IF isIgnorableVerificationFailure(x.index.err)
                      THEN x.index.atts ELSE <<>>,
          err |-> x.index.err]

\* Mutant: material returned with a verification failure is dropped.
keepPartial_Dropped(platform, index) == [atts |-> <<>>, digest |-> "platform"]

\* Material returned with a verification failure: the platform digest's when
\* it has any, the index digest's otherwise.
keepPartial(platform, index) ==
    IF platform = <<>> /\ index # <<>> THEN [atts |-> index, digest |-> "index"]
                                       ELSE [atts |-> platform, digest |-> "platform"]

\* Mutant: the error of the index digest only counts when the platform digest
\* has no attestations.
DecidingError_IndexIgnored(x, index) ==
    CASE x.platform.err # "none" -> x.platform.err
      [] x.platform.err = "none" /\ x.platform.atts = <<>> -> index.err
      [] OTHER -> "none"

\* The error that decides the outcome once the platform digest was fetched:
\* the platform digest's, unless the index digest's is more than a
\* verification failure and the platform digest's is not, or the platform
\* digest has no attestations.
DecidingError(x, index) ==
    LET worse == index.err # "none" /\ ~isIgnorableVerificationFailure(index.err)
    IN  CASE x.platform.err \notin {"none", "unverified"} -> x.platform.err
          [] x.platform.err = "unverified" -> IF worse THEN index.err ELSE "unverified"
          [] OTHER -> IF worse \/ x.platform.atts = <<>> THEN index.err ELSE "none"

\* The platform digest is not fetched when the index digest has attestations.
fetchAttestations(x) ==
    LET index == fetchIndexAttestations(x)
        err == DecidingError(x, index)
        kept == keepPartial(x.platform.atts, index.partial)
        attempts == {index.err, x.platform.err}
    IN  IF index.found # <<>>
        THEN [atts |-> index.found, digest |-> "index", err |-> "none", transport |-> FALSE]
        ELSE [atts |-> CASE err = "unverified" -> kept.atts
                         [] err = "none" -> x.platform.atts
                         [] OTHER -> <<>>,
              digest |-> IF err = "unverified" THEN kept.digest ELSE "platform",
              err |-> err,
              transport |-> \E e \in attempts : isFetchTransportFailure(e)]

\* The places of the attestations in scope: builder keys only vouch for
\* provenance.
scopeBuilderKeys(atts) == {i \in DOMAIN atts : ~atts[i].builderOnly \/ atts[i].type = "slsa"}

\* An attestation is binned under the check of its predicate type.
binAttestations(atts, scope, type) == {i \in scope : atts[i].type = type}

-----------------------------------------------------------------------------
(* Results *)

Named(type, check) == [type |-> type, passed |-> check.passed, status |-> check.status,
                       missing |-> check.missing]

resultFromCheck(type, check) == [allowed |-> check.passed, checks |-> {Named(type, check)}]

\* Append a check and apply it (applyCheckResult).
AppendCheck(result, type, check) ==
    [allowed |-> result.allowed /\ check.passed,
     checks |-> result.checks \union {Named(type, check)}]

\* An action that is not known denies.
handleMissingAttestation(action, type) ==
    [(CASE action = "warn" -> WarnResult
        [] action = "allow" -> PassResult
        [] OTHER -> FailResult) EXCEPT !.missing = (type # "fetch")]

MissingPolicyFor(x, type) ==
    IF x.policy.missing[type] = "unset" THEN "allow" ELSE x.policy.missing[type]

\* A namespace that enforces by its own policy never fails open by default.
EffectiveFetchFailurePolicy(x) ==
    CASE x.mode # "enforce" \/ x.globalMode = "enforce" -> x.fetchFailurePolicy
      [] x.mode = "enforce" /\ x.globalMode # "enforce" /\ x.fetchFailurePolicy = "warn"
            /\ x.fetchFailureExplicit -> "warn"
      [] OTHER -> "deny"

handleFetchError(x) ==
    resultFromCheck("fetch", handleMissingAttestation(EffectiveFetchFailurePolicy(x), "fetch"))

\* An incomplete attestation set always denies.
fetchErrorResult(x, err) ==
    IF err = "incomplete" THEN resultFromCheck("attestation", FailResult)
                          ELSE handleFetchError(x)

-----------------------------------------------------------------------------
(* VSAs *)

\* vsa.Verify: the claimed verifier is trusted, the VSA names this image and
\* its digest, and only then its result counts; PASSED also has to meet the
\* policy (level, SLSA version, policy URI, age).
vsaVerify(v, digest) ==
    CASE ~v.trusted \/ v.subject # digest -> "inconclusive"
      [] v.trusted /\ v.subject = digest /\ v.outcome = "FAILED" -> "FAILED"
      [] v.trusted /\ v.subject = digest /\ v.outcome = "PASSED" /\ v.adequate -> "PASSED"
      [] OTHER -> "inconclusive"

\* A VSA only counts when its signer is bound to the verifier it names.
Conclusive(v, digest, result) == vsaVerify(v, digest) = result /\ v.signerBound

\* Once the verification timeout has expired no VSA is evaluated.
checkVSA(x, vsas, digest) ==
    LET Some(result) == /\ "verification" \notin x.expired
                        /\ \E v \in vsas : Conclusive(v, digest, result)
    IN  CASE Some("FAILED") -> "rejected"
          [] ~Some("FAILED") /\ Some("PASSED") -> "passed"
          [] OTHER -> "missing"

\* vsa.missingPolicy covers absent VSAs and VSAs that are not trusted.
checkVSAMissing(x) == MissingPolicyFor(x, "vsa") \notin {"allow", "warn"}

appendVSAWarning(x, result) ==
    IF MissingPolicyFor(x, "vsa") = "warn"
    THEN AppendCheck(result, "vsa", handleMissingAttestation("warn", "vsa"))
    ELSE result

-----------------------------------------------------------------------------
(* The direct checks *)

Aggregation(c) ==
    IF c \in {"slsa", "notation", "source", "release"} THEN "FirstPass" ELSE "AllMustPass"

\* What the check finds in one attestation of its bin. One made for another
\* digest is not bound to the image.
Outcome(a, digest) ==
    CASE a.subject # digest \/ a.outcome = "error" -> Error
      [] a.subject = digest /\ a.outcome = "pass" -> PassResult
      [] OTHER -> FailResult

\* The places of the attestations that carry something the check evaluates.
Applicable(atts, bin, digest) ==
    {i \in bin : atts[i].outcome # "not_applicable" \/ atts[i].subject # digest}

\* The check panics on a document or is left without a result; with FirstPass
\* aggregation only when no document before it passed.
Breaks(c, atts, docs, digest) ==
    \E i \in docs :
        /\ atts[i].outcome \in {"panic", "nil"}
        /\ Aggregation(c) = "FirstPass" =>
              \A j \in docs : j < i => Outcome(atts[j], digest) # PassResult

\* runAttestationCheck inside runParallelCheck: nothing to evaluate follows
\* the missing policy; a check that is interrupted, panics or returns nothing
\* fails; otherwise the documents decide.
runAttestationCheck(x, c, atts, bin, digest) ==
    LET docs == Applicable(atts, bin, digest)
        results == [i \in docs |-> Outcome(atts[i], digest)]
        unasked == bin = {} \/ (c = "notation" /\ ~x.policy.notation)
        interrupted == x.expired \intersect {"verification", c} # {}
    IN  IF unasked \/ (docs = {} /\ ~interrupted)
        THEN handleMissingAttestation(MissingPolicyFor(x, c), c)
        ELSE IF interrupted \/ Breaks(c, atts, docs, digest) THEN FailResult
        ELSE IF Aggregation(c) = "FirstPass" THEN VerifyMultipleFirstPass(results)
        ELSE VerifyMultipleWithMerge(results)

\* combineResults over every check.
runParallelChecks(x, atts, scope, digest) ==
    LET Check(c) == runAttestationCheck(x, c, atts, binAttestations(atts, scope, c), digest)
    IN  [allowed |-> \A c \in Checks : Check(c).passed,
         checks |-> {Named(c, Check(c)) : c \in Checks}]

-----------------------------------------------------------------------------
(* GUAC, CEL and the verdict *)

\* A GUAC query is answered, fails, or is not made (breaker open, panic). An
\* allowed failure passes, to expose the data of the queries that succeeded.
fetchGUACData(x) ==
    CASE x.guac = "answered" \/ (x.guac = "failed" /\ x.guacFallback = "allow") ->
            <<PassResult>>
      [] x.guac \in {"failed", "refused"} /\ x.guacFallback = "deny" -> <<FailResult>>
      [] x.guac \in {"failed", "refused"} /\ x.guacFallback = "warn" -> <<WarnResult>>
      [] OTHER -> <<>>

\* The GUAC result, if any, and the warning about attestations that failed
\* verification.
appendOptionalChecks(x, result, err) ==
    LET guac == IF fetchGUACData(x) = <<>> THEN result
                ELSE AppendCheck(result, "guac", Head(fetchGUACData(x)))
    IN  IF isIgnorableVerificationFailure(err)
        THEN AppendCheck(guac, "attestation", WarnResult) ELSE guac

\* A rule reads "verified" of one attestation type: false for a missing
\* attestation, whatever its missing policy.
appendCELCheck(x, result) ==
    LET verified == \E k \in result.checks :
                        k.type = x.policy.celRequires /\ ~k.missing /\ k.passed
    IN  CASE x.policy.celRequires = "none" -> result
          [] x.policy.celRequires # "none" /\ verified -> AppendCheck(result, "cel", PassResult)
          [] OTHER -> AppendCheck(result, "cel", FailResult)

runVSAAndParallelChecks(x, fetched) ==
    LET atts == fetched.atts
        scope == scopeBuilderKeys(atts)
        vsas == {atts[i] : i \in binAttestations(atts, scope, "vsa")}
        vsa == checkVSA(x, vsas, fetched.digest)
        direct == runParallelChecks(x, atts, scope, fetched.digest)
        Appended(result) == appendOptionalChecks(x, result, fetched.err)
    IN  CASE vsa = "rejected" -> resultFromCheck("vsa", FailResult)
          [] vsa = "passed" -> appendCELCheck(x, Appended(resultFromCheck("vsa", PassResult)))
          [] vsa = "missing" /\ checkVSAMissing(x) ->
                resultFromCheck("vsa", handleMissingAttestation(MissingPolicyFor(x, "vsa"), "vsa"))
          [] OTHER -> appendCELCheck(x, appendVSAWarning(x, Appended(direct)))

\* Access is refused by an open breaker or a full fetch semaphore.
runChecks(x) ==
    LET fetched == fetchAttestations(x)
    IN  CASE ~x.digest -> resultFromCheck("internal", FailResult)
          [] x.digest /\ ~x.access -> handleFetchError(x)
          [] x.digest /\ x.access /\ fetched.transport -> handleFetchError(x)
          [] x.digest /\ x.access /\ ~fetched.transport
                /\ fetched.err \notin {"none", "unverified"} -> fetchErrorResult(x, fetched.err)
          [] OTHER -> runVSAAndParallelChecks(x, fetched)

resultHasFailures(result) ==
    ~result.allowed \/ \E k \in result.checks : ~k.passed

Incomplete(result) ==
    \E k \in result.checks : k.type \in {"internal", "fetch"}

\* Only enforce mode denies; the outcome is recorded in every mode.
applyEnforcement(x, result) ==
    [verified |-> ~resultHasFailures(result) /\ ~Incomplete(result),
     denied |-> ~result.allowed /\ x.mode = "enforce"]

Verdict(x) == applyEnforcement(x, runChecks(x))
=============================================================================
