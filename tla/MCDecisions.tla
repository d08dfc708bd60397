----------------------------- MODULE MCDecisions -----------------------------
(* The decisions the plugin takes in one step, over every combination of    *)
(* small inputs: those of Decisions, and what the checks read in their      *)
(* documents (Vex, Sbom, PredicateRules) and in vulnerability feeds (Feed). *)
(* A state is the input of one decision; the Cases modules list the inputs  *)
(* of bundles, documents and feeds.                                         *)
EXTENDS Decisions

Trust == INSTANCE TrustCases
Contents == INSTANCE DocumentCases

MCIntMax == 9999999
MCSkew == 1
MCReasonable == 6
MCChecks == {"slsa", "notation", "sbom"}

-----------------------------------------------------------------------------
(* Throttles *)

MCQuotas == {-1, 0, 500, 1000, 5000, 150000} \union {NoLimit}
MCShares == {0, 2, 19, 1024, 150000} \union {NoLimit}
MCMemory == {-1, 4194304, 9000000} \union {NoLimit}
MCPercents == {-1, 0, 1, 10, 50, 100, 101}
MCResources == [quota : MCQuotas, shares : MCShares, mem : MCMemory]

InitThrottle ==
    \E o \in MCResources, p \in [cpu : MCPercents, mem : MCPercents] :
        \E s \in {o, Updated(o, throttled(o, p))} :
            input = [about |-> "throttle", original |-> o, cfg |-> p, seen |-> s]

-----------------------------------------------------------------------------
(* Documents of one attestation type, checked at time 0 *)

MCTimes == -8..3 \union {NoTime}

MCDocuments == [valid : BOOLEAN, violates : BOOLEAN, time : MCTimes]

\* The specs the checks declare: FirstPass, AllMustPass, and AllMustPass with
\* superseding documents (vulnerability scans).
MCSpecs == [aggregation : {"FirstPass"}, superseding : {FALSE}]
             \union [aggregation : {"AllMustPass"}, superseding : BOOLEAN]

InitDocuments ==
    \E spec \in MCSpecs, n \in 0..2, age \in {2, NoMaxAge}, later \in 0..2 :
        \E docs \in [1..n -> MCDocuments] :
            input = [about |-> "documents", spec |-> spec, docs |-> docs,
                     maxAge |-> age, later |-> later]

-----------------------------------------------------------------------------
(* Verifications of one image *)

Att(type, digest, outcome) ==
    [type |-> type, subject |-> digest, builderOnly |-> FALSE, outcome |-> outcome]

ByBuilder(a) == [a EXCEPT !.builderOnly = TRUE]

Vsa(digest, outcome, adequate, signerBound) ==
    [type |-> "vsa", subject |-> digest, builderOnly |-> FALSE, outcome |-> outcome,
     trusted |-> TRUE, adequate |-> adequate, signerBound |-> signerBound]

\* What the registry may hold for a digest.
MCHoldings(d) ==
    {<<>>,
     <<ByBuilder(Att("slsa", d, "pass"))>>,
     <<Att("slsa", d, "fail"), Att("sbom", d, "pass")>>,
     <<Att("slsa", d, "panic"), Att("slsa", d, "pass")>>,
     <<Att("slsa", d, "pass"), Att("notation", d, "pass"), Att("sbom", d, "pass")>>,
     <<Att("slsa", d, "pass"), Att("notation", d, "fail")>>,
     <<Att("slsa", d, "pass"), Att("sbom", d, "pass"), Att("sbom", d, "error")>>,
     <<Att("sbom", d, "not_applicable"), Att("slsa", d, "error")>>,
     <<ByBuilder(Att("sbom", d, "pass")), Att("notation", d, "pass")>>,
     <<Att("slsa", "another", "pass")>>,
     <<Vsa(d, "PASSED", TRUE, TRUE), Att("slsa", d, "fail")>>,
     <<ByBuilder(Vsa(d, "PASSED", TRUE, TRUE)), Vsa(d, "PASSED", TRUE, FALSE)>>,
     <<Vsa(d, "PASSED", TRUE, TRUE), Vsa(d, "FAILED", TRUE, TRUE)>>,
     <<Vsa(d, "FAILED", TRUE, FALSE), Att("slsa", d, "pass")>>,
     <<Vsa(d, "PASSED", FALSE, TRUE), Att("slsa", d, "pass")>>}

\* A Fetch returns Notation signatures with a verification failure, and
\* nothing with any other error.
MCAnswers(d) ==
    [err : {"none"}, atts : MCHoldings(d)]
      \union [err : {"unverified"},
              atts : {<<>>, <<Att("notation", d, "pass")>>, <<Att("notation", d, "fail")>>}]
      \union [err : {"incomplete", "transport", "other"}, atts : {<<>>}]

MCPolicies ==
    {[missing |-> [slsa |-> s, sbom |-> b, notation |-> IF n THEN "deny" ELSE "unset", vsa |-> v],
      notation |-> n, celRequires |-> r] :
        s \in {"unset", "deny"}, b \in {"warn", "deny"}, n \in BOOLEAN,
        v \in {"unset", "warn", "deny"}, r \in {"none", "slsa", "vsa"}}

MCModes ==
    {[mode |-> "enforce", globalMode |-> "enforce", fetchFailurePolicy |-> "warn",
      fetchFailureExplicit |-> TRUE]}
      \union [mode : {"enforce", "warn"}, globalMode : {"warn"},
              fetchFailurePolicy : {"allow", "warn"}, fetchFailureExplicit : BOOLEAN]

Request(index, platform, policy, m, guac, expired, digest, access) ==
    [about |-> "image", index |-> index, platform |-> platform, policy |-> policy,
     mode |-> m.mode, globalMode |-> m.globalMode, fetchFailurePolicy |-> m.fetchFailurePolicy,
     fetchFailureExplicit |-> m.fetchFailureExplicit, guac |-> guac.answer,
     guacFallback |-> guac.fallback, expired |-> expired, digest |-> digest, access |-> access]

MCGuac == [answer : {"failed", "refused"}, fallback : {"allow", "warn", "deny"}]
            \union [answer : {"answered"}, fallback : {"warn"}]

NoGuac == [answer |-> "unconfigured", fallback |-> "warn"]

\* Every pair of answers, with nothing else going wrong; and for an image that
\* is no manifest list, every other disturbance.
InitImage ==
    \/ \E ix \in MCAnswers("index"), pl \in MCAnswers("platform"), p \in MCPolicies :
          \E m \in {n \in MCModes : n.fetchFailurePolicy = "warn" /\ n.mode = "enforce"} :
              input = Request(ix, pl, p, m, NoGuac, {}, TRUE, TRUE)
    \/ \E pl \in MCAnswers("platform"), p \in MCPolicies, g \in MCGuac, m \in MCModes :
          \E e \in {{}, {"slsa"}, {"verification"}} :
              input = Request(NoIndex, pl, p, m, g, e, TRUE, TRUE)
    \/ \E p \in MCPolicies, m \in MCModes, d \in BOOLEAN :
          input = Request(NoIndex, [err |-> "none", atts |-> <<>>], p, m, NoGuac, {}, d, ~d)

-----------------------------------------------------------------------------

\* What is read in bundles, documents and feeds.
InitContents ==
    \/ input \in Trust!TrustInputs
    \/ input \in Contents!VexInputs
    \/ input \in Trust!ProvenanceInputs
    \/ input \in Contents!SbomInputs \/ input \in Contents!LicenseInputs \/ input \in Contents!FindingInputs
    \/ input \in Trust!FeedInputs \/ input \in Trust!VersionInputs
    \/ input \in Contents!RuleInputs

Init == InitThrottle \/ InitDocuments \/ InitImage \/ InitContents

\* These are inputs of Decisions.
ASSUME InputsAssumption ==
    /\ MCResources \subseteq Limits
    /\ MCDocuments \subseteq Documents /\ MCSpecs = Specs
    /\ \A d \in {"index", "platform"} : MCAnswers(d) \subseteq Answers
    /\ \A p \in MCPolicies, m \in MCModes, g \in MCGuac \union {NoGuac}, e \in {{}, {"slsa"}, {"verification"}} :
          Request(NoIndex, [err |-> "none", atts |-> <<>>], p, m, g, e, TRUE, TRUE) \in ImageInputs
    /\ Trust!TrustInputs \subseteq BundleInputs /\ Trust!ProvenanceInputs \subseteq ProvenanceInputs

Next == NextThrottle

Spec == Init /\ [][Next]_input

-----------------------------------------------------------------------------
(* Properties of what is read in documents and feeds *)

\* The VEX verdict does not depend on the order of documents and of the
\* statements in them, and a statement that builds with other digests are not
\* affected resolves nothing for this image, whatever else the documents say
\* (newerOrMoreRestrictive, componentMatch).
VexIsOrderFree == input.about = "vex" => Contents!VexHolds(input)

\* Nothing is hidden from the SBOM policy: moving the findings into a document
\* of their own changes no verdict, a denied component or license never passes
\* whatever expression, graph or format it is wrapped in, drift accounts for
\* every package, and another rating of a finding only ever raises it
\* (vulnerabilityOnlyData, checkUnambiguous, licenseDenied, resolveLicense,
\* computeDrift, Finding.AddScore).
SbomHidesNothing ==
    /\ input.about = "sbom" => Contents!SbomHolds(input)
    /\ input.about = "licenses" => Contents!LicensesHold(input)
    /\ input.about = "findings" => Contents!FindingsHold(input)

\* A feed entry finds every affected package in an SBOM, whatever the order of
\* its events, the qualifiers of the purl and the number of packages, and no
\* package outside its ranges; the order of versions behind it is total and
\* transitive (affectedSpecs, MatchesAny, compareSemver).
FeedFindsAffected ==
    /\ input.about = "feed" => Trust!FeedHolds(input)
    /\ input.about = "versions" => Trust!VersionsHold(input)

\* Several documents of one check never look better together than apart: the
\* merged scores are the worst ones, a property two documents disagree on has
\* no value, findings add up, and what the verdict required is in the metadata;
\* and no spelling of a path, a ref, a registry or a day gets around a rule
\* (checker/merge.go, and the rules of the single checks).
MergingHidesNothing == input.about \in Contents!RuleTags => Contents!RulesHold(input)

\* Known divergence, see the README. "Verified is true only when no check
\* failed and verification ran to completion" (internal/types/result.go): a
\* verification whose timeout expired is only verified when there was nothing
\* left to evaluate. checkVSA takes a VSA it could not evaluate in time for an
\* absent one, so an image whose only attestation is a bound FAILED VSA is
\* verified.
VerifiedRanToCompletion ==
    (input.about = "image" /\ "verification" \in input.expired /\ Verdict(input).verified) =>
        ~Concluded(input, "FAILED")
=============================================================================
