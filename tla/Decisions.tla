------------------------------ MODULE Decisions ------------------------------
(* The decisions the plugin takes in one step: the limits of a throttle     *)
(* (Throttle), the verdict of one attestation check over several documents  *)
(* (PredicateCheck), the verdict on an image (ImageChecks), the trust in    *)
(* one bundle (BundleTrust), and the provenance check of one attestation    *)
(* (Provenance). A state is the input of one decision, and the inputs are   *)
(* all the ones the code accepts; only a throttle takes more than one step. *)
EXTENDS Throttle, ImageChecks, BundleTrust, Provenance

VARIABLE input

-----------------------------------------------------------------------------
(* The limits of a container, and a throttle configuration *)

Limits == [quota : OrNoLimit(Int), shares : OrNoLimit(Nat), mem : OrNoLimit(Int)]

Percents == [cpu : Int, mem : Int]

\* The limits that are seen are the original ones or throttled ones.
ThrottleInputs ==
    {in \in [about : {"throttle"}, original : Limits, cfg : Percents, seen : Limits] :
        in.seen \in {in.original, Updated(in.original, throttled(in.original, in.cfg))}}

\* The container is throttled or rolled back, whatever was done to it before.
NextThrottle ==
    /\ input.about = "throttle"
    /\ \E seen \in {Updated(input.seen, throttled(input.original, input.cfg)),
                    Updated(input.seen, restored(input.original))} :
          input' = [input EXCEPT !.seen = seen]

-----------------------------------------------------------------------------
(* Documents of one attestation type, sorted out at time 0 *)

Documents == [valid : BOOLEAN, violates : BOOLEAN, time : Int \union {NoTime}]

\* The specs the checks declare: FirstPass, AllMustPass, and AllMustPass with
\* superseding documents (vulnerability scans).
Specs == [aggregation : {"FirstPass"}, superseding : {FALSE}]
           \union [aggregation : {"AllMustPass"}, superseding : BOOLEAN]

DocumentInputs == [about : {"documents"}, spec : Specs, docs : Seq(Documents),
                   maxAge : Int \union {NoMaxAge}, later : Nat]

-----------------------------------------------------------------------------
(* Verifications of one image *)

Subjects == {"index", "platform", "another"}

Attestations ==
    [type : Checks, subject : Subjects, builderOnly : BOOLEAN,
     outcome : {"pass", "fail", "error", "panic", "nil", "not_applicable"}]
      \union
    [type : {"vsa"}, subject : Subjects, builderOnly : BOOLEAN, outcome : {"PASSED", "FAILED"},
     trusted : BOOLEAN, adequate : BOOLEAN, signerBound : BOOLEAN]

\* A Fetch returns Notation signatures with a verification failure, and
\* nothing with any other error.
Answers ==
    [err : {"none"}, atts : Seq(Attestations)]
      \union [err : {"unverified"}, atts : Seq({a \in Attestations : a.type = "notation"})]
      \union [err : FetchErrors \ {"none", "unverified"}, atts : {<<>>}]

Policies == [missing : [Checks \union {"vsa"} -> {"unset", "allow", "warn", "deny"}],
             notation : BOOLEAN, celRequires : Checks \union {"none", "vsa"}]

ImageInputs ==
    [about : {"image"}, index : Answers \union {NoIndex}, platform : Answers, policy : Policies,
     mode : {"enforce", "warn"}, globalMode : {"enforce", "warn"},
     fetchFailurePolicy : {"allow", "warn", "deny"}, fetchFailureExplicit : BOOLEAN,
     guac : {"answered", "failed", "refused", "unconfigured"},
     guacFallback : {"allow", "warn", "deny"},
     expired : SUBSET (Checks \union {"verification"}), digest : BOOLEAN, access : BOOLEAN]

-----------------------------------------------------------------------------
(* Bundles and the configuration they are verified with *)

Bundles ==
    [signer : {"key"}, hint : STRING, genuine : BOOLEAN, logs : SUBSET STRING,
     times : SUBSET Nat, payload : {"statement", "none"}]
      \union
    [signer : {"cert"}, issuer : STRING, san : STRING, root : STRING, genuine : BOOLEAN,
     logged : BOOLEAN, logs : SUBSET STRING, sct : BOOLEAN, times : SUBSET Nat,
     payload : {"statement", "none"}]
      \union
    [signer : {"unsupported"}]

Keys == [path : STRING, key : STRING, loads : BOOLEAN, from : Nat \union {AnyTime},
         to : Nat \union {AnyTime}]

Options == [keys : Seq(Keys), issuers : SUBSET STRING, sans : SUBSET STRING,
            requireLog : BOOLEAN, now : Nat]

RootSources == [name : STRING, issuers : SUBSET STRING, keyless : BOOLEAN,
                skipSCTs : BOOLEAN, available : BOOLEAN]

\* A key that is configured at several paths loads from all of them or from
\* none: unloadedKeyError goes by the key the bundle names, and does not see
\* that another file of the same key, with another window, did not load.
LoadsAsOne(keys) ==
    \A e, f \in Entries(keys) : e.key = f.key => (e.loads <=> f.loads)

BundleInputs ==
    {in \in [about : {"trust"}, bundle : Bundles, opts : Options, sources : Seq(RootSources)] :
        LoadsAsOne(in.opts.keys)}

-----------------------------------------------------------------------------
(* Provenance statements and the trust policy they are checked against *)

GitRefs == [kind : {"none", "short", "heads", "tags", "commit"}, name : STRING, len : Nat]

Uris == [repo : STRING, git : {"prefix", "host", "no"}, ref : GitRefs]

DigestsBy(algorithms) == [algorithms -> [name : STRING, len : Nat]]

DigestMaps ==
    DigestsBy({}) \union DigestsBy({"gitCommit"}) \union DigestsBy({"sha1"})
        \union DigestsBy({"sha256"}) \union DigestsBy({"gitCommit", "sha1"})
        \union DigestsBy({"gitCommit", "sha256"}) \union DigestsBy({"sha1", "sha256"})
        \union DigestsBy({"gitCommit", "sha1", "sha256"})

Nested == [uri : Uris, ref : GitRefs]

Resources == [uri : Uris, digests : DigestMaps]

Provenances ==
    [version : {"v1", "v02", "invalid"}, bound : BOOLEAN, builder : STRING, signer : STRING,
     buildType : STRING, deps : Seq(Resources), parameters : SUBSET STRING, fresh : BOOLEAN,
     params : [workflow : Nested, sourceToBuild : Nested, configSource : Nested,
               source : Resources, ref : GitRefs],
     configSource : Uris, materials : Seq(Uris)]

TrustPolicies ==
    [builders : SUBSET [id : STRING, signers : SUBSET STRING], buildTypes : SUBSET STRING,
     sources : SUBSET [repos : SUBSET STRING, pinned : BOOLEAN, refs : SUBSET GitRefs],
     rejectUnknown : BOOLEAN, known : SUBSET STRING]

ProvenanceInputs == [about : {"provenance"}, att : Provenances, policy : TrustPolicies]

-----------------------------------------------------------------------------

Inputs ==
    ThrottleInputs \union DocumentInputs \union ImageInputs \union BundleInputs
        \union ProvenanceInputs

SpecDecisions == input \in Inputs /\ [][NextThrottle]_input

-----------------------------------------------------------------------------
(* Throttle properties *)

\* A throttle never gives a container more than it had, except for the floors
\* of buildThrottleUpdate, and this holds even for limits whose product with
\* the percentage overflows (buildThrottleUpdate multiplies before dividing).
NeverLoosens ==
    LET floors == [quota |-> minCPUQuotaMicros, shares |-> minCPUShares,
                   mem |-> minMemoryLimitBytes]
    IN  input.about = "throttle" =>
            \A l \in DOMAIN input.original :
                (input.original[l] # NoLimit /\ input.original[l] >= 0) =>
                    input.seen[l] <= Max({input.original[l], floors[l]})

\* A throttle can be recognised and undone from what a restarted plugin has,
\* the limits it sees and the annotation: among the limits the plugin sets
\* itself, looksThrottled holds exactly of throttled ones that differ from the
\* original, and whatever a throttle changed, the annotation was written at
\* creation and a rollback to what it holds restores every limit
\* (recoverContainerState, OriginalResourcesAnnotation, buildRollbackUpdate).
ThrottleIsReversible ==
    input.about = "throttle" =>
        LET annotation == OriginalResourcesAnnotation(input.original)
        IN  /\ looksThrottled(input.seen, input.original, input.cfg) <=> input.seen # input.original
            /\ input.seen # input.original =>
                 /\ annotation.ok
                 /\ Updated(input.seen, restored(annotation.limits)) = input.original

\* Throttling takes nothing away that cannot be given back, and gives nothing
\* (NeverLoosens, ThrottleIsReversible).
ThrottleIsSafe == NeverLoosens /\ ThrottleIsReversible

-----------------------------------------------------------------------------
(* Properties of the verdicts *)

\* A check that passes rests on current evidence, although the clock moves
\* between sorting out superseded documents and evaluating the rest: under a
\* maximum age some passing document is still within it when the verdict is
\* reached, and where every document has to pass, a document that does not is
\* only overlooked when it is older than the maximum age and a passing document
\* is newer (VerifyMultiple, dropSuperseded; a malformed document is never
\* masked by an older valid one).
EvidenceIsCurrent ==
    input.about = "documents" =>
        LET verdict == VerifyMultiple(input.spec, input.docs, input.maxAge, 0, input.later)
            Docs == {input.docs[i] : i \in DOMAIN input.docs}
            Passing == {d \in Docs : Verify(d, input.maxAge, input.later) = PassResult}
            Within(d) == d.time # NoTime /\ input.later - d.time <= input.maxAge
        IN  verdict.passed =>
                /\ Passing # {}
                /\ input.maxAge # NoMaxAge => \E d \in Passing : Within(d)
                /\ input.spec.aggregation = "AllMustPass" =>
                     \A d \in Docs \ Passing :
                        /\ d.valid /\ d.time # NoTime /\ input.maxAge # NoMaxAge
                        /\ ~Within(d)
                        /\ \E e \in Passing : e.time > d.time

Answer(x, digest) == IF digest = "index" THEN x.index ELSE x.platform

Attested(x, digest) == {Answer(x, digest).atts[i] : i \in DOMAIN Answer(x, digest).atts}

\* The digests a verification asked for, as the index digest's attestations
\* spare it the platform digest.
Consulted(x) ==
    IF x.index = NoIndex THEN {"platform"}
    ELSE IF x.index.err = "none" /\ x.index.atts # <<>> THEN {"index"}
    ELSE {"index", "platform"}

Concluded(x, result) ==
    \E d \in Consulted(x) : \E a \in Attested(x, d) :
        a.type = "vsa" /\ ~a.builderOnly /\ Conclusive(a, d, result)

Proven(x, c) ==
    \E d \in Consulted(x) : \E a \in Attested(x, d) :
        /\ a.type = c /\ a.outcome = "pass" /\ a.subject = d
        /\ ~a.builderOnly \/ c = "slsa"

\* An image counts as verified only when that is earned: the registry was
\* asked and every digest consulted gave its complete attestation set (a fetch
\* failure policy may admit an image, never verify it); no VSA of a bound
\* verifier reports FAILED; and every attestation the missing policies or a CEL
\* rule require was found passing, made for the digest it was found under and
\* signed by a key of its scope, or replaced by a bound PASSED VSA (runChecks,
\* applyEnforcement). Requests whose verification timeout expired after the
\* fetch are the subject of VerifiedRanToCompletion.
VerifiedIsEarned ==
    (input.about = "image" /\ "verification" \notin input.expired) =>
        (Verdict(input).verified =>
            /\ input.digest /\ input.access
            /\ \A d \in Consulted(input) : Answer(input, d).err \in {"none", "unverified"}
            /\ ~Concluded(input, "FAILED")
            /\ input.policy.missing["vsa"] = "deny" => Concluded(input, "PASSED")
            /\ \A c \in Checks :
                 input.policy.missing[c] = "deny" => Proven(input, c) \/ Concluded(input, "PASSED")
            /\ input.policy.celRequires \in Checks => Proven(input, input.policy.celRequires)
            /\ input.policy.celRequires = "vsa" => Concluded(input, "PASSED"))

\* Attestations that merely fail verification count like absent ones
\* (unverifiedAttestationsCheck): the verdict is the one the image would get
\* without them, for the material that comes with them on the platform digest
\* as well.
JunkIsAbsent ==
    input.about = "image" =>
        LET Clean(ans) == IF ans.err = "unverified" THEN [ans EXCEPT !.err = "none"] ELSE ans
        IN  /\ Verdict(input) = Verdict([input EXCEPT !.platform = Clean(@)])
            /\ (input.index # NoIndex /\ input.index.atts = <<>>) =>
                  Verdict(input) = Verdict([input EXCEPT !.index = Clean(@)])

\* The verdict on a bundle does not depend on what happened to load: a verdict
\* reached while keys or roots were missing is the one with all of them, so an
\* outage never turns a genuine attestation into junk; and a verified signer is
\* one the policy names, by a key whose window contains every verified time or
\* by an issuer within the scope of the root (verify.go, keys.go).
TrustIsStable ==
    input.about = "trust" =>
        /\ OutageChangesNothing(input.bundle, input.opts, input.sources)
        /\ SignerIsNamed(input.bundle, input.opts, input.sources)

\* A Cloud Build provenance that passes names no repository or ref the policy
\* does not trust, neither the built one nor the one its build steps come from,
\* and no provenance that passes contradicts itself: a dependency on the source
\* repository does not stand for another commit than the source is pinned to
\* (gcbSource, verifySource, verifyDependencyRef, verifyDependencyDigest).
SourcesAreTrusted ==
    input.about = "provenance" =>
        /\ NamedSourcesAreTrusted(input.att, input.policy)
        /\ CommitIsAgreed(input.att, input.policy)
=============================================================================
