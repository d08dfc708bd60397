----------------------------- MODULE Provenance -----------------------------
(* The SLSA provenance check of one attestation (internal/slsa): where the  *)
(* source of a build is read from, which builders, build types and sources  *)
(* a policy trusts, and how the source is cross-checked against the         *)
(* resolved dependencies, whose digests are recorded as they are met.       *)
(*                                                                          *)
(* A URI is [repo, git, ref], git says why isGitURI takes it for a git      *)
(* repository ("prefix", "host" or "no"); a ref is [kind, name, len] with   *)
(* kind "none", "short", "heads", "tags" or "commit"; digests map           *)
(* algorithms to values, a value being [name, len].                         *)
EXTENDS Integers, Sequences

Empty == ""
NoRef == [kind |-> "none", name |-> Empty, len |-> 0]
NoUri == [repo |-> Empty, git |-> "no", ref |-> NoRef]
NoValue == [name |-> Empty, len |-> 0]
NoDigest == [alg |-> "none", name |-> Empty, len |-> 0]
NoSource == [repo |-> Empty, git |-> "no", ref |-> NoRef, digest |-> NoDigest]

BuildTypeGitHubActionsWorkflow == "workflow"
BuildTypeGCBTriggered == "gcb"

-----------------------------------------------------------------------------
(* The source of a build *)

Value(x) == [name |-> x.name, len |-> x.len]

\* The first algorithm, in alphabetical order, that has a value.
firstDigest(digests) ==
    LET Has(a) == a \in DOMAIN digests /\ digests[a] # NoValue
        Of(a) == [alg |-> a, name |-> digests[a].name, len |-> digests[a].len]
    IN  IF Has("gitCommit") THEN Of("gitCommit")
        ELSE IF Has("sha1") THEN Of("sha1")
        ELSE IF Has("sha256") THEN Of("sha256") ELSE NoDigest

\* normalizeSourceURI and SplitGitRef: the "git+" prefix goes, the ref is split
\* off; an explicit ref parameter replaces it.
SourceAt(uri, ref, digest) ==
    IF uri.repo = Empty THEN NoSource
    ELSE [repo |-> uri.repo, git |-> IF uri.git = "prefix" THEN "no" ELSE uri.git,
          ref |-> IF ref = NoRef THEN uri.ref ELSE ref, digest |-> digest]

\* A nested parameter is [uri, ref].
nestedSource(param) == SourceAt(param.uri, param.ref, NoDigest)

topLevelSource(params) ==
    SourceAt(params.source.uri, params.ref, firstDigest(params.source.digests))

\* The built source and the source of the build configuration, when that is
\* another repository or another ref.
Built(source, config) == [source |-> source, config |-> config]

gcbSource(params) ==
    LET config == nestedSource(params.configSource)
        built == nestedSource(params.sourceToBuild)
        full == [built EXCEPT !.ref = IF @ = NoRef THEN config.ref ELSE @]
    IN  CASE built.repo = Empty -> Built(config, NoSource)
          [] built.repo # Empty /\ config.repo = Empty -> Built(built, NoSource)
          [] built.repo # Empty /\ config.repo \notin {Empty, built.repo} -> Built(built, config)
          [] OTHER -> Built(full, IF config.ref \notin {NoRef, full.ref} THEN config ELSE NoSource)

\* The layout of a known build type first, then the others.
extractSourceV1(buildType, params) ==
    LET top == Built(topLevelSource(params), NoSource)
        workflow == Built(nestedSource(params.workflow), NoSource)
        gcb == gcbSource(params)
        Found(b) == b.source.repo # Empty
    IN  IF buildType = BuildTypeGitHubActionsWorkflow /\ Found(workflow) THEN workflow
        ELSE IF buildType = BuildTypeGCBTriggered /\ Found(gcb) THEN gcb
        ELSE IF Found(top) THEN top
        ELSE IF Found(workflow) THEN workflow ELSE gcb

\* sourceV02: the configuration source, else the first material.
sourceV02(pred) ==
    LET uri == IF pred.configSource.repo # Empty THEN pred.configSource
               ELSE IF pred.materials # <<>> THEN pred.materials[1] ELSE NoUri
    IN  Built(SourceAt(uri, NoRef, NoDigest), NoSource)

-----------------------------------------------------------------------------
(* Dependencies: [uri, digests] *)

isCommitSHA(ref) == ref.len \in {40, 64}

\* A scheme or suffix of git, an scp-like address, or a known git host.
isGitURI(uri) == uri.git # "no"

\* The commit digest of a dependency that compares with a commit of this
\* length.
commitDigest(digests, len) ==
    LET other == IF len = 64 THEN "sha256" ELSE "sha1"
        Has(a) == a \in DOMAIN digests /\ digests[a].len = len
    IN  IF Has("gitCommit") THEN digests["gitCommit"]
        ELSE IF Has(other) THEN digests[other] ELSE NoValue

\* Two qualified refs must be equal, a short name matches either kind.
sameRef(left, right) ==
    left = right \/ ("short" \in {left.kind, right.kind} /\ left.name = right.name)

verifyDependencyRef(source, dep) ==
    IF source.ref.kind = "commit"
    THEN commitDigest(dep.digests, source.ref.len) \in {NoValue, Value(source.ref)}
    ELSE \/ source.ref = NoRef \/ dep.uri.ref.kind \in {"none", "commit"}
         \/ sameRef(source.ref, dep.uri.ref)

\* A commit is compared under whatever name the dependency gives it, for a
\* git repository or a gitCommit digest.
verifyDependencyDigest(source, dep) ==
    LET d == source.digest
        asCommit == /\ isCommitSHA(d)
                    /\ d.alg = "gitCommit" \/ isGitURI(dep.uri) \/ isGitURI(source)
    IN  IF d = NoDigest THEN TRUE
        ELSE IF d.alg \in DOMAIN dep.digests THEN dep.digests[d.alg] = Value(d)
        ELSE asCommit => commitDigest(dep.digests, d.len) \in {NoValue, Value(d)}

\* Mutant: only the ref that a dependency names is compared.
verifyDependency_RefOnly(source, dep) ==
    firstDigest(dep.digests) # NoDigest /\ verifyDependencyRef(source, dep)

verifyDependency(source, dep) ==
    /\ firstDigest(dep.digests) # NoDigest
    /\ verifyDependencyRef(source, dep) /\ verifyDependencyDigest(source, dep)

\* verifyDependencyAgainst: the first source of the repository it agrees with
\* takes its digest. A state is [ok, sources].
verifyDependencyAgainst(state, dep) ==
    LET of == {i \in DOMAIN state.sources : state.sources[i].repo = dep.uri.repo}
        fits == {i \in of : verifyDependency(state.sources[i], dep)}
        first == CHOOSE i \in fits : \A j \in fits : i <= j
    IN  IF fits = {} THEN [state EXCEPT !.ok = @ /\ of = {}]
        ELSE [state EXCEPT !.sources[first].digest =
                  IF @ = NoDigest THEN firstDigest(dep.digests) ELSE @]

verifyResolvedSource(built, deps) ==
    LET sources == IF built.config.repo = Empty THEN <<built.source>> ELSE <<built.source, built.config>>
        state[i \in 0..Len(deps)] ==
            IF i = 0 THEN [ok |-> TRUE, sources |-> sources]
            ELSE verifyDependencyAgainst(state[i - 1], deps[i])
    IN  state[Len(deps)]

-----------------------------------------------------------------------------
(* The policy: [builders, buildTypes, sources, rejectUnknown, known], each  *)
(* source pattern [repos, pinned, refs], each builder [id, signers] with    *)
(* the signers it is bound to.                                              *)

\* MatchSource: an unpinned pattern looks at the repository alone, a pinned one
\* does not match a source without a ref.
MatchSource(pattern, source) ==
    /\ source.repo \in pattern.repos
    /\ pattern.pinned => (source.ref # NoRef /\ source.ref \in pattern.refs)

verifySource(built, pol) ==
    pol.sources # {} =>
        /\ built.source.repo # Empty
        /\ \A s \in {built.source, built.config} :
               s.repo # Empty => \E p \in pol.sources : MatchSource(p, s)

\* The builder's ID is only a claim; BindBuilder confirms that the signer may
\* make it.
verifyBuilder(att, pol) ==
    pol.builders # {} => \E b \in pol.builders : b.id = att.builder /\ att.signer \in b.signers

verifyBuildType(att, pol) == pol.buildTypes # {} => att.buildType \in pol.buildTypes

verifyParameters(att, pol) == pol.rejectUnknown => att.parameters \subseteq pol.known

trustConfigured(pol) == pol.builders # {} \/ pol.sources # {} \/ pol.buildTypes # {}

\* Without any trust configured a pass is a warning.
passResult(pol) == IF trustConfigured(pol) THEN "pass" ELSE "warn"

\* What both versions check, `fresh` being verifyFreshness.
Checked(att, built, pol) ==
    /\ att.bound /\ verifyBuilder(att, pol) /\ verifyBuildType(att, pol)
    /\ verifySource(built, pol) /\ verifyParameters(att, pol) /\ att.fresh

verifyV1(att, pol) ==
    LET built == extractSourceV1(att.buildType, att.params)
    IN  IF /\ Checked(att, built, pol)
           /\ built.source.repo # Empty => verifyResolvedSource(built, att.deps).ok
        THEN passResult(pol) ELSE "fail"

\* A v0.2 statement has no resolved dependencies.
verifyV02(att, pol) == IF Checked(att, sourceV02(att), pol) THEN passResult(pol) ELSE "fail"

VerifyProvenance(att, pol) ==
    CASE att.version = "invalid" -> "error"
      [] att.version = "v02" -> verifyV02(att, pol)
      [] att.version = "v1" -> verifyV1(att, pol)

-----------------------------------------------------------------------------
\* The commits a dependency can stand for, under any name.
CommitsOf(dep) ==
    {[name |-> dep.digests[a].name, len |-> dep.digests[a].len] :
        a \in {a \in DOMAIN dep.digests :
                 <<a, dep.digests[a].len>> \in {<<"gitCommit", 40>>, <<"gitCommit", 64>>,
                                                <<"sha1", 40>>, <<"sha256", 64>>}}}

\* A Cloud Build provenance that passes names no repository, neither the built
\* one nor the one its build steps come from, that the policy does not trust,
\* nor a ref of them that no pattern allows (gcbSource, verifySource).
NamedSourcesAreTrusted(att, pol) ==
    LET named == {s \in {nestedSource(att.params.sourceToBuild), nestedSource(att.params.configSource)} :
                    s.repo # Empty /\ (s.ref # NoRef \/ s.repo # nestedSource(att.params.sourceToBuild).repo)}
    IN  ( /\ VerifyProvenance(att, pol) = "pass" /\ pol.sources # {}
          /\ att.version = "v1" /\ att.buildType = BuildTypeGCBTriggered) =>
            \A s \in named : \E p \in pol.sources : MatchSource(p, s)

\* A provenance that passes does not contradict itself: a dependency on the
\* only source repository does not stand for another commit than the one the
\* source is pinned to by its ref or its gitCommit digest, whatever the
\* dependency calls it (verifyDependencyRef, verifyDependencyDigest).
CommitIsAgreed(att, pol) ==
    LET built == extractSourceV1(att.buildType, att.params)
        s == built.source
        Comparable(d, len) == {c \in CommitsOf(d) : c.len = len}
    IN  (att.version = "v1" /\ VerifyProvenance(att, pol) \in {"pass", "warn"} /\ built.config = NoSource) =>
            \A i \in DOMAIN att.deps :
                LET d == att.deps[i]
                IN  (s.repo # Empty /\ d.uri.repo = s.repo) =>
                        /\ DOMAIN d.digests # {}
                        /\ (s.ref.kind = "commit" /\ Comparable(d, s.ref.len) # {}) =>
                               [name |-> s.ref.name, len |-> s.ref.len] \in CommitsOf(d)
                        /\ (s.digest.alg = "gitCommit" /\ Comparable(d, s.digest.len) # {}) =>
                               [name |-> s.digest.name, len |-> s.digest.len] \in CommitsOf(d)
=============================================================================
