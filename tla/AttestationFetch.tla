--------------------------- MODULE AttestationFetch ---------------------------
(* How the attestations of one image digest are fetched from its registry   *)
(* (internal/attestation): the referrers are listed, selected within the    *)
(* limits of an image, downloaded and verified concurrently by three        *)
(* collectors that share a download budget, and when none of them counts    *)
(* the cosign attestation tag is read layer by layer. A pass that failed    *)
(* for a transient reason is repeated, a mirror that cannot be reached is   *)
(* replaced by the original registry, and the fetch deadline may expire     *)
(* between any two steps.                                                   *)
(*                                                                          *)
(* An artifact is what the fetcher can tell of it: its kind, how it can be  *)
(* read, the blob it holds and the verdict on it (BundleTrust says how that *)
(* is reached). Names ending in Fetch keep the module composable.           *)
EXTENDS Integers, FiniteSets, FiniteSetsExt, Sequences

CONSTANTS Artifact,         \* what the registry holds, by digest
          maxReferrers, maxNotationReferrers, maxBaselineReferrers,
          maxTotalDownloadSize,      \* of one pass
          maxTotalAttestationSize,   \* of one collector
          maxConcurrentCollectFetch,
          fetchMaxRetries,
          NoAnswer

VARIABLES registries,  \* what the mirror and the original registry serve
          source,      \* the one that is asked
          attempt,     \* passes repeated so far
          phase,       \* "list", "collect", "tag", "layers", "backoff", "done"
          pass,        \* the state of this pass (fetchOnce)
          expired,     \* the deadline of the fetch has passed
          answer       \* what Fetch returns

varsFetch == <<registries, source, attempt, phase, pass, expired, answer>>

Collectors == {"bundles", "notation", "baselines"}

\* Errors that say the registry or the trust material could not be had: the
\* fetch failure policy applies to them.
Transport == {"transient", "unreachable", "truncated", "interrupted"}
Lenient == Transport \union {"forbidden", "noKey", "noRoot"}

\* What a registry may answer when something of it is read.
Readings == Transport \union {"ok", "flaky", "gone", "malformed", "limit", "forbidden"}

\* Blobs are named by their digests: what verification finds in a bundle is a
\* matter of its blob, however many artifacts hold it.
ASSUME ArtifactAssumption ==
    /\ \A d \in DOMAIN Artifact :
          /\ Artifact[d].read \in Readings
          /\ Artifact[d].verdict \in {"verified", "invalid", "noKey", "noRoot"}
          /\ Artifact[d].size \in Nat
          /\ Artifact[d].baseline \in BOOLEAN
    /\ \A d, e \in DOMAIN Artifact :
          Artifact[d].blob = Artifact[e].blob =>
              /\ Artifact[d].verdict = Artifact[e].verdict
              /\ Artifact[d].baseline = Artifact[e].baseline

ASSUME LimitsAssumption ==
    {maxReferrers, maxNotationReferrers, maxBaselineReferrers, maxTotalDownloadSize,
     maxTotalAttestationSize, maxConcurrentCollectFetch, fetchMaxRetries} \subseteq Nat

\* What the two registries may hold for an image. A tag that does not exist or
\* cannot be parsed has no layers.
RegistryContents ==
    LET tags == [read : Readings, layers : Seq(DOMAIN Artifact), keyMissing : BOOLEAN]
        contents == [list : Readings, referrers : SUBSET DOMAIN Artifact, tag : tags]
    IN  [{"mirror", "origin"} ->
            {reg \in contents : reg.tag.read \in {"gone", "malformed"} => reg.tag.layers = <<>>}]

-----------------------------------------------------------------------------
(* Errors and outcomes (fetcher_errors.go) *)

\* What an error reading a listed referrer counts as.
classifyReferrerError(read) ==
    CASE read = "gone" -> "skipped"
      [] read = "limit" -> "limit"
      [] read \in Transport -> "fetch"
      [] OTHER -> "failed"

\* A layer of the cosign tag is listed by its manifest, so it cannot be gone.
classifyCosignLayerError(read) ==
    IF read = "gone" THEN "failed" ELSE classifyReferrerError(read)

\* Errors on the listing and on the cosign tag as a whole.
referrersError(read) ==
    CASE read = "limit" -> "incomplete"
      [] read \in Transport \union {"forbidden"} -> read
      [] OTHER -> "unverified"

tagContentError(read) == referrersError(read)

NoStats == [failed |-> FALSE, fetch |-> "none", limit |-> FALSE, key |-> FALSE]

\* collectStats.record keeps the first error of a kind.
record(stats, outcome, read) ==
    CASE outcome = "failed" -> [stats EXCEPT !.failed = TRUE]
      [] outcome = "fetch" -> [stats EXCEPT !.fetch = IF @ = "none" THEN read ELSE @]
      [] outcome = "limit" -> [stats EXCEPT !.limit = TRUE]
      [] outcome = "key" -> [stats EXCEPT !.key = TRUE]
      [] OTHER -> stats

merge(stats, other) ==
    [failed |-> stats.failed \/ other.failed,
     fetch |-> IF stats.fetch = "none" THEN other.fetch ELSE stats.fetch,
     limit |-> stats.limit \/ other.limit,
     key |-> stats.key \/ other.key]

\* The outcome of a verification error about trust material.
trustMaterialOutcome(verdict) == IF verdict = "noKey" THEN "key" ELSE "fetch"

\* Mutant: an unreachable referrer is overlooked once another one verified.
evaluateCollection_Partial(verified, stats) ==
    IF stats.limit THEN "incomplete"
    ELSE IF ~verified /\ stats.fetch # "none" THEN stats.fetch
    ELSE IF ~verified /\ stats.key THEN "noKey"
    ELSE IF ~verified /\ stats.failed THEN "unverified"
    ELSE "none"

\* An incomplete set of referrers is never evaluated.
evaluateCollection(verified, stats) ==
    IF stats.limit THEN "incomplete"
    ELSE IF stats.fetch # "none" THEN stats.fetch
    ELSE IF ~verified /\ stats.key THEN "noKey"
    ELSE IF ~verified /\ stats.failed THEN "unverified"
    ELSE "none"

-----------------------------------------------------------------------------
(* Selecting referrers (fetcher_referrers.go) *)

Limit(k) == CASE k = "bundles" -> maxReferrers
              [] k = "notation" -> maxNotationReferrers
              [] k = "baselines" -> maxBaselineReferrers

\* The collector of an artifact: generic artifact types count as bundles, a
\* cosign signature bundle and unrelated types as nothing.
classifyReferrer(d) ==
    CASE Artifact[d].kind \in {"bundle", "generic"} -> "bundles"
      [] Artifact[d].kind = "notation" -> "notation"
      [] Artifact[d].kind = "baseline" -> "baselines"
      [] OTHER -> "ignored"

Bucket(listing, k) == {d \in listing : classifyReferrer(d) = k}

\* Relevant referrers that are left out make the set incomplete; otherwise
\* every relevant one is selected.
selectReferrers(listing) ==
    [candidates |-> UNION {Bucket(listing, k) : k \in Collectors},
     dropped |-> \E k \in Collectors :
                    \/ Cardinality(Bucket(listing, k)) > Limit(k)
                    \/ \E d \in Bucket(listing, k) : Artifact[d].oversized]

-----------------------------------------------------------------------------
(* One pass *)

\* Nothing is downloaded yet; candidates are the selected referrers.
NewPass(candidates) ==
    [at |-> [d \in candidates |-> "todo"],
     stats |-> [k \in Collectors |-> NoStats],
     got |-> [k \in Collectors |-> {}],
     seen |-> [k \in Collectors |-> {}],
     cancelled |-> {},
     used |-> 0,
     failed |-> FALSE,   \* the referrers failed verification before the tag is read
     layer |-> 1]

\* What an attempt to read something meets: a flaky registry answers or not.
Reads(read) == IF read = "flaky" THEN {"ok", "transient"} ELSE {read}

ReadsNow(read) == IF expired THEN {"interrupted"} ELSE Reads(read)

SizeOf(ds) == MapThenSumSet(LAMBDA d : Artifact[d].size, ds)

InitFetch(contents) ==
    /\ registries \in contents
    /\ source = "mirror"
    /\ attempt = 0
    /\ phase = "list"
    /\ pass = NewPass({})
    /\ expired = FALSE
    /\ answer = NoAnswer

\* A verification failure is final and wins over an interruption.
finalFetchError(err) ==
    IF err \notin {"none", "unverified", "incomplete"} /\ expired THEN "interrupted" ELSE err

\* The end of fetchOnce: another attempt, the original registry in place of
\* the mirror, or the answer. Attestations are only returned with no error or
\* with a verification failure.
EndPass(err, atts) ==
    LET final == finalFetchError(err)
        again == final = "transient" /\ attempt < fetchMaxRetries
        elsewhere == /\ final \in {"transient", "unreachable", "truncated"}
                     /\ source = "mirror" /\ ~expired
    IN  /\ attempt' = IF again THEN attempt + 1 ELSE IF elsewhere THEN 0 ELSE attempt
        /\ source' = IF ~again /\ elsewhere THEN "origin" ELSE source
        /\ phase' = CASE again -> "backoff" [] ~again /\ elsewhere -> "list" [] OTHER -> "done"
        /\ answer' = IF again \/ elsewhere THEN answer
                     ELSE [err |-> final,
                           atts |-> IF final \in {"none", "unverified"} THEN atts ELSE {}]

\* The deadline of the fetch expires.
ExpireFetch ==
    /\ ~expired /\ phase # "done"
    /\ expired' = TRUE
    /\ UNCHANGED <<registries, source, attempt, phase, pass, answer>>

\* fetchWithRetry waits before it repeats a pass.
Backoff ==
    /\ phase = "backoff"
    /\ phase' = IF expired THEN "done" ELSE "list"
    /\ answer' = IF expired THEN [err |-> "interrupted", atts |-> {}] ELSE answer
    /\ UNCHANGED <<registries, source, attempt, pass, expired>>

ListReferrers ==
    /\ phase = "list"
    /\ \E read \in ReadsNow(registries[source].list) :
         LET selection == selectReferrers(registries[source].referrers)
         IN  IF read # "ok" THEN /\ EndPass(referrersError(read), {})
                                 /\ pass' = NewPass({})
             ELSE IF selection.dropped THEN /\ EndPass("incomplete", {})
                                            /\ pass' = NewPass({})
             ELSE /\ phase' = "collect"
                  /\ pass' = NewPass(selection.candidates)
                  /\ UNCHANGED <<source, attempt, answer>>
    /\ UNCHANGED <<registries, expired>>

-----------------------------------------------------------------------------
(* The collectors (fetcher_collect.go, fetcher_layers.go, fetcher_budget.go) *)

\* So many more bytes fit the download budget of the pass; the budget is
\* charged with what was downloaded.
reserveDownload(p, size) == p.used + size <= maxTotalDownloadSize

charge(p, d) == [p EXCEPT !.used = @ + Artifact[d].size]

\* What reading the stored layer of d meets: the answer of the registry, which
\* says as well whether the content decodes and fits the size limit of one
\* attestation, or the download budget of the pass.
readLayer(p, d, read) ==
    IF read = "ok" /\ ~reserveDownload(p, Artifact[d].size) THEN "limit" ELSE read

\* The context of a collector is done.
Cut(k) == expired \/ k \in pass.cancelled

\* The pass after referrer d of collector k ended with an outcome.
Ended(p, d, k, outcome, read) ==
    [p EXCEPT !.at[d] = "done", !.stats[k] = record(@, outcome, read)]

\* A collected attestation counts against the aggregate size; the one that
\* exceeds it cancels its collector.
Collected(p, d, k) ==
    IF SizeOf(p.got[k] \union {d}) > maxTotalAttestationSize
    THEN [Ended(p, d, k, "limit", "limit") EXCEPT
            !.cancelled = IF expired THEN @ ELSE @ \union {k}]
    ELSE [Ended(p, d, k, "collected", "ok") EXCEPT !.got[k] = @ \union {d}]

\* A fetch that has not started when its collector is cut: an interruption
\* counts as a fetch failure.
SkipReferrer(d) ==
    LET k == classifyReferrer(d)
    IN  /\ phase = "collect" /\ pass.at[d] = "todo" /\ Cut(k)
        /\ pass' = IF k \in pass.cancelled THEN Ended(pass, d, k, "skipped", "none")
                   ELSE Ended(pass, d, k, "fetch", "interrupted")
        /\ UNCHANGED <<registries, source, attempt, phase, expired, answer>>

\* Collector k may start on referrer d: it has a slot and is not cut.
Starts(d, k) ==
    /\ phase = "collect" /\ pass.at[d] = "todo" /\ ~Cut(k)
    /\ Cardinality({e \in DOMAIN pass.at : classifyReferrer(e) = k /\ pass.at[e] = "read"})
         < maxConcurrentCollectFetch

\* A Notation signature is collected as it is; its check verifies it later.
fetchNotationSignature(d) ==
    /\ classifyReferrer(d) = "notation" /\ Starts(d, "notation")
    /\ \E read \in Reads(Artifact[d].read) :
         LET met == readLayer(pass, d, read)
         IN  pass' = IF met = "ok" THEN Collected(charge(pass, d), d, "notation")
                     ELSE Ended(pass, d, "notation", classifyReferrerError(met), met)
    /\ UNCHANGED <<registries, source, attempt, phase, expired, answer>>

\* blobSet: the blob of the referrer was processed before.
Seen(d, k) == Artifact[d].blob \in pass.seen[k]

\* processDescriptor up to the verification: the blob of a bundle is read, and
\* one that was seen before is not looked at again.
ReadReferrer(d) ==
    LET k == classifyReferrer(d)
    IN  /\ k # "notation" /\ Starts(d, k)
        /\ \E read \in Reads(Artifact[d].read) :
             LET met == readLayer(pass, d, read)
                 charged == charge(pass, d)
             IN  pass' = CASE met # "ok" -> Ended(pass, d, k, classifyReferrerError(met), met)
                           [] met = "ok" /\ Seen(d, k) -> Ended(charged, d, k, "skipped", "ok")
                           [] OTHER -> [charged EXCEPT !.at[d] = "read",
                                                       !.seen[k] = @ \union {Artifact[d].blob}]
        /\ UNCHANGED <<registries, source, attempt, phase, expired, answer>>

\* The bundle is verified. Verification that finds its context done fails like
\* a bundle that does not verify (verifyBundleCommon).
VerifyReferrer(d) ==
    LET k == classifyReferrer(d)
        verdict == Artifact[d].verdict
    IN  /\ phase = "collect" /\ pass.at[d] = "read"
        /\ pass' = CASE Cut(k) -> Ended(pass, d, k, "failed", "ok")
                     [] ~Cut(k) /\ verdict = "verified" -> Collected(pass, d, k)
                     [] ~Cut(k) /\ verdict \in {"noKey", "noRoot"} ->
                          Ended(pass, d, k, trustMaterialOutcome(verdict), verdict)
                     [] OTHER -> Ended(pass, d, k, "failed", "ok")
        /\ UNCHANGED <<registries, source, attempt, phase, expired, answer>>

\* A referrer listed as a baseline SBOM has to carry one.
collectBaselineSBOMs(p) ==
    LET foreign == {d \in p.got["baselines"] : ~Artifact[d].baseline}
    IN  [p EXCEPT !.got["baselines"] = @ \ foreign,
                  !.stats["baselines"].failed = @ \/ foreign # {}]

\* collectSelection and the rest of fetchOnce, once every referrer is done.
\* Without an attestation that counts the cosign tag is read, also when the
\* referrers merely failed verification.
CollectSelection ==
    LET done == collectBaselineSBOMs(pass)
        got == done.got
        stats == merge(merge(done.stats["bundles"], done.stats["notation"]), done.stats["baselines"])
        err == evaluateCollection(got["bundles"] # {}, stats)
        toTag == \/ err = "unverified" /\ got["baselines"] = {}
                 \/ /\ err = "none" /\ ~expired
                    /\ got["bundles"] = {} /\ got["baselines"] = {}
    IN  /\ phase = "collect"
        /\ \A d \in DOMAIN pass.at : pass.at[d] = "done"
        /\ IF toTag
           THEN /\ phase' = "tag"
                /\ pass' = [done EXCEPT !.failed = err = "unverified"]
                /\ UNCHANGED <<source, attempt, answer>>
           ELSE /\ CASE err = "none" -> EndPass(IF expired THEN "interrupted" ELSE "none",
                                                got["bundles"] \union got["notation"] \union got["baselines"])
                     [] err = "unverified" -> EndPass(err, got["notation"] \union got["baselines"])
                     [] OTHER -> EndPass(err, {})
                /\ pass' = done
        /\ UNCHANGED <<registries, expired>>

-----------------------------------------------------------------------------
(* The cosign attestation tag (fetcher_cosign.go, cosign_legacy.go) *)

\* After referrers that failed verification, only verified attestations of the
\* tag or an incomplete tag change the outcome (tagFallbackAfterFailedReferrers).
TagResult(err, atts) ==
    CASE pass.failed /\ err = "incomplete" -> EndPass("incomplete", {})
      [] pass.failed /\ err # "incomplete" /\ (err # "none" \/ atts = {}) ->
           EndPass("unverified", pass.got["notation"])
      [] ~pass.failed /\ err = "unverified" -> EndPass("unverified", pass.got["notation"])
      [] err = "none" /\ ~(pass.failed /\ atts = {}) ->
           EndPass("none", atts \union pass.got["notation"])
      [] OTHER -> EndPass(err, {})

Tag == registries[source].tag

\* The tag is resolved; one that does not exist holds no attestations.
FetchTag ==
    /\ phase = "tag"
    /\ \E read \in ReadsNow(Tag.read) :
         CASE read = "gone" -> TagResult("none", {}) /\ pass' = pass
           [] read = "ok" /\ Len(Tag.layers) > maxReferrers -> TagResult("incomplete", {}) /\ pass' = pass
           [] read = "ok" /\ Len(Tag.layers) <= maxReferrers ->
                /\ phase' = "layers"
                /\ pass' = [pass EXCEPT !.stats["bundles"] = NoStats]
                /\ UNCHANGED <<source, attempt, answer>>
           [] OTHER -> TagResult(tagContentError(read), {}) /\ pass' = pass
    /\ UNCHANGED <<registries, expired>>

\* The verdict on a layer: a legacy layer does not name its key, so a trusted
\* key that could not be loaded might have signed it.
LayerVerdict(d, late) ==
    LET a == Artifact[d]
        verdict == IF late THEN "invalid" ELSE a.verdict
    IN  IF a.legacy /\ verdict = "invalid" /\ Tag.keyMissing THEN "noKey" ELSE verdict

\* processCosignLayer; late: the deadline expires before the bundles of the
\* layer are verified.
processCosignLayer(p, d, read, late) ==
    LET verdict == LayerVerdict(d, late)
        met == readLayer(p, d, read)
        tooMuch == SizeOf(p.got["bundles"] \union {d}) > maxTotalAttestationSize
        outcome == CASE met # "ok" -> classifyCosignLayerError(met)
                     [] met = "ok" /\ verdict = "verified" ->
                          IF tooMuch THEN "aggregate" ELSE "collected"
                     [] met = "ok" /\ verdict \in {"noKey", "noRoot"} ->
                          trustMaterialOutcome(verdict)
                     [] OTHER -> "failed"
        charged == IF met = "ok" THEN charge(p, d) ELSE p
    IN  CASE outcome = "collected" ->
               [charged EXCEPT !.got["bundles"] = @ \union {d}, !.layer = @ + 1]
          [] outcome = "aggregate" ->
               [charged EXCEPT !.stats["bundles"] = record(@, "limit", "limit"),
                               !.layer = Len(Tag.layers) + 1]
          [] OTHER ->
               [charged EXCEPT !.stats["bundles"] = record(@, outcome, IF met = "ok" THEN verdict ELSE met),
                               !.layer = @ + 1]

\* The layers one after the other; an interruption ends them, keeping the
\* outcomes recorded so far.
TagLayer ==
    /\ phase = "layers" /\ pass.layer <= Len(Tag.layers)
    /\ IF expired
       THEN /\ pass' = [pass EXCEPT !.stats["bundles"] = record(@, "fetch", "interrupted"),
                                    !.layer = Len(Tag.layers) + 1]
            /\ UNCHANGED expired
       ELSE \E late \in BOOLEAN, read \in Reads(Artifact[Tag.layers[pass.layer]].read) :
              /\ pass' = processCosignLayer(pass, Tag.layers[pass.layer], read, late)
              /\ expired' = late
    /\ UNCHANGED <<registries, source, attempt, phase, answer>>

\* cosignTagFallback.
TagEnd ==
    LET stats == pass.stats["bundles"]
        err == evaluateCollection(pass.got["bundles"] # {}, stats)
    IN  /\ phase = "layers" /\ pass.layer > Len(Tag.layers)
        /\ TagResult(IF err \notin {"unverified", "incomplete"} /\ expired THEN "interrupted" ELSE err,
                     pass.got["bundles"])
        /\ UNCHANGED <<registries, pass, expired>>

-----------------------------------------------------------------------------
NextFetch ==
    \/ ExpireFetch \/ Backoff \/ ListReferrers \/ CollectSelection
    \/ FetchTag \/ TagLayer \/ TagEnd
    \/ \E d \in DOMAIN pass.at :
         \/ SkipReferrer(d) \/ fetchNotationSignature(d)
         \/ ReadReferrer(d) \/ VerifyReferrer(d)

SpecFetch == InitFetch(RegistryContents) /\ [][NextFetch]_varsFetch

Stats == [failed : BOOLEAN, fetch : Transport \union {"none", "noRoot"},
          limit : BOOLEAN, key : BOOLEAN]

\* The states of a pass over candidates.
Passes(candidates) ==
    [at : [candidates -> {"todo", "read", "done"}],
     stats : [Collectors -> Stats],
     got : [Collectors -> SUBSET DOMAIN Artifact],
     seen : [Collectors -> SUBSET {Artifact[d].blob : d \in DOMAIN Artifact}],
     cancelled : SUBSET Collectors,
     used : Nat,
     failed : BOOLEAN,
     layer : Nat]

\* The type of the state.
TypeOKFetch ==
    /\ registries \in RegistryContents
    /\ source \in {"mirror", "origin"}
    /\ attempt \in 0..fetchMaxRetries
    /\ phase \in {"list", "collect", "tag", "layers", "backoff", "done"}
    /\ DOMAIN pass.at \subseteq DOMAIN Artifact
    /\ pass \in Passes(DOMAIN pass.at)
    /\ expired \in BOOLEAN

-----------------------------------------------------------------------------
(* What the registry holds, whatever happens while it is read *)

Readable(d) == Artifact[d].read \in {"ok", "flaky"}

Verifiable(d) == Readable(d) /\ Artifact[d].verdict = "verified"

Expected(reg) ==
    LET Genuine(k) == {d \in Bucket(reg.referrers, k) : Verifiable(d)}
        baselines == {d \in Genuine("baselines") : Artifact[d].baseline}
        signatures == {d \in Bucket(reg.referrers, "notation") : Readable(d)}
        layers == {d \in {reg.tag.layers[i] : i \in DOMAIN reg.tag.layers} : Verifiable(d)}
    IN  IF Genuine("bundles") \union baselines # {}
        THEN Genuine("bundles") \union baselines \union signatures
        ELSE layers \union signatures

Blobs(ds) == {Artifact[d].blob : d \in ds}

\* A fetch without an error returns every attestation the registry it asked
\* holds for the image and nothing else, whatever the order in which the
\* collectors ran and however often passes were repeated: identical bundles
\* count once, junk next to them hides nothing, and a referrer that could not
\* be read is never silently left out (collectConcurrently, evaluateCollection,
\* tagFallbackAfterFailedReferrers).
FetchedIsComplete ==
    (answer # NoAnswer /\ answer.err = "none") =>
        Blobs(answer.atts) = Blobs(Expected(registries[source]))

\* What a registry holds, or the trust material for it, cannot all be had.
Hurt(reg) ==
    \/ reg.list \in Lenient \union {"flaky"} \/ reg.tag.read \in Lenient \union {"flaky"}
    \/ \E d \in reg.referrers \union {reg.tag.layers[i] : i \in DOMAIN reg.tag.layers} :
         \/ Artifact[d].read \in Transport \union {"flaky"}
         \/ Artifact[d].verdict \in {"noKey", "noRoot"}
    \/ reg.tag.keyMissing

\* A registry or its trust material could not be had.
Disturbed == expired \/ Hurt(registries["mirror"]) \/ Hurt(registries["origin"])

\* What is attached to an image in its registry never turns a deny into the fetch
\* failure policy: a fetch that nothing disturbed does not end with an error of
\* that kind, a limit that was exceeded decides even over the deadline, and
\* without a disturbance attestations that are listed only count as failing
\* verification when none verifies (isTransportFailure, finalFetchError,
\* collectSelection).
JunkStaysStrict ==
    answer # NoAnswer =>
        /\ answer.err \in Lenient => Disturbed
        /\ (\E k \in Collectors : pass.stats[k].limit) => answer.err = "incomplete"
        /\ (answer.err = "unverified" /\ ~Disturbed /\ registries[source].list = "ok") =>
              {d \in Expected(registries[source]) : classifyReferrer(d) = "bundles"} = {}

\* The answer of a fetch can be relied on: without an error it is complete, and
\* its error is lenient only for what a registry did, not for what it held.
FetchIsHonest == FetchedIsComplete /\ JunkStaysStrict
=============================================================================
