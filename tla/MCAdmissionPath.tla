--------------------------- MODULE MCAdmissionPath ---------------------------
(* What the admission of a container goes through, each part by itself: the *)
(* admission under reloads (Admission), the result cache (ResultCache), the *)
(* registry of breakers (BreakerRegistry), the fetch of attestations        *)
(* (AttestationFetch), the offline store (BundleStore) and the trusted root *)
(* (TrustedRoot). A behaviour is one of one part; the variables of the      *)
(* other parts stay as they are.                                            *)
EXTENDS ResultCache, Admission, BreakerRegistry, AttestationFetch, BundleStore, TrustedRoot, TLC

VARIABLE part

Parts == {"cache", "admission", "breakers", "fetch", "bundle", "root"}

-----------------------------------------------------------------------------
(* ResultCache: two digests that share a shard; two keys of the first, one  *)
(* of which extends the namespace of the other.                             *)

CONSTANTS d1, d2, r1, w1, w2

Key(d, n) == [digest |-> d, namespace |-> n]

MCKeys == {Key(d1, <<"a">>), Key(d1, <<"a", "rule">>), Key(d2, <<"b">>)}
MCShard == [d \in {d1, d2} |-> 1]
MCNamespaces == {<<"a">>, <<"b">>}
MCTTLs == {1, 2}
MCReaders == {r1}
MCWriters == {w1, w2}

\* The writers of the cache are interchangeable; no other part knows them.
MCSymmetry == Permutations(MCWriters)

-----------------------------------------------------------------------------
(* Admission: the modes with and without a policy for the namespace, with   *)
(* allowlisted digests, and containers of both runtimes and of neither.     *)

Conf(mode, policy, nsMode, covers, ruleMode, allow) ==
    [mode |-> mode, policy |-> policy, nsMode |-> nsMode, covers |-> covers,
     ruleMode |-> ruleMode, allow |-> allow]

MCConfigs ==
    {Conf("disabled", FALSE, "warn", TRUE, "warn", {}),
     Conf("enforce", FALSE, "enforce", TRUE, "enforce", {"manifest"}),
     Conf("warn", TRUE, "enforce", FALSE, "enforce", {"index"}),
     Conf("warn", TRUE, "warn", TRUE, "enforce", {}),
     Conf("enforce", TRUE, "enforce", TRUE, "enforce", {}),
     Conf("enforce", TRUE, "enforce", FALSE, "enforce", {})}

Ctr(crioRef, crioDigest, cdRef, cdDigest, named, pinned, runtime) ==
    [crioRef |-> crioRef, crioDigest |-> crioDigest, cdRef |-> cdRef, cdDigest |-> cdDigest,
     named |-> named, pinned |-> pinned, runtime |-> runtime]

MCContainers ==
    {Ctr(FALSE, NoDigest, FALSE, NoDigest, TRUE, NoDigest, r) :
        r \in {NoDigest, "manifest", "index", "split"}}
      \union {Ctr(FALSE, NoDigest, FALSE, NoDigest, FALSE, NoDigest, "manifest"),
              Ctr(TRUE, NoDigest, TRUE, "manifest", TRUE, NoDigest, "index"),
              Ctr(TRUE, NoDigest, FALSE, NoDigest, TRUE, "manifest", NoDigest),
              Ctr(TRUE, "manifest", FALSE, "moved", FALSE, NoDigest, NoDigest)}

MCVerdicts == {v \in [{"manifest", "moved", "index", "split"} -> {"pass", "fail"}] :
                  v["split"] = "pass"}

-----------------------------------------------------------------------------
(* BreakerRegistry: three hosts, room for two. *)

CONSTANTS h1, h2, h3, u1, u2

MCHosts == {h1, h2, h3}
MCGetters == {u1, u2}

-----------------------------------------------------------------------------
(* AttestationFetch: every set of up to three of these referrers in the     *)
(* mirror, and legacy tags and failing listings next to some of them.       *)

Art(kind, read, blob, size, verdict) ==
    [kind |-> kind, oversized |-> FALSE, read |-> read, blob |-> blob, size |-> size,
     verdict |-> verdict, baseline |-> kind = "baseline", legacy |-> FALSE]

MCArtifact ==
    [good |-> Art("bundle", "ok", 1, 1, "verified"),
     copy |-> Art("generic", "ok", 1, 1, "verified"),
     other |-> Art("bundle", "flaky", 2, 1, "verified"),
     big |-> Art("bundle", "ok", 3, 3, "verified"),
     junk |-> Art("bundle", "ok", 4, 1, "invalid"),
     broken |-> Art("generic", "malformed", 5, 1, "invalid"),
     denied |-> Art("generic", "forbidden", 5, 1, "invalid"),
     lost |-> Art("generic", "gone", 6, 1, "invalid"),
     far |-> Art("bundle", "unreachable", 7, 1, "verified"),
     noKey |-> Art("bundle", "ok", 8, 1, "noKey"),
     noRoot |-> Art("bundle", "ok", 9, 1, "noRoot"),
     sig |-> Art("notation", "ok", 10, 1, "verified"),
     base |-> Art("baseline", "ok", 11, 1, "verified"),
     fake |-> [Art("baseline", "ok", 12, 1, "verified") EXCEPT !.baseline = FALSE],
     huge |-> [Art("bundle", "ok", 13, 1, "verified") EXCEPT !.oversized = TRUE],
     image |-> Art("ignored", "ok", 14, 1, "invalid"),
     layer |-> Art("bundle", "flaky", 15, 1, "verified"),
     layer2 |-> Art("bundle", "ok", 16, 2, "verified"),
     old |-> [Art("bundle", "ok", 17, 1, "invalid") EXCEPT !.legacy = TRUE],
     cut |-> Art("bundle", "truncated", 18, 1, "verified")]

CosignTag(read, layers, keyMissing) == [read |-> read, layers |-> layers, keyMissing |-> keyMissing]

NoTag == CosignTag("gone", <<>>, FALSE)

MCTags ==
    {CosignTag(r, <<>>, FALSE) : r \in {"gone", "transient", "malformed"}}
      \union {CosignTag("ok", <<"layer", "layer2", "junk", "old", "layer">>, FALSE)}
      \union {CosignTag("ok", ls, k) : k \in BOOLEAN,
                ls \in {<<"layer">>, <<"layer", "layer2">>, <<"old">>, <<"old", "layer">>,
                        <<"layer2", "cut">>, <<"junk", "old", "layer">>}}

Registry(list, referrers, tag) == [list |-> list, referrers |-> referrers, tag |-> tag]

Plain == Registry("ok", {"good"}, NoTag)

MCContents ==
    LET listed == DOMAIN MCArtifact \ {"layer", "layer2", "old", "cut"}
        some == {{}, {"junk"}, {"sig", "broken"}, {"lost"}, {"base"}, {"fake"}, {"noKey"}}
        failing == {"flaky", "transient", "unreachable", "malformed", "limit", "forbidden"}
    IN  {[mirror |-> Registry("ok", rs, NoTag), origin |-> Plain] :
            rs \in {s \in SUBSET listed : Cardinality(s) <= 3}}
          \union {[mirror |-> Registry("ok", rs, t), origin |-> Plain] : rs \in some, t \in MCTags}
          \union {[mirror |-> Registry(l, IF l = "malformed" THEN {} ELSE {"good"}, NoTag),
                   origin |-> Registry("ok", rs, t)] :
                      l \in failing, rs \in {{}, {"other"}}, t \in MCTags}

\* They are among the contents SpecFetch starts from.
ASSUME ContentsAssumption ==
    MCContents \subseteq RegistryContents

-----------------------------------------------------------------------------
(* BundleStore: two imports of bundles that are complete or not, signed or  *)
(* not, and hold attestations that verify or not.                           *)

CONSTANTS seed, i1, i2, f1

MCImports == {i1, i2}
MCFetches == {f1}

One ==
    [created |-> 1, age |-> "fresh", listed |-> {"a"}, held |-> {"a"}, signature |-> "none",
     parses |-> TRUE, extracts |-> TRUE, hasImage |-> TRUE, verdict |-> [x \in {"a", "b"} |-> "good"]]

Two(u, v) == [One EXCEPT !.listed = {"a", "b"}, !.held = {"a", "b"}, !.verdict = [a |-> u, b |-> v]]

Signed == [Two("good", "bad") EXCEPT !.created = 2, !.signature = "good"]

MCBundles ==
    {Signed,
     [Two("key", "bad") EXCEPT !.created = 3],
     [One EXCEPT !.created = 3, !.verdict = [a |-> "other", b |-> "other"], !.age = "old",
                 !.signature = "bad"],
     [One EXCEPT !.created = 4, !.listed = {"a", "b"}],
     [One EXCEPT !.created = 5, !.listed = {}, !.hasImage = FALSE, !.parses = FALSE]}

Offline(strict) ==
    [maxAge |-> strict, expiry |-> IF strict THEN "deny" ELSE "warn", required |-> strict,
     key |-> strict, verifyKey |-> strict]

MCOffline == {Offline(FALSE), Offline(TRUE)}

-----------------------------------------------------------------------------
(* TrustedRoot: two verifications. *)

CONSTANTS g1, g2

MCGets == {g1, g2}

-----------------------------------------------------------------------------
MCInit ==
    /\ part \in Parts
    /\ InitCache
    /\ InitAdm(MCVerdicts)
    /\ part # "admission" => conf = Conf("disabled", FALSE, "warn", TRUE, "warn", {})
                             /\ ctr = Ctr(FALSE, NoDigest, FALSE, NoDigest, TRUE, NoDigest, NoDigest)
                             /\ \A d \in DOMAIN verdicts : verdicts[d] = "pass"
    /\ InitRegistry
    /\ InitFetch(IF part = "fetch" THEN MCContents ELSE {[mirror |-> Plain, origin |-> Plain]})
    /\ InitBundle(IF part = "bundle" THEN {One, Signed} ELSE {One})
    /\ part # "bundle" => offline = Offline(FALSE)
    /\ InitRoot
    /\ part # "root" => ~preSeeded

MCNext ==
    \/ part = "cache" /\ NextCache
       /\ UNCHANGED <<part, varsAdm, varsRegistry, varsFetch, varsBundle, varsRoot>>
    \/ part = "admission" /\ NextAdm
       /\ UNCHANGED <<part, varsCache, varsRegistry, varsFetch, varsBundle, varsRoot>>
    \/ part = "breakers" /\ NextRegistry
       /\ UNCHANGED <<part, varsCache, varsAdm, varsFetch, varsBundle, varsRoot>>
    \/ part = "fetch" /\ NextFetch
       /\ UNCHANGED <<part, varsCache, varsAdm, varsRegistry, varsBundle, varsRoot>>
    \/ part = "bundle" /\ NextBundle
       /\ UNCHANGED <<part, varsCache, varsAdm, varsRegistry, varsFetch, varsRoot>>
    \/ part = "root" /\ NextRoot
       /\ UNCHANGED <<part, varsCache, varsAdm, varsRegistry, varsFetch, varsBundle>>

MCSpec ==
    MCInit /\ [][MCNext]_<<part, varsCache, varsAdm, varsRegistry, varsFetch, varsBundle, varsRoot>>
=============================================================================
