---------------------------- MODULE FetchProofs -----------------------------
(***************************************************************************)
(* Fetches of attestations are honest, for every content of the mirror and *)
(* of the origin and every interleaving of the collectors with the         *)
(* timeout: an answer without error is the complete set of the registry it *)
(* comes from, and an error that a policy may forgive is due to the        *)
(* registry or the trust material, never to what others pushed next to the *)
(* image. The inductive invariant accounts for every referrer that is      *)
(* done: it is collected, or an equal one is, or its collector knows that  *)
(* the set is incomplete.                                                  *)
(***************************************************************************)
EXTENDS AttestationFetch, TLAPS

Unlimited == \A k \in Collectors : ~pass.stats[k].limit

\* The set of collector k is known to be incomplete.
Excused(k) == expired \/ pass.stats[k].limit \/ pass.stats[k].fetch # "none"

Wanted(d, k) == Readable(d) /\ (k # "notation" => Artifact[d].verdict = "verified")

\* The blob of d is collected, or about to be.
Has(d, k) ==
    \E e \in DOMAIN pass.at :
        /\ classifyReferrer(e) = k /\ Artifact[e].blob = Artifact[d].blob
        /\ pass.at[e] = "read" \/ e \in pass.got[k]

Listed == registries[source].referrers

\* Collecting: every referrer that is done is accounted for.
CollectInv ==
    phase = "collect" =>
        /\ DOMAIN pass.at = selectReferrers(Listed).candidates
        /\ \A k \in Collectors, d \in DOMAIN pass.at :
              (classifyReferrer(d) = k /\ pass.at[d] = "done" /\ Wanted(d, k)) => Excused(k) \/ Has(d, k)
        /\ \A d \in DOMAIN pass.at : pass.at[d] = "read" => Readable(d) /\ classifyReferrer(d) # "notation"
        /\ \A k \in Collectors : \A d \in pass.got[k] :
              d \in DOMAIN pass.at /\ classifyReferrer(d) = k /\ Wanted(d, k)
        /\ \A k \in Collectors : \A b \in pass.seen[k] :
              \E e \in DOMAIN pass.at : /\ classifyReferrer(e) = k /\ Artifact[e].blob = b
                                        /\ pass.at[e] # "todo" /\ Readable(e)
        /\ \A k \in pass.cancelled : pass.stats[k].limit
        /\ pass.layer = 1

\* What the registry that is asked holds.
Bundles == {d \in Bucket(Listed, "bundles") : Verifiable(d)}
Baselines == {d \in Bucket(Listed, "baselines") : Verifiable(d) /\ Artifact[d].baseline}
Signatures == {d \in Bucket(Listed, "notation") : Readable(d)}
Layers == {d \in {Tag.layers[i] : i \in DOMAIN Tag.layers} : Verifiable(d)}

\* Nothing to be had from the referrers except Notation signatures.
Bare == Bundles = {} /\ Baselines = {} /\ Blobs(pass.got["notation"]) = Blobs(Signatures)

TagInv ==
    phase \in {"tag", "layers"} =>
        /\ expired \/ Bare
        /\ \A k \in {"notation", "baselines"} : ~pass.stats[k].limit
        /\ phase = "tag" => Unlimited /\ pass.got["bundles"] = {} /\ pass.layer = 1

\* Reading the layers of the tag: every layer that was read is accounted for.
LayersInv ==
    phase = "layers" =>
        /\ pass.layer \in 1..(Len(Tag.layers) + 1)
        /\ \A d \in pass.got["bundles"] :
              Verifiable(d) /\ \E i \in DOMAIN Tag.layers : Tag.layers[i] = d
        /\ \A i \in DOMAIN Tag.layers :
              (i < pass.layer /\ Verifiable(Tag.layers[i])) =>
                  Excused("bundles") \/ Tag.layers[i] \in pass.got["bundles"]

\* What was recorded as a failure of the registry or of trust material is one.
DisturbedInv ==
    \A k \in Collectors : pass.stats[k].fetch # "none" \/ pass.stats[k].key => Disturbed

FetchInv ==
    /\ TypeOKFetch /\ CollectInv /\ TagInv /\ LayersInv /\ DisturbedInv
    /\ phase = "backoff" => Unlimited
    /\ phase # "done" => answer = NoAnswer
    /\ FetchIsHonest

-----------------------------------------------------------------------------
(* The operators of a pass *)

Outcomes == {"failed", "fetch", "limit", "key", "skipped", "collected"}

\* What recording an outcome changes in the counts of a collector.
LEMMA RecordKeeps ==
    ASSUME NEW s \in Stats, NEW o \in Outcomes, NEW r,
           o = "fetch" => r \in Transport \union {"noRoot"}
    PROVE  /\ record(s, o, r) \in Stats
           /\ record(s, o, r).limit <=> (s.limit \/ o = "limit")
           /\ record(s, o, r).fetch # "none" <=> (s.fetch # "none" \/ o = "fetch")
           /\ record(s, o, r).key <=> (s.key \/ o = "key")
  BY Zenon DEF record, Stats, Outcomes, Transport

\* A pass is made of fields of the right types.
LEMMA PassFields ==
    ASSUME NEW ds, NEW p \in Passes(ds)
    PROVE  /\ p.at \in [ds -> {"todo", "read", "done"}]
           /\ p.stats \in [Collectors -> Stats]
           /\ p.got \in [Collectors -> SUBSET DOMAIN Artifact]
           /\ p.seen \in [Collectors -> SUBSET {Artifact[d].blob : d \in DOMAIN Artifact}]
           /\ p.cancelled \in SUBSET Collectors /\ p.used \in Nat
           /\ p.failed \in BOOLEAN /\ p.layer \in Nat
  BY DEF Passes

\* A pass with other counts, another collection and another layer is a pass.
LEMMA PassMade ==
    ASSUME NEW ds, NEW p \in Passes(ds), NEW s \in [Collectors -> Stats],
           NEW g \in [Collectors -> SUBSET DOMAIN Artifact], NEW l \in Nat
    PROVE  [at |-> p.at, stats |-> s, got |-> g, seen |-> p.seen, cancelled |-> p.cancelled,
            used |-> p.used, failed |-> p.failed, layer |-> l] \in Passes(ds)
  BY PassFields DEF Passes

\* What is left of a pass when a referrer ends.
LEMMA EndedFields ==
    ASSUME NEW ds, NEW p \in Passes(ds), NEW d \in ds, NEW k \in Collectors, NEW o, NEW r,
           record(p.stats[k], o, r) \in Stats
    PROVE  LET q == Ended(p, d, k, o, r)
           IN  /\ q \in Passes(ds)
               /\ q.at = [p.at EXCEPT ![d] = "done"]
               /\ q.stats = [p.stats EXCEPT ![k] = record(@, o, r)]
               /\ q.got = p.got /\ q.seen = p.seen /\ q.cancelled = p.cancelled
               /\ q.failed = p.failed /\ q.layer = p.layer
  BY Zenon DEF Ended, Passes

\* Charging the budget leaves the collection alone.
LEMMA ChargeFields ==
    ASSUME NEW ds, NEW p \in Passes(ds), NEW d \in DOMAIN Artifact
    PROVE  LET q == charge(p, d)
           IN  /\ q \in Passes(ds)
               /\ q.at = p.at /\ q.stats = p.stats /\ q.got = p.got /\ q.seen = p.seen
               /\ q.cancelled = p.cancelled /\ q.failed = p.failed /\ q.layer = p.layer
  BY ArtifactAssumption DEF charge, Passes

\* A pass starts as one.
LEMMA NewPassIsPass ==
    ASSUME NEW ds
    PROVE  NewPass(ds) \in Passes(ds)
  BY DEF NewPass, Passes, NoStats, Stats, Transport, Collectors

\* Between the passes p and q referrer d was kept, or exceeded the aggregate size.
KeptOrFull(p, q, d, k) ==
    /\ q.at = [p.at EXCEPT ![d] = "done"]
    /\ q.seen = p.seen /\ q.layer = p.layer
    /\ \/ /\ q.stats = [p.stats EXCEPT ![k] = record(@, "limit", "limit")]
          /\ q.got = p.got
          /\ q.cancelled \in {p.cancelled, p.cancelled \union {k}}
       \/ /\ q.stats = [p.stats EXCEPT ![k] = record(@, "collected", "ok")]
          /\ q.got = [p.got EXCEPT ![k] = @ \union {d}]
          /\ q.cancelled = p.cancelled

\* A collected referrer is kept, or exceeds the aggregate size.
LEMMA CollectedFields ==
    ASSUME NEW ds, NEW p \in Passes(ds), NEW d \in ds, d \in DOMAIN Artifact, NEW k \in Collectors,
           NEW q, q = Collected(p, d, k)
    PROVE  q \in Passes(ds) /\ KeptOrFull(p, q, d, k)
  <1> DEFINE full == Ended(p, d, k, "limit", "limit")
             kept == Ended(p, d, k, "collected", "ok")
  <1>1. p.stats[k] \in Stats
    BY DEF Passes
  <1>2. /\ record(p.stats[k], "limit", "limit") \in Stats
        /\ record(p.stats[k], "collected", "ok") \in Stats
    BY <1>1, RecordKeeps DEF Outcomes
  <1>3. /\ full \in Passes(ds) /\ full.at = [p.at EXCEPT ![d] = "done"]
        /\ full.stats = [p.stats EXCEPT ![k] = record(@, "limit", "limit")]
        /\ full.got = p.got /\ full.seen = p.seen /\ full.layer = p.layer /\ full.cancelled = p.cancelled
    BY <1>2, EndedFields
  <1>4. /\ kept \in Passes(ds) /\ kept.at = [p.at EXCEPT ![d] = "done"]
        /\ kept.stats = [p.stats EXCEPT ![k] = record(@, "collected", "ok")]
        /\ kept.got = p.got /\ kept.seen = p.seen /\ kept.layer = p.layer /\ kept.cancelled = p.cancelled
    BY <1>2, EndedFields
  <1> HIDE DEF full, kept
  <1>5. CASE SizeOf(p.got[k] \union {d}) > maxTotalAttestationSize
    <2>1. q = [full EXCEPT !.cancelled = IF expired THEN @ ELSE @ \union {k}]
      BY <1>5 DEF Collected, full
    <2>2. QED
      BY <2>1, <1>3 DEF Passes, KeptOrFull
  <1>6. CASE ~(SizeOf(p.got[k] \union {d}) > maxTotalAttestationSize)
    <2>1. q = [kept EXCEPT !.got[k] = @ \union {d}]
      BY <1>6 DEF Collected, kept
    <2>2. QED
      BY <2>1, <1>4 DEF Passes, KeptOrFull
  <1>7. QED
    BY <1>5, <1>6

-----------------------------------------------------------------------------
(* The end of a pass *)

\* However a pass ends, with an answer, a retry or a move to the origin, it
\* is honest if what it is given is.
LEMMA EndPassIsHonest ==
    ASSUME TypeOKFetch, answer = NoAnswer, NEW err, NEW atts, EndPass(err, atts),
           UNCHANGED <<registries, expired>>,
           err = "none" => Blobs(atts) = Blobs(Expected(registries[source])),
           err \in Lenient => Disturbed,
           ~Unlimited' => err = "incomplete",
           (err = "unverified" /\ ~Disturbed /\ registries[source].list = "ok") =>
               {d \in Expected(registries[source]) : classifyReferrer(d) = "bundles"} = {}
    PROVE  /\ source' \in {"mirror", "origin"}
           /\ attempt' \in 0..fetchMaxRetries
           /\ phase' \in {"list", "backoff", "done"}
           /\ phase' = "backoff" => Unlimited'
           /\ phase' # "done" => answer' = NoAnswer
           /\ FetchIsHonest'
  <1> DEFINE final == finalFetchError(err)
             again == final = "transient" /\ attempt < fetchMaxRetries
             elsewhere == final \in {"transient", "unreachable", "truncated"} /\ source = "mirror" /\ ~expired
  <1>1. /\ attempt' = IF again THEN attempt + 1 ELSE IF elsewhere THEN 0 ELSE attempt
        /\ source' = IF ~again /\ elsewhere THEN "origin" ELSE source
        /\ phase' = CASE again -> "backoff" [] ~again /\ elsewhere -> "list" [] OTHER -> "done"
        /\ answer' = IF again \/ elsewhere THEN answer
                     ELSE [err |-> final, atts |-> IF final \in {"none", "unverified"} THEN atts ELSE {}]
    BY DEF EndPass
  <1>2. /\ final = "none" <=> err = "none"
        /\ final = "unverified" <=> err = "unverified"
        /\ err = "incomplete" => final = "incomplete"
        /\ final \in Lenient => Disturbed
    <2>1. expired => Disturbed
      BY DEF Disturbed, Hurt
    <2>2. expired \in BOOLEAN
      BY DEF TypeOKFetch
    <2>3. final = IF err \notin {"none", "unverified", "incomplete"} /\ expired THEN "interrupted" ELSE err
      BY DEF finalFetchError
    <2> HIDE DEF final
    <2>4. QED
      BY <2>1, <2>2, <2>3 DEF Lenient, Transport
  <1>3. Disturbed' <=> Disturbed
    BY DEF Disturbed
  <1>4. /\ source' \in {"mirror", "origin"} /\ attempt' \in 0..fetchMaxRetries
        /\ phase' \in {"list", "backoff", "done"}
        /\ phase' = "backoff" => Unlimited'
    <2> HIDE DEF final
    <2>1. QED
      BY <1>1, <1>2, LimitsAssumption DEF TypeOKFetch
  <1>5. CASE again \/ elsewhere
    BY <1>1, <1>4, <1>5 DEF FetchIsHonest, FetchedIsComplete, JunkStaysStrict
  <1>6. CASE ~again /\ ~elsewhere
    <2>1. /\ answer' = [err |-> final, atts |-> IF final \in {"none", "unverified"} THEN atts ELSE {}]
          /\ source' = source /\ phase' = "done"
      BY <1>1, <1>6
    <2>2. answer'.err = final /\ (final \in {"none", "unverified"} => answer'.atts = atts)
      BY <2>1
    <2> HIDE DEF final
    <2>3. FetchedIsComplete'
      BY <1>2, <2>1, <2>2 DEF FetchedIsComplete
    <2>4. JunkStaysStrict'
      BY <1>2, <1>3, <2>1, <2>2 DEF JunkStaysStrict, Unlimited
    <2>5. QED
      BY <1>4, <2>1, <2>3, <2>4 DEF FetchIsHonest
  <1>7. QED
    BY <1>5, <1>6

-----------------------------------------------------------------------------
(* Collecting *)

\* What a step of a collector on referrer d does, whichever step it is.
CollectEffect(d, k) ==
    /\ phase = "collect"
    /\ UNCHANGED <<registries, source, attempt, phase, expired, answer>>
    /\ d \in DOMAIN pass.at /\ pass.at[d] # "done" /\ k = classifyReferrer(d) /\ k \in Collectors
    /\ pass' \in Passes(DOMAIN pass.at)
    /\ pass'.at[d] \in {"read", "done"} /\ pass'.layer = pass.layer
    /\ \A e \in DOMAIN pass.at : e # d => pass'.at[e] = pass.at[e]
    /\ \A j \in Collectors : j # k => /\ pass'.stats[j] = pass.stats[j]
                                      /\ pass'.got[j] = pass.got[j] /\ pass'.seen[j] = pass.seen[j]
    /\ pass.stats[k].limit => pass'.stats[k].limit
    /\ pass.stats[k].fetch # "none" => pass'.stats[k].fetch # "none"
    /\ (pass'.stats[k].fetch # "none" /\ pass.stats[k].fetch = "none") => Disturbed
    /\ (pass'.stats[k].key /\ ~pass.stats[k].key) => Disturbed
    /\ pass'.at[d] = "read" => Readable(d) /\ k # "notation"
    /\ \A e \in pass.got[k] : e \in pass'.got[k]
    /\ \A e \in pass'.got[k] : e \in pass.got[k] \/ (e = d /\ Wanted(d, k))
    /\ (pass'.at[d] = "done" /\ Wanted(d, k)) =>
          \/ expired \/ pass'.stats[k].limit \/ pass'.stats[k].fetch # "none"
          \/ d \in pass'.got[k]
          \/ pass.at[d] = "todo" /\ Artifact[d].blob \in pass.seen[k]
    /\ \A b \in pass'.seen[k] : b \in pass.seen[k] \/ (b = Artifact[d].blob /\ pass'.at[d] = "read")
    /\ \A j \in pass'.cancelled : j \in pass.cancelled \/ (j = k /\ pass'.stats[k].limit)

\* A step of a collector keeps the invariant.
LEMMA CollectKeeps ==
    ASSUME FetchInv, NEW d, NEW k, CollectEffect(d, k)
    PROVE  FetchInv'
  <1> USE DEF CollectEffect
  <1>1. /\ TypeOKFetch /\ CollectInv /\ DisturbedInv /\ phase = "collect" /\ answer = NoAnswer
        /\ d \in DOMAIN Artifact
    BY DEF FetchInv, TypeOKFetch
  <1>2. DOMAIN pass'.at = DOMAIN pass.at /\ DOMAIN pass.at \subseteq DOMAIN Artifact
    BY <1>1 DEF Passes, TypeOKFetch
  <1>3. TypeOKFetch'
    BY <1>1, <1>2 DEF TypeOKFetch
  <1>4. \A j \in Collectors : Excused(j) => Excused(j)'
    BY DEF Excused
  <1>5. ASSUME NEW j \in Collectors, NEW e \in DOMAIN pass.at, Wanted(e, j), Has(e, j)
        PROVE  Excused(j)' \/ Has(e, j)'
    <2>1. PICK v \in DOMAIN pass.at : /\ classifyReferrer(v) = j /\ Artifact[v].blob = Artifact[e].blob
                                      /\ pass.at[v] = "read" \/ v \in pass.got[j]
      BY <1>5 DEF Has
    <2>2. CASE v \in pass.got[j]
      <3>1. v \in pass'.got[j]
        BY <2>2
      <3>2. QED
        BY <1>2, <2>1, <3>1 DEF Has
    <2>3. CASE pass.at[v] = "read" /\ v # d
      BY <1>2, <2>1, <2>3 DEF Has
    <2>4. CASE pass.at[v] = "read" /\ v = d
      <3>1. j = k /\ Wanted(d, k)
        BY <1>1, <1>2, <1>5, <2>1, <2>4, ArtifactAssumption DEF CollectInv, Wanted
      <3>2. CASE pass'.at[d] = "read"
        BY <1>2, <2>1, <2>4, <3>2 DEF Has
      <3>3. CASE pass'.at[d] = "done"
        BY <1>2, <2>1, <2>4, <3>1, <3>3 DEF Has, Excused
      <3>4. QED
        BY <3>2, <3>3
    <2>5. QED
      BY <2>1, <2>2, <2>3, <2>4
  <1>6. ASSUME NEW j \in Collectors, NEW e \in DOMAIN pass.at,
               classifyReferrer(e) = j, pass'.at[e] = "done", Wanted(e, j)
        PROVE  Excused(j)' \/ Has(e, j)'
    <2>1. CASE e # d
      <3>1. Excused(j) \/ Has(e, j)
        BY <1>1, <1>6, <2>1 DEF CollectInv
      <3>2. QED
        BY <1>4, <1>5, <1>6, <3>1
    <2>2. CASE e = d /\ pass.at[d] = "todo" /\ Artifact[d].blob \in pass.seen[k]
      <3>1. PICK w \in DOMAIN pass.at : /\ classifyReferrer(w) = k /\ Artifact[w].blob = Artifact[d].blob
                                        /\ pass.at[w] # "todo" /\ Readable(w)
        BY <1>1, <2>2 DEF CollectInv
      <3>2. Wanted(w, k) /\ j = k
        BY <1>2, <1>6, <2>2, <3>1, ArtifactAssumption DEF Wanted
      <3>3. CASE pass.at[w] = "read"
        BY <1>2, <2>2, <3>1, <3>2, <3>3 DEF Has
      <3>4. CASE pass.at[w] = "done"
        <4>1. Excused(k) \/ Has(w, k)
          BY <1>1, <3>1, <3>2, <3>4 DEF CollectInv
        <4>2. Excused(k)' \/ Has(w, k)'
          BY <1>4, <1>5, <3>2, <4>1
        <4>3. QED
          BY <2>2, <3>1, <3>2, <4>2 DEF Has
      <3>5. pass.at[w] \in {"todo", "read", "done"}
        BY <1>1 DEF TypeOKFetch, Passes
      <3>6. QED
        BY <3>1, <3>3, <3>4, <3>5
    <2>3. CASE e = d /\ ~(pass.at[d] = "todo" /\ Artifact[d].blob \in pass.seen[k])
      BY <1>2, <1>6, <2>3 DEF Excused, Has
    <2>4. QED
      BY <2>1, <2>2, <2>3
  <1>7. CollectInv'
    <2>1. DOMAIN pass'.at = selectReferrers(Listed)'.candidates
      BY <1>1, <1>2 DEF CollectInv, selectReferrers, Listed, Bucket, classifyReferrer, Limit
    <2>2. \A e \in DOMAIN pass'.at : pass'.at[e] = "read" => Readable(e) /\ classifyReferrer(e) # "notation"
      BY <1>1, <1>2 DEF CollectInv
    <2>3. \A j \in Collectors : \A e \in pass'.got[j] :
              e \in DOMAIN pass'.at /\ classifyReferrer(e) = j /\ Wanted(e, j)
      BY <1>1, <1>2 DEF CollectInv
    <2>4. ASSUME NEW j \in Collectors, NEW b \in pass'.seen[j]
          PROVE  \E e \in DOMAIN pass'.at : /\ classifyReferrer(e) = j /\ Artifact[e].blob = b
                                             /\ pass'.at[e] # "todo" /\ Readable(e)
      <3>1. CASE b \in pass.seen[j]
        BY <1>1, <1>2, <3>1 DEF CollectInv
      <3>2. CASE b \notin pass.seen[j]
        BY <1>2, <2>4, <3>2
      <3>3. QED
        BY <3>1, <3>2
    <2>5. \A j \in pass'.cancelled : pass'.stats[j].limit
      BY <1>1 DEF CollectInv, TypeOKFetch, Passes
    <2>6. pass'.layer = 1
      BY <1>1 DEF CollectInv
    <2>7. QED
      BY <1>2, <1>6, <2>1, <2>2, <2>3, <2>4, <2>5, <2>6, SMTT(30) DEF CollectInv
  <1>8. DisturbedInv'
    <2>1. Disturbed' <=> Disturbed
      BY DEF Disturbed
    <2>2. QED
      BY <1>1, <2>1 DEF DisturbedInv
  <1>9. TagInv' /\ LayersInv' /\ FetchIsHonest' /\ answer' = NoAnswer /\ phase' = "collect"
    BY <1>1 DEF TagInv, LayersInv, FetchIsHonest, FetchedIsComplete, JunkStaysStrict
  <1>10. QED
    BY <1>3, <1>7, <1>8, <1>9 DEF FetchInv

\* A referrer that ends without being collected.
LEMMA EndedIsCollecting ==
    ASSUME FetchInv, phase = "collect",
           UNCHANGED <<registries, source, attempt, phase, expired, answer>>,
           NEW d \in DOMAIN pass.at, pass.at[d] # "done",
           NEW k \in Collectors, k = classifyReferrer(d),
           NEW p, p = pass \/ p = charge(pass, d),
           NEW o \in Outcomes, NEW r, o = "fetch" => r \in Transport \union {"noRoot"},
           o \in {"fetch", "key"} => Disturbed,
           Wanted(d, k) => \/ expired \/ pass.stats[k].limit \/ o \in {"fetch", "limit"}
                           \/ pass.at[d] = "todo" /\ Artifact[d].blob \in pass.seen[k],
           pass' = Ended(p, d, k, o, r)
    PROVE  CollectEffect(d, k)
  <1>1. /\ pass \in Passes(DOMAIN pass.at) /\ DOMAIN pass.at \subseteq DOMAIN Artifact
        /\ pass.stats[k] \in Stats
    BY DEF FetchInv, TypeOKFetch, Passes
  <1>2. /\ p \in Passes(DOMAIN pass.at)
        /\ p.at = pass.at /\ p.stats = pass.stats /\ p.got = pass.got /\ p.seen = pass.seen
        /\ p.cancelled = pass.cancelled /\ p.layer = pass.layer
    BY <1>1, ChargeFields
  <1>3. /\ record(pass.stats[k], o, r) \in Stats
        /\ record(pass.stats[k], o, r).limit <=> (pass.stats[k].limit \/ o = "limit")
        /\ record(pass.stats[k], o, r).fetch # "none" <=> (pass.stats[k].fetch # "none" \/ o = "fetch")
        /\ record(pass.stats[k], o, r).key <=> (pass.stats[k].key \/ o = "key")
    BY <1>1, RecordKeeps
  <1>4. /\ pass' \in Passes(DOMAIN pass.at)
        /\ pass'.at = [pass.at EXCEPT ![d] = "done"]
        /\ pass'.stats = [pass.stats EXCEPT ![k] = record(@, o, r)]
        /\ pass'.got = pass.got /\ pass'.seen = pass.seen /\ pass'.cancelled = pass.cancelled
        /\ pass'.layer = pass.layer
    BY <1>2, <1>3, EndedFields
  <1>5. QED
    BY <1>1, <1>3, <1>4 DEF CollectEffect, Passes

\* A referrer that is collected, or exceeds the aggregate size.
LEMMA CollectedIsCollecting ==
    ASSUME FetchInv, phase = "collect",
           UNCHANGED <<registries, source, attempt, phase, expired, answer>>,
           NEW d \in DOMAIN pass.at, pass.at[d] # "done",
           NEW k \in Collectors, k = classifyReferrer(d), Wanted(d, k),
           NEW p, p = pass \/ p = charge(pass, d),
           pass' = Collected(p, d, k)
    PROVE  CollectEffect(d, k)
  <1>1. /\ pass \in Passes(DOMAIN pass.at) /\ DOMAIN pass.at \subseteq DOMAIN Artifact
        /\ pass.stats[k] \in Stats
    BY DEF FetchInv, TypeOKFetch, Passes
  <1>2. /\ p \in Passes(DOMAIN pass.at)
        /\ p.at = pass.at /\ p.stats = pass.stats /\ p.got = pass.got /\ p.seen = pass.seen
        /\ p.cancelled = pass.cancelled /\ p.layer = pass.layer
    BY <1>1, ChargeFields
  <1>3. pass' \in Passes(DOMAIN pass.at) /\ KeptOrFull(pass, pass', d, k)
    <2>1. d \in DOMAIN Artifact
      BY <1>1
    <2>2. pass' \in Passes(DOMAIN pass.at) /\ KeptOrFull(p, pass', d, k)
      BY <1>2, <2>1, CollectedFields
    <2>3. QED
      BY <1>2, <2>2 DEF KeptOrFull
  <1>4. /\ record(pass.stats[k], "limit", "limit").limit
        /\ record(pass.stats[k], "limit", "limit").fetch # "none" <=> pass.stats[k].fetch # "none"
        /\ record(pass.stats[k], "limit", "limit").key <=> pass.stats[k].key
    BY <1>1, RecordKeeps DEF Outcomes
  <1>5. /\ record(pass.stats[k], "collected", "ok").limit <=> pass.stats[k].limit
        /\ record(pass.stats[k], "collected", "ok").fetch # "none" <=> pass.stats[k].fetch # "none"
        /\ record(pass.stats[k], "collected", "ok").key <=> pass.stats[k].key
    BY <1>1, RecordKeeps DEF Outcomes
  <1>6. CASE pass'.got = pass.got
    BY <1>1, <1>3, <1>4, <1>5, <1>6 DEF CollectEffect, KeptOrFull, Passes
  <1>7. CASE /\ pass'.stats = [pass.stats EXCEPT ![k] = record(@, "collected", "ok")]
             /\ pass'.got = [pass.got EXCEPT ![k] = @ \union {d}]
             /\ pass'.cancelled = pass.cancelled
    BY <1>1, <1>3, <1>5, <1>7 DEF CollectEffect, KeptOrFull, Passes
  <1>8. QED
    BY <1>3, <1>6, <1>7 DEF KeptOrFull

\* The referrers of a pass are the listed ones, each with its collector.
LEMMA ReferrersAreListed ==
    ASSUME FetchInv, phase = "collect", NEW d \in DOMAIN pass.at
    PROVE  d \in Listed /\ d \in DOMAIN Artifact /\ classifyReferrer(d) \in Collectors
  BY DEF FetchInv, CollectInv, selectReferrers, Bucket, TypeOKFetch

\* A referrer that is skipped is such a step.
LEMMA SkipIsCollecting ==
    ASSUME FetchInv, NEW d \in DOMAIN pass.at, SkipReferrer(d)
    PROVE  CollectEffect(d, classifyReferrer(d))
  <1> DEFINE k == classifyReferrer(d)
  <1>1. /\ phase = "collect" /\ pass.at[d] = "todo" /\ Cut(k)
        /\ UNCHANGED <<registries, source, attempt, phase, expired, answer>>
    BY DEF SkipReferrer
  <1>2. k \in Collectors
    BY <1>1, ReferrersAreListed
  <1>3. CASE k \in pass.cancelled
    <2>1. pass' = Ended(pass, d, k, "skipped", "none")
      BY <1>3 DEF SkipReferrer
    <2>2. pass.stats[k].limit
      BY <1>1, <1>3 DEF FetchInv, CollectInv
    <2>3. QED
      BY <1>1, <1>2, <2>1, <2>2, EndedIsCollecting, SMTT(30) DEF Outcomes
  <1>4. CASE k \notin pass.cancelled
    <2>1. pass' = Ended(pass, d, k, "fetch", "interrupted")
      BY <1>4 DEF SkipReferrer
    <2>2. expired /\ Disturbed
      BY <1>1, <1>4 DEF Cut, Disturbed, Hurt
    <2>3. QED
      BY <1>1, <1>2, <2>1, <2>2, EndedIsCollecting DEF Outcomes, Transport
  <1>5. QED
    BY <1>3, <1>4

\* A referrer whose reading fails in transit disturbs the fetch.
LEMMA ReadingDisturbs ==
    ASSUME TypeOKFetch, NEW d \in Listed,
           Artifact[d].read \in Transport \union {"flaky"} \/ Artifact[d].verdict \in {"noKey", "noRoot"}
    PROVE  Disturbed
  BY DEF Disturbed, Hurt, TypeOKFetch, Listed

\* What reading the layer of a referrer can meet, and what it counts as.
LEMMA MeetsAndCounts ==
    ASSUME NEW d \in DOMAIN Artifact, NEW p, NEW read \in Reads(Artifact[d].read), NEW met,
           met = readLayer(p, d, read)
    PROVE  /\ classifyReferrerError(met) \in Outcomes
           /\ classifyReferrerError(met) = "fetch" =>
                 met \in Transport /\ Artifact[d].read \in Transport \union {"flaky"}
           /\ classifyReferrerError(met) # "key"
           /\ (met # "ok" /\ Readable(d)) => classifyReferrerError(met) \in {"fetch", "limit"}
           /\ met = "ok" => Readable(d)
  BY ArtifactAssumption DEF Reads, readLayer, classifyReferrerError, Outcomes, Transport, Readable, Readings

\* Reading a Notation signature is such a step.
LEMMA NotationIsCollecting ==
    ASSUME FetchInv, NEW d \in DOMAIN pass.at, fetchNotationSignature(d)
    PROVE  CollectEffect(d, "notation")
  <1>1. /\ phase = "collect" /\ classifyReferrer(d) = "notation" /\ pass.at[d] = "todo"
        /\ UNCHANGED <<registries, source, attempt, phase, expired, answer>>
    BY DEF fetchNotationSignature, Starts
  <1>2. PICK read \in Reads(Artifact[d].read) :
           pass' = IF readLayer(pass, d, read) = "ok" THEN Collected(charge(pass, d), d, "notation")
                   ELSE Ended(pass, d, "notation", classifyReferrerError(readLayer(pass, d, read)),
                              readLayer(pass, d, read))
    BY DEF fetchNotationSignature
  <1> DEFINE met == readLayer(pass, d, read)
             o == classifyReferrerError(met)
  <1>3. d \in Listed /\ d \in DOMAIN Artifact /\ "notation" \in Collectors /\ TypeOKFetch
    BY <1>1, ReferrersAreListed DEF FetchInv, Collectors
  <1>4. /\ o \in Outcomes /\ o # "key"
        /\ o = "fetch" => met \in Transport /\ Artifact[d].read \in Transport \union {"flaky"}
        /\ (met # "ok" /\ Readable(d)) => o \in {"fetch", "limit"}
        /\ met = "ok" => Readable(d)
    BY <1>3, MeetsAndCounts
  <1>5. o = "fetch" => Disturbed
    BY <1>3, <1>4, ReadingDisturbs
  <1>6. Wanted(d, "notation") <=> Readable(d)
    BY DEF Wanted
  <1> HIDE DEF o
  <1>7. CASE met = "ok"
    <2>1. pass' = Collected(charge(pass, d), d, "notation")
      BY <1>2, <1>7
    <2>2. QED
      BY <1>1, <1>3, <1>4, <1>6, <1>7, <2>1, CollectedIsCollecting
  <1>8. CASE met # "ok"
    <2>1. pass' = Ended(pass, d, "notation", o, met)
      BY <1>2, <1>8 DEF o
    <2> HIDE DEF met
    <2>2. QED
      BY <1>1, <1>3, <1>4, <1>5, <1>6, <1>8, <2>1, EndedIsCollecting
  <1>9. QED
    BY <1>7, <1>8

\* Reading a bundle or a baseline is such a step.
LEMMA ReadIsCollecting ==
    ASSUME FetchInv, NEW d \in DOMAIN pass.at, ReadReferrer(d)
    PROVE  CollectEffect(d, classifyReferrer(d))
  <1> DEFINE k == classifyReferrer(d)
  <1>1. /\ phase = "collect" /\ k # "notation" /\ pass.at[d] = "todo"
        /\ UNCHANGED <<registries, source, attempt, phase, expired, answer>>
    BY DEF ReadReferrer, Starts
  <1>2. PICK read \in Reads(Artifact[d].read) :
           pass' = CASE readLayer(pass, d, read) # "ok" ->
                          Ended(pass, d, k, classifyReferrerError(readLayer(pass, d, read)), readLayer(pass, d, read))
                     [] readLayer(pass, d, read) = "ok" /\ Seen(d, k) ->
                          Ended(charge(pass, d), d, k, "skipped", "ok")
                     [] OTHER -> [charge(pass, d) EXCEPT !.at[d] = "read",
                                                         !.seen[k] = @ \union {Artifact[d].blob}]
    BY DEF ReadReferrer
  <1> DEFINE met == readLayer(pass, d, read)
             o == classifyReferrerError(met)
  <1>3. /\ d \in Listed /\ d \in DOMAIN Artifact /\ k \in Collectors /\ TypeOKFetch
        /\ pass \in Passes(DOMAIN pass.at) /\ DOMAIN pass.at \subseteq DOMAIN Artifact
    BY <1>1, ReferrersAreListed DEF FetchInv, TypeOKFetch
  <1>4. /\ o \in Outcomes /\ o # "key"
        /\ o = "fetch" => met \in Transport /\ Artifact[d].read \in Transport \union {"flaky"}
        /\ (met # "ok" /\ Readable(d)) => o \in {"fetch", "limit"}
        /\ met = "ok" => Readable(d)
    BY <1>3, MeetsAndCounts
  <1>5. o = "fetch" => Disturbed
    BY <1>3, <1>4, ReadingDisturbs
  <1>6. Wanted(d, k) => Readable(d)
    BY DEF Wanted
  <1> HIDE DEF o, k
  <1>7. CASE met # "ok"
    <2>1. pass' = Ended(pass, d, k, o, met)
      BY <1>2, <1>7 DEF o
    <2> HIDE DEF met
    <2>2. QED
      BY <1>1, <1>3, <1>4, <1>5, <1>6, <1>7, <2>1, EndedIsCollecting DEF k
  <1>8. CASE met = "ok" /\ Seen(d, k)
    <2>1. pass' = Ended(charge(pass, d), d, k, "skipped", "ok")
      BY <1>2, <1>8
    <2> HIDE DEF met
    <2>2. QED
      BY <1>1, <1>3, <1>8, <2>1, EndedIsCollecting DEF k, Seen, Outcomes
  <1>9. CASE met = "ok" /\ ~Seen(d, k)
    <2> DEFINE c == charge(pass, d)
    <2>1. pass' = [c EXCEPT !.at[d] = "read", !.seen[k] = @ \union {Artifact[d].blob}]
      BY <1>2, <1>9
    <2>2. /\ c \in Passes(DOMAIN pass.at)
          /\ c.at = pass.at /\ c.stats = pass.stats /\ c.got = pass.got /\ c.seen = pass.seen
          /\ c.cancelled = pass.cancelled /\ c.layer = pass.layer
      BY <1>3, ChargeFields
    <2> HIDE DEF c, met
    <2>3. /\ pass'.at = [pass.at EXCEPT ![d] = "read"]
          /\ pass'.seen = [pass.seen EXCEPT ![k] = @ \union {Artifact[d].blob}]
          /\ pass'.stats = pass.stats /\ pass'.got = pass.got /\ pass'.cancelled = pass.cancelled
          /\ pass'.layer = pass.layer
      BY <1>3, <2>1, <2>2 DEF Passes
    <2>4. pass' \in Passes(DOMAIN pass.at)
      <3>1. [c.at EXCEPT ![d] = "read"] \in [DOMAIN pass.at -> {"todo", "read", "done"}]
        BY <2>2 DEF Passes
      <3>2. [c.seen EXCEPT ![k] = @ \union {Artifact[d].blob}] \in
                [Collectors -> SUBSET {Artifact[e].blob : e \in DOMAIN Artifact}]
        BY <1>3, <2>2 DEF Passes
      <3>3. QED
        BY <2>1, <2>2, <3>1, <3>2, Zenon DEF Passes
    <2>5. QED
      BY <1>1, <1>3, <1>4, <1>9, <2>3, <2>4 DEF CollectEffect, Passes, k
  <1>10. QED
    BY <1>7, <1>8, <1>9 DEF k

\* Verifying what was read is such a step.
LEMMA VerifyIsCollecting ==
    ASSUME FetchInv, NEW d \in DOMAIN pass.at, VerifyReferrer(d)
    PROVE  CollectEffect(d, classifyReferrer(d))
  <1> DEFINE k == classifyReferrer(d)
             verdict == Artifact[d].verdict
  <1>1. /\ phase = "collect" /\ pass.at[d] = "read"
        /\ UNCHANGED <<registries, source, attempt, phase, expired, answer>>
        /\ pass' = CASE Cut(k) -> Ended(pass, d, k, "failed", "ok")
                     [] ~Cut(k) /\ verdict = "verified" -> Collected(pass, d, k)
                     [] ~Cut(k) /\ verdict \in {"noKey", "noRoot"} ->
                          Ended(pass, d, k, trustMaterialOutcome(verdict), verdict)
                     [] OTHER -> Ended(pass, d, k, "failed", "ok")
    BY DEF VerifyReferrer
  <1>2. /\ d \in Listed /\ d \in DOMAIN Artifact /\ k \in Collectors /\ TypeOKFetch
        /\ Readable(d) /\ k # "notation" /\ \A j \in pass.cancelled : pass.stats[j].limit
    BY <1>1, ReferrersAreListed DEF FetchInv, CollectInv
  <1>3. Wanted(d, k) <=> verdict = "verified"
    BY <1>2 DEF Wanted
  <1>4. CASE Cut(k)
    <2>1. pass' = Ended(pass, d, k, "failed", "ok") /\ (expired \/ pass.stats[k].limit)
      BY <1>1, <1>2, <1>4 DEF Cut
    <2>2. QED
      BY <1>1, <1>2, <2>1, EndedIsCollecting DEF Outcomes
  <1>5. CASE ~Cut(k) /\ verdict = "verified"
    <2>1. pass' = Collected(pass, d, k)
      BY <1>1, <1>5
    <2>2. QED
      BY <1>1, <1>2, <1>3, <1>5, <2>1, CollectedIsCollecting
  <1>6. CASE ~Cut(k) /\ verdict \in {"noKey", "noRoot"}
    <2>1. /\ pass' = Ended(pass, d, k, trustMaterialOutcome(verdict), verdict)
          /\ Disturbed /\ ~Wanted(d, k)
      BY <1>1, <1>2, <1>3, <1>6, ReadingDisturbs
    <2>2. /\ trustMaterialOutcome(verdict) \in Outcomes
          /\ trustMaterialOutcome(verdict) = "fetch" => verdict \in Transport \union {"noRoot"}
      BY <1>6 DEF trustMaterialOutcome, Outcomes
    <2>3. QED
      BY <1>1, <1>2, <2>1, <2>2, EndedIsCollecting
  <1>7. CASE ~Cut(k) /\ verdict \notin {"verified", "noKey", "noRoot"}
    <2>1. pass' = Ended(pass, d, k, "failed", "ok") /\ ~Wanted(d, k)
      BY <1>1, <1>3, <1>7
    <2>2. QED
      BY <1>1, <1>2, <2>1, EndedIsCollecting DEF Outcomes
  <1>8. QED
    BY <1>4, <1>5, <1>6, <1>7

-----------------------------------------------------------------------------
(* Between two passes *)

\* The timeout may strike at any time.
LEMMA ExpireKeeps ==
    ASSUME FetchInv, ExpireFetch
    PROVE  FetchInv'
  <1>1. expired' /\ UNCHANGED <<registries, source, attempt, phase, pass, answer>> /\ phase # "done"
    BY DEF ExpireFetch
  <1>2. Disturbed' /\ \A k \in Collectors : Excused(k)'
    BY <1>1 DEF Disturbed, Excused
  <1>3. TypeOKFetch'
    BY <1>1, expired' = TRUE DEF FetchInv, TypeOKFetch, ExpireFetch
  <1>4. CollectInv'
    BY <1>1, <1>2 DEF FetchInv, CollectInv, selectReferrers, Bucket, Listed
  <1>5. TagInv' /\ LayersInv' /\ DisturbedInv'
    BY <1>1, <1>2, "bundles" \in Collectors
    DEF FetchInv, TagInv, LayersInv, DisturbedInv, Unlimited, Tag, Collectors
  <1>6. answer' = NoAnswer /\ phase' # "done" /\ (phase' = "backoff" => Unlimited')
    BY <1>1 DEF FetchInv, Unlimited
  <1>7. FetchIsHonest'
    BY <1>6 DEF FetchIsHonest, FetchedIsComplete, JunkStaysStrict
  <1>8. QED
    BY <1>3, <1>4, <1>5, <1>6, <1>7 DEF FetchInv

\* Collecting ends with a pass that is not reading anything.
LEMMA EndPassKeeps ==
    ASSUME FetchInv, phase # "done", NEW err, NEW atts, EndPass(err, atts),
           UNCHANGED <<registries, expired>>,
           err = "none" => Blobs(atts) = Blobs(Expected(registries[source])),
           err \in Lenient => Disturbed,
           ~Unlimited' => err = "incomplete",
           (err = "unverified" /\ ~Disturbed /\ registries[source].list = "ok") =>
               {d \in Expected(registries[source]) : classifyReferrer(d) = "bundles"} = {},
           DOMAIN pass'.at \subseteq DOMAIN Artifact, pass' \in Passes(DOMAIN pass'.at),
           \A k \in Collectors : pass'.stats[k].fetch # "none" \/ pass'.stats[k].key => Disturbed
    PROVE  FetchInv'
  <1>1. TypeOKFetch /\ answer = NoAnswer
    BY DEF FetchInv
  <1>2. /\ source' \in {"mirror", "origin"}
        /\ attempt' \in 0..fetchMaxRetries
        /\ phase' \in {"list", "backoff", "done"}
        /\ phase' = "backoff" => Unlimited'
        /\ phase' # "done" => answer' = NoAnswer
        /\ FetchIsHonest'
    BY <1>1, EndPassIsHonest
  <1>3. Disturbed' <=> Disturbed
    BY DEF Disturbed
  <1>4. TypeOKFetch'
    BY <1>1, <1>2 DEF TypeOKFetch
  <1>5. CollectInv' /\ TagInv' /\ LayersInv' /\ DisturbedInv'
    BY <1>2, <1>3 DEF CollectInv, TagInv, LayersInv, DisturbedInv
  <1>6. QED
    BY <1>2, <1>4, <1>5 DEF FetchInv

\* The pause before a retry.
LEMMA BackoffKeeps ==
    ASSUME FetchInv, Backoff
    PROVE  FetchInv'
  <1>1. /\ UNCHANGED <<registries, source, attempt, pass, expired>> /\ phase = "backoff"
        /\ phase' = IF expired THEN "done" ELSE "list"
        /\ answer' = IF expired THEN [err |-> "interrupted", atts |-> {}] ELSE answer
    BY DEF Backoff
  <1>2. TypeOKFetch /\ Unlimited /\ answer = NoAnswer /\ DisturbedInv
    BY <1>1 DEF FetchInv
  <1>3. Disturbed' <=> Disturbed
    BY <1>1 DEF Disturbed
  <1>4. TypeOKFetch' /\ CollectInv' /\ TagInv' /\ LayersInv' /\ DisturbedInv'
    BY <1>1, <1>2, <1>3 DEF TypeOKFetch, CollectInv, TagInv, LayersInv, DisturbedInv
  <1>5. phase' # "backoff" /\ (phase' # "done" => answer' = NoAnswer)
    BY <1>1, <1>2
  <1>6. FetchIsHonest'
    <2>1. CASE expired
      <3>1. answer'.err = "interrupted" /\ Disturbed
        BY <1>1, <2>1 DEF Disturbed, Hurt
      <3>2. QED
        BY <1>1, <1>2, <1>3, <3>1 DEF FetchIsHonest, FetchedIsComplete, JunkStaysStrict, Unlimited
    <2>2. CASE ~expired
      BY <1>1, <1>2, <2>2 DEF FetchIsHonest, FetchedIsComplete, JunkStaysStrict
    <2>3. QED
      BY <2>1, <2>2
  <1>7. QED
    BY <1>4, <1>5, <1>6 DEF FetchInv

\* Listing the referrers starts a pass or ends one.
LEMMA ListKeeps ==
    ASSUME FetchInv, ListReferrers
    PROVE  FetchInv'
  <1> DEFINE selection == selectReferrers(Listed)
             list == registries[source].list
  <1>1. /\ phase = "list" /\ UNCHANGED <<registries, expired>> /\ TypeOKFetch /\ answer = NoAnswer
        /\ list \in Readings /\ Listed \subseteq DOMAIN Artifact
    BY DEF ListReferrers, FetchInv, TypeOKFetch, RegistryContents, Listed
  <1>2. PICK read \in ReadsNow(list) :
             IF read # "ok" THEN EndPass(referrersError(read), {}) /\ pass' = NewPass({})
             ELSE IF selection.dropped THEN EndPass("incomplete", {}) /\ pass' = NewPass({})
             ELSE /\ phase' = "collect" /\ pass' = NewPass(selection.candidates)
                  /\ UNCHANGED <<source, attempt, answer>>
    BY DEF ListReferrers, Listed
  <1>3. ASSUME NEW ds, pass' = NewPass(ds)
        PROVE  /\ DOMAIN pass'.at = ds /\ pass' \in Passes(ds) /\ Unlimited'
               /\ \A k \in Collectors : pass'.stats[k] = NoStats
    BY <1>3, NewPassIsPass DEF NewPass, Unlimited, NoStats
  <1> HIDE DEF selection
  <1>4. CASE read # "ok"
    <2>1. EndPass(referrersError(read), {}) /\ pass' = NewPass({})
      BY <1>2, <1>4
    <2>2. referrersError(read) # "none" /\ (referrersError(read) \in Lenient => Disturbed)
      <3>1. CASE expired
        BY <3>1 DEF Disturbed, Hurt, referrersError, Transport
      <3>2. CASE ~expired
        <4>1. referrersError(read) \in Lenient => list \in Lenient \union {"flaky"}
          BY <1>1, <1>2, <3>2 DEF ReadsNow, Reads, referrersError, Lenient, Transport
        <4>2. list \in Lenient \union {"flaky"} => Disturbed
          BY <1>1 DEF Disturbed, Hurt, TypeOKFetch
        <4>3. QED
          BY <4>1, <4>2 DEF referrersError, Transport
      <3>3. QED
        BY <3>1, <3>2
    <2>3. list = "ok" => Disturbed
      BY <1>2, <1>4 DEF ReadsNow, Reads, Disturbed, Hurt
    <2>4. QED
      BY <1>1, <1>3, <2>1, <2>2, <2>3, EndPassKeeps DEF NoStats
  <1>5. CASE read = "ok" /\ selection.dropped
    <2>1. EndPass("incomplete", {}) /\ pass' = NewPass({})
      BY <1>2, <1>5
    <2>2. "incomplete" \notin Lenient
      BY DEF Lenient, Transport
    <2>3. QED
      BY <1>1, <1>3, <2>1, <2>2, EndPassKeeps DEF NoStats
  <1>6. CASE read = "ok" /\ ~selection.dropped
    <2>1. /\ phase' = "collect" /\ pass' = NewPass(selection.candidates)
          /\ UNCHANGED <<source, attempt, answer>>
      BY <1>2, <1>6
    <2>2. selection.candidates \subseteq DOMAIN Artifact
      BY <1>1 DEF selection, selectReferrers, Bucket
    <2>3. TypeOKFetch' /\ DisturbedInv'
      BY <1>1, <1>3, <2>1, <2>2 DEF TypeOKFetch, DisturbedInv, NoStats
    <2>4. CollectInv'
      <3>1. Listed' = Listed
        BY <1>1, <2>1 DEF Listed
      <3>2. selectReferrers(Listed)' = selection
        BY <3>1 DEF selection, selectReferrers, Bucket
      <3>3. /\ DOMAIN pass'.at = selection.candidates
            /\ \A d \in DOMAIN pass'.at : pass'.at[d] = "todo"
            /\ \A k \in Collectors : pass'.got[k] = {} /\ pass'.seen[k] = {}
            /\ pass'.cancelled = {} /\ pass'.layer = 1
        BY <2>1 DEF NewPass
      <3>4. QED
        BY <3>2, <3>3 DEF CollectInv
    <2>5. TagInv' /\ LayersInv' /\ FetchIsHonest'
      BY <1>1, <2>1 DEF TagInv, LayersInv, FetchIsHonest, FetchedIsComplete, JunkStaysStrict
    <2>6. QED
      BY <1>1, <2>1, <2>3, <2>4, <2>5 DEF FetchInv
  <1>7. QED
    BY <1>4, <1>5, <1>6

-----------------------------------------------------------------------------
(* The end of collecting *)

\* When every referrer is done and the collector is not excused, it has the
\* blobs of the referrers it wants, and no others.
LEMMA CollectedAll ==
    ASSUME FetchInv, phase = "collect", \A d \in DOMAIN pass.at : pass.at[d] = "done",
           NEW k \in Collectors, ~Excused(k)
    PROVE  /\ \A d \in Bucket(Listed, k) : Wanted(d, k) =>
                 \E e \in pass.got[k] : Artifact[e].blob = Artifact[d].blob
           /\ \A e \in pass.got[k] : e \in Bucket(Listed, k) /\ Wanted(e, k)
           /\ pass.got[k] \subseteq DOMAIN Artifact /\ Bucket(Listed, k) \subseteq DOMAIN Artifact
  <1>1. CollectInv /\ TypeOKFetch
    BY DEF FetchInv
  <1>2. /\ DOMAIN pass.at = UNION {Bucket(Listed, j) : j \in Collectors}
        /\ DOMAIN pass.at \subseteq DOMAIN Artifact
    BY <1>1 DEF CollectInv, selectReferrers, TypeOKFetch
  <1>3. \A d \in Bucket(Listed, k) : d \in DOMAIN pass.at /\ classifyReferrer(d) = k
    BY <1>2 DEF Bucket
  <1>4. \A d \in Bucket(Listed, k) : Wanted(d, k) => Has(d, k)
    BY <1>1, <1>3 DEF CollectInv
  <1>5. \A e \in pass.got[k] : e \in Bucket(Listed, k) /\ Wanted(e, k)
    <2>1. \A e \in pass.got[k] : e \in DOMAIN pass.at /\ classifyReferrer(e) = k /\ Wanted(e, k)
      BY <1>1 DEF CollectInv
    <2>2. QED
      BY <1>2, <2>1 DEF Bucket
  <1>6. QED
    BY <1>2, <1>3, <1>4, <1>5 DEF Has

\* What counts after collecting: the sets of the collectors without the
\* referrers listed as baselines that carry none, and the outcomes as they were.
LEMMA BaselinesChecked ==
    ASSUME NEW ds, NEW p \in Passes(ds), NEW q, q = collectBaselineSBOMs(p)
    PROVE  /\ q \in Passes(ds) /\ q.at = p.at /\ q.layer = p.layer
           /\ q.got["bundles"] = p.got["bundles"] /\ q.got["notation"] = p.got["notation"]
           /\ \A d : d \in q.got["baselines"] <=> d \in p.got["baselines"] /\ Artifact[d].baseline
           /\ \A k \in Collectors : /\ q.stats[k].limit <=> p.stats[k].limit
                                    /\ q.stats[k].fetch = p.stats[k].fetch
                                    /\ q.stats[k].key <=> p.stats[k].key
  <1> DEFINE foreign == {d \in p.got["baselines"] : ~Artifact[d].baseline}
             s == [p.stats["baselines"] EXCEPT !.failed = @ \/ foreign # {}]
  <1>1. q = [p EXCEPT !.got["baselines"] = @ \ foreign, !.stats["baselines"].failed = @ \/ foreign # {}]
    BY DEF collectBaselineSBOMs
  <1>2. /\ p.stats["baselines"] \in Stats /\ p.got["baselines"] \subseteq DOMAIN Artifact
        /\ "baselines" \in Collectors /\ "bundles" \in Collectors /\ "notation" \in Collectors
    BY DEF Passes, Collectors
  <1>3. /\ s \in Stats /\ s.limit = p.stats["baselines"].limit
        /\ s.fetch = p.stats["baselines"].fetch /\ s.key = p.stats["baselines"].key
    BY <1>2, Zenon DEF Stats
  <1>4. \A d : d \in p.got["baselines"] \ foreign <=> d \in p.got["baselines"] /\ Artifact[d].baseline
    OBVIOUS
  <1> HIDE DEF foreign
  <1>5. /\ q.got = [p.got EXCEPT !["baselines"] = @ \ foreign]
        /\ q.stats = [p.stats EXCEPT !["baselines"] = s]
        /\ q.at = p.at /\ q.seen = p.seen /\ q.cancelled = p.cancelled /\ q.used = p.used
        /\ q.failed = p.failed /\ q.layer = p.layer
    BY <1>1 DEF Passes
  <1> HIDE DEF s
  <1>6. q \in Passes(ds)
    <2>1. q.got \in [Collectors -> SUBSET DOMAIN Artifact] /\ q.stats \in [Collectors -> Stats]
      BY <1>2, <1>3, <1>5 DEF Passes
    <2>2. q = [at |-> q.at, stats |-> q.stats, got |-> q.got, seen |-> q.seen,
               cancelled |-> q.cancelled, used |-> q.used, failed |-> q.failed, layer |-> q.layer]
      BY <1>1, Zenon DEF Passes
    <2>3. QED
      BY <1>5, <2>1, <2>2 DEF Passes
  <1>7. /\ q.got["bundles"] = p.got["bundles"] /\ q.got["notation"] = p.got["notation"]
        /\ q.got["baselines"] = p.got["baselines"] \ foreign
    BY <1>2, <1>5 DEF Passes
  <1>8. q.stats["baselines"] = s /\ \A k \in Collectors \ {"baselines"} : q.stats[k] = p.stats[k]
    BY <1>2, <1>5 DEF Passes
  <1>9. QED
    BY <1>3, <1>4, <1>5, <1>6, <1>7, <1>8

\* merge forgets no limit, no fetch failure and no missing key.
LEMMA MergeKeeps ==
    ASSUME NEW a \in Stats, NEW b \in Stats, NEW m, m = merge(a, b)
    PROVE  /\ m \in Stats
           /\ m.limit <=> (a.limit \/ b.limit)
           /\ m.fetch # "none" <=> (a.fetch # "none" \/ b.fetch # "none")
           /\ m.key <=> (a.key \/ b.key)
  BY DEF merge, Stats, Transport

\* The error of a collection follows from its counts (evaluateCollection).
LEMMA EvaluateIsHonest ==
    ASSUME NEW verified \in BOOLEAN, NEW m \in Stats, NEW err, err = evaluateCollection(verified, m)
    PROVE  /\ err = "incomplete" <=> m.limit
           /\ err = "none" => ~m.limit /\ m.fetch = "none"
           /\ err = "unverified" => ~m.limit /\ m.fetch = "none" /\ ~verified
           /\ err \in Lenient => m.fetch # "none" \/ m.key
           /\ err \in Lenient \union {"incomplete", "none", "unverified"}
  BY DEF evaluateCollection, Stats, Lenient, Transport

\* What a fetch is expected to return, by the names used here.
LEMMA ExpectedIs ==
    Expected(registries[source]) =
        (IF Bundles \union Baselines # {} THEN Bundles \union Baselines ELSE Layers) \union Signatures
  <1> DEFINE reg == registries[source]
             G(k) == {d \in Bucket(reg.referrers, k) : Verifiable(d)}
             B == {d \in G("baselines") : Artifact[d].baseline}
             S == {d \in Bucket(reg.referrers, "notation") : Readable(d)}
             L == {d \in {reg.tag.layers[i] : i \in DOMAIN reg.tag.layers} : Verifiable(d)}
  <1>1. Expected(reg) = IF G("bundles") \union B # {} THEN G("bundles") \union B \union S ELSE L \union S
    BY DEF Expected
  <1>2. G("bundles") = Bundles /\ B = Baselines /\ S = Signatures /\ L = Layers
    BY DEF Bundles, Baselines, Signatures, Layers, Listed, Tag
  <1> HIDE DEF G, B, S, L
  <1>3. QED
    BY <1>1, <1>2

\* Collections that cover each other hold the same blobs.
LEMMA SameBlobs ==
    ASSUME NEW A, NEW B, \A d \in A : \E e \in B : Artifact[e].blob = Artifact[d].blob,
           \A d \in B : \E e \in A : Artifact[e].blob = Artifact[d].blob
    PROVE  Blobs(A) = Blobs(B)
  BY DEF Blobs

\* Only an empty collection holds no blob.
LEMMA NoBlobs == \A A : Blobs(A) = {} <=> A = {}
  BY DEF Blobs

\* A complete collection holds the blobs of what is to be had from the referrers.
LEMMA CompleteCollection ==
    ASSUME FetchInv, phase = "collect", \A d \in DOMAIN pass.at : pass.at[d] = "done",
           \A k \in Collectors : ~Excused(k),
           NEW q, q = collectBaselineSBOMs(pass)
    PROVE  /\ Blobs(q.got["bundles"]) = Blobs(Bundles)
           /\ Blobs(q.got["baselines"]) = Blobs(Baselines)
           /\ Blobs(q.got["notation"]) = Blobs(Signatures)
  <1>1. /\ q.got["bundles"] = pass.got["bundles"] /\ q.got["notation"] = pass.got["notation"]
        /\ \A d : d \in q.got["baselines"] <=> d \in pass.got["baselines"] /\ Artifact[d].baseline
    <2>1. pass \in Passes(DOMAIN pass.at)
      BY DEF FetchInv, TypeOKFetch
    <2>2. QED
      BY <2>1, BaselinesChecked
  <1>2. "bundles" \in Collectors /\ "notation" \in Collectors /\ "baselines" \in Collectors
    BY DEF Collectors
  <1>3. Blobs(q.got["bundles"]) = Blobs(Bundles)
    <2>1. /\ \A d \in Bucket(Listed, "bundles") : Wanted(d, "bundles") =>
                \E e \in pass.got["bundles"] : Artifact[e].blob = Artifact[d].blob
          /\ \A e \in pass.got["bundles"] : e \in Bucket(Listed, "bundles") /\ Wanted(e, "bundles")
      BY <1>2, CollectedAll
    <2>2. \A d : Wanted(d, "bundles") <=> Verifiable(d)
      BY DEF Wanted, Verifiable
    <2>3. /\ \A d \in Bundles : \E e \in q.got["bundles"] : Artifact[e].blob = Artifact[d].blob
          /\ \A e \in q.got["bundles"] : e \in Bundles
      BY <1>1, <2>1, <2>2 DEF Bundles
    <2>4. QED
      BY <2>3, SameBlobs
  <1>4. Blobs(q.got["notation"]) = Blobs(Signatures)
    <2>1. /\ \A d \in Bucket(Listed, "notation") : Wanted(d, "notation") =>
                \E e \in pass.got["notation"] : Artifact[e].blob = Artifact[d].blob
          /\ \A e \in pass.got["notation"] : e \in Bucket(Listed, "notation") /\ Wanted(e, "notation")
      BY <1>2, CollectedAll
    <2>2. \A d : Wanted(d, "notation") <=> Readable(d)
      BY DEF Wanted
    <2>3. /\ \A d \in Signatures : \E e \in q.got["notation"] : Artifact[e].blob = Artifact[d].blob
          /\ \A e \in q.got["notation"] : e \in Signatures
      BY <1>1, <2>1, <2>2 DEF Signatures
    <2>4. QED
      BY <2>3, SameBlobs
  <1>5. Blobs(q.got["baselines"]) = Blobs(Baselines)
    <2>1. /\ \A d \in Bucket(Listed, "baselines") : Wanted(d, "baselines") =>
                \E e \in pass.got["baselines"] : Artifact[e].blob = Artifact[d].blob
          /\ \A e \in pass.got["baselines"] : e \in Bucket(Listed, "baselines") /\ Wanted(e, "baselines")
          /\ pass.got["baselines"] \subseteq DOMAIN Artifact
          /\ Bucket(Listed, "baselines") \subseteq DOMAIN Artifact
      BY <1>2, CollectedAll
    <2>2. \A d : Wanted(d, "baselines") <=> Verifiable(d)
      BY DEF Wanted, Verifiable
    <2>3. \A d, e \in DOMAIN Artifact :
              Artifact[d].blob = Artifact[e].blob => Artifact[d].baseline = Artifact[e].baseline
      BY ArtifactAssumption
    <2>4. /\ \A d \in Baselines : \E e \in q.got["baselines"] : Artifact[e].blob = Artifact[d].blob
          /\ \A e \in q.got["baselines"] : e \in Baselines
      BY <1>1, <2>1, <2>2, <2>3 DEF Baselines
    <2>5. QED
      BY <2>4, SameBlobs
  <1>6. QED
    BY <1>3, <1>4, <1>5

\* The end of a collection: an answer, or on to the tag of the signatures.
LEMMA SelectionKeeps ==
    ASSUME FetchInv, CollectSelection
    PROVE  FetchInv'
  <1> DEFINE done == collectBaselineSBOMs(pass)
             two == merge(done.stats["bundles"], done.stats["notation"])
             stats == merge(two, done.stats["baselines"])
             err == evaluateCollection(done.got["bundles"] # {}, stats)
             toTag == \/ err = "unverified" /\ done.got["baselines"] = {}
                      \/ /\ err = "none" /\ ~expired
                         /\ done.got["bundles"] = {} /\ done.got["baselines"] = {}
             all == done.got["bundles"] \union done.got["notation"] \union done.got["baselines"]
  <1>1. /\ phase = "collect" /\ \A d \in DOMAIN pass.at : pass.at[d] = "done"
        /\ UNCHANGED <<registries, expired>> /\ TypeOKFetch /\ answer = NoAnswer /\ DisturbedInv
        /\ expired \in BOOLEAN
    BY DEF CollectSelection, FetchInv, TypeOKFetch
  <1>2. IF toTag
        THEN /\ phase' = "tag" /\ pass' = [done EXCEPT !.failed = err = "unverified"]
             /\ UNCHANGED <<source, attempt, answer>>
        ELSE /\ CASE err = "none" -> EndPass(IF expired THEN "interrupted" ELSE "none", all)
                  [] err = "unverified" -> EndPass(err, done.got["notation"] \union done.got["baselines"])
                  [] OTHER -> EndPass(err, {})
             /\ pass' = done
    BY DEF CollectSelection
  <1>3. /\ done \in Passes(DOMAIN pass.at) /\ done.at = pass.at /\ done.layer = pass.layer
        /\ \A k \in Collectors : /\ done.stats[k].limit <=> pass.stats[k].limit
                                 /\ done.stats[k].fetch = pass.stats[k].fetch
                                 /\ done.stats[k].key <=> pass.stats[k].key
    BY <1>1, BaselinesChecked DEF TypeOKFetch
  <1>4. DOMAIN done.at = DOMAIN pass.at /\ DOMAIN pass.at \subseteq DOMAIN Artifact
    BY <1>1, <1>3 DEF TypeOKFetch
  <1>5. \A k \in Collectors : done.stats[k].fetch # "none" \/ done.stats[k].key => Disturbed
    BY <1>1, <1>3 DEF DisturbedInv
  <1> HIDE DEF done
  <1>6. /\ stats \in Stats
        /\ stats.limit <=> \E k \in Collectors : done.stats[k].limit
        /\ stats.fetch # "none" <=> \E k \in Collectors : done.stats[k].fetch # "none"
        /\ stats.key <=> \E k \in Collectors : done.stats[k].key
    <2>1. \A k \in Collectors : done.stats[k] \in Stats
      BY <1>3 DEF Passes
    <2>2. /\ two \in Stats
          /\ two.limit <=> (done.stats["bundles"].limit \/ done.stats["notation"].limit)
          /\ two.fetch # "none" <=> (done.stats["bundles"].fetch # "none" \/ done.stats["notation"].fetch # "none")
          /\ two.key <=> (done.stats["bundles"].key \/ done.stats["notation"].key)
      BY <2>1, MergeKeeps DEF Collectors
    <2> HIDE DEF two
    <2>3. /\ stats \in Stats
          /\ stats.limit <=> (two.limit \/ done.stats["baselines"].limit)
          /\ stats.fetch # "none" <=> (two.fetch # "none" \/ done.stats["baselines"].fetch # "none")
          /\ stats.key <=> (two.key \/ done.stats["baselines"].key)
      BY <2>1, <2>2, MergeKeeps DEF Collectors
    <2> HIDE DEF stats
    <2>4. QED
      BY <2>2, <2>3 DEF Collectors
  <1> HIDE DEF stats
  <1>7. /\ err = "incomplete" <=> stats.limit
        /\ err = "none" => ~stats.limit /\ stats.fetch = "none"
        /\ err = "unverified" => ~stats.limit /\ stats.fetch = "none" /\ done.got["bundles"] = {}
        /\ err \in Lenient => stats.fetch # "none" \/ stats.key
        /\ err \in Lenient \union {"incomplete", "none", "unverified"}
    BY <1>6, EvaluateIsHonest, Zenon
  <1> HIDE DEF err
  <1>8. err \in Lenient => Disturbed
    BY <1>5, <1>6, <1>7
  <1>9. (err \in {"none", "unverified"} /\ ~expired) =>
            /\ Blobs(done.got["bundles"]) = Blobs(Bundles)
            /\ Blobs(done.got["baselines"]) = Blobs(Baselines)
            /\ Blobs(done.got["notation"]) = Blobs(Signatures)
    <2>1. (err \in {"none", "unverified"} /\ ~expired) => \A k \in Collectors : ~Excused(k)
      BY <1>3, <1>6, <1>7 DEF Excused
    <2>2. QED
      BY <1>1, <2>1, CompleteCollection DEF done
  <1>10. CASE toTag
    <2>1. /\ phase' = "tag" /\ pass' = [done EXCEPT !.failed = (err = "unverified")]
          /\ UNCHANGED <<source, attempt, answer>> /\ err \in {"none", "unverified"}
          /\ done.got["bundles"] = {} /\ done.got["baselines"] = {}
      BY <1>2, <1>7, <1>10
    <2>2. /\ pass' \in Passes(DOMAIN pass.at) /\ pass'.at = done.at /\ pass'.stats = done.stats
          /\ pass'.got = done.got /\ pass'.layer = pass.layer
      BY <1>3, <2>1, Zenon DEF Passes
    <2>3. TypeOKFetch'
      BY <1>1, <1>4, <2>1, <2>2 DEF TypeOKFetch
    <2>4. expired \/ Bare'
      <3>1. Bundles' = Bundles /\ Baselines' = Baselines /\ Signatures' = Signatures
        BY <1>1, <2>1 DEF Bundles, Baselines, Signatures, Listed, Bucket
      <3>2. CASE ~expired
        <4>1. Bundles = {} /\ Baselines = {} /\ Blobs(pass'.got["notation"]) = Blobs(Signatures)
          BY <1>9, <2>1, <2>2, <3>2, NoBlobs
        <4>2. QED
          BY <3>1, <4>1, Zenon DEF Bare, Blobs
      <3>3. QED
        BY <3>2
    <2>5. Unlimited'
      BY <1>6, <1>7, <2>1, <2>2 DEF Unlimited
    <2>6. TagInv'
      <3>1. pass'.layer = 1
        BY <1>1, <2>2 DEF FetchInv, CollectInv
      <3>2. QED
        BY <1>1, <2>1, <2>2, <2>4, <2>5, <3>1 DEF TagInv, Unlimited, Collectors
    <2>7. DisturbedInv'
      <3>1. Disturbed' <=> Disturbed
        BY <1>1 DEF Disturbed
      <3>2. QED
        BY <1>5, <2>2, <3>1 DEF DisturbedInv
    <2>8. CollectInv' /\ LayersInv' /\ FetchIsHonest'
      BY <1>1, <2>1 DEF CollectInv, LayersInv, FetchIsHonest, FetchedIsComplete, JunkStaysStrict
    <2>9. QED
      BY <1>1, <2>1, <2>3, <2>6, <2>7, <2>8 DEF FetchInv
  <1>11. CASE ~toTag
    <2>1. pass' = done
      BY <1>2, <1>11
    <2>2. ~Unlimited' => err = "incomplete"
      BY <1>6, <1>7, <2>1 DEF Unlimited
    <2>3. /\ DOMAIN pass'.at \subseteq DOMAIN Artifact /\ pass' \in Passes(DOMAIN pass'.at)
          /\ \A k \in Collectors : pass'.stats[k].fetch # "none" \/ pass'.stats[k].key => Disturbed
      BY <1>3, <1>4, <1>5, <2>1
    <2>4. CASE err = "none" /\ expired
      <3>1. EndPass("interrupted", all) /\ Disturbed
        BY <1>2, <1>11, <2>4 DEF Disturbed
      <3> HIDE DEF all
      <3>2. QED
        BY <1>1, <2>2, <2>3, <2>4, <3>1, EndPassKeeps
    <2>5. CASE err = "none" /\ ~expired
      <3>1. EndPass("none", all)
        BY <1>2, <1>11, <2>5
      <3>2. Blobs(all) = Blobs(Bundles) \union Blobs(Signatures) \union Blobs(Baselines)
        <4>1. Blobs(all) = Blobs(done.got["bundles"]) \union Blobs(done.got["notation"])
                             \union Blobs(done.got["baselines"])
          BY DEF all, Blobs
        <4>2. QED
          BY ONLY <1>9, <2>5, <4>1
      <3>3. Bundles \union Baselines # {}
        BY <1>9, <1>11, <2>5, NoBlobs
      <3>4. Blobs(Expected(registries[source])) = Blobs(Bundles) \union Blobs(Baselines) \union Blobs(Signatures)
        <4>1. Expected(registries[source]) = Bundles \union Baselines \union Signatures
          BY <3>3, ExpectedIs
        <4>2. QED
          BY ONLY <4>1 DEF Blobs
      <3> HIDE DEF all
      <3>5. Blobs(all) = Blobs(Expected(registries[source])) /\ "none" \notin Lenient
        BY <3>2, <3>4 DEF Lenient, Transport
      <3>6. QED
        BY <1>1, <2>2, <2>3, <2>5, <3>1, <3>5, EndPassKeeps
    <2>6. CASE err = "unverified"
      <3>1. /\ EndPass("unverified", done.got["notation"] \union done.got["baselines"])
            /\ done.got["bundles"] = {} /\ done.got["baselines"] # {} /\ "unverified" \notin Lenient
        BY <1>2, <1>7, <1>11, <2>6 DEF Lenient, Transport
      <3>2. ~Disturbed => {d \in Expected(registries[source]) : classifyReferrer(d) = "bundles"} = {}
        <4>1. SUFFICES ASSUME ~Disturbed
                       PROVE  {d \in Expected(registries[source]) : classifyReferrer(d) = "bundles"} = {}
          OBVIOUS
        <4>2. Bundles = {} /\ Baselines # {}
          BY <1>9, <2>6, <3>1, <4>1, NoBlobs DEF Disturbed
        <4>3. Expected(registries[source]) = Baselines \union Signatures
          BY <4>2, ExpectedIs
        <4>4. QED
          BY <4>3 DEF Baselines, Signatures, Bucket
      <3>3. QED
        BY <1>1, <2>2, <2>3, <2>6, <3>1, <3>2, EndPassKeeps
    <2>7. CASE err \notin {"none", "unverified"}
      <3>1. EndPass(err, {})
        BY <1>2, <1>11, <2>7
      <3>2. QED
        BY <1>1, <1>8, <2>2, <2>3, <2>7, <3>1, EndPassKeeps
    <2>8. QED
      BY <2>4, <2>5, <2>6, <2>7
  <1>12. QED
    BY <1>10, <1>11

-----------------------------------------------------------------------------
(* The cosign tag *)

\* The tag that was read, in whole or in part, as the result of the fetch.
LEMMA TagResultKeeps ==
    ASSUME FetchInv, phase \in {"tag", "layers"}, UNCHANGED <<registries, pass, expired>>,
           NEW err \in Lenient \union {"none", "unverified", "incomplete"}, NEW atts, TagResult(err, atts),
           err = "none" => ~expired /\ atts = Layers,
           err \in Lenient => Disturbed,
           ~Unlimited => err = "incomplete",
           (err = "unverified" /\ ~Disturbed) => Layers = {}
    PROVE  FetchInv'
  <1>1. /\ TypeOKFetch /\ DisturbedInv /\ TagInv /\ pass.failed \in BOOLEAN
        /\ "none" \notin Lenient /\ "unverified" \notin Lenient /\ "incomplete" \notin Lenient
    BY DEF FetchInv, TypeOKFetch, Passes, Lenient, Transport
  <1>2. /\ DOMAIN pass'.at \subseteq DOMAIN Artifact /\ pass' \in Passes(DOMAIN pass'.at)
        /\ \A k \in Collectors : pass'.stats[k].fetch # "none" \/ pass'.stats[k].key => Disturbed
        /\ ~Unlimited' => err = "incomplete"
    BY <1>1 DEF TypeOKFetch, DisturbedInv, Unlimited
  <1>3. expired \/ Bare
    BY <1>1 DEF TagInv
  <1>4. ASSUME ~Disturbed, Layers = {}
        PROVE  {d \in Expected(registries[source]) : classifyReferrer(d) = "bundles"} = {}
    <2>1. Bundles = {} /\ Baselines = {}
      BY <1>3, <1>4 DEF Bare, Disturbed
    <2>2. Expected(registries[source]) = Signatures
      BY <1>4, <2>1, ExpectedIs
    <2>3. QED
      BY <2>2 DEF Signatures, Bucket
  <1>5. ASSUME err = "none"
        PROVE  Blobs(atts \union pass.got["notation"]) = Blobs(Expected(registries[source]))
    <2>1. Bundles = {} /\ Baselines = {} /\ Blobs(pass.got["notation"]) = Blobs(Signatures)
      BY <1>3, <1>5 DEF Bare
    <2>2. Expected(registries[source]) = Layers \union Signatures
      BY <2>1, ExpectedIs
    <2>3. Blobs(atts \union pass.got["notation"]) = Blobs(Layers) \union Blobs(pass.got["notation"])
      BY <1>5 DEF Blobs
    <2>4. Blobs(Layers \union Signatures) = Blobs(Layers) \union Blobs(Signatures)
      BY DEF Blobs
    <2>5. QED
      BY <2>1, <2>2, <2>3, <2>4, Zenon
  <1>6. CASE pass.failed /\ err = "incomplete"
    <2>1. EndPass("incomplete", {})
      BY <1>6 DEF TagResult
    <2>2. QED
      BY <1>1, <1>2, <1>6, <2>1, EndPassKeeps
  <1>7. CASE \/ pass.failed /\ err # "incomplete" /\ (err # "none" \/ atts = {})
             \/ ~pass.failed /\ err = "unverified"
    <2>1. EndPass("unverified", pass.got["notation"])
      BY <1>7 DEF TagResult
    <2>2. ~Disturbed => Layers = {}
      BY <1>1, <1>7
    <2>3. Unlimited'
      BY <1>2, <1>7
    <2>4. QED
      BY <1>1, <1>2, <1>4, <2>1, <2>2, <2>3, EndPassKeeps
  <1>8. CASE err = "none" /\ ~(pass.failed /\ atts = {})
    <2>1. EndPass("none", atts \union pass.got["notation"])
      BY <1>8 DEF TagResult
    <2>2. QED
      BY <1>1, <1>2, <1>5, <1>8, <2>1, EndPassKeeps
  <1>9. CASE ~pass.failed /\ err \notin {"none", "unverified"}
    <2>1. EndPass(err, {})
      BY <1>9, SMTT(30) DEF TagResult
    <2>2. QED
      BY <1>1, <1>2, <1>9, <2>1, EndPassKeeps
  <1>10. QED
    BY <1>1, <1>6, <1>7, <1>8, <1>9

\* The registry that is asked, and its tag.
LEMMA TagIs ==
    ASSUME TypeOKFetch
    PROVE  /\ Tag.read \in Readings /\ Tag.layers \in Seq(DOMAIN Artifact) /\ Tag.keyMissing \in BOOLEAN
           /\ Tag.read \in {"gone", "malformed"} => Tag.layers = <<>>
           /\ (Tag.read \in Lenient \union {"flaky"} \/ Tag.keyMissing) => Disturbed
           /\ \A i \in DOMAIN Tag.layers :
                 \/ Artifact[Tag.layers[i]].read \in Transport \union {"flaky"}
                 \/ Artifact[Tag.layers[i]].verdict \in {"noKey", "noRoot"}
                 => Disturbed
  <1>1. registries[source] \in
            {reg \in [list : Readings, referrers : SUBSET DOMAIN Artifact,
                      tag : [read : Readings, layers : Seq(DOMAIN Artifact), keyMissing : BOOLEAN]] :
                reg.tag.read \in {"gone", "malformed"} => reg.tag.layers = <<>>}
    BY DEF TypeOKFetch, RegistryContents
  <1>2. source \in {"mirror", "origin"}
    BY DEF TypeOKFetch
  <1>3. QED
    BY <1>1, <1>2 DEF Disturbed, Hurt, Tag

\* Reading the tag of the signatures.
LEMMA TagKeeps ==
    ASSUME FetchInv, FetchTag
    PROVE  FetchInv'
  <1>1. /\ phase = "tag" /\ UNCHANGED <<registries, expired>> /\ TypeOKFetch /\ DisturbedInv /\ TagInv
        /\ answer = NoAnswer /\ Unlimited /\ pass.got["bundles"] = {}
    BY DEF FetchTag, FetchInv, TagInv
  <1>2. PICK read \in ReadsNow(Tag.read) :
           CASE read = "gone" -> TagResult("none", {}) /\ pass' = pass
             [] read = "ok" /\ Len(Tag.layers) > maxReferrers -> TagResult("incomplete", {}) /\ pass' = pass
             [] read = "ok" /\ Len(Tag.layers) <= maxReferrers ->
                  /\ phase' = "layers"
                  /\ pass' = [pass EXCEPT !.stats["bundles"] = NoStats]
                  /\ UNCHANGED <<source, attempt, answer>>
             [] OTHER -> TagResult(tagContentError(read), {}) /\ pass' = pass
    BY DEF FetchTag
  <1>3. /\ Tag.read \in Readings /\ Tag.layers \in Seq(DOMAIN Artifact)
        /\ Tag.read \in {"gone", "malformed"} => Tag.layers = <<>>
        /\ Tag.read \in Lenient \union {"flaky"} => Disturbed
    BY <1>1, TagIs
  <1>4. Tag.layers = <<>> => Layers = {}
    BY DEF Layers
  <1>5. expired => Disturbed /\ read = "interrupted"
    BY <1>2 DEF Disturbed, Hurt, ReadsNow
  <1>6. ~expired => read \in Reads(Tag.read)
    BY <1>2 DEF ReadsNow
  <1>7. Len(Tag.layers) \in Nat /\ maxReferrers \in Nat
    BY <1>3, LimitsAssumption
  <1>8. CASE read = "gone"
    <2>1. TagResult("none", {}) /\ pass' = pass
      BY <1>2, <1>8
    <2>2. ~expired /\ Layers = {} /\ "none" \notin Lenient
      BY <1>3, <1>4, <1>5, <1>6, <1>8 DEF Reads, Lenient, Transport
    <2>3. QED
      BY <1>1, <2>1, <2>2, TagResultKeeps
  <1>9. CASE read = "ok" /\ Len(Tag.layers) > maxReferrers
    <2>1. TagResult("incomplete", {}) /\ pass' = pass /\ "incomplete" \notin Lenient
      BY <1>2, <1>9, <1>7 DEF Lenient, Transport
    <2>2. QED
      BY <1>1, <2>1, TagResultKeeps
  <1>10. CASE read = "ok" /\ Len(Tag.layers) <= maxReferrers
    <2>1. /\ phase' = "layers" /\ pass' = [pass EXCEPT !.stats["bundles"] = NoStats]
          /\ UNCHANGED <<source, attempt, answer>>
      BY <1>2, <1>10, <1>7
    <2>2. /\ pass' \in Passes(DOMAIN pass.at) /\ pass'.at = pass.at /\ pass'.got = pass.got
          /\ pass'.layer = pass.layer /\ pass'.stats["bundles"] = NoStats
          /\ \A k \in Collectors \ {"bundles"} : pass'.stats[k] = pass.stats[k]
      BY <1>1, <2>1, Zenon DEF TypeOKFetch, Passes, NoStats, Stats, Collectors
    <2>3. TypeOKFetch'
      BY <1>1, <2>1, <2>2 DEF TypeOKFetch
    <2>4. Bundles' = Bundles /\ Baselines' = Baselines /\ Signatures' = Signatures /\ Tag' = Tag
      BY <1>1, <2>1 DEF Bundles, Baselines, Signatures, Listed, Bucket, Tag
    <2>5. TagInv'
      BY <1>1, <2>1, <2>2, <2>4, Zenon DEF TagInv, Bare, Unlimited, Collectors, Blobs
    <2>6. LayersInv'
      <3>1. Len(Tag.layers) \in Nat /\ DOMAIN Tag.layers = 1..Len(Tag.layers) /\ pass'.layer = 1
        BY <1>1, <1>3, <2>2 DEF TagInv
      <3>2. pass'.got["bundles"] = {}
        BY <1>1, <2>2
      <3>3. QED
        BY <2>4, <3>1, <3>2 DEF LayersInv
    <2>7. DisturbedInv'
      <3>1. Disturbed' <=> Disturbed
        BY <1>1 DEF Disturbed
      <3>2. QED
        BY <1>1, <2>2, <3>1 DEF DisturbedInv, NoStats
    <2>8. CollectInv' /\ FetchIsHonest'
      BY <1>1, <2>1 DEF CollectInv, FetchIsHonest, FetchedIsComplete, JunkStaysStrict
    <2>9. QED
      BY <1>1, <2>1, <2>3, <2>5, <2>6, <2>7, <2>8 DEF FetchInv
  <1>11. CASE read \notin {"gone", "ok"}
    <2>1. TagResult(tagContentError(read), {}) /\ pass' = pass
      BY <1>2, <1>11
    <2>2. /\ tagContentError(read) \in Lenient \union {"unverified", "incomplete"}
          /\ tagContentError(read) # "none"
      BY DEF tagContentError, referrersError, Lenient, Transport
    <2>3. tagContentError(read) \in Lenient => Disturbed
      <3>1. CASE expired
        BY <1>5, <3>1
      <3>2. CASE ~expired
        BY <1>3, <1>6, <1>11, <3>2 DEF tagContentError, referrersError, Reads, Readings, Lenient, Transport
      <3>3. QED
        BY <3>1, <3>2
    <2>4. (tagContentError(read) = "unverified" /\ ~Disturbed) => Layers = {}
      <3>1. ASSUME tagContentError(read) = "unverified", ~Disturbed
            PROVE  Tag.read = "malformed"
        BY <1>3, <1>5, <1>6, <1>11, <3>1 DEF tagContentError, referrersError, Reads, Readings, Lenient, Transport
      <3>2. QED
        BY <1>3, <1>4, <3>1
    <2>5. QED
      BY <1>1, <2>1, <2>2, <2>3, <2>4, TagResultKeeps
  <1>12. QED
    BY <1>8, <1>9, <1>10, <1>11, <1>7

\* Layer d, or the keys it may be signed with, could not be had.
Hurtful(d) ==
    \/ Artifact[d].read \in Transport \union {"flaky"}
    \/ Artifact[d].verdict \in {"noKey", "noRoot"}
    \/ Tag.keyMissing

\* Between the passes p and q layer d of the tag was collected, or ended with
\* outcome o for reason r.
LayerEnded(p, q, d, late, o, r) ==
    /\ q.got = p.got
    /\ q.stats = [p.stats EXCEPT !["bundles"] = record(@, o, r)]
    /\ o = "fetch" => r \in Transport \union {"noRoot"}
    /\ o \in {"fetch", "key"} => Hurtful(d)
    /\ (Verifiable(d) /\ ~late) => o \in {"fetch", "limit"}
    /\ \/ q.layer = p.layer + 1
       \/ q.layer = Len(Tag.layers) + 1 /\ o = "limit"

LayerCollected(p, q, d) ==
    /\ q.got = [p.got EXCEPT !["bundles"] = @ \union {d}] /\ q.stats = p.stats
    /\ q.layer = p.layer + 1 /\ Verifiable(d)

\* A layer of the tag is collected or ends with an outcome.
LEMMA LayerEffect ==
    ASSUME NEW ds, NEW p \in Passes(ds), NEW d \in DOMAIN Artifact, NEW read \in Reads(Artifact[d].read),
           NEW late \in BOOLEAN, NEW q, q = processCosignLayer(p, d, read, late),
           Tag.keyMissing \in BOOLEAN, Len(Tag.layers) \in Nat
    PROVE  /\ q \in Passes(ds) /\ q.at = p.at
           /\ \/ LayerCollected(p, q, d)
              \/ \E o \in Outcomes : \E r : LayerEnded(p, q, d, late, o, r)
  <1> DEFINE verdict == LayerVerdict(d, late)
             met == readLayer(p, d, read)
             tooMuch == SizeOf(p.got["bundles"] \union {d}) > maxTotalAttestationSize
             outcome == CASE met # "ok" -> classifyCosignLayerError(met)
                          [] met = "ok" /\ verdict = "verified" -> IF tooMuch THEN "aggregate" ELSE "collected"
                          [] met = "ok" /\ verdict \in {"noKey", "noRoot"} -> trustMaterialOutcome(verdict)
                          [] OTHER -> "failed"
             charged == IF met = "ok" THEN charge(p, d) ELSE p
             reason == IF met = "ok" THEN verdict ELSE met
  <1>1. q = CASE outcome = "collected" -> [charged EXCEPT !.got["bundles"] = @ \union {d}, !.layer = @ + 1]
              [] outcome = "aggregate" -> [charged EXCEPT !.stats["bundles"] = record(@, "limit", "limit"),
                                                          !.layer = Len(Tag.layers) + 1]
              [] OTHER -> [charged EXCEPT !.stats["bundles"] = record(@, outcome, reason), !.layer = @ + 1]
    BY DEF processCosignLayer
  <1>2. /\ verdict \in {"verified", "invalid", "noKey", "noRoot"}
        /\ verdict = "verified" => Artifact[d].verdict = "verified"
        /\ (~late /\ Artifact[d].verdict = "verified") => verdict = "verified"
        /\ verdict \in {"noKey", "noRoot"} => Hurtful(d)
    BY ArtifactAssumption DEF LayerVerdict, Hurtful
  <1>3. /\ classifyReferrerError(met) \in Outcomes /\ classifyReferrerError(met) # "key"
        /\ classifyReferrerError(met) = "fetch" => met \in Transport /\ Hurtful(d)
        /\ (met # "ok" /\ Readable(d)) => classifyReferrerError(met) \in {"fetch", "limit"}
        /\ met = "ok" => Readable(d)
    BY MeetsAndCounts DEF Hurtful
  <1>4. /\ charged \in Passes(ds) /\ charged.at = p.at /\ charged.stats = p.stats
        /\ charged.got = p.got /\ charged.layer = p.layer
    BY ChargeFields
  <1>5. /\ p.layer \in Nat /\ p.stats["bundles"] \in Stats /\ "bundles" \in Collectors
        /\ p.got["bundles"] \subseteq DOMAIN Artifact
    BY DEF Passes, Collectors
  <1> HIDE DEF verdict, met, charged
  <1>6. met # "ok" => outcome = classifyCosignLayerError(met)
    OBVIOUS
  <1>7. met = "ok" => /\ verdict = "verified" => outcome = IF tooMuch THEN "aggregate" ELSE "collected"
                      /\ verdict \in {"noKey", "noRoot"} => outcome = trustMaterialOutcome(verdict)
                      /\ verdict = "invalid" => outcome = "failed"
    BY <1>2
  <1> HIDE DEF outcome, tooMuch
  <1>8. classifyCosignLayerError(met) \in {"failed", classifyReferrerError(met)}
        /\ (classifyReferrerError(met) \in {"fetch", "limit"} => classifyCosignLayerError(met) = classifyReferrerError(met))
    BY DEF classifyCosignLayerError, classifyReferrerError, Transport
  <1>9. /\ outcome \in Outcomes \union {"aggregate"}
        /\ outcome \in {"collected", "aggregate"} => Verifiable(d)
        /\ outcome = "fetch" => reason \in Transport \union {"noRoot"}
        /\ outcome \in {"fetch", "key"} => Hurtful(d)
        /\ (Verifiable(d) /\ ~late) => outcome \in {"fetch", "limit", "aggregate", "collected"}
    <2>1. CASE met # "ok"
      <3>1. classifyCosignLayerError(met) # "collected"
        BY DEF classifyCosignLayerError, classifyReferrerError
      <3>2. reason = met
        BY <2>1
      <3> HIDE DEF reason
      <3>3. QED
        BY <1>3, <1>6, <1>8, <2>1, <3>1, <3>2 DEF Outcomes, Verifiable
    <2>2. CASE met = "ok"
      BY <1>2, <1>3, <1>7, <2>2 DEF Outcomes, Verifiable, trustMaterialOutcome
    <2>3. QED
      BY <2>1, <2>2
  <1> HIDE DEF reason
  <1>10. CASE outcome = "collected"
    <2>1. q = [charged EXCEPT !.got["bundles"] = @ \union {d}, !.layer = @ + 1]
      BY <1>1, <1>10
    <2>2. /\ q.got = [p.got EXCEPT !["bundles"] = @ \union {d}] /\ q.stats = p.stats
          /\ q.layer = p.layer + 1 /\ q.at = p.at
      BY <1>4, <2>1 DEF Passes
    <2>3. q \in Passes(ds)
      <3>1. [charged.got EXCEPT !["bundles"] = @ \union {d}] \in [Collectors -> SUBSET DOMAIN Artifact]
        BY <1>4, <1>5 DEF Passes
      <3>2. charged.layer + 1 \in Nat
        BY <1>4, <1>5
      <3>3. q = [at |-> charged.at, stats |-> charged.stats, got |-> [charged.got EXCEPT !["bundles"] = @ \union {d}],
                 seen |-> charged.seen, cancelled |-> charged.cancelled, used |-> charged.used,
                 failed |-> charged.failed, layer |-> charged.layer + 1]
        BY <1>4, <2>1, Zenon DEF Passes
      <3>4. QED
        BY <1>4, <3>1, <3>2, <3>3, PassFields, PassMade
    <2>4. QED
      BY <1>9, <1>10, <2>2, <2>3 DEF LayerCollected
  <1>11. CASE outcome = "aggregate"
    <2>1. q = [charged EXCEPT !.stats["bundles"] = record(@, "limit", "limit"), !.layer = Len(Tag.layers) + 1]
      BY <1>1, <1>11
    <2>2. record(p.stats["bundles"], "limit", "limit") \in Stats
      BY <1>5, RecordKeeps DEF Outcomes
    <2>3. /\ q.stats = [p.stats EXCEPT !["bundles"] = record(@, "limit", "limit")] /\ q.got = p.got
          /\ q.layer = Len(Tag.layers) + 1 /\ q.at = p.at
      BY <1>4, <2>1 DEF Passes
    <2>4. q \in Passes(ds)
      <3>1. [charged.stats EXCEPT !["bundles"] = record(@, "limit", "limit")] \in [Collectors -> Stats]
        BY <1>4, <1>5, <2>2 DEF Passes
      <3>2. Len(Tag.layers) + 1 \in Nat
        BY <1>4, <1>5
      <3>3. q = [at |-> charged.at, stats |-> [charged.stats EXCEPT !["bundles"] = record(@, "limit", "limit")],
                 got |-> charged.got,
                 seen |-> charged.seen, cancelled |-> charged.cancelled, used |-> charged.used,
                 failed |-> charged.failed, layer |-> Len(Tag.layers) + 1]
        BY <1>4, <2>1, Zenon DEF Passes
      <3>4. QED
        BY <1>4, <3>1, <3>2, <3>3, PassFields, PassMade, SMTT(30)
    <2>5. LayerEnded(p, q, d, late, "limit", "limit") /\ "limit" \in Outcomes
      BY <2>3 DEF LayerEnded, Outcomes
    <2>6. QED
      BY <2>3, <2>4, <2>5
  <1>12. CASE outcome \notin {"collected", "aggregate"}
    <2>1. q = [charged EXCEPT !.stats["bundles"] = record(@, outcome, reason), !.layer = @ + 1]
      BY <1>1, <1>12
    <2>2. record(p.stats["bundles"], outcome, reason) \in Stats
      BY <1>5, <1>9, <1>12, RecordKeeps
    <2>3. /\ q.stats = [p.stats EXCEPT !["bundles"] = record(@, outcome, reason)] /\ q.got = p.got
          /\ q.layer = p.layer + 1 /\ q.at = p.at
      BY <1>4, <2>1 DEF Passes
    <2>4. q \in Passes(ds)
      <3>1. [charged.stats EXCEPT !["bundles"] = record(@, outcome, reason)] \in [Collectors -> Stats]
        BY <1>4, <1>5, <2>2 DEF Passes
      <3>2. charged.layer + 1 \in Nat
        BY <1>4, <1>5
      <3>3. q = [at |-> charged.at, stats |-> [charged.stats EXCEPT !["bundles"] = record(@, outcome, reason)],
                 got |-> charged.got,
                 seen |-> charged.seen, cancelled |-> charged.cancelled, used |-> charged.used,
                 failed |-> charged.failed, layer |-> charged.layer + 1]
        BY <1>4, <2>1, Zenon DEF Passes
      <3>4. QED
        BY <1>4, <3>1, <3>2, <3>3, PassFields, PassMade, SMTT(30)
    <2>5. LayerEnded(p, q, d, late, outcome, reason) /\ outcome \in Outcomes
      BY <1>9, <1>12, <2>3 DEF LayerEnded
    <2>6. QED
      BY <2>3, <2>4, <2>5
  <1>13. QED
    BY <1>10, <1>11, <1>12

\* What a step on a layer leaves alone, and what it records.
LEMMA LayersKept ==
    ASSUME FetchInv, phase = "layers", UNCHANGED <<registries, source, attempt, phase, answer>>,
           expired' \in BOOLEAN, expired => expired',
           pass' \in Passes(DOMAIN pass.at), pass'.at = pass.at,
           \A k \in Collectors \ {"bundles"} : pass'.stats[k] = pass.stats[k] /\ pass'.got[k] = pass.got[k],
           (pass'.stats["bundles"].fetch # "none" \/ pass'.stats["bundles"].key) =>
               \/ pass.stats["bundles"].fetch # "none" \/ pass.stats["bundles"].key
               \/ Disturbed',
           LayersInv'
    PROVE  FetchInv'
  <1>1. TypeOKFetch /\ TagInv /\ DisturbedInv /\ answer = NoAnswer
    BY DEF FetchInv
  <1>2. TypeOKFetch'
    BY <1>1 DEF TypeOKFetch
  <1>3. TagInv'
    <2>1. /\ Bundles' = Bundles /\ Baselines' = Baselines /\ Signatures' = Signatures
          /\ Blobs(pass.got["notation"])' = Blobs(pass.got["notation"])
      BY SMTT(30) DEF Bundles, Baselines, Signatures, Listed, Bucket, Blobs, Collectors
    <2>2. Blobs(Signatures)' = Blobs(Signatures)
      BY <2>1 DEF Blobs
    <2>3. expired' \/ Bare'
      BY <1>1, <2>1, <2>2 DEF TagInv, Bare
    <2>4. QED
      BY <1>1, <2>3, SMTT(30) DEF TagInv, Collectors
  <1>4. DisturbedInv'
    <2>1. Disturbed => Disturbed'
      BY SMTT(30) DEF Disturbed
    <2>2. QED
      BY <1>1, <2>1 DEF DisturbedInv, Collectors
  <1>5. CollectInv' /\ FetchIsHonest'
    BY <1>1 DEF CollectInv, FetchIsHonest, FetchedIsComplete, JunkStaysStrict
  <1>6. QED
    BY <1>1, <1>2, <1>3, <1>4, <1>5 DEF FetchInv

\* A layer of the tag keeps the invariant.
LEMMA LayerKeeps ==
    ASSUME FetchInv, TagLayer
    PROVE  FetchInv'
  <1>1. /\ phase = "layers" /\ UNCHANGED <<registries, source, attempt, phase, answer>>
        /\ pass.layer <= Len(Tag.layers) /\ TypeOKFetch /\ LayersInv /\ Tag' = Tag
    BY DEF TagLayer, FetchInv, Tag
  <1>2. /\ Tag.layers \in Seq(DOMAIN Artifact) /\ Tag.keyMissing \in BOOLEAN
        /\ Tag.keyMissing => Disturbed
        /\ \A i \in DOMAIN Tag.layers :
                 \/ Artifact[Tag.layers[i]].read \in Transport \union {"flaky"}
                 \/ Artifact[Tag.layers[i]].verdict \in {"noKey", "noRoot"}
                 => Disturbed
    BY <1>1, TagIs, SMTT(30)
  <1>3. /\ Len(Tag.layers) \in Nat /\ DOMAIN Tag.layers = 1..Len(Tag.layers) /\ pass.layer \in DOMAIN Tag.layers
        /\ pass.layer \in Nat
    BY <1>1, <1>2 DEF LayersInv
  <1>4. /\ pass \in Passes(DOMAIN pass.at) /\ expired \in BOOLEAN
        /\ pass.stats["bundles"] \in Stats /\ "bundles" \in Collectors
    BY <1>1 DEF TypeOKFetch, Passes, Collectors
  <1>5. CASE expired
    <2>1. /\ pass' = [pass EXCEPT !.stats["bundles"] = record(@, "fetch", "interrupted"),
                                  !.layer = Len(Tag.layers) + 1]
          /\ expired'
      BY <1>5 DEF TagLayer
    <2>2. /\ record(pass.stats["bundles"], "fetch", "interrupted") \in Stats
          /\ record(pass.stats["bundles"], "fetch", "interrupted").fetch # "none"
      BY <1>4, RecordKeeps DEF Outcomes, Transport
    <2>3. /\ pass'.at = pass.at /\ pass'.got = pass.got /\ pass'.layer = Len(Tag.layers) + 1
          /\ pass'.stats = [pass.stats EXCEPT !["bundles"] = record(@, "fetch", "interrupted")]
      BY <1>4, <2>1 DEF Passes
    <2>4. pass' \in Passes(DOMAIN pass.at)
      <3>1. [pass.stats EXCEPT !["bundles"] = record(@, "fetch", "interrupted")] \in [Collectors -> Stats]
        BY <1>4, <2>2 DEF Passes
      <3>2. pass' = [at |-> pass.at, stats |-> [pass.stats EXCEPT !["bundles"] = record(@, "fetch", "interrupted")],
                     got |-> pass.got, seen |-> pass.seen, cancelled |-> pass.cancelled, used |-> pass.used,
                     failed |-> pass.failed, layer |-> Len(Tag.layers) + 1]
        BY <1>4, <2>1, Zenon DEF Passes
      <3>3. QED
        BY <1>3, <1>4, <3>1, <3>2, PassFields, PassMade
    <2>5. Disturbed' /\ Excused("bundles")'
      BY <2>1 DEF Disturbed, Excused
    <2>6. LayersInv'
      BY <1>1, <1>3, <2>3, <2>5 DEF LayersInv
    <2>7. \A k \in Collectors \ {"bundles"} : pass'.stats[k] = pass.stats[k] /\ pass'.got[k] = pass.got[k]
      BY <1>4, <2>3 DEF Passes
    <2>8. expired' \in BOOLEAN
      BY <1>4, <1>5 DEF TagLayer
    <2>9. QED
      BY <1>1, <2>1, <2>3, <2>4, <2>5, <2>6, <2>7, <2>8, LayersKept
  <1>6. CASE ~expired
    <2> DEFINE d == Tag.layers[pass.layer]
    <2>1. PICK late \in BOOLEAN, read \in Reads(Artifact[d].read) :
             pass' = processCosignLayer(pass, d, read, late) /\ expired' = late
      BY <1>6 DEF TagLayer
    <2>2. d \in DOMAIN Artifact
      BY <1>2, <1>3, SMTT(30)
    <2>3. /\ pass' \in Passes(DOMAIN pass.at) /\ pass'.at = pass.at
          /\ \/ LayerCollected(pass, pass', d)
             \/ \E o \in Outcomes : \E r : LayerEnded(pass, pass', d, late, o, r)
      <3> HIDE DEF d
      <3>1. QED
        BY <1>2, <1>3, <1>4, <2>1, <2>2, LayerEffect, SMTT(30)
    <2>4. Hurtful(d) => Disturbed
      BY <1>2, <1>3 DEF Hurtful
    <2>5. Disturbed => Disturbed'
      BY <1>1, <1>6, <2>1 DEF Disturbed
    <2>6. LayersInv => /\ \A e \in pass.got["bundles"] :
                              Verifiable(e) /\ \E i \in DOMAIN Tag.layers : Tag.layers[i] = e
                       /\ \A i \in DOMAIN Tag.layers :
                              (i < pass.layer /\ Verifiable(Tag.layers[i])) =>
                                  Excused("bundles") \/ Tag.layers[i] \in pass.got["bundles"]
      BY <1>1 DEF LayersInv
    <2>7. CASE LayerCollected(pass, pass', d)
      <3>1. /\ pass'.got["bundles"] = pass.got["bundles"] \union {d} /\ pass'.stats = pass.stats
            /\ pass'.layer = pass.layer + 1 /\ Verifiable(d)
            /\ \A k \in Collectors \ {"bundles"} : pass'.stats[k] = pass.stats[k] /\ pass'.got[k] = pass.got[k]
        BY <1>4, <2>7 DEF LayerCollected, Passes
      <3>2. Excused("bundles") => Excused("bundles")'
        BY <1>6, <3>1, SMTT(30) DEF Excused
      <3>3. LayersInv'
        BY <1>1, <1>3, <2>6, <3>1, <3>2, SMTT(30) DEF LayersInv
      <3>4. QED
        BY <1>1, <1>6, <2>1, <2>3, <3>1, <3>3, LayersKept
    <2>8. ASSUME NEW o \in Outcomes, NEW r, LayerEnded(pass, pass', d, late, o, r)
          PROVE  FetchInv'
      <3>1. /\ pass'.got = pass.got /\ pass'.stats["bundles"] = record(pass.stats["bundles"], o, r)
            /\ \A k \in Collectors \ {"bundles"} : pass'.stats[k] = pass.stats[k] /\ pass'.got[k] = pass.got[k]
            /\ o = "fetch" => r \in Transport \union {"noRoot"}
            /\ o \in {"fetch", "key"} => Disturbed'
            /\ (Verifiable(d) /\ ~late) => o \in {"fetch", "limit"}
            /\ \/ pass'.layer = pass.layer + 1
               \/ pass'.layer = Len(Tag.layers) + 1 /\ o = "limit"
        BY <1>4, <2>4, <2>5, <2>8, SMTT(30) DEF LayerEnded, Passes
      <3>2. /\ pass'.stats["bundles"].limit <=> (pass.stats["bundles"].limit \/ o = "limit")
            /\ pass'.stats["bundles"].fetch # "none" <=> (pass.stats["bundles"].fetch # "none" \/ o = "fetch")
            /\ pass'.stats["bundles"].key <=> (pass.stats["bundles"].key \/ o = "key")
        BY <1>4, <3>1, RecordKeeps, SMTT(30)
      <3>3. /\ Excused("bundles") => Excused("bundles")'
            /\ o = "limit" => Excused("bundles")'
            /\ Verifiable(d) => Excused("bundles")'
        BY <1>6, <2>1, <3>1, <3>2 DEF Excused
      <3>4. LayersInv'
        <4>1. CASE o = "limit"
          BY <1>1, <1>3, <2>6, <3>1, <3>3, <4>1, SMTT(30) DEF LayersInv
        <4>2. CASE o # "limit"
          BY <1>1, <1>3, <2>6, <3>1, <3>3, <4>2 DEF LayersInv
        <4>3. QED
          BY <4>1, <4>2, SMTT(30)
      <3>5. QED
        BY <1>1, <1>6, <2>1, <2>3, <3>1, <3>2, <3>4, LayersKept
    <2>9. QED
      BY <2>3, <2>7, <2>8
  <1>7. QED
    BY <1>5, <1>6

\* The end of the tag.
LEMMA TagEndKeeps ==
    ASSUME FetchInv, TagEnd
    PROVE  FetchInv'
  <1> DEFINE stats == pass.stats["bundles"]
             eval == evaluateCollection(pass.got["bundles"] # {}, stats)
             err == IF eval \notin {"unverified", "incomplete"} /\ expired THEN "interrupted" ELSE eval
  <1>1. /\ phase = "layers" /\ pass.layer > Len(Tag.layers) /\ TagResult(err, pass.got["bundles"])
        /\ UNCHANGED <<registries, pass, expired>>
    BY DEF TagEnd
  <1>2. /\ TypeOKFetch /\ TagInv /\ LayersInv /\ DisturbedInv /\ stats \in Stats /\ expired \in BOOLEAN
        /\ "bundles" \in Collectors
    BY DEF FetchInv, TypeOKFetch, Passes, Collectors
  <1> HIDE DEF stats
  <1>3. /\ eval = "incomplete" <=> stats.limit
        /\ eval = "none" => ~stats.limit /\ stats.fetch = "none"
        /\ eval = "unverified" => ~stats.limit /\ stats.fetch = "none" /\ pass.got["bundles"] = {}
        /\ eval \in Lenient => stats.fetch # "none" \/ stats.key
        /\ eval \in Lenient \union {"incomplete", "none", "unverified"}
    BY <1>2, EvaluateIsHonest, Zenon
  <1> HIDE DEF eval
  <1>4. expired => Disturbed
    BY DEF Disturbed
  <1>5. eval \in Lenient => Disturbed
    BY <1>2, <1>3 DEF DisturbedInv, stats
  <1>6. ~Unlimited => eval = "incomplete"
    BY <1>1, <1>2, <1>3 DEF Unlimited, TagInv, Collectors, stats
  <1>7. (eval \in {"none", "unverified"} /\ ~expired) => pass.got["bundles"] = Layers
    <2>1. Tag.layers \in Seq(DOMAIN Artifact)
      BY <1>2, TagIs
    <2>2. \A i \in DOMAIN Tag.layers : i < pass.layer
      BY <1>1, <1>2, <2>1 DEF LayersInv
    <2>3. (eval \in {"none", "unverified"} /\ ~expired) => ~Excused("bundles")
      BY <1>3 DEF Excused, stats
    <2>4. QED
      BY <1>1, <1>2, <2>2, <2>3 DEF LayersInv, Layers
  <1>8. /\ err \in Lenient \union {"none", "unverified", "incomplete"}
        /\ err = "none" => ~expired /\ pass.got["bundles"] = Layers
        /\ err \in Lenient => Disturbed
        /\ ~Unlimited => err = "incomplete"
        /\ (err = "unverified" /\ ~Disturbed) => Layers = {}
    BY <1>2, <1>3, <1>4, <1>5, <1>6, <1>7 DEF Lenient, Transport
  <1> HIDE DEF err
  <1>9. QED
    BY <1>1, <1>8, TagResultKeeps, Zenon

-----------------------------------------------------------------------------
\* The invariant holds throughout.
LEMMA FetchInvHolds == SpecFetch => []FetchInv
  <1>1. InitFetch(RegistryContents) => FetchInv
    <2> SUFFICES ASSUME InitFetch(RegistryContents)
                   PROVE  FetchInv
      OBVIOUS
    <2>2. /\ pass = NewPass({}) /\ pass \in Passes({}) /\ DOMAIN pass.at = {}
          /\ \A k \in Collectors : pass.stats[k] = NoStats
      BY NewPassIsPass, Zenon DEF InitFetch, NewPass
    <2>3. pass \in Passes(DOMAIN pass.at) /\ DOMAIN pass.at \subseteq DOMAIN Artifact
      BY <2>2
    <2>4. TypeOKFetch
      <3>1. attempt = 0 /\ fetchMaxRetries \in Nat
        BY LimitsAssumption DEF InitFetch
      <3>2. /\ registries \in RegistryContents /\ source = "mirror" /\ phase = "list"
            /\ expired \in BOOLEAN
        BY Zenon DEF InitFetch
      <3>3. QED
        BY <2>3, <3>1, <3>2 DEF TypeOKFetch
    <2>5. QED
      <3>1. phase = "list" /\ answer = NoAnswer
        BY DEF InitFetch
      <3>2. CollectInv /\ TagInv /\ LayersInv
        BY <3>1 DEF CollectInv, TagInv, LayersInv
      <3>3. DisturbedInv
        BY <2>2 DEF DisturbedInv, NoStats
      <3>4. FetchIsHonest
        BY <3>1 DEF FetchIsHonest, FetchedIsComplete, JunkStaysStrict
      <3>5. QED
        BY <2>4, <3>1, <3>2, <3>3, <3>4 DEF FetchInv
  <1>2. FetchInv /\ [NextFetch]_varsFetch => FetchInv'
    <2> SUFFICES ASSUME FetchInv, [NextFetch]_varsFetch
                   PROVE  FetchInv'
      OBVIOUS
    <2>2. CASE UNCHANGED varsFetch
      <3>1. /\ UNCHANGED <<registries, source, attempt, phase, pass, expired, answer>>
            /\ TypeOKFetch /\ CollectInv /\ TagInv /\ LayersInv /\ DisturbedInv /\ FetchIsHonest
        BY <2>2 DEF varsFetch, FetchInv
      <3>2. TypeOKFetch' /\ (Disturbed' <=> Disturbed) /\ Tag' = Tag /\ Listed' = Listed
        BY <3>1 DEF TypeOKFetch, Disturbed, Tag, Listed
      <3>3. CollectInv'
        <4>1. \A k \in Collectors : Excused(k)' <=> Excused(k)
          BY <3>1 DEF Excused
        <4>2. \A k, d : Has(d, k)' <=> Has(d, k)
          BY <3>1 DEF Has
        <4> SUFFICES ASSUME phase = "collect" PROVE CollectInv'
          BY <3>1 DEF CollectInv
        <4>3. (\A k \in Collectors, d \in DOMAIN pass.at :
                 (classifyReferrer(d) = k /\ pass.at[d] = "done" /\ Wanted(d, k)) =>
                     Excused(k) \/ Has(d, k))'
          BY <3>1, <4>1, <4>2 DEF CollectInv
        <4>4. (DOMAIN pass.at = selectReferrers(Listed).candidates /\ pass.layer = 1)'
          BY <3>1, <3>2 DEF CollectInv
        <4>5. (\A d \in DOMAIN pass.at : pass.at[d] = "read" => Readable(d) /\ classifyReferrer(d) # "notation")'
          BY <3>1 DEF CollectInv
        <4>6. (\A k \in Collectors : \A d \in pass.got[k] :
                 d \in DOMAIN pass.at /\ classifyReferrer(d) = k /\ Wanted(d, k))'
          BY <3>1 DEF CollectInv
        <4>7. (\A k \in Collectors : \A b \in pass.seen[k] :
                 \E e \in DOMAIN pass.at : /\ classifyReferrer(e) = k /\ Artifact[e].blob = b
                                           /\ pass.at[e] # "todo" /\ Readable(e))'
          BY <3>1 DEF CollectInv
        <4>8. (\A k \in pass.cancelled : pass.stats[k].limit)'
          BY <3>1 DEF CollectInv
        <4>9. QED
          BY <4>3, <4>4, <4>5, <4>6, <4>7, <4>8, Zenon DEF CollectInv
      <3>4. TagInv'
        BY <3>1, <3>2, SMTT(30) DEF TagInv, Bare, Bundles, Baselines, Signatures, Unlimited
      <3>5. LayersInv'
        BY <3>1, <3>2, SMTT(30) DEF LayersInv, Excused
      <3>6. DisturbedInv' /\ (phase' = "backoff" => Unlimited')
        BY <3>1, <3>2, SMTT(30) DEF FetchInv, DisturbedInv, Unlimited
      <3>7. FetchIsHonest'
        BY <3>1, <3>2, SMTT(30) DEF FetchIsHonest, FetchedIsComplete, JunkStaysStrict
      <3>8. QED
        BY <3>1, <3>2, <3>3, <3>4, <3>5, <3>6, <3>7 DEF FetchInv
    <2>3. ASSUME NEW d \in DOMAIN pass.at,
                 SkipReferrer(d) \/ fetchNotationSignature(d) \/ ReadReferrer(d) \/ VerifyReferrer(d)
          PROVE  FetchInv'
      BY <2>3, SkipIsCollecting, NotationIsCollecting, ReadIsCollecting, VerifyIsCollecting, CollectKeeps
    <2>4. QED
      BY <2>2, <2>3, ExpireKeeps, BackoffKeeps, ListKeeps, SelectionKeeps, TagKeeps, LayerKeeps,
         TagEndKeeps DEF NextFetch
  <1>3. QED
    BY <1>1, <1>2, PTL DEF SpecFetch

\* The answer of a fetch can be relied on, whatever the registries hold and
\* however their answers, the collectors and the deadline interleave: without
\* an error it is every attestation of the image and nothing else, its error is
\* lenient only for what a registry did, a limit decides over the deadline, and
\* what is listed counts as failing only when no bundle verifies (fetchOnce,
\* collectSelection, cosignTagFallback, finalFetchError).
THEOREM FetchAnswersAreHonest == SpecFetch => []FetchIsHonest
  BY FetchInvHolds, PTL DEF FetchInv
=============================================================================
