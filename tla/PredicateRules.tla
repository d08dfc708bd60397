--------------------------- MODULE PredicateRules ---------------------------
(* What the single attestation checks ask of a document and what they say   *)
(* of several: the validation and the rules of the Scorecard, runtime       *)
(* trace, SCAI, source, release, build environment and vulnerability scan   *)
(* checks, and the metadata that checker/merge.go makes of all documents of *)
(* a check for the CEL rules of a policy. PredicateCheck has the verdict.   *)
(*                                                                          *)
(* A name that is compared without case is [fold, spelling]. A pattern is   *)
(* the set of values it matches. An absolute path is a sequence of tokens:  *)
(* the separator "/", pieces of names, "..", and percent escapes of them; a *)
(* ref is the sequence of its segments.                                     *)
EXTENDS Integers, Sequences, SequencesExt, FiniteSetsExt, Functions, Severity

Folds(names) == {n.fold : n \in names}

-----------------------------------------------------------------------------
(* Scorecard *)

inconclusiveScore == -1
maxScore == 10

validScorecard(doc) ==
    /\ doc.repo.name # "" /\ doc.version # ""
    /\ doc.score \in inconclusiveScore..maxScore
    /\ doc.checks # <<>>
    /\ \A i \in DOMAIN doc.checks :
          doc.checks[i].name # "" /\ doc.checks[i].score \in inconclusiveScore..maxScore
    /\ doc.date.kind # "malformed"

\* Hours: a date without a time is the local day of the scanner.
dateOnlyTolerance == 24

parseDate(date) == IF date.kind = "day" THEN date.at - dateOnlyTolerance ELSE date.at

\* A check that is listed twice counts with its lower score.
collectCheckScores(checks) ==
    LET Scores(n) == {c.score : c \in {d \in Range(checks) : d.name = n}}
    IN  [n \in {c.name : c \in Range(checks)} |-> Min(Scores(n))]

\* MatchSource: a pattern that is pinned to a ref needs one.
MatchSource(pattern, repo, ref) ==
    repo \in pattern.repos /\ (pattern.pinned => ref # <<>> /\ ref \in pattern.refs)

checkTrustedRepository(doc, sources) ==
    LET candidates == {doc.repo} \union
                      (IF doc.repo.scheme = "" THEN {[doc.repo EXCEPT !.scheme = "https"]} ELSE {})
    IN  sources # {} => \E p \in sources, c \in candidates : MatchSource(p, c, doc.commit)

checkScores(score, scores, pol) ==
    /\ pol.minScore # NoThreshold => score >= pol.minScore
    /\ \A n \in DOMAIN pol.checks : n \in DOMAIN scores /\ scores[n] >= pol.checks[n]

\* The validation and the rules a check declares, for this check and the ones
\* below. What an invalid document does to the verdict is in PredicateCheck.
ScorecardPasses(doc, pol) ==
    /\ validScorecard(doc)
    /\ checkTrustedRepository(doc, pol.sources)
    /\ checkScores(doc.score, collectCheckScores(doc.checks), pol)

-----------------------------------------------------------------------------
(* Runtime traces *)

validTrace(doc) == doc.monitor # "" /\ doc.hasLog

checkMonitorType(doc, trusted) == trusted # {} => \E p \in trusted : doc.monitor \in p

Unescape(token) ==
    CASE token = "%2e%2e" -> ".." [] token = "%2f" -> "/" [] token = "%00" -> "NUL" [] OTHER -> token

LenientUnescape(path) == [i \in DOMAIN path |-> Unescape(path[i])]

\* path.Clean of an absolute path: its names, each ".." taking back one.
Clean(path) ==
    LET Close(s) == CASE s.name = <<>> -> s.names
                      [] s.name = <<"..">> -> IF s.names = <<>> THEN <<>> ELSE Front(s.names)
                      [] OTHER -> Append(s.names, s.name)
        Step(s, t) == IF t = "/" THEN [names |-> Close(s), name |-> <<>>]
                                 ELSE [s EXCEPT !.name = Append(@, t)]
    IN  Close(FoldLeft(Step, [names |-> <<>>, name |-> <<>>], path))

BeforeNUL(path) ==
    IF Contains(path, "NUL")
    THEN SubSeq(path, 1, Min({i \in DOMAIN path : path[i] = "NUL"}) - 1) ELSE path

cleanedPathForms(path) ==
    (IF path = <<>> THEN {} ELSE {Clean(path)})
        \union (IF Contains(path, "NUL") /\ BeforeNUL(path) # <<>> THEN {Clean(BeforeNUL(path))} ELSE {})

\* The path of a file URL, by url.Parse or by hand, or a plain path: as it is
\* written and with its percent escapes decoded.
decodedPaths(ref) ==
    cleanedPathForms(ref.path) \union cleanedPathForms(LenientUnescape(ref.path))

\* The spellings of a file access that patterns are matched against; a file URL
\* without a path is unresolved.
fileCandidates(access) ==
    [unresolved |-> \E ref \in access : ref.file /\ decodedPaths(ref) = {},
     names |-> {ref.path : ref \in {r \in access : r.path # <<>>}}
               \union UNION {decodedPaths(ref) : ref \in access}]

\* checkForbiddenFiles and matchForbidden.
checkForbiddenFiles(doc, forbidden) ==
    forbidden # {} =>
        \A access \in doc.accesses :
            /\ ~fileCandidates(access).unresolved
            /\ \A p \in forbidden : p \intersect fileCandidates(access).names = {}

TracePasses(doc, pol) ==
    validTrace(doc) /\ checkMonitorType(doc, pol.trusted) /\ checkForbiddenFiles(doc, pol.forbidden)

-----------------------------------------------------------------------------
(* SCAI attribute reports *)

validateReport(doc) == doc.attributes # {} /\ \A a \in doc.attributes : a.name.fold # ""

\* isAbsent(target).
aboutSubject(a) == a.target \in {"missing", "null", "empty"}

hasEvidence(a) == a.evidence \in {"uri", "digest", "content"}

allHaveEvidence(attributes) == attributes # {} /\ \A a \in attributes : hasEvidence(a)

containsAttribute(attributes, fold, subjectOnly) ==
    \E a \in attributes : a.name.fold = fold /\ (subjectOnly => aboutSubject(a))

checkAttributePolicy(doc, pol) ==
    /\ \A n \in pol.required : containsAttribute(doc.attributes, n, TRUE)
    /\ \A n \in pol.forbidden : ~containsAttribute(doc.attributes, n, FALSE)
    /\ pol.requireEvidence => allHaveEvidence(doc.attributes)

ReportPasses(doc, pol) == validateReport(doc) /\ checkAttributePolicy(doc, pol)

reportMeta(doc) ==
    [attributes |-> Folds({a.name : a \in {b \in doc.attributes : aboutSubject(b)}}),
     hasEvidence |-> allHaveEvidence(doc.attributes)]

-----------------------------------------------------------------------------
(* Source and release attestations *)

validSource(doc) == doc.locations # {} /\ \A l \in doc.locations : l.repo # ""

\* The branch counts before a ref in the URI, and a short name also as a head.
verifySourceRepo(location, sources) ==
    LET ref == IF location.branch # <<>> THEN location.branch ELSE location.ref
        short == ref # <<>> /\ Head(ref) # "refs"
        refs == {ref} \union (IF short THEN {<<"refs", "heads">> \o ref} ELSE {})
    IN  \E p \in sources, r \in refs : MatchSource(p, location.repo, r)

checkTrustedSource(doc, sources) ==
    sources # {} => \A l \in doc.locations : verifySourceRepo(l, sources)

checkSourceLevel(doc, minimum) == doc.level >= minimum

SourcePasses(doc, pol) ==
    validSource(doc) /\ checkTrustedSource(doc, pol.sources) /\ checkSourceLevel(doc, pol.level)

packagePath(purl) == IF purl.namespace = "" THEN <<purl.name>> ELSE <<purl.namespace, purl.name>>

repositoryLocation(purl) ==
    IF purl.repository = <<>> \/ IsSuffix(packagePath(purl), purl.repository)
    THEN purl.repository ELSE purl.repository \o packagePath(purl)

\* Without a repository the package's own path names the default registry.
registryCandidates(purl) ==
    LET path == IF purl.repository = <<>> THEN packagePath(purl) ELSE repositoryLocation(purl)
    IN  {<<purl.type, path, "">>, <<purl.type, path, purl.version>>}

checkTrustedRegistry(doc, registries) ==
    registries # {} => doc.parses /\ \E p \in registries : p \intersect registryCandidates(doc.purl) # {}

checkPackageID(doc, required) == required => doc.packageId # ""

ReleasePasses(doc, pol) ==
    /\ doc.hasPurl
    /\ checkTrustedRegistry(doc, pol.registries)
    /\ checkPackageID(doc, pol.requirePackageID)

-----------------------------------------------------------------------------
(* Build environments *)

\* One document does not give a property two values.
validEnvironment(doc) ==
    /\ doc.properties # {}
    /\ \A p \in doc.properties : p.name.fold # ""
    /\ \A p, q \in doc.properties : p.name.fold = q.name.fold => p.value = q.value

checkPropertyPolicy(doc, pol) ==
    LET named == Folds({p.name : p \in doc.properties})
    IN  pol.required \subseteq named /\ pol.forbidden \intersect named = {}

EnvironmentPasses(doc, pol) == validEnvironment(doc) /\ checkPropertyPolicy(doc, pol)

\* The property values a document exposes.
environmentMeta(doc) ==
    [n \in {p.name : p \in doc.properties} |-> (CHOOSE p \in doc.properties : p.name = n).value]

-----------------------------------------------------------------------------
(* Vulnerability scans *)

\* validatePredicate and normalizeLegacyResults: at least one list of results,
\* and an identifier for every result.
validScan(doc) ==
    /\ doc.scanner # ""
    /\ doc.specResults \/ doc.legacyResults # "none"
    /\ doc.legacyResults # "other"
    /\ \A f \in doc.findings : f.id # ""

\* normalizeSpecResult: EPSS probabilities are no severities. Severity reads
\* the others.
normalizeSpecResult(result) ==
    [id |-> result.id, ratings |-> {[score |-> r.score, severity |-> r.severity] :
                                       r \in {s \in result.ratings : s.method # "epss"}}]

severityOrder(rank) == IF rank = Unknown THEN 1 ELSE rank * 2

scanMeta(doc) ==
    LET found == {normalizeSpecResult(f) : f \in doc.findings}
    IN  [maxScore |-> Max({0} \union {EffectiveScore(f) : f \in found}),
         maxSeverity |-> Max({0} \union {severityOrder(Rank(f)) : f \in found}),
         unknownCount |-> Cardinality({f \in found : Rank(f) = Unknown})]

checkThresholds(doc, limits) == ~Violation({normalizeSpecResult(f) : f \in doc.findings}, limits)

ScanPasses(doc, limits) == validScan(doc) /\ checkThresholds(doc, limits)

-----------------------------------------------------------------------------
(* Merging metadata *)

\* The spelling of a folded key that comes first in sorted order.
Spellings(values, fold) == {n \in DOMAIN values : n.fold = fold}
First(names) == CHOOSE n \in names : \A m \in names : n.spelling <= m.spelling

\* foldConflictingMap: one spelling for each key, and the keys that one document
\* spells twice with different values.
foldConflictingMap(values) ==
    LET folds == Folds(DOMAIN values)
        same == {f \in folds : Cardinality({values[n] : n \in Spellings(values, f)}) = 1}
        kept == {First(Spellings(values, f)) : f \in same}
    IN  [values |-> Restrict(values, kept), dropped |-> folds \ same]

\* Mutant: a key that was dropped is taken up again from a later document.
UnionMapDropConflicts_Again(acc, incoming) ==
    LET src == foldConflictingMap(incoming)
        ValueOf(m, f) == m[CHOOSE n \in DOMAIN m : n.fold = f]
        differ == {f \in Folds(DOMAIN acc.values) \intersect Folds(DOMAIN src.values) :
                       ValueOf(acc.values, f) # ValueOf(src.values, f)}
        dropped == src.dropped \union differ
        new == {n \in DOMAIN src.values : n.fold \notin Folds(DOMAIN acc.values) \union dropped}
        old == {n \in DOMAIN acc.values : n.fold \notin dropped}
    IN  [values |-> [n \in old \union new |-> IF n \in old THEN acc.values[n] ELSE src.values[n]],
         dropped |-> acc.dropped \union dropped]

\* A key the documents disagree on is removed and stays removed.
UnionMapDropConflicts(acc, incoming) ==
    LET src == foldConflictingMap(incoming)
        ValueOf(m, f) == m[CHOOSE n \in DOMAIN m : n.fold = f]
        differ == {f \in Folds(DOMAIN acc.values) \intersect Folds(DOMAIN src.values) :
                       ValueOf(acc.values, f) # ValueOf(src.values, f)}
        dropped == acc.dropped \union src.dropped \union differ
        new == {n \in DOMAIN src.values : n.fold \notin Folds(DOMAIN acc.values) \union dropped}
        old == {n \in DOMAIN acc.values : n.fold \notin dropped}
    IN  [values |-> [n \in old \union new |-> IF n \in old THEN acc.values[n] ELSE src.values[n]],
         dropped |-> dropped]

\* The property values of the documents, merged in order and resolved
\* (ResolveConflictingMap: a single document has no conflicts to list).
MergedProperties(docs) ==
    IF Len(docs) = 1 THEN [values |-> docs[1], dropped |-> {}]
    ELSE FoldLeft(UnionMapDropConflicts, foldConflictingMap(docs[1]), Tail(docs))

MinMap(dst, src) ==
    [n \in DOMAIN dst \union DOMAIN src |->
        Min((IF n \in DOMAIN dst THEN {dst[n]} ELSE {})
                \union (IF n \in DOMAIN src THEN {src[n]} ELSE {}))]

\* mergeMeta for the Scorecard, SCAI and scan checks: "score" with Min, "checks"
\* with MinMap, "hasEvidence" with And, "attributes" with CSV, "maxScore" with
\* Max, "maxSeverity" with MaxBy(severityOrder) and "unknownCount" with Sum.
MergedScores(docs) ==
    LET scores == [i \in DOMAIN docs |-> collectCheckScores(docs[i].checks)]
    IN  [score |-> Min({docs[i].score : i \in DOMAIN docs}),
         checks |-> FoldLeft(MinMap, scores[1], Tail(scores))]

MergedReports(docs) ==
    [attributes |-> UNION {reportMeta(docs[i]).attributes : i \in DOMAIN docs},
     hasEvidence |-> \A i \in DOMAIN docs : reportMeta(docs[i]).hasEvidence]

MergedScans(docs) ==
    [maxScore |-> Max({scanMeta(docs[i]).maxScore : i \in DOMAIN docs}),
     maxSeverity |-> Max({scanMeta(docs[i]).maxSeverity : i \in DOMAIN docs}),
     unknownCount |-> FoldLeft(LAMBDA n, d : n + scanMeta(d).unknownCount, 0, docs)]

-----------------------------------------------------------------------------
(* Properties *)

\* buildenv: a rule that reads a property never sees the value of an arbitrary
\* document. Whatever the order of the documents and however they spell the
\* name, a property value is exposed exactly when every document that names the
\* property gives it that value, and the other ones are listed as conflicts.
PropertyValuesAgree(docs) ==
    LET merged == MergedProperties(docs)
        names == UNION {DOMAIN docs[i] : i \in DOMAIN docs}
        Values(f) == UNION {{docs[i][n] : n \in Spellings(docs[i], f)} : i \in DOMAIN docs}
    IN  \A f \in Folds(names) :
            IF Cardinality(Values(f)) = 1
            THEN /\ f \notin merged.dropped
                 /\ {merged.values[n] : n \in Spellings(merged.values, f)} = Values(f)
            ELSE f \in merged.dropped /\ Spellings(merged.values, f) = {}

\* The merged scores are no better than any Scorecard result: they meet the
\* minimums of a policy exactly when every result meets the ones it has a score
\* for, and every score of a result is among them (Min, MinMap,
\* collectCheckScores).
WorstScoreCounts(docs, pol) ==
    LET merged == MergedScores(docs)
        Known(scores) == [pol EXCEPT !.checks = [n \in DOMAIN @ \intersect DOMAIN scores |-> @[n]]]
        Meets(score, scores) == checkScores(score, scores, Known(scores))
    IN  /\ Meets(merged.score, merged.checks)
              <=> \A i \in DOMAIN docs : Meets(docs[i].score, collectCheckScores(docs[i].checks))
        /\ DOMAIN merged.checks = UNION {{c.name : c \in Range(docs[i].checks)} : i \in DOMAIN docs}
        /\ (\A i \in DOMAIN docs : ScorecardPasses(docs[i], pol))
              => checkScores(merged.score, merged.checks, pol)

\* The verdict and the metadata tell the same story: when every report of
\* attributes, or every build environment, passes, what the policy requires is
\* in the merged metadata (or listed there as conflicting), what it forbids is
\* not, and evidence is only claimed when it is everywhere (reportMeta,
\* checkAttributePolicy, checkPropertyPolicy, And, CSV).
MetadataMatchesVerdict(reports, environments, pol) ==
    LET merged == MergedReports(reports)
        props == MergedProperties([i \in DOMAIN environments |-> environmentMeta(environments[i])])
        named == Folds(DOMAIN props.values) \union props.dropped
    IN  /\ (\A i \in DOMAIN reports : ReportPasses(reports[i], pol))
              => /\ pol.required \subseteq merged.attributes
                 /\ pol.forbidden \intersect merged.attributes = {}
                 /\ pol.requireEvidence => merged.hasEvidence
        /\ (\A i \in DOMAIN environments : EnvironmentPasses(environments[i], pol))
              => pol.required \subseteq named /\ pol.forbidden \intersect named = {}

\* A release is only accepted for a registry that a pattern names: for a package
\* with a repository, some pattern matches a place inside that repository
\* (registryCandidates). A source location is judged by its branch when it has
\* one, whatever ref its URI carries (verifySourceRepo).
LocationDecides(release, location, pol) ==
    /\ (ReleasePasses(release, pol) /\ pol.registries # {} /\ release.purl.repository # <<>>)
          => \E p \in pol.registries : \E c \in p : IsPrefix(release.purl.repository, c[2])
    /\ location.branch # <<>> =>
         \A ref \in {<<>>, <<"main">>, <<"v1">>} :
             SourcePasses([locations |-> {location}, level |-> 1], pol)
                 = SourcePasses([locations |-> {[location EXCEPT !.ref = ref]}, level |-> 1], pol)

\* A trace that opened a forbidden file fails however the access is spelled:
\* percent escapes, dot segments, a NUL byte and file URLs cannot hide what the
\* kernel opens (checkForbiddenFiles).
HiddenFileIsFound(ref, file) ==
    LET opened == Clean(BeforeNUL(LenientUnescape(ref.path)))
        doc == [monitor |-> "m", hasLog |-> TRUE, accesses |-> {{ref}}]
    IN  (BeforeNUL(LenientUnescape(ref.path)) # <<>> /\ opened = file)
            => ~TracePasses(doc, [trusted |-> {{"m"}}, forbidden |-> {{file}}])

\* Scans that all pass the thresholds do so together: no finding that was not
\* ignored is above the maximum, and one that could not be rated is not hidden
\* behind a harmless one in the merged summary (severityOrder, MaxBy).
ScansAreSummed(docs, limits) ==
    LET merged == MergedScans(docs)
    IN  /\ (limits.ignoreCVEs = {} /\ limits.maxScore # NoThreshold
              /\ \A i \in DOMAIN docs : ScanPasses(docs[i], limits))
              => merged.maxScore <= limits.maxScore /\ merged.unknownCount = 0
        /\ merged.unknownCount > 0 => merged.maxSeverity > severityOrder(0)

\* Scorecard's parseDate: the date of the scanner's local day, which may be a
\* day ahead of UTC, is never in the future when it is checked.
LocalDayIsPast(now, offset) ==
    parseDate([kind |-> "day", at |-> ((now + offset) \div 24) * 24]) <= now
=============================================================================
