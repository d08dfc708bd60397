-------------------------------- MODULE Sbom --------------------------------
(* The SBOM check (internal/sbom): which of three formats a document is     *)
(* read in, the license and component lists, the CVSS thresholds, and the   *)
(* drift against baseline SBOMs. A document holds what each format would    *)
(* find in it; a license expression is the sequence of its tokens, with the *)
(* second reading that invisible separators allow; a purl is its segments,  *)
(* whether it parses, and its qualifiers, the subpath among them.           *)
EXTENDS Severity, Sequences, SequencesExt

NoPurl == [valid |-> FALSE, typ |-> "", path |-> <<>>, version |-> <<>>, qualifiers |-> {}]

NoAssertion == [expression |-> FALSE, joined |-> <<>>,
                tokens |-> <<[kind |-> "id", base |-> "noassertion", orLater |-> FALSE]>>]

-----------------------------------------------------------------------------
(* Licenses *)

\* The identifiers among the tokens: everything but the operators, and the
\* exceptions that directly follow WITH. An expression without identifiers is
\* one itself, which no list names.
splitSPDXTokens(tokens) ==
    LET Exception(i) == /\ i > 1
                        /\ tokens[i].kind = "exception" /\ tokens[i - 1].kind = "with"
        ids == {tokens[i] : i \in {j \in DOMAIN tokens :
                    tokens[j].kind \notin {"op", "with"} /\ ~Exception(j)}}
    IN  IF ids = {} /\ tokens # <<>> THEN {tokens[1]} ELSE ids

licenseIdentifiers(entry) ==
    IF entry.expression
    THEN splitSPDXTokens(entry.tokens) \union splitSPDXTokens(entry.joined)
    ELSE {entry.tokens[1]}

\* A deny entry covers every form of its license, an allow entry its own.
licenseDenied(id, deny) == \E entry \in deny : entry.base = id.base

licenseAllowed(id, allow) ==
    \E entry \in allow : entry.base = id.base /\ entry.orLater = id.orLater

checkLicensePolicy(licenses, pol) ==
    LET ids == UNION {licenseIdentifiers(e) : e \in licenses}
    IN  /\ \A id \in ids : ~licenseDenied(id, pol.denyLicense)
        /\ pol.allowLicense = {} \/ \A id \in ids : licenseAllowed(id, pol.allowLicense)

-----------------------------------------------------------------------------
(* Components *)

\* The entry names the type, the namespace or the package of the purl; its
\* version is compared by whole segments.
SegmentsMatch(entry, purl) ==
    /\ entry.typ = purl.typ
    /\ IsPrefix(entry.path, purl.path)
    /\ entry.version # <<>> => entry.path = purl.path /\ IsPrefix(entry.version, purl.version)

matches(entry, purl) == SegmentsMatch(entry, purl) /\ entry.qualifiers \subseteq purl.qualifiers

\* A purl that does not parse is compared as text, without its qualifiers.
matchesRaw(entry, purl) == SegmentsMatch(entry, purl)

checkComponentPolicy(data, pol) ==
    LET parsed == {p \in data.purls : p.valid}
        invalid == data.purls \ parsed
    IN  /\ \A e \in pol.denyComponent \union pol.allowComponent : e.valid
        /\ ~\E p \in parsed, e \in pol.denyComponent : matches(e, p)
        /\ ~\E p \in invalid, e \in pol.denyComponent : matchesRaw(e, p)
        /\ \/ pol.allowComponent = {}
           \/ /\ data.missingPURL = {} /\ invalid = {}
              /\ \A p \in parsed : \E e \in pol.allowComponent : matches(e, p)

-----------------------------------------------------------------------------
(* SPDX 3 license graphs *)

Listed(token) == [expression |-> TRUE, tokens |-> <<token>>, joined |-> <<>>]

unknownLicense == [expression |-> FALSE, joined |-> <<>>,
                   tokens |-> <<[kind |-> "id", base |-> "unresolved", orLater |-> FALSE]>>]

\* The individual for no license is NONE, the one for no assertion is nothing,
\* and the IRI of a listed license names it.
licenseFromIRI(iri) ==
    CASE iri = "NoneLicense" -> {Listed([kind |-> "id", base |-> "none", orLater |-> FALSE])}
      [] iri = "NoAssertionLicense" -> {}
      [] OTHER -> {Listed([kind |-> "id", base |-> iri, orLater |-> FALSE])}

\* A reference that is no element of the graph.
externalLicense(ref, listedLicenses) ==
    IF ref \in listedLicenses \union {"NoneLicense", "NoAssertionLicense"}
    THEN licenseFromIRI(ref) ELSE {unknownLicense}

namedLicense(elem) == IF elem.is = "unnamed" THEN {unknownLicense} ELSE {elem.license}

\* The suffix lands on the last identifier of an expression.
orLater(entries) ==
    {[e EXCEPT !.tokens[Len(e.tokens)].orLater = TRUE] : e \in entries}

\* resolveLicense: the licenses an element of the graph stands for. One that is
\* nested too deep is unknown; an element is a set of members, an operator over
\* a subject, or a license.
resolveLicense(graph, root, listedLicenses, maxLicenseDepth) ==
    LET resolve[d \in 0..maxLicenseDepth + 1, id \in DOMAIN graph] ==
            LET e == graph[id]
                Below(m) ==
                    CASE d = maxLicenseDepth -> {unknownLicense}
                      [] d < maxLicenseDepth /\ m \in DOMAIN graph -> resolve[d + 1, m]
                      [] OTHER -> externalLicense(m, listedLicenses)
                members == UNION {Below(m) : m \in e.of}
            IN  CASE e.is \in {"members", "with"} -> members
                  [] e.is = "orLater" -> orLater(members)
                  [] OTHER -> namedLicense(e)
    IN  IF root \in DOMAIN graph THEN resolve[0, root]
                                 ELSE externalLicense(root, listedLicenses)

-----------------------------------------------------------------------------
(* The formats *)

isAssertedLicense(entry) == entry.tokens # NoAssertion.tokens

\* A package that is not expected to carry a purl or a license: by its purpose,
\* or an application without version, which stands for a lock file.
purposeExempt(pkg) == pkg.kind = "file" \/ (pkg.kind = "application" /\ pkg.version = <<>>)

spdxPackageExempt(pkg) == pkg.subject \/ purposeExempt(pkg)

cyclonedxPURLExempt(pkg) ==
    \/ pkg.kind = "file"
    \/ pkg.kind = "application" /\ pkg.purls = <<>> /\ (pkg.version = <<>> \/ pkg.lockFile)

\* The package a format records, under one of the purls it lists.
Package(pkg, purl, licenses, exempt) ==
    [purl |-> purl, name |-> pkg.name, version |-> pkg.version, licenses |-> licenses,
     checksums |-> pkg.checksums, exempt |-> exempt]

buildSPDXPackage(pkg) ==
    Package(pkg, IF pkg.purls = <<>> THEN NoPurl ELSE Head(pkg.purls),
            {l \in pkg.licenses : isAssertedLicense(l)}, spdxPackageExempt(pkg))

\* SPDX 3 keeps the last purl, and adds the licenses of the graph.
buildSPDX3Package(pkg, raw) ==
    Package(pkg, IF pkg.purls = <<>> THEN NoPurl ELSE Last(pkg.purls),
            {l \in pkg.licenses : isAssertedLicense(l)}
                \union UNION {resolveLicense(raw.graph, r, raw.listedLicenses, 16) : r \in pkg.refs},
            spdxPackageExempt(pkg))

buildCycloneDXPackage(pkg) ==
    Package(pkg, IF pkg.purls = <<>> THEN NoPurl ELSE Head(pkg.purls), pkg.licenses,
            cyclonedxPURLExempt(pkg))

\* addPackage: a package without licenses counts as one without an assertion,
\* unless it is not expected to carry any.
PackageLicenses(pkg) ==
    IF pkg.licenses = {} /\ ~pkg.exempt THEN {NoAssertion} ELSE pkg.licenses

Extract(format, pkgs, purls, more, vulns) ==
    [format |-> format, packages |-> pkgs, vulns |-> vulns, vulnerabilityOnly |-> FALSE,
     licenses |-> more \union UNION {PackageLicenses(pkgs[i]) : i \in DOMAIN pkgs},
     purls |-> purls,
     missingPURL |-> {i \in DOMAIN pkgs : pkgs[i].purl = NoPurl /\ ~pkgs[i].exempt}]

Purls(pkgs) == UNION {Range(pkgs[i].purls) : i \in DOMAIN pkgs}

spdx3FromRaw(raw) ==
    Extract("SPDX", [i \in DOMAIN raw.spdx3 |-> buildSPDX3Package(raw.spdx3[i], raw)],
            Purls(raw.spdx3), {}, {})

spdxFromRaw(raw) ==
    Extract("SPDX", [i \in DOMAIN raw.spdx2 |-> buildSPDXPackage(raw.spdx2[i])],
            Purls(raw.spdx2), {}, {})

vulnerabilityResolved(vuln) ==
    /\ vuln.state \in {"resolved", "resolved_with_pedigree", "false_positive", "not_affected"}
    /\ vuln.state = "not_affected" => vuln.reason

unresolvedFindings(vulns) == {v \in vulns : ~vulnerabilityResolved(v)}

\* walkCycloneDXComponents: all components, or none when they nest too deep.
walkCycloneDXComponents(raw) ==
    [ok |-> ~raw.deep,
     packages |-> [i \in DOMAIN raw.components |-> buildCycloneDXPackage(raw.components[i])]]

\* A BOM without components and subject is no SBOM, but its findings count.
cyclonedxFromRaw(raw) ==
    [Extract("CycloneDX", walkCycloneDXComponents(raw).packages, Purls(raw.components),
             raw.subjectLicenses, unresolvedFindings(raw.vulns))
        EXCEPT !.vulnerabilityOnly = raw.components = <<>> /\ ~raw.subject]

isCycloneDX(raw) == (raw.bom \/ raw.components # <<>>) /\ walkCycloneDXComponents(raw).ok

formatAllowed(data, formats) ==
    data.vulnerabilityOnly \/ formats = {} \/ data.format \in formats

\* checkUnambiguous: what parses in more than one format is rejected.
matchedFormats(raw) ==
    {f \in {"spdx3", "spdx2", "cyclonedx"} :
        CASE f = "spdx3" -> raw.spdx3 # <<>>
          [] f = "spdx2" -> raw.spdx2 # <<>>
          [] OTHER -> isCycloneDX(raw)}

\* The first format that parses.
parseSBOM(raw) ==
    CASE raw.spdx3 # <<>> -> spdx3FromRaw(raw)
      [] raw.spdx3 = <<>> /\ raw.spdx2 # <<>> -> spdxFromRaw(raw)
      [] OTHER -> cyclonedxFromRaw(raw)

\* extractSBOMData: "ok" with the data, "invalid", or "not_applicable".
Classified(data, matched, formats) ==
    [outcome |-> CASE Cardinality(matched) # 1 -> "invalid"
                   [] Cardinality(matched) = 1 /\ data.vulnerabilityOnly /\ data.vulns = {} ->
                         "not_applicable"
                   [] OTHER -> IF formatAllowed(data, formats) THEN "ok" ELSE "invalid",
     data |-> data]

extractSBOMData(raw, formats) == Classified(parseSBOM(raw), matchedFormats(raw), formats)

-----------------------------------------------------------------------------
(* Drift *)

driftKey(pkg) ==
    IF pkg.purl # NoPurl
    THEN [purl |-> pkg.purl, name |-> "", version |-> <<>>]
    ELSE [purl |-> NoPurl, name |-> pkg.name, version |-> pkg.version]

\* The versionless identity: of a purl that parses, without its version.
driftIdentity(pkg) ==
    CASE pkg.purl = NoPurl -> [purl |-> NoPurl, name |-> pkg.name]
      [] ~pkg.purl.valid -> [purl |-> pkg.purl, name |-> ""]
      [] OTHER -> [purl |-> [pkg.purl EXCEPT !.version = <<>>, !.qualifiers = {}], name |-> ""]

\* indexByIdentity: the packages by key. Of several with one key the last counts.
IndexByKey(pkgs) ==
    LET tracked == {i \in DOMAIN pkgs :
                      pkgs[i].purl # NoPurl \/ (~pkgs[i].exempt /\ pkgs[i].name # "")}
        At(k) == {i \in tracked : driftKey(pkgs[i]) = k}
    IN  [k \in {driftKey(pkgs[i]) : i \in tracked} |-> pkgs[Max(At(k))]]

\* The current checksums cover those of the baseline.
checksumsEqual(base, cur) ==
    \A a \in DOMAIN base : a \in DOMAIN cur /\ cur[a] = base[a]

packageModified(base, cur) ==
    \/ base.version # cur.version
    \/ ~checksumsEqual(base.checksums, cur.checksums)
    \/ base.licenses # cur.licenses

\* diffIdentity: packages that share a key are compared, the others are paired
\* as modified, and the surplus was added or removed.
diffIdentity(base, cur) ==
    LET onlyBase == Cardinality(DOMAIN base \ DOMAIN cur)
        onlyCur == Cardinality(DOMAIN cur \ DOMAIN base)
        paired == Min({onlyBase, onlyCur})
    IN  [added |-> onlyCur - paired, removed |-> onlyBase - paired,
         modified |-> paired + Cardinality({k \in DOMAIN base \intersect DOMAIN cur :
                                               packageModified(base[k], cur[k])})]

computeDrift(base, cur) ==
    LET identities(index) == {driftIdentity(index[k]) : k \in DOMAIN index}
        Of(index, id) == [k \in {l \in DOMAIN index : driftIdentity(index[l]) = id} |-> index[k]]
        all == identities(base) \union identities(cur)
        Total(field) == MapThenSumSet(LAMBDA id : diffIdentity(Of(base, id), Of(cur, id))[field], all)
    IN  [added |-> Total("added"), removed |-> Total("removed"), modified |-> Total("modified")]

driftThresholdsConfigured(drift) == \E f \in DOMAIN drift : drift[f] # NoThreshold

checkDriftThresholds(d, baselineCount, drift) ==
    LET Within(count, limit) == limit = NoThreshold \/ count <= limit
    IN  /\ Within(d.added, drift.maxAdded)
        /\ Within(d.removed, drift.maxRemoved)
        /\ Within(d.modified, drift.maxModified)
        /\ \/ drift.maxScore = NoThreshold \/ baselineCount = 0
           \/ 3 * d.added + 2 * d.modified + d.removed <= drift.maxScore * baselineCount

driftWithin(base, cur, drift) ==
    checkDriftThresholds(computeDrift(base, cur), Cardinality(DOMAIN base), drift)

\* Every baseline parses, and there is one with packages.
baselinesUsable(parsed) ==
    /\ \A i \in DOMAIN parsed : parsed[i].outcome = "ok"
    /\ \E i \in DOMAIN parsed : parsed[i].data.packages # <<>>

mergedPackages(parsed) == FlattenSeq([i \in DOMAIN parsed |-> parsed[i].data.packages])

\* Without thresholds drift never fails the check; with them every baseline
\* has to be there and to parse.
evaluateDrift(packages, parsed, drift) ==
    \/ ~driftThresholdsConfigured(drift)
    \/ /\ baselinesUsable(parsed)
       /\ driftWithin(IndexByKey(mergedPackages(parsed)), IndexByKey(packages), drift)

-----------------------------------------------------------------------------
(* The check *)

\* checkCVSSThresholds, when the policy has any.
CVSSPasses(findings, pol) == ~pol.cvss \/ ~Violation(findings, pol.limits)

\* The statistics that rules see count ignored vulnerabilities too.
cvssMeta(findings) ==
    LET Rated(rank) == Cardinality({f \in findings : Rank(f) = rank})
    IN  [cvssMax |-> Max({0} \union {EffectiveScore(f) : f \in findings}),
         critical |-> Rated(4), high |-> Rated(3), medium |-> Rated(2)]

NoMeta == [cvss |-> cvssMeta({}), formats |-> {}, purls |-> {}, licenses |-> {},
           components |-> 0, withoutPURL |-> 0]

documentMeta(data, pol) ==
    [cvss |-> IF pol.cvss THEN cvssMeta(data.vulns) ELSE NoMeta.cvss,
     formats |-> {data.format}, purls |-> data.purls,
     licenses |-> UNION {data.packages[i].licenses : i \in DOMAIN data.packages},
     components |-> Len(data.packages), withoutPURL |-> Cardinality(data.missingPURL)]

mergeCVSSMeta(dst, src) ==
    [cvss |-> [cvssMax |-> Max({dst.cvss.cvssMax, src.cvss.cvssMax}),
               critical |-> dst.cvss.critical + src.cvss.critical,
               high |-> dst.cvss.high + src.cvss.high,
               medium |-> dst.cvss.medium + src.cvss.medium],
     formats |-> dst.formats \union src.formats,
     purls |-> dst.purls \union src.purls,
     licenses |-> dst.licenses \union src.licenses,
     components |-> dst.components + src.components,
     withoutPURL |-> dst.withoutPURL + src.withoutPURL]

\* Mutant: a document without an inventory is never looked at.
verifyVulnerabilityOnly_Skips(data, pol) == [outcome |-> "skip", meta |-> NoMeta]

\* No inventory, and skipped unless its findings fail the thresholds.
verifyVulnerabilityOnly(data, pol) ==
    [outcome |-> IF CVSSPasses(data.vulns, pol) THEN "skip" ELSE "fail",
     meta |-> [NoMeta EXCEPT !.cvss = documentMeta(data, pol).cvss]]

verifyInventory(data, pol) ==
    LET passes == /\ checkLicensePolicy(data.licenses, pol)
                  /\ checkComponentPolicy(data, pol)
                  /\ CVSSPasses(data.vulns, pol)
    IN  [outcome |-> IF passes THEN "pass" ELSE "fail", meta |-> documentMeta(data, pol)]

\* attestationVerifyResult.add: a document that is not bound to the image or
\* does not parse fails, one that is no SBOM is skipped.
AddDocument(bound, read, pol) ==
    CASE ~bound \/ read.outcome = "invalid" -> [outcome |-> "fail", meta |-> NoMeta]
      [] bound /\ read.outcome = "not_applicable" -> [outcome |-> "skip", meta |-> NoMeta]
      [] OTHER -> IF read.data.vulnerabilityOnly THEN verifyVulnerabilityOnly(read.data, pol)
                                                 ELSE verifyInventory(read.data, pol)

\* VerifyMultipleWithBaseline: "missing" is the error that the missing policy
\* then decides on. Only a check that passes carries the merged metadata.
SBOMVerdict(reads, results, parsed, pol) ==
    LET Passed(i) == results[i].outcome = "pass"
        passing == SelectSeq([i \in DOMAIN results |-> i], Passed)
        packages == mergedPackages([j \in DOMAIN passing |-> reads[passing[j]]])
        failed == \E i \in DOMAIN results : results[i].outcome = "fail"
    IN  CASE failed -> "fail"
          [] ~failed /\ results = <<>> -> "pass"
          [] ~failed /\ results # <<>> /\ passing = <<>> -> "missing"
          [] OTHER -> IF evaluateDrift(packages, parsed, pol.drift) THEN "pass" ELSE "fail"

SBOMResult(verdict, results) ==
    [verdict |-> verdict,
     meta |-> IF verdict = "pass" THEN FoldSeq(LAMBDA r, m : mergeCVSSMeta(m, r.meta), NoMeta, results)
                                  ELSE NoMeta]

VerifyRead(bound, reads, parsed, pol) ==
    LET results == [i \in DOMAIN reads |-> AddDocument(bound[i], reads[i], pol)]
    IN  SBOMResult(SBOMVerdict(reads, results, parsed, pol), results)

VerifySBOM(docs, baselines, pol) ==
    VerifyRead([i \in DOMAIN docs |-> docs[i].bound],
               [i \in DOMAIN docs |-> extractSBOMData(docs[i], pol.formats)],
               [i \in DOMAIN baselines |-> extractSBOMData(baselines[i], {})], pol)

-----------------------------------------------------------------------------
(* Properties *)

\* Moving the findings of an SBOM into a document of their own changes neither
\* the verdict nor what the rules see of the SBOMs ("otherwise moving them into
\* a separate document would hide them", vulnerabilityOnlyData), and neither
\* does the order of the documents (mergeCVSSMeta).
SplittingHidesNothing(doc, rest, baselines, pol) ==
    LET carrier == [doc EXCEPT !.spdx3 = <<>>, !.spdx2 = <<>>, !.components = <<>>,
                               !.subject = FALSE, !.subjectLicenses = {}, !.bom = TRUE,
                               !.deep = FALSE]
        bare == [doc EXCEPT !.vulns = {}]
        inventory == doc.spdx3 = <<>> /\ doc.spdx2 = <<>> /\ (doc.components # <<>> \/ doc.subject)
        whole == VerifySBOM(<<doc>> \o rest, baselines, pol)
    IN  /\ inventory => whole = VerifySBOM(<<bare, carrier>> \o rest, baselines, pol)
        /\ ~driftThresholdsConfigured(pol.drift)
              => whole = VerifySBOM(rest \o <<doc>>, baselines, pol)

\* A document that names a denied license or component in any part that can be
\* read, in whatever format and however the purl is spelled, never leads to a
\* pass (checkUnambiguous, licenseDenied, matchesRaw). A CycloneDX part that is
\* nested too deeply cannot be read, and CycloneDX has one purl per component.
DeniedNeverPasses(docs, baselines, pol) ==
    LET Packages(doc) == Range(doc.spdx3) \union Range(doc.spdx2)
                            \union (IF doc.deep THEN {} ELSE Range(doc.components))
        Licenses(doc) == (IF doc.deep THEN {} ELSE doc.subjectLicenses)
                            \union UNION {p.licenses : p \in Packages(doc)}
        Named(lic) == IF lic.expression THEN Range(lic.tokens) \union Range(lic.joined)
                                        ELSE {lic.tokens[1]}
        Denied(doc) ==
            \/ \E lic \in Licenses(doc) : \E t \in Named(lic) :
                    t.kind = "id" /\ \E e \in pol.denyLicense : e.base = t.base
            \/ \E p \in Packages(doc) : \E e \in pol.denyComponent : \E u \in Range(p.purls) :
                    e.qualifiers = {} /\ SegmentsMatch(e, u)
    IN  (\E i \in DOMAIN docs : Denied(docs[i])) => VerifySBOM(docs, baselines, pol).verdict # "pass"

\* Drift accounts for every package: what was added and removed is what the
\* number of packages changed by, no drift means that every package of the
\* baseline is there unchanged, and a drift of an inventory against itself is
\* empty (diffIdentity's pairing, computeDrift).
DriftIsAccounted(packages, baseline) ==
    LET base == IndexByKey(baseline)
        cur == IndexByKey(packages)
        d == computeDrift(base, cur)
        none == d.added + d.removed + d.modified = 0
    IN  /\ d.added - d.removed = Cardinality(DOMAIN cur) - Cardinality(DOMAIN base)
        /\ none => /\ DOMAIN cur = DOMAIN base
                   /\ \A k \in DOMAIN base : ~packageModified(base[k], cur[k])
        /\ base = cur => none

\* A license element of an SPDX 3 graph, whatever it is wrapped in and even in
\* a cycle, resolves to something a license list can judge: every license that
\* is reachable within the depth is named, and a cycle or a dangling reference
\* leaves the unknown license, which no allow list names (resolveLicense).
GraphHidesNothing(graph, root, listedLicenses, maxLicenseDepth) ==
    LET resolved == {e.tokens[1].base :
                        e \in resolveLicense(graph, root, listedLicenses, maxLicenseDepth)}
        Step(s) == s \union UNION {graph[id].of : id \in s \intersect DOMAIN graph}
        reach[n \in 0..maxLicenseDepth] == IF n = 0 THEN {root} ELSE Step(reach[n - 1])
        reachable == reach[maxLicenseDepth]
        elements == reachable \intersect DOMAIN graph
        known == elements \union listedLicenses \union {"NoneLicense", "NoAssertionLicense"}
    IN  /\ \A id \in elements :
              graph[id].is = "license" => graph[id].license.tokens[1].base \in resolved
        /\ reachable \intersect listedLicenses \subseteq resolved
        /\ reachable \subseteq known \/ "unresolved" \in resolved
=============================================================================
