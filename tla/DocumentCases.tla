--------------------------- MODULE DocumentCases ----------------------------
(* The documents over which the VEX check, the SBOM check and the rules of   *)
(* the other attestation checks are checked, and what holds of each.        *)
EXTENDS Vex, Sbom, PredicateRules

-----------------------------------------------------------------------------
(* Documents for the VEX check: pairs of documents with up to three         *)
(* statements, over products that name the image by digest, by tag, by      *)
(* another tag, that name packages, and that belong to other builds.        *)

LOCAL Ours == <<"sha256", 1>>
LOCAL Theirs == <<"sha256", 2>>
LOCAL Other512 == <<"sha512", 3>>

VexImage(tag) == [digests |-> {Ours}, name |-> "app", tag |-> tag]

LOCAL Id(form, digest, name, tag, place) ==
    [form |-> form, digest |-> digest, name |-> name, tag |-> tag, place |-> place, key |-> ""]
LOCAL Purl(digest, tag) == Id("oci", digest, "app", tag, TRUE)
LOCAL NamedPackage(key) == [Id("package", NoDigest, "", "", TRUE) EXCEPT !.key = key]
LOCAL Component(ids, hashes) == [ids |-> ids, hashes |-> hashes, subs |-> {}]

\* One product, or two, of a statement.
LOCAL ProductSets ==
    {{Component(<<Purl(Ours, "")>>, {})}, {Component(<<Purl(NoDigest, "v1")>>, {})},
     {Component(<<Purl(NoDigest, "v2")>>, {})}, {Component(<<Purl(Theirs, "")>>, {})},
     {Component(<<Purl(NoDigest, "v1")>>, {Theirs})}, {Component(<<Purl(NoDigest, "")>>, {Other512})},
     {Component(<<Id("oci", NoDigest, "app", "", FALSE)>>, {})},
     {Component(<<NamedPackage("p@1")>>, {})},
     {Component(<<Purl(NoDigest, "v2")>>, {}), Component(<<NamedPackage("p@1")>>, {})}}

LOCAL Statements(statuses, times) ==
    {[vuln |-> "cve", status |-> s, products |-> ps, time |-> t, reason |-> TRUE] :
        s \in statuses, ps \in ProductSets, t \in times}

LOCAL NoBom == [deep |-> FALSE, components |-> <<>>, vulns |-> {}]
LOCAL OpenVEX(time, stmts) ==
    [bound |-> TRUE, format |-> "openvex", time |-> time, statements |-> stmts, bom |-> NoBom]

\* Two statements that are dated apart or together, then a third one.
LOCAL OpenCases ==
    {<<OpenVEX(1, <<s, t>>), OpenVEX(0, <<u>>)>> :
        s \in Statements({"affected", "fixed"}, {2}),
        t \in Statements({"under_investigation", "not_affected"}, {1, 2}),
        u \in Statements({"affected"}, {2}) \union Statements({"not_affected"}, {0})}

\* One entry of a CycloneDX document about each kind of component.
LOCAL Bom(state, c) ==
    [deep |-> FALSE, components |-> [r \in {"c"} |-> c],
     vulns |-> {[vuln |-> "cve", state |-> state, reason |-> TRUE,
                 affects |-> {[ref |-> "c", id |-> NamedPackage("c")]}]}]

LOCAL CDXCases ==
    {<<[bound |-> b, format |-> f, time |-> 0, statements |-> <<>>, bom |-> Bom(state, c)],
       OpenVEX(1, <<s>>)>> :
        b \in BOOLEAN, f \in {"cyclonedx", "empty", "unknown"},
        state \in {"", "exploitable", "in_triage", "not_affected", "?"},
        c \in {[purl |-> Purl(Theirs, ""), container |-> FALSE, hashes |-> {}, subject |-> TRUE],
               [purl |-> Purl(NoDigest, "v2"), container |-> FALSE, hashes |-> {}, subject |-> FALSE],
               [purl |-> Id("", NoDigest, "", "", TRUE), container |-> TRUE, hashes |-> {Theirs},
                subject |-> FALSE]},
        s \in Statements({"affected", "not_affected"}, {1, 9})}

VexInputs ==
    [about : {"vex"}, docs : OpenCases, tag : {"v1"}, policy : {"deny"}]
        \union [about : {"vex"}, docs : CDXCases, tag : {""}, policy : {"warn"}]

VexHolds(in) ==
    /\ VexIsOrderFree(in.docs, VexImage(in.tag), in.policy, 5)
    /\ ForeignResolvesNothing(in.docs, VexImage(in.tag), in.policy, 5)

-----------------------------------------------------------------------------
(* Documents, license graphs and findings for the SBOM check.               *)

LOCAL Tok(kind, base, later) == [kind |-> kind, base |-> base, orLater |-> later]
LOCAL MIT == Tok("id", "mit", FALSE)
LOCAL GPL == Tok("id", "gpl", FALSE)
LOCAL GPLLater == Tok("id", "gpl", TRUE)
LOCAL Expr(tokens, joined) == [expression |-> TRUE, tokens |-> tokens, joined |-> joined]

LOCAL Licenses ==
    {{}, {Expr(<<MIT>>, <<>>)}, {Expr(<<GPLLater>>, <<>>)},
     {Expr(<<MIT, Tok("with", "", FALSE), GPL>>, <<>>)},
     {Expr(<<Tok("id", "gp", FALSE), Tok("id", "l", FALSE)>>, <<GPL>>)},
     {Expr(<<GPLLater, Tok("with", "", FALSE), Tok("exception", "x", FALSE)>>, <<>>)},
     {[expression |-> FALSE, tokens |-> <<Tok("id", "gpl or so", FALSE)>>, joined |-> <<>>]}}

LOCAL P(valid, path, version) ==
    [valid |-> valid, typ |-> "npm", path |-> path, version |-> version, qualifiers |-> {}]

LOCAL Pkg(purls, name, version, licenses, sums) ==
    [purls |-> purls, name |-> name, version |-> version, licenses |-> licenses, refs |-> {},
     checksums |-> sums, kind |-> "library", subject |-> FALSE, lockFile |-> FALSE]

LOCAL NoSums == [a \in {} |-> 0]
LOCAL Sum(v) == [a \in {"sha256"} |-> v]
LOCAL One == Pkg(<<P(TRUE, <<"a">>, <<1>>)>>, "a", <<1>>, {Expr(<<MIT>>, <<>>)}, NoSums)

LOCAL Raw == [bound |-> TRUE, bom |-> FALSE, subject |-> FALSE, deep |-> FALSE,
              subjectLicenses |-> {}, graph |-> [e \in {} |-> 0], listedLicenses |-> {"mit"}, spdx3 |-> <<>>, spdx2 |-> <<>>,
              components |-> <<>>, vulns |-> {}]

LOCAL NoDrift == [maxAdded |-> NoThreshold, maxRemoved |-> NoThreshold,
                  maxModified |-> NoThreshold, maxScore |-> NoThreshold]

LOCAL Pol == [formats |-> {}, denyLicense |-> {}, allowLicense |-> {}, denyComponent |-> {},
              allowComponent |-> {}, cvss |-> FALSE, drift |-> NoDrift,
              limits |-> [maxScore |-> NoThreshold, minSeverity |-> "", ignoreCVEs |-> {}]]

\* One package, in each of the formats or in two at once, against the lists.
LOCAL ListCases ==
    LET pkgs == {Pkg(u, "a", <<1>>, l, NoSums) :
                    u \in {<<>>, <<P(TRUE, <<"ns", "a">>, <<1, 2>>)>>, <<P(FALSE, <<"ns", "a">>, <<1>>)>>},
                    l \in Licenses}
        more == {[One EXCEPT !.purls = <<@[1], P(TRUE, <<"ns", "a">>, <<1>>)>>],
                 [One EXCEPT !.licenses = {}, !.refs = {"e0"}],
                 [One EXCEPT !.purls = <<>>, !.subject = TRUE],
                 [One EXCEPT !.purls = <<>>, !.version = <<>>, !.kind = "application", !.licenses = {}],
                 [One EXCEPT !.purls = <<>>, !.kind = "application", !.lockFile = TRUE],
                 [One EXCEPT !.purls = <<>>, !.kind = "file", !.licenses = {}]}
        graph == [e \in {"e0"} |-> [is |-> "orLater", of |-> {"gpl"}, license |-> Listed(MIT)]]
        docs == {[Raw EXCEPT !.spdx2 = <<p>>] : p \in more} \union {[Raw EXCEPT !.components = <<p>>] : p \in more}
                \union {[Raw EXCEPT !.spdx3 = <<p>>, !.graph = graph, !.listedLicenses = {"gpl"}] : p \in more}
                \union UNION {{[Raw EXCEPT !.spdx2 = <<p>>], [Raw EXCEPT !.spdx3 = <<One>>, !.components = <<p>>],
                        [Raw EXCEPT !.components = <<One, p>>, !.deep = TRUE, !.spdx2 = <<One>>],
                        [Raw EXCEPT !.subject = TRUE, !.bom = TRUE, !.subjectLicenses = p.licenses],
                        [Raw EXCEPT !.components = <<p>>, !.bound = FALSE]}
                           : p \in pkgs}
        entry(path, version) == [valid |-> TRUE, typ |-> "npm", path |-> path, version |-> version, qualifiers |-> {}]
        pols == {[Pol EXCEPT !.denyLicense = d, !.allowLicense = a, !.denyComponent = c,
                             !.allowComponent = k] :
                    d \in {{}, {[base |-> "gpl", orLater |-> FALSE]}},
                    a \in {{}, {[base |-> "mit", orLater |-> FALSE], [base |-> "gpl", orLater |-> FALSE]}},
                    c \in {{}, {entry(<<"ns">>, <<>>)}, {entry(<<"ns", "a">>, <<1>>)}},
                    k \in {{}, {entry(<<>>, <<>>)}, {[entry(<<>>, <<>>) EXCEPT !.valid = FALSE]}}}
    IN  [about : {"sbom"}, docs : {<<d>> : d \in docs} \union {<<[Raw EXCEPT !.bom = TRUE], d>> : d \in docs},
         baselines : {<<>>}, pol : pols]

\* Findings in an SBOM, next to another document.
LOCAL Ratings == {{}, {[score |-> 70, severity |-> ""]}, {[score |-> 39, severity |-> "high"]},
                  {[score |-> NoScore, severity |-> "low"]}, {[score |-> 120, severity |-> "?"]}}
LOCAL Findings == [id : {"cve1"}, ratings : Ratings, state : {"", "resolved", "not_affected"},
                   reason : BOOLEAN]
LOCAL Other == [id |-> "cve2", ratings |-> {[score |-> 10, severity |-> ""]}, state |-> "", reason |-> FALSE]

LOCAL FindingCases ==
    LET docs == {[Raw EXCEPT !.vulns = vs, !.bom = TRUE, !.subject = s, !.components = c] :
                    vs \in {{f, Other} : f \in Findings} \union {{f} : f \in Findings},
                    s \in BOOLEAN, c \in {<<>>, <<One>>}}
        pols == {[Pol EXCEPT !.cvss = c, !.limits = [maxScore |-> m, minSeverity |-> s, ignoreCVEs |-> i],
                             !.formats = f] :
                    c \in BOOLEAN, m \in {NoThreshold, 69}, s \in {"", "high", "low", "severe"},
                    i \in {{}, {"cve1"}}, f \in {{}, {"SPDX"}}}
    IN  [about : {"sbom"}, docs : {<<d>> : d \in docs}, baselines : {<<>>}, pol : pols]

\* Inventories and baselines of up to two packages.
LOCAL DriftCases ==
    LET pkgs == {One, [One EXCEPT !.checksums = Sum(1)], [One EXCEPT !.checksums = Sum(2)],
                 Pkg(<<P(TRUE, <<"a">>, <<2>>)>>, "a", <<2>>, {}, Sum(1)),
                 Pkg(<<P(TRUE, <<"b">>, <<1>>)>>, "b", <<1>>, {}, NoSums),
                 Pkg(<<>>, "a", <<1>>, {}, NoSums), Pkg(<<>>, "a", <<2>>, {}, NoSums),
                 Pkg(<<P(FALSE, <<"a">>, <<1>>)>>, "a", <<1>>, {}, NoSums)}
        inventories == {<<p>> : p \in pkgs} \union {<<p, q>> : p, q \in pkgs}
    IN  [about : {"sbom"}, docs : {<<[Raw EXCEPT !.components = c]>> : c \in inventories},
         baselines : {<<[Raw EXCEPT !.spdx2 = b]>> : b \in {<<One>>, <<One, One>>} \union inventories}
                         \union {<<>>, <<Raw>>},
         pol : {[Pol EXCEPT !.drift.maxAdded = 0]}]

\* Every graph of three license elements.
LOCAL Elements ==
    [is : {"members"}, of : {{"e1", "e2"}, {"e2", "gone"}, {"e0", "e1"}, {"mit", "NoAssertionLicense"}},
     license : {Listed(MIT)}]
        \union [is : {"orLater", "with"}, of : {{"e1"}, {"e2"}, {"e0"}}, license : {Listed(MIT)}]
        \union [is : {"license"}, of : {{}}, license : {Listed(MIT), Expr(<<GPL, MIT>>, <<>>)}]
        \union [is : {"unnamed"}, of : {{}}, license : {Listed(MIT)}]
LOCAL GraphCases == [about : {"licenses"}, graph : [{"e0", "e1", "e2"} -> Elements]]

LOCAL RatingCases ==
    [about : {"findings"},
     finding : [id : {"cve1"}, ratings : {r \union s : r, s \in Ratings}],
     rating : [score : {NoScore, 0, 39, 40, 89, 90, 100, 101}, severity : {"", "none", "low", "important"}],
     limits : [maxScore : {NoThreshold, 0, 39, 69}, minSeverity : {"", "medium", "critical"},
               ignoreCVEs : {{}}]]

SbomInputs == ListCases \union FindingCases \union DriftCases
LicenseInputs == GraphCases
FindingInputs == RatingCases

SbomHolds(in) ==
    /\ SplittingHidesNothing(in.docs[1], Tail(in.docs), in.baselines, in.pol)
    /\ DeniedNeverPasses(in.docs, in.baselines, in.pol)
    /\ \A i \in DOMAIN in.baselines :
          DriftIsAccounted(cyclonedxFromRaw(in.docs[1]).packages, spdxFromRaw(in.baselines[i]).packages)

LicensesHold(in) == GraphHidesNothing(in.graph, "e0", {"mit"}, 4)

FindingsHold(in) ==
    /\ RatingsOnlyRaise(in.finding, in.rating, in.limits)
    /\ \A s \in {"low", "medium", "high", "critical"} : ThresholdsAgree(in.finding, s)

-----------------------------------------------------------------------------
(* The documents over which PredicateRules is checked. *)

LOCAL Name(fold, spelling) == [fold |-> fold, spelling |-> spelling]
LOCAL Names == {Name("ci", 1), Name("ci", 2), Name("os", 1)}
LOCAL Maps == UNION {[ns -> {"a", "b"}] : ns \in SUBSET Names}

PropertyInputs == [about : {"properties"}, docs : [1..3 -> Maps \ {<<>>}]]

LOCAL ScoreLists == {<<[name |-> n, score |-> s]>> : n \in {"license", "review"}, s \in {-1, 4, 8}}
                \union {<<[name |-> "license", score |-> 8], [name |-> n, score |-> 2]>> :
                            n \in {"license", "review"}}
LOCAL Scored == {[repo |-> [name |-> "r", scheme |-> ""], commit |-> <<>>, version |-> "5",
                  date |-> [kind |-> "day", at |-> 0], score |-> s, checks |-> cs] :
                    s \in {-1, 5, 10}, cs \in ScoreLists}

ScoreInputs ==
    [about : {"scores"}, docs : [1..2 -> Scored],
     pol : {[minScore |-> m, checks |-> c, sources |-> {}] :
               m \in {NoThreshold, 5}, c \in {<<>>, [n \in {"license"} |-> 4],
                                              [n \in {"license", "review"} |-> 3]}}]

LOCAL Tokens == {"/", "etc", "tmp", "..", "%2e%2e", "%2f", "%00"}

FileInputs ==
    [about : {"files"}, path : {<<"/">> \o t : t \in UNION {[1..n -> Tokens] : n \in 0..4}},
     file : BOOLEAN]

LOCAL Finding(id, ratings) ==
    [id |-> id, ratings |-> ratings]
LOCAL Rating(method, score, severity) == [method |-> method, score |-> score, severity |-> severity]
LOCAL ScoreRatings == {Rating("cvss", 95, ""), Rating("cvss", 40, ""), Rating("", NoScore, "high"),
                  Rating("", NoScore, "odd"), Rating("epss", 2, ""), Rating("cvss", 0, "none")}
LOCAL Scans == {[scanner |-> "s", specResults |-> TRUE, legacyResults |-> "none", findings |-> fs] :
                  fs \in {{}} \union {{Finding("a", rs)} : rs \in SUBSET ScoreRatings}
                         \union {{Finding("a", {r}), Finding("b", {q})} : r, q \in ScoreRatings}}

ScanInputs ==
    [about : {"scans"}, docs : {<<s, t>> : s \in Scans, t \in {u \in Scans : Cardinality(u.findings) <= 1}},
     limits : {[maxScore |-> m, minSeverity |-> "", ignoreCVEs |-> i] :
                 m \in {NoThreshold, 40, 94}, i \in {{}, {"a"}}}]

LOCAL Attribute == [name : {Name("ci", 1), Name("os", 1)}, target : {"missing", "other"},
                    evidence : {"none", "digest"}]
LOCAL Reports == {[attributes |-> as] : as \in {bs \in SUBSET Attribute : Cardinality(bs) <= 2}}
LOCAL Environments ==
    {[properties |-> ps] : ps \in {qs \in SUBSET [name : Names, value : {"a", "b"}] :
                                      Cardinality(qs) <= 2}}

MetadataInputs ==
    [about : {"metadata"}, reports : {<<r>> : r \in Reports} \union {<<r, q>> : r, q \in Reports},
     environments : {<<[properties |-> {[name |-> Name("ci", 1), value |-> "a"]}]>>},
     pol : [required : SUBSET {"ci"}, forbidden : SUBSET {"os"}, requireEvidence : BOOLEAN]]
    \union
    [about : {"metadata"}, reports : {<<[attributes |-> {}]>>},
     environments : {<<e>> : e \in Environments} \union {<<e, f>> : e, f \in Environments},
     pol : [required : SUBSET {"ci"}, forbidden : SUBSET {"os"}, requireEvidence : {FALSE}]]

LOCAL Paths == {<<"app">>, <<"lib", "app">>, <<"hub", "lib", "app">>, <<"hub", "app">>}

LocationInputs ==
    LET purls == [type : {"oci"}, namespace : {"", "lib"}, name : {"app"}, version : {"1"},
                  repository : {<<>>, <<"hub">>, <<"hub", "lib">>, <<"hub", "lib", "app">>, <<"lib", "app">>}]
    IN  [about : {"locations"},
         release : [hasPurl : {TRUE}, parses : {TRUE}, packageId : {""}, purl : purls],
         location : [repo : {"r", "s"}, branch : {<<>>, <<"main">>, <<"refs", "heads", "main">>},
                     ref : {<<>>, <<"v1">>}],
         pol : {[registries |-> r, requirePackageID |-> FALSE, sources |-> s, level |-> 1] :
                   r \in {{}} \union {{{<<"oci", p, v>>}} : p \in Paths, v \in {"", "1"}},
                   s \in {{}, {[repos |-> {"r"}, pinned |-> FALSE, refs |-> {}]},
                          {[repos |-> {"r"}, pinned |-> TRUE, refs |-> {<<"refs", "heads", "main">>}]}}}]

DayInputs == [about : {"days"}, now : 0..47, offset : -12..14]

RuleInputs ==
    PropertyInputs \union ScoreInputs \union FileInputs \union ScanInputs \union MetadataInputs
        \union LocationInputs \union DayInputs

RuleTags == {"properties", "scores", "files", "scans", "metadata", "locations", "days"}

RulesHold(in) ==
    CASE in.about = "properties" -> PropertyValuesAgree(in.docs)
      [] in.about = "scores" -> WorstScoreCounts(in.docs, in.pol)
      [] in.about = "files" ->
           HiddenFileIsFound([path |-> in.path, file |-> in.file], <<<<"etc">>>>)
      [] in.about = "scans" -> ScansAreSummed(in.docs, in.limits)
      [] in.about = "metadata" -> MetadataMatchesVerdict(in.reports, in.environments, in.pol)
      [] in.about = "locations" -> LocationDecides(in.release, in.location, in.pol)
      [] OTHER -> LocalDayIsPast(in.now, in.offset)
=============================================================================
