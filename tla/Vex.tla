-------------------------------- MODULE Vex --------------------------------
(* The VEX check (internal/vex): which identifiers of a document refer to   *)
(* the image (imagematch), how OpenVEX statements of several documents are  *)
(* resolved against each other (openvex), what a CycloneDX document says    *)
(* about the image (cyclonedxvex), and the verdict over all documents.      *)
(*                                                                          *)
(* An image is [digests, name, tag], a digest a pair <<algorithm, value>>;  *)
(* the digests of an image share the algorithm.                             *)
(* An identifier is [form, digest, name, tag, place, key]: form "oci" (an   *)
(* image purl), "package" (any other purl), "reference" (a digest or an     *)
(* image reference with one) or "other"; place says whether its namespace   *)
(* and repository_url fit the image.                                        *)
EXTENDS Integers, Sequences, SequencesExt

NoDigest == <<"", 0>>
NoTag == ""
KindUnrelated == "unrelated"
KindImage == "image"
KindOtherImage == "otherImage"
KindPackage == "package"
StrengthNone == 0
StrengthName == 1
StrengthDigest == 2

-----------------------------------------------------------------------------
(* imagematch *)

nameMatches(img, id) ==
    /\ id.name = img.name /\ id.place
    /\ img.tag = NoTag \/ id.tag = NoTag \/ id.tag = img.tag

NotThis == [kind |-> KindOtherImage, strength |-> StrengthNone]
ByDigestOrNot(img, id) ==
    IF id.digest \in img.digests THEN [kind |-> KindImage, strength |-> StrengthDigest]
                                 ELSE NotThis

\* An image purl is decided by its digest when its version is one.
classifyPURL(img, id) ==
    CASE id.form = "package" -> [kind |-> KindPackage, strength |-> StrengthName]
      [] id.form = "oci" /\ id.digest # NoDigest -> ByDigestOrNot(img, id)
      [] id.form = "oci" /\ id.digest = NoDigest ->
             IF nameMatches(img, id) THEN [kind |-> KindImage, strength |-> StrengthName]
                                     ELSE NotThis

Match(img, id) ==
    CASE id.form \in {"package", "oci"} -> classifyPURL(img, id)
      [] id.form = "reference" /\ id.digest # NoDigest -> ByDigestOrNot(img, id)
      [] OTHER -> [kind |-> KindUnrelated, strength |-> StrengthNone]

ConflictsByDigest(img, id) ==
    /\ id.form \in {"oci", "reference"}
    /\ id.digest # NoDigest /\ id.digest \notin img.digests

MatchLenient(img, id) ==
    IF /\ Match(img, id).kind = KindOtherImage /\ id.form = "oci"
       /\ ~ConflictsByDigest(img, id) /\ id.name = img.name
    THEN [kind |-> KindImage, strength |-> StrengthName]
    ELSE Match(img, id)

TagConflicts(img, id) ==
    id.form = "oci" /\ img.tag # NoTag /\ id.tag # NoTag /\ id.tag # img.tag

MatchesHash(img, hash) == hash \in img.digests

ConflictsByHash(img, hash) ==
    (\E d \in img.digests : d[1] = hash[1]) /\ ~MatchesHash(img, hash)

-----------------------------------------------------------------------------
(* openvex: a component is [ids, hashes, subs], ids a sequence *)

rankResolved == 0
rankUnderInvestigation == 1
rankAffected == 2

statusRank(status) ==
    CASE status \in {"not_affected", "fixed"} -> rankResolved
      [] status = "under_investigation" -> rankUnderInvestigation
      [] OTHER -> rankAffected

\* The strongest image match, else the last package; matches[i] classifies ids[i].
matchComponentIdentifiers(ids, matches) ==
    LET images == {i \in DOMAIN ids : matches[i].kind = KindImage}
        packages == {i \in DOMAIN ids : matches[i].kind = KindPackage}
        None == [kind |-> KindUnrelated, strength |-> StrengthNone, key |-> "",
                 lenientOnly |-> FALSE, tagConflict |-> FALSE]
        last == CHOOSE i \in packages : \A j \in packages : j <= i
    IN  CASE images # {} ->
               [None EXCEPT !.kind = KindImage,
                            !.strength = CHOOSE s \in {matches[i].strength : i \in images} :
                                             \A i \in images : matches[i].strength <= s]
          [] images = {} /\ packages # {} ->
               [None EXCEPT !.kind = KindPackage, !.strength = StrengthName, !.key = ids[last].key]
          [] OTHER -> None

\* A lenient match counts when there is no strict one.
strictOrLenient(strict, loose, tagConflict) ==
    IF strict.kind = KindImage \/ loose.kind # KindImage THEN strict
    ELSE [loose EXCEPT !.lenientOnly = TRUE, !.tagConflict = tagConflict]

identifierMatch(c, img, lenient) ==
    LET strict == [i \in DOMAIN c.ids |-> Match(img, c.ids[i])]
        loose == IF lenient THEN [i \in DOMAIN c.ids |-> MatchLenient(img, c.ids[i])] ELSE strict
    IN  strictOrLenient(matchComponentIdentifiers(c.ids, strict),
                        matchComponentIdentifiers(c.ids, loose),
                        \A i \in DOMAIN c.ids :
                            loose[i].kind = KindImage => TagConflicts(img, c.ids[i]))

hashMatches(c, img) == \E h \in c.hashes : MatchesHash(img, h)
hashConflicts(c, img) == \E h \in c.hashes : ConflictsByHash(img, h)

ByHash(kind, strength) ==
    [kind |-> kind, strength |-> strength, key |-> "", lenientOnly |-> FALSE, tagConflict |-> FALSE]

unlessContradicted(byId, contradicted) ==
    IF contradicted /\ byId.kind = KindImage THEN ByHash(KindOtherImage, StrengthNone) ELSE byId

\* A resolving statement does not apply to a component that carries the hash of
\* another image.
componentMatch(c, img, lenient) ==
    IF hashMatches(c, img) THEN ByHash(KindImage, StrengthDigest)
    ELSE unlessContradicted(identifierMatch(c, img, lenient), ~lenient /\ hashConflicts(c, img))

Scope(image, packages) == [image |-> image, packages |-> packages]
imageScope == Scope(TRUE, {})

\* How the products, each with its match, name the image and its packages.
classifyProducts(how) ==
    LET images == {c \in DOMAIN how : how[c].kind = KindImage}
        packages == {c \in DOMAIN how : how[c].kind = KindPackage}
        strengths == {how[c].strength : c \in images \union packages}
        lenientOnly == images # {} /\ \A c \in images : how[c].lenientOnly
        packageScope == Scope(FALSE, {how[c].key : c \in packages})
    IN  [strength |-> CHOOSE s \in strengths \union {StrengthNone} : \A t \in strengths : t <= s,
         scope |-> IF images # {} THEN imageScope ELSE packageScope,
         subs |-> UNION {c.subs : c \in images \union packages},
         lenientOnly |-> lenientOnly,
         tagConflict |-> lenientOnly /\ \A c \in images : how[c].tagConflict,
         packageScope |-> IF lenientOnly THEN packageScope ELSE Scope(FALSE, {}),
         packageSubs |-> UNION {c.subs : c \in packages}]

matchStatement(stmt, img) ==
    classifyProducts([c \in stmt.products |->
                         componentMatch(c, img, statusRank(stmt.status) > rankResolved)])

\* A not_affected statement needs a reason.
justified(stmt) == stmt.status # "not_affected" \/ stmt.reason

\* statementTime: a statement's own time, else the document's; 0 is no time.
statementTime(stmt, docTime) == IF stmt.time # 0 THEN stmt.time ELSE docTime

\* statementKey
Key(vuln, scope, subs) == [vuln |-> vuln, scope |-> scope, subs |-> subs]

\* Evaluate: the statements of a document that apply, reduced to what
\* precedence needs.
Candidates(doc, img) ==
    LET Applies(stmt) == matchStatement(stmt, img).strength # StrengthNone /\ justified(stmt)
        stmts == SelectSeq(doc.statements, Applies)
        Of(stmt) ==
            LET m == matchStatement(stmt, img)
            IN  [key |-> Key(stmt.vuln, m.scope, m.subs),
                 rank |-> statusRank(stmt.status),
                 time |-> statementTime(stmt, doc.time),
                 strength |-> m.strength, lenient |-> m.lenientOnly, tagConflict |-> m.tagConflict,
                 packageKey |-> Key(stmt.vuln, m.packageScope, m.packageSubs)]
    IN  [i \in DOMAIN stmts |-> Of(stmts[i])]

\* dropSupersededLenientCandidates and addPackageCandidates: a strict statement
\* of the group, or any strict statement about the image for another tag,
\* replaces a lenient one, which then speaks for the packages it names.
dropSupersededLenientCandidates(cands) ==
    LET strict == {c \in ToSet(cands) : ~c.lenient}
        Dropped(c) == /\ c.lenient
                      /\ \/ \E d \in strict : d.key = c.key
                         \/ c.tagConflict /\ \E d \in strict : d.key.scope = imageScope
        Kept(c) == ~Dropped(c)
        ForPackages(c) == Dropped(c) /\ c.packageKey.scope.packages # {}
        moved == SelectSeq(cands, ForPackages)
    IN  SelectSeq(cands, Kept) \o
        [i \in DOMAIN moved |-> [moved[i] EXCEPT !.key = moved[i].packageKey,
                                                 !.lenient = FALSE, !.tagConflict = FALSE]]

NoWinner == [time |-> -1, rank |-> -1]

\* Mutant: among equally recent statements the last one read wins.
newerOrMoreRestrictive_Last(current, cand) ==
    IF cand.time >= current.time THEN [time |-> cand.time, rank |-> cand.rank] ELSE current

newerOrMoreRestrictive(current, cand) ==
    IF cand.time > current.time \/ (cand.time = current.time /\ cand.rank > current.rank)
    THEN [time |-> cand.time, rank |-> cand.rank] ELSE current

\* What only names the image counts when it is not older than what names its
\* digest.
datedRank(digestWinner, nameWinner) ==
    IF nameWinner.time >= digestWinner.time /\ nameWinner.rank > digestWinner.rank
    THEN nameWinner.rank ELSE digestWinner.rank

\* The effective rank of one group, a sequence of candidates.
resolve(group) ==
    LET Undated(c) == c.time = 0
        ByDigest(c) == c.time # 0 /\ c.strength >= StrengthDigest
        ByName(c) == c.time # 0 /\ c.strength < StrengthDigest
        undated == {c.rank : c \in ToSet(SelectSeq(group, Undated))}
        dated == datedRank(FoldLeft(newerOrMoreRestrictive, NoWinner, SelectSeq(group, ByDigest)),
                           FoldLeft(newerOrMoreRestrictive, NoWinner, SelectSeq(group, ByName)))
    IN  CHOOSE r \in undated \union {dated} : \A s \in undated \union {dated} : s <= r

\* What the groups say, a group being the candidates of one key.
summarize(all) ==
    LET keys == {c.key : c \in ToSet(all)}
        Rank(k) == LET InGroup(c) == c.key = k IN resolve(SelectSeq(all, InGroup))
    IN  [affected |-> {k.vuln : k \in {k \in keys : Rank(k) = rankAffected}},
         triage |-> \E k \in keys : Rank(k) = rankUnderInvestigation,
         matched |-> \E k \in keys : k.scope = imageScope \/ Rank(k) > rankResolved]

EvaluateOpenVEX(docs, img) ==
    summarize(dropSupersededLenientCandidates(
        FlattenSeq([i \in DOMAIN docs |-> Candidates(docs[i], img)])))

-----------------------------------------------------------------------------
(* cyclonedxvex: a document is [deep, components, vulns]; components maps   *)
(* each BOM-ref (indexComponent) to [purl, container, hashes, subject]; an  *)
(* entry affects a set of [ref, id], id what a ref outside the BOM says.    *)

Resolved == {"not_affected", "false_positive", "resolved", "resolved_with_pedigree"}

classify(img, id, lenient) == (IF lenient THEN MatchLenient(img, id) ELSE Match(img, id)).kind

componentAffectsImage(c, img, lenient) ==
    CASE c.purl.form # "" ->
           \/ classify(img, c.purl, lenient) # KindOtherImage
           \/ lenient /\ c.subject /\ ~ConflictsByDigest(img, c.purl)
      [] c.purl.form = "" /\ c.container /\ c.hashes # {} ->
           \/ \E h \in c.hashes : MatchesHash(img, h)
           \/ \A h \in c.hashes : ~ConflictsByHash(img, h)
      [] OTHER -> TRUE

refAffectsImage(a, components, img, lenient) ==
    IF a.ref \in DOMAIN components THEN componentAffectsImage(components[a.ref], img, lenient)
    ELSE \/ a.id.form = "bomlink"
         \/ classify(img, a.id, lenient) \in {KindImage, KindPackage}
         \/ /\ classify(img, a.id, lenient) = KindUnrelated
            /\ lenient /\ ~ConflictsByDigest(img, a.id)

\* An entry that affects nothing in particular affects the image.
vulnerabilityAffectsImage(v, components, img) ==
    v.affects = {} \/ \E a \in v.affects :
                          refAffectsImage(a, components, img, v.state \notin Resolved)

\* A document that nests too deep is refused; an entry without a state is no
\* statement; an unknown state counts as affected.
EvaluateCycloneDX(bom, img) ==
    LET stated == {v \in bom.vulns : v.state # ""}
        matched == {v \in stated : /\ vulnerabilityAffectsImage(v, bom.components, img)
                                   /\ v.state # "not_affected" \/ v.reason}
    IN  [error |-> bom.deep /\ bom.vulns # {},
         statements |-> stated # {},
         affected |-> {v.vuln : v \in {v \in matched : v.state \notin Resolved \union {"in_triage"}}},
         triage |-> \E v \in matched : v.state = "in_triage",
         matched |-> matched # {}]

-----------------------------------------------------------------------------
(* The verdict: a document is [bound, format, time, statements, bom], its   *)
(* format as detectFormat finds it.                                         *)

checkTimestamps(doc, now) ==
    \A t \in {doc.time} \union {s.time : s \in ToSet(doc.statements)} : t <= now

\* add: the document fails.
Invalid(doc, img, now) ==
    \/ ~doc.bound
    \/ doc.format = "unknown"
    \/ doc.format = "openvex" /\ ~checkTimestamps(doc, now)
    \/ doc.format = "cyclonedx" /\ EvaluateCycloneDX(doc.bom, img).error

\* add and addCycloneDX: the document says nothing.
notApplicable(doc, img) ==
    \/ doc.format = "empty"
    \/ doc.format = "cyclonedx" /\ ~EvaluateCycloneDX(doc.bom, img).statements

\* handleUnderInvestigation; an empty policy allows, an unknown one denies.
handleUnderInvestigation(policy) ==
    CASE policy \in {"", "allow"} -> "pass" [] policy = "warn" -> "warn" [] OTHER -> "fail"

buildResult(eval, policy) ==
    CASE eval.affected # {} -> "fail"
      [] eval.affected = {} /\ eval.triage -> handleUnderInvestigation(policy)
      [] OTHER -> "pass"

\* The collector's evaluation: OpenVEX documents together, CycloneDX ones each.
Evaluation(docs, img, now) ==
    LET IsOpen(d) == ~Invalid(d, img, now) /\ d.format = "openvex"
        IsCDX(d) == ~Invalid(d, img, now) /\ d.format = "cyclonedx"
        all == {EvaluateOpenVEX(SelectSeq(docs, IsOpen), img)} \union
                   {[affected |-> r.affected, triage |-> r.triage, matched |-> r.matched] :
                       r \in {EvaluateCycloneDX(d.bom, img) : d \in ToSet(SelectSeq(docs, IsCDX))}}
    IN  [affected |-> UNION {r.affected : r \in all},
         triage |-> \E r \in all : r.triage,
         matched |-> \E r \in all : r.matched]

\* VerifyMultiple
Verdict(eval, someInvalid, noVex, policy) ==
    [status |-> CASE someInvalid -> "fail"
                  [] ~someInvalid /\ noVex -> "missing"
                  [] OTHER -> buildResult(eval, policy),
     affected |-> eval.affected, matched |-> eval.matched]

VerifyVEX(docs, img, policy, now) ==
    Verdict(Evaluation(docs, img, now),
            \E i \in DOMAIN docs : Invalid(docs[i], img, now),
            docs # <<>> /\ \A i \in DOMAIN docs : notApplicable(docs[i], img),
            policy)

-----------------------------------------------------------------------------
\* Everything a statement says is about images with other digests.
Foreign(stmt, img) ==
    /\ stmt.products # {}
    /\ \A c \in stmt.products :
           \/ \A i \in DOMAIN c.ids : ConflictsByDigest(img, c.ids[i])
           \/ /\ \E h \in c.hashes : ConflictsByHash(img, h)
              /\ \A i \in DOMAIN c.ids : c.ids[i].form = "oci"
    /\ \A c \in stmt.products : \A h \in c.hashes : ~MatchesHash(img, h)

\* The documents without the statements that resolve something for images
\* with other digests.
WithoutForeign(docs, img) ==
    LET Stays(s) == ~(Foreign(s, img) /\ statusRank(s.status) = rankResolved)
    IN  [i \in DOMAIN docs |-> [docs[i] EXCEPT !.statements = SelectSeq(@, Stays)]]

\* The verdict does not depend on the order of documents and of the
\* statements in them (newerOrMoreRestrictive, dropSupersededLenientCandidates).
VexIsOrderFree(docs, img, policy, now) ==
    LET reversed == Reverse([i \in DOMAIN docs |-> [docs[i] EXCEPT !.statements = Reverse(@)]])
    IN  VerifyVEX(reversed, img, policy, now) = VerifyVEX(docs, img, policy, now)

\* A not_affected or fixed statement about builds with other digests resolves
\* nothing for this image, whatever else the documents say (componentMatch).
ForeignResolvesNothing(docs, img, policy, now) ==
    (\A i \in DOMAIN docs : ~Invalid(docs[i], img, now))
        => VerifyVEX(WithoutForeign(docs, img), img, policy, now) = VerifyVEX(docs, img, policy, now)
=============================================================================
