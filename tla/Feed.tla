-------------------------------- MODULE Feed --------------------------------
(* From an entry of a vulnerability feed to the containers it concerns      *)
(* (internal/feed): the order of versions, the intervals the events of a    *)
(* range describe, the package specs, and their match against the package   *)
(* URLs the SBOM check recorded (sbom.compactPURLs, finalizeMetadata). A    *)
(* version is its numbers, its prerelease identifiers and its build         *)
(* metadata, or not a semantic version at all; a purl is its segments, with *)
(* the form its name is spelled in.                                         *)
EXTENDS Integers, FiniteSets, Sequences, SequencesExt, TLC

Version(ok, core, pre, build) == [ok |-> ok, core |-> core, pre |-> pre, build |-> build]

NoVersion == Version(FALSE, <<>>, <<>>, "")

-----------------------------------------------------------------------------
(* The order of versions *)

\* Missing minor and patch numbers count as zero.
Core(v, i) == IF i <= Len(v.core) THEN v.core[i] ELSE 0

Sign(n) == CASE n < 0 -> -1 [] n > 0 -> 1 [] OTHER -> 0

\* The sign at the first place where two sequences differ, or else rest.
FirstDifference(n, Cmp(_), rest) ==
    LET differ == {i \in 1..n : Cmp(i) # 0}
    IN  IF differ = {} THEN rest
        ELSE Cmp(CHOOSE i \in differ : \A j \in differ : i <= j)

\* Numbers are below names.
compareIdentifier(l, r) ==
    CASE l.num = r.num -> Sign(l.val - r.val)
      [] l.num -> -1
      [] OTHER -> 1

comparePrerelease(l, r) ==
    LET n == IF Len(l) < Len(r) THEN Len(l) ELSE Len(r)
    IN  CASE l = r -> 0
          [] l = <<>> -> 1
          [] r = <<>> -> -1
          [] OTHER -> FirstDifference(n, LAMBDA i : compareIdentifier(l[i], r[i]), Sign(Len(l) - Len(r)))

\* compareSemver, of two semantic versions.
compareSemver(l, r) ==
    FirstDifference(3, LAMBDA i : Sign(Core(l, i) - Core(r, i)), comparePrerelease(l.pre, r.pre))

versionsEqual(l, r) == IF l.ok /\ r.ok THEN compareSemver(l, r) = 0 ELSE l = r

-----------------------------------------------------------------------------
(* The intervals of a range *)

\* An event opens an interval ("introduced", also at the literal zero) or
\* closes one before ("fixed", "limit") or after ("last") its version.
eventRank(e) == CASE e.kind = "introduced" -> 2 [] e.kind = "last" -> 1 [] OTHER -> 0

compareEvents(l, r) ==
    CASE l.zero \/ r.zero -> IF l.zero = r.zero THEN 0 ELSE IF l.zero THEN -1 ELSE 1
      [] compareSemver(l.version, r.version) # 0 -> compareSemver(l.version, r.version)
      [] OTHER -> eventRank(l) - eventRank(r)

NoBound == [op |-> "", version |-> NoVersion]

lowerBound(e) == IF e.zero THEN NoBound ELSE [op |-> ">=", version |-> e.version]

eventUpperBound(e) == [op |-> IF e.kind = "last" THEN "<=" ELSE "<", version |-> e.version]

sameVersion(l, r) == l.ok /\ r.ok /\ compareSemver(l, r) = 0

\* Mutant: an event that introduces the vulnerability again while it is still
\* there moves the lower bound.
AddEvent_Reopens(b, e) ==
    CASE e.kind = "introduced" -> [b EXCEPT !.open = TRUE, !.lower = lowerBound(e)]
      [] b.open -> [b EXCEPT !.open = FALSE,
                             !.intervals = @ \union {<<b.lower, eventUpperBound(e)>>}]
      [] OTHER -> b

\* intervalBuilder.add: the intervals so far, the one that is open, and a last
\* affected version that waits for one introduced at the same version.
AddEvent(b, e) ==
    LET lower == lowerBound(e)
        upper == eventUpperBound(e)
        same == sameVersion(b.pendingLast, e.version)
        last == [op |-> "<=", version |-> b.pendingLast]
        rest == [b EXCEPT !.pendingLast = NoVersion]
    IN  CASE e.kind = "introduced" /\ b.open -> rest
          [] e.kind = "introduced" /\ same ->
                [rest EXCEPT !.lower = lower, !.intervals = @ \union {<<lower, last>>}]
          [] e.kind = "introduced" -> [rest EXCEPT !.lower = lower, !.open = TRUE]
          [] b.open -> [rest EXCEPT !.open = FALSE, !.intervals = @ \union {<<b.lower, upper>>}]
          [] e.kind = "last" -> [rest EXCEPT !.pendingLast = e.version]
          [] OTHER -> rest

Everything == <<NoBound, NoBound>>

Sortable(events) == \A i \in DOMAIN events : events[i].zero \/ events[i].version.ok

sortEvents(events) == SortSeq(events, LAMBDA l, r : compareEvents(l, r) < 0)

\* A version that is not semantic leaves the events without an order, and the
\* range then covers every version.
semverIntervals(events) ==
    LET start == [intervals |-> {}, lower |-> NoBound, open |-> FALSE, pendingLast |-> NoVersion]
        end == FoldLeft(AddEvent, start, sortEvents(events))
    IN  CASE ~Sortable(events) -> {Everything}
          [] end.open -> end.intervals \union {<<end.lower, NoBound>>}
          [] OTHER -> end.intervals

-----------------------------------------------------------------------------
(* Package specs *)

NoPurl == [typ |-> "", ns |-> "", name |-> "", form |-> "", version |-> NoVersion]

\* Two of the ecosystems: one with a fixed namespace, and one without.
ecosystems == [e \in {"debian", "npm"} |->
                  IF e = "debian" THEN [typ |-> "deb", ns |-> "debian"] ELSE [typ |-> "npm", ns |-> ""]]

purlFromEcosystem(ecosystem, name) ==
    IF ecosystem \in DOMAIN ecosystems
    THEN [NoPurl EXCEPT !.typ = ecosystems[ecosystem].typ, !.ns = ecosystems[ecosystem].ns,
                        !.name = name]
    ELSE NoPurl

basePURL(pkg) ==
    IF pkg.purl # NoPurl THEN pkg.purl ELSE purlFromEcosystem(pkg.ecosystem, pkg.name)

\* The identity of a package leaves out its version and its qualifiers, and
\* does not depend on the form its name is spelled in.
Key(p) == <<p.typ, p.ns, p.name>>

Spec(base, version, interval) ==
    [key |-> Key(base), version |-> version, interval |-> interval]

\* affectedSpecs: one spec for the version of the purl, for each listed version
\* and for each interval; every version when there is none of them, or when a
\* range is of a kind that cannot be evaluated. An entry whose package has no
\* purl, and no ecosystem that maps to one, has no specs.
affectedSpecs(affected) ==
    LET base == basePURL(affected)
        ranges == {affected.ranges[i] : i \in DOMAIN affected.ranges}
        pinned == IF base.version = NoVersion THEN {} ELSE {base.version}
        exact == {Spec(base, v, Everything) : v \in pinned \union affected.versions}
        ranged == {Spec(base, NoVersion, i) :
                    i \in UNION {semverIntervals(r.events) : r \in {q \in ranges : q.evaluable}}}
        all == {Spec(base, NoVersion, Everything)}
    IN  CASE base = NoPurl -> {}
          [] exact \union ranged = {} \/ (\E r \in ranges : ~r.evaluable) -> exact \union ranged \union all
          [] OTHER -> exact \union ranged

\* extractPURLs: an entry that was withdrawn concerns nobody.
extractPURLs(entries) ==
    UNION {affectedSpecs(a) : a \in UNION {e.affected : e \in {f \in entries : ~f.withdrawn}}}

ParseFile(file) == IF file.readable THEN extractPURLs(file.entries) ELSE {}

\* The files that cannot be read are left out.
ParseDir(files) == UNION {ParseFile(f) : f \in files}

-----------------------------------------------------------------------------
(* Matching *)

\* A bound that cannot be compared, also because only the build metadata
\* differs, settles the match in favour of the feed.
known(v, bound) ==
    v.ok /\ bound.version.ok /\ (compareSemver(v, bound.version) = 0 => v.build = bound.version.build)

Satisfies(v, bound) ==
    LET c == compareSemver(v, bound.version)
    IN  CASE bound.op = ">=" -> c >= 0
          [] bound.op = "<=" -> c <= 0
          [] OTHER -> c < 0

\* The bounds are tried in order; the first unknown one matches, the first one
\* that does not hold does not.
SpecMatches(spec, v) ==
    LET bounds == SelectSeq(spec.interval, LAMBDA b : b # NoBound)
        decisive == {i \in DOMAIN bounds : ~known(v, bounds[i]) \/ ~Satisfies(v, bounds[i])}
        first == CHOOSE i \in decisive : \A j \in decisive : i <= j
    IN  CASE v = NoVersion \/ (spec.version = NoVersion /\ bounds = <<>>) -> TRUE
          [] spec.version # NoVersion -> versionsEqual(spec.version, v)
          [] OTHER -> decisive = {} \/ ~known(v, bounds[first])

\* The package itself, and the source package its upstream qualifier names.
matchesKey(specs, key, v) == \E s \in specs : s.key = key /\ SpecMatches(s, v)

\* The source package a package was built from, at the version of the package
\* when the qualifier names none.
Upstream(p) ==
    [p EXCEPT !.name = p.upstream.name,
              !.version = IF p.upstream.version = NoVersion THEN @ ELSE p.upstream.version]

\* A package whose name no spec has is not even parsed, unless it names an
\* upstream.
mayMatch(specs, p) == p.upstream.name # "" \/ p.name \in {s.key[3] : s \in specs}

Matches(specs, p) ==
    /\ mayMatch(specs, p) /\ p.parses
    /\ \/ matchesKey(specs, Key(p), p.version)
       \/ /\ p.upstream.name # "" /\ Key(Upstream(p)) # Key(p)
          /\ matchesKey(specs, Key(Upstream(p)), Upstream(p).version)

\* compactPURL keeps the upstream qualifier only, of a purl that parses.
compactPURL(p) ==
    [p EXCEPT !.qualifiers = {}, !.upstream = IF p.parses THEN @ ELSE [name |-> "", version |-> NoVersion]]

\* What the SBOM check records of the packages: no more than limit purls, and
\* a marker when there were more.
RecordedPURLs(purls, limit) ==
    LET compacted == SetToSeq({compactPURL(p) : p \in purls})
    IN  [purls |-> Range(SubSeq(compacted, 1, IF Len(compacted) < limit THEN Len(compacted) ELSE limit)),
         truncated |-> Len(compacted) > limit]

MatchesAny(specs, recorded) ==
    specs # {} /\ (recorded.truncated \/ \E p \in recorded.purls : Matches(specs, p))

-----------------------------------------------------------------------------
(* Properties *)

\* The order of versions is one: any two versions compare, in opposite ways
\* from either side, it is transitive, and a prerelease comes before its release
\* (compareSemver, comparePrerelease).
VersionsAreOrdered(a, b, c) ==
    /\ compareSemver(a, b) = -compareSemver(b, a)
    /\ compareSemver(a, a) = 0
    /\ compareSemver(a, b) <= 0 /\ compareSemver(b, c) <= 0 => compareSemver(a, c) <= 0
    /\ a.pre # <<>> => compareSemver(a, [a EXCEPT !.pre = <<>>]) < 0

\* A range read off its events without sorting or intervals: the version is at
\* or above one that introduces the vulnerability, and nothing ended it since.
InRange(v, events) ==
    LET E == {events[i] : i \in DOMAIN events}
        AtLeast(l, r) == compareSemver(l, r) >= 0
        From(e) == e.zero \/ AtLeast(v, e.version)
        Ends(i, e) ==
            CASE e.kind \in {"fixed", "limit"} ->
                    (i.zero \/ compareSemver(i.version, e.version) < 0) /\ AtLeast(v, e.version)
              [] e.kind = "last" ->
                    (i.zero \/ AtLeast(e.version, i.version)) /\ compareSemver(v, e.version) > 0
              [] OTHER -> FALSE
    IN  \E i \in E : i.kind = "introduced" /\ From(i) /\ \A e \in E : ~Ends(i, e)

Affects(affected, v) ==
    LET ranges == {affected.ranges[i] : i \in DOMAIN affected.ranges}
        Readable(r) == \A i \in DOMAIN r.events : r.events[i].zero \/ r.events[i].version.ok
    IN  \/ v = NoVersion
        \/ \E w \in affected.versions \union {basePURL(affected).version} :
              w # NoVersion /\ versionsEqual(w, v)
        \/ basePURL(affected).version = NoVersion /\ affected.versions = {} /\ ranges = {}
        \/ \E r \in ranges : ~r.evaluable \/ ~Readable(r) \/ (v.ok /\ InRange(v, r.events))

\* No container is missed: when an entry affects a package of an image, or the
\* source package it was built from, the container is selected for
\* re-verification, whatever the order of the events, the qualifiers of the
\* purl and the number of packages ("Specs err on the side of matching",
\* affectedSpecs; TruncatedMarker).
AffectedIsFound(files, purls, limit) ==
    LET Hit(p, a) ==
            LET base == basePURL(a)
            IN  /\ base.typ = p.typ /\ base.ns = p.ns
                /\ \/ base.name = p.name /\ Affects(a, p.version)
                   \/ /\ p.upstream.name # "" /\ base.name = p.upstream.name
                      /\ base.name # p.name /\ Affects(a, Upstream(p).version)
        entries == UNION {f.entries : f \in {g \in files : g.readable}}
    IN  (\E p \in purls, e \in entries : p.parses /\ ~e.withdrawn /\ \E a \in e.affected : Hit(p, a))
            => MatchesAny(ParseDir(files), RecordedPURLs(purls, limit))

\* Nor is it selected for nothing: a version that is comparable with all the
\* bounds, of a package with a single range whose events are at different
\* versions, only matches when the range covers it.
OthersAreSpared(affected, p) ==
    LET events == affected.ranges[1].events
        Plain(e) == e.zero \/ (e.version.ok /\ known(p.version, [op |-> "", version |-> e.version]))
        apart == \A i, j \in DOMAIN events :
                    i # j => /\ ~(events[i].zero /\ events[j].zero)
                             /\ (~events[i].zero /\ ~events[j].zero)
                                    => compareSemver(events[i].version, events[j].version) # 0
    IN  /\ affected.versions = {} /\ basePURL(affected).version = NoVersion
        /\ Len(affected.ranges) = 1 /\ affected.ranges[1].evaluable /\ p.upstream.name = ""
        /\ p.version # NoVersion /\ events # <<>> /\ apart
        /\ \A i \in DOMAIN events : Plain(events[i])
        /\ semverIntervals(events) # {}
        => (Matches(affectedSpecs(affected), p) => Affects(affected, p.version) /\ p.name = basePURL(affected).name)
=============================================================================
