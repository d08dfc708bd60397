----------------------------- MODULE TrustCases -----------------------------
(* The inputs over which the verification of bundles, the provenance check  *)
(* and the feed match are checked, and what holds of each.                  *)
EXTENDS BundleTrust, Provenance, Feed

-----------------------------------------------------------------------------
(* The bundles and configurations over which BundleTrust is checked: keys   *)
(* that share a name or a path, windows that miss a timestamp, key files    *)
(* and roots that cannot be loaded, and roots of overlapping scope.         *)

LOCAL Windows == {[from |-> AnyTime, to |-> AnyTime], [from |-> 1, to |-> 2],
                  [from |-> 2, to |-> AnyTime]}

LOCAL Entry(path, key, loads, w) ==
    [path |-> path, key |-> key, loads |-> loads, from |-> w.from, to |-> w.to]

LOCAL KeySets ==
    {<<>>}
      \union {<<Entry("p1", "k1", l, w)>> : l \in BOOLEAN, w \in Windows}
      \union {<<Entry("p1", "k1", TRUE, w), Entry("p2", "k1", TRUE, v)>> : w, v \in Windows}
      \union {<<Entry("p1", "k1", l, w), Entry("p2", "k2", m, w)>> : l, m \in BOOLEAN, w \in Windows}

LOCAL KeyBundles ==
    [signer : {"key"}, hint : {"k1", "k2"}, genuine : BOOLEAN,
     logs : {{}, {"r1"}, {"r1", "r2"}}, times : {{}, {1}, {1, 3}}, payload : {"statement", "none"}]

LOCAL CertBundles ==
    [signer : {"cert"}, issuer : {"i1", "i2"}, san : {"s1", "s2"}, root : {"r1", "r2"},
     genuine : {TRUE}, logged : BOOLEAN, logs : {{}, {"r1"}}, sct : BOOLEAN,
     times : {{}, {1}}, payload : {"statement"}]

LOCAL Root(name, scopes, keyless) ==
    [name : {name}, issuers : scopes, keyless : keyless, skipSCTs : {name = "r2"}, available : BOOLEAN]

LOCAL Roots(scopes, keyless) ==
    LET R(name) == Root(name, scopes, keyless)
    IN  {<<>>} \union {<<a>> : a \in R("r1")} \union {<<a, b>> : a \in R("r1"), b \in R("r2")}

LOCAL Opts(keys, issuers, sans) ==
    [keys : keys, issuers : issuers, sans : sans, requireLog : BOOLEAN, now : {3}]

TrustInputs ==
    [about : {"trust"}, bundle : KeyBundles, opts : Opts(KeySets, {{}}, {{}}),
     sources : Roots({{}}, {TRUE})]
    \union
    [about : {"trust"}, bundle : CertBundles \union {[signer |-> "unsupported"]},
     opts : Opts({<<>>}, {{}, {"i1"}, {"i1", "i2"}}, {{}, {"s1"}}),
     sources : Roots({{}, {"i1"}}, BOOLEAN)]

-----------------------------------------------------------------------------
(* Provenance statements: Cloud Build and workflow layouts over two         *)
(* repositories, two refs and commits, with up to two dependencies.         *)

LOCAL Heads(n) == [kind |-> "heads", name |-> n, len |-> 0]
LOCAL Tags(n) == [kind |-> "tags", name |-> n, len |-> 0]
LOCAL Commit(n) == [kind |-> "commit", name |-> n, len |-> 40]
LOCAL Uri(repo, git, ref) == [repo |-> repo, git |-> git, ref |-> ref]
LOCAL Param(repo, ref) == [uri |-> Uri(repo, "host", NoRef), ref |-> ref]
LOCAL NoParam == [uri |-> NoUri, ref |-> NoRef]
LOCAL Sha(n, len) == [name |-> n, len |-> len]

LOCAL Digests ==
    {<<>>, [a \in {"gitCommit"} |-> Sha("c1", 40)], [a \in {"gitCommit"} |-> Sha("c2", 40)],
     [a \in {"sha1"} |-> Sha("c2", 40)],
     [a \in {"sha256"} |-> Sha("c3", 64)],
     [a \in {"gitCommit", "sha256"} |-> IF a = "sha256" THEN Sha("c3", 64) ELSE Sha("c1", 40)],
     [a \in {"gitCommit", "sha1"} |-> IF a = "sha1" THEN Sha("c2", 40) ELSE NoValue]}

LOCAL NoTopLevel == [uri |-> NoUri, digests |-> <<>>]

LOCAL Deps ==
    {[uri |-> Uri("a", git, ref), digests |-> d] :
        git \in {"prefix", "no"}, ref \in {NoRef, Heads("v1"), Tags("v1")}, d \in Digests}

LOCAL Att(buildType, params, deps) ==
    [version |-> "v1", bound |-> TRUE, builder |-> "b", signer |-> "s", buildType |-> buildType,
     params |-> params, deps |-> deps, parameters |-> {"source"}, fresh |-> TRUE,
     configSource |-> params.configSource.uri, materials |-> <<params.workflow.uri>>]

LOCAL Refs == {NoRef, Heads("v1"), Tags("v1"), Commit("c1")}

\* Which source is looked at.
LOCAL LayoutCases ==
    {[Att(bt, [workflow |-> w, sourceToBuild |-> s, configSource |-> c,
               source |-> NoTopLevel, ref |-> NoRef], <<>>) EXCEPT !.version = v, !.builder = b] :
        bt \in {BuildTypeGitHubActionsWorkflow, BuildTypeGCBTriggered, "other"},
        w \in {NoParam, Param("a", Heads("v1"))},
        s \in {NoParam} \union {Param(r, ref) : r \in {"a", "b"}, ref \in Refs},
        c \in {NoParam} \union {Param(r, ref) : r \in {"a", "b"}, ref \in Refs},
        v \in {"v1", "v02", "invalid"}, b \in {"b", "unknown"}}

\* What the dependencies say about it.
LOCAL DependencyCases ==
    {Att("other", [workflow |-> NoParam, sourceToBuild |-> NoParam, configSource |-> NoParam,
                   source |-> [uri |-> Uri("a", git, NoRef), digests |-> ds], ref |-> ref], <<d, e>>) :
        git \in {"host", "no"}, ds \in Digests, ref \in Refs, d \in Deps, e \in Deps}

LOCAL Trusting(sources) ==
    [builders |-> {[id |-> "b", signers |-> {"s"}]}, buildTypes |-> {}, sources |-> sources,
     rejectUnknown |-> TRUE, known |-> {"source", "ref"}]

LOCAL Policies ==
    {Trusting({[repos |-> {"a"}, pinned |-> FALSE, refs |-> {}]}),
     Trusting({[repos |-> {"a"}, pinned |-> TRUE, refs |-> {Tags("v1")}],
               [repos |-> {"b"}, pinned |-> TRUE, refs |-> {Heads("v1")}]})}

ProvenanceInputs ==
    [about : {"provenance"}, att : LayoutCases, policy : Policies]
        \union [about : {"provenance"}, att : DependencyCases,
                policy : {[Trusting({}) EXCEPT !.builders = {}]}]

-----------------------------------------------------------------------------
(* Versions, feed entries and package lists for the feed match: releases,   *)
(* a prerelease, build metadata, versions that are not semantic, events in  *)
(* any order, and lists longer than what is recorded.                       *)

LOCAL V(core) == Version(TRUE, core, <<>>, "")
LOCAL Num(n) == [num |-> TRUE, val |-> n]
LOCAL Word(n) == [num |-> FALSE, val |-> n]
LOCAL RC == Version(TRUE, <<2>>, <<Word(1)>>, "")
LOCAL WithBuild == Version(TRUE, <<2, 0>>, <<>>, "b")
LOCAL Odd == Version(FALSE, <<7>>, <<>>, "")

LOCAL Versions ==
    {Version(TRUE, c, p, "") :
        c \in {<<1>>, <<1, 0, 1>>, <<2>>},
        p \in {<<>>, <<Num(1)>>, <<Num(2)>>, <<Word(1)>>, <<Word(1), Num(1)>>}}

VersionInputs == [about : {"versions"}, a : Versions, b : Versions, c : Versions]

VersionsHold(in) == VersionsAreOrdered(in.a, in.b, in.c)

LOCAL Event(kind, zero, version) == [kind |-> kind, zero |-> zero, version |-> version]
LOCAL Events ==
    {Event("introduced", TRUE, NoVersion), Event("introduced", FALSE, V(<<1>>)),
     Event("introduced", FALSE, V(<<2>>)), Event("fixed", FALSE, RC), Event("fixed", FALSE, V(<<2>>)),
     Event("last", FALSE, V(<<1>>)), Event("last", FALSE, V(<<2, 0, 0>>)), Event("limit", FALSE, V(<<3>>))}

LOCAL Purl(name, version, upstream) ==
    [typ |-> "deb", ns |-> "debian", name |-> name, version |-> version, upstream |-> upstream,
     qualifiers |-> {"arch"}, form |-> "upper", parses |-> TRUE]
LOCAL NoUpstream == [name |-> "", version |-> NoVersion]
LOCAL Affected(version, versions, ranges) ==
    [purl |-> IF version = NoVersion THEN NoPurl
              ELSE [typ |-> "deb", ns |-> "debian", name |-> "ssl", form |-> "", version |-> version],
     ecosystem |-> "debian", name |-> "ssl", versions |-> versions, ranges |-> ranges]
LOCAL Range3(events) == <<[evaluable |-> TRUE, events |-> events]>>

LOCAL EventCases ==
    {Affected(NoVersion, {}, Range3(es)) :
        es \in {<<e>> : e \in Events} \union {<<e, f>> : e, f \in Events}
                   \union {<<e, f, g>> : e, f, g \in Events}}

LOCAL OtherCases ==
    {Affected(b, vs, rs) :
        b \in {NoVersion, V(<<1>>)}, vs \in {{}, {V(<<2, 0>>)}, {Odd}},
        rs \in {<<>>, <<[evaluable |-> FALSE, events |-> <<>>]>>,
                Range3(<<Event("introduced", FALSE, Odd)>>),
                Range3(<<Event("introduced", FALSE, V(<<2>>)), Event("fixed", FALSE, V(<<3>>))>>)}}

FeedInputs ==
    [about : {"feed"}, affected : EventCases, version : {V(<<1>>), RC, V(<<2>>), WithBuild, V(<<2, 1>>), V(<<3>>)},
     upstream : {NoUpstream}, withdrawn : {FALSE}]
    \union
    [about : {"feed"}, affected : OtherCases, version : {NoVersion, V(<<1>>), RC, WithBuild, Odd},
     upstream : {NoUpstream, [name |-> "ssl", version |-> NoVersion], [name |-> "ssl", version |-> V(<<2>>)]},
     withdrawn : BOOLEAN]

\* The package is the affected one, or another one that was built from it.
LOCAL Package(in) ==
    Purl(IF in.upstream = NoUpstream THEN "ssl" ELSE "libssl", in.version, in.upstream)

FeedHolds(in) ==
    LET entry == [withdrawn |-> in.withdrawn, affected |-> {in.affected}]
        unmapped == [in.affected EXCEPT !.purl = NoPurl, !.ecosystem = "other"]
        files == {[readable |-> TRUE, entries |-> {entry}],
                  [readable |-> TRUE, entries |-> {[entry EXCEPT !.affected = {unmapped}]}],
                  [readable |-> FALSE, entries |-> {}]}
        broken == [Purl("curl", V(<<1>>), [name |-> "ssl", version |-> NoVersion]) EXCEPT !.parses = FALSE]
        more == {Purl(n, V(<<1>>), NoUpstream) : n \in {"zlib", "bash"}}
    IN  /\ AffectedIsFound(files, {Package(in), broken}, 2)
        /\ AffectedIsFound(files, {Package(in)} \union more, 2)
        /\ OthersAreSpared(in.affected, Package(in))
=============================================================================
