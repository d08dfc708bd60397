----------------------------- MODULE PolicyPoller -----------------------------
(***************************************************************************)
(* OCI policies: the poller that follows a tag (internal/policy/poller.go),*)
(* the fetcher with its rollback guard (internal/policy/oci.go), and the   *)
(* reload that pauses the poller, loads policies itself and starts a new   *)
(* poller or resumes the paused one (internal/verifier/verifier_poller.go, *)
(* verifier_policy_load.go, verifier_reload.go).                           *)
(*                                                                         *)
(* An artifact is what the properties tell apart: the reference it is      *)
(* pushed to, its creation time (0 without the annotation) and whether its *)
(* policies can be extracted and validated.  Its digest is itself.  The    *)
(* registry moves the tag of a reference at any time, between the HEAD and *)
(* the GET of one poll included.                                           *)
(***************************************************************************)
EXTENDS Naturals

CONSTANTS
    Artifacts,      \* records [ref, created, valid]
    Refs,           \* policy.oci_ref
    Configs,        \* records [enabled, source, ref] the reloads apply
    StartConfig,    \* the configuration at startup
    NoArtifact,     \* an empty set of policies
    LocalPolicies,  \* the policies of the policy directory
    NoPoller,
    MaxStaleness,   \* policy.oci_max_staleness in ticks
    MaxReloads      \* bound on the reloads

\* cachedDigest, lastSuccess and the guard of the fetcher; age is the number of
\* ticks since lastSuccess.
Pollers == [ref : Refs, guard : Nat, digest : Artifacts \cup {NoArtifact}, age : Nat]

UsesOCI(cfg) == cfg.enabled /\ cfg.source = "oci"

ASSUME PollerAssumption ==
    /\ \A a \in Artifacts : a.ref \in Refs /\ a.created \in Nat /\ a.valid \in BOOLEAN
    /\ NoArtifact \notin Artifacts /\ LocalPolicies \notin Artifacts \cup {NoArtifact}
    /\ NoPoller \notin Pollers
    /\ \A c \in Configs : c.source \in {"oci", "local"} /\ (UsesOCI(c) => c.ref \in Refs)
    /\ StartConfig \in Configs
    /\ MaxStaleness \in Nat /\ MaxReloads \in Nat

VARIABLES
    tag,        \* the artifact each reference points at
    config,     \* the configuration in force
    policies,   \* the policies in force: an artifact, LocalPolicies or NoArtifact
    poller,     \* the poller object: [ref, guard, digest, age], or NoPoller
    attached,   \* Verifier.poller holds it
    ppc,        \* its loop: "off", "idle", "fetch", "apply", "record"
    fetched,    \* what it fetched
    reloadPc,   \* the reload: "idle", "stopping", "load", "publish", "resume"
    requested,  \* the configuration it applies
    loaded,     \* the policies it loaded
    reloads,
    newest      \* per reference: the newest creation time applied since startup

varsPoller == <<tag, config, policies, poller, attached, ppc, fetched, reloadPc, requested,
                loaded, reloads, newest>>

reloadVars == <<reloadPc, requested, loaded, reloads>>

Larger(a, b) == IF a > b THEN a ELSE b

NewPoller(ref, guard, digest) ==
    [ref |-> ref, guard |-> guard, digest |-> digest, age |-> 0]

Applied(newest0, a) ==
    IF a \in Artifacts THEN [newest0 EXCEPT ![a.ref] = Larger(@, a.created)] ELSE newest0

-----------------------------------------------------------------------------
(* The fetcher.                                                             *)

\* checkRollback: without a guard everything passes; with one, an artifact
\* that is older or lacks the annotation is rejected.
checkRollback(a, guard) == guard = 0 \/ (a.created # 0 /\ a.created >= guard)

\* FetchFromOCI succeeds with the artifact the reference points at.
FetchFromOCI(ref, guard, a) == a = tag[ref] /\ a.valid /\ checkRollback(a, guard)

SeedNewestCreated(guard, created) == Larger(guard, created)

-----------------------------------------------------------------------------
(* Startup: policies that cannot be fetched leave the verifier pending,     *)
(* without policies and with a poller that has no digest.                   *)

InitPoller ==
    /\ tag \in {t \in [Refs -> Artifacts] : \A r \in Refs : t[r].ref = r}
    /\ config = StartConfig
    /\ policies = IF UsesOCI(StartConfig) THEN NoArtifact ELSE LocalPolicies
    /\ poller = IF UsesOCI(StartConfig) THEN NewPoller(StartConfig.ref, 0, NoArtifact) ELSE NoPoller
    /\ attached = (poller # NoPoller)
    /\ ppc = IF poller # NoPoller THEN "idle" ELSE "off"
    /\ fetched = NoArtifact
    /\ reloadPc = "idle"
    /\ requested = StartConfig
    /\ loaded = NoArtifact
    /\ reloads = 0
    /\ newest = [r \in Refs |-> 0]

-----------------------------------------------------------------------------
(* The environment.                                                         *)

MoveTag(r, a) ==
    /\ a.ref = r
    /\ tag' = [tag EXCEPT ![r] = a]
    /\ UNCHANGED <<config, policies, poller, attached, ppc, fetched, reloadVars, newest>>

\* Time passes: lastSuccess ages, up to just over the maximum staleness.
TickPoller ==
    /\ poller # NoPoller
    /\ poller.age <= MaxStaleness
    /\ poller' = [poller EXCEPT !.age = @ + 1]
    /\ UNCHANGED <<tag, config, policies, attached, ppc, fetched, reloadVars, newest>>

-----------------------------------------------------------------------------
(* The poll loop.  A failed HEAD or GET ends the poll and changes nothing   *)
(* but the log; so does a rejected update.                                  *)

\* The HEAD returns the digest in the cache.
PollUnchanged ==
    /\ ppc = "idle"
    /\ tag[poller.ref] = poller.digest
    /\ poller' = [poller EXCEPT !.age = 0]
    /\ UNCHANGED <<tag, config, policies, attached, ppc, fetched, reloadVars, newest>>

\* The HEAD returns another digest.
PollChanged ==
    /\ ppc = "idle"
    /\ tag[poller.ref] # poller.digest
    /\ ppc' = "fetch"
    /\ UNCHANGED <<tag, config, policies, poller, attached, fetched, reloadVars, newest>>

FetchFails ==
    /\ ppc = "fetch"
    /\ ppc' = "idle"
    /\ UNCHANGED <<tag, config, policies, poller, attached, fetched, reloadVars, newest>>

\* The tag is back at the applied artifact.
FetchAlreadyApplied ==
    /\ ppc = "fetch"
    /\ \E a \in Artifacts : FetchFromOCI(poller.ref, poller.guard, a) /\ a = poller.digest
    /\ poller' = [poller EXCEPT !.age = 0]
    /\ ppc' = "idle"
    /\ UNCHANGED <<tag, config, policies, attached, fetched, reloadVars, newest>>

FetchNew ==
    /\ ppc = "fetch"
    /\ \E a \in Artifacts :
        /\ FetchFromOCI(poller.ref, poller.guard, a) /\ a # poller.digest
        /\ fetched' = a
    /\ ppc' = "apply"
    /\ UNCHANGED <<tag, config, policies, poller, attached, reloadVars, newest>>

\* onPolicyUpdate publishes the policies.
onPolicyUpdate ==
    /\ ppc = "apply"
    /\ policies' = fetched
    /\ newest' = Applied(newest, fetched)
    /\ ppc' = "record"
    /\ UNCHANGED <<tag, config, poller, attached, fetched, reloadVars>>

\* onPolicyUpdate rejects them against the configuration in force, or cannot
\* build a snapshot.
onPolicyUpdateRejected ==
    /\ ppc = "apply"
    /\ ppc' = "idle"
    /\ UNCHANGED <<tag, config, policies, poller, attached, fetched, reloadVars, newest>>

\* The guard is raised, the digest and the time are remembered.
RecordApplied ==
    /\ ppc = "record"
    /\ poller' = [poller EXCEPT !.guard = SeedNewestCreated(@, fetched.created),
                                !.digest = fetched, !.age = 0]
    /\ ppc' = "idle"
    /\ UNCHANGED <<tag, config, policies, attached, fetched, reloadVars, newest>>

-----------------------------------------------------------------------------
(* Reload.                                                                  *)

\* stopPoller detaches the poller and cancels its loop.
ReloadBegins(cfg) ==
    /\ reloadPc = "idle"
    /\ reloads < MaxReloads
    /\ reloads' = reloads + 1
    /\ requested' = cfg
    /\ attached' = FALSE
    /\ reloadPc' = "stopping"
    /\ UNCHANGED <<tag, config, policies, poller, ppc, fetched, loaded, newest>>

\* The loop has returned.
PollerStopped ==
    /\ reloadPc = "stopping"
    /\ ppc \in {"off", "idle"}
    /\ ppc' = "off"
    /\ reloadPc' = "load"
    /\ UNCHANGED <<tag, config, policies, poller, attached, fetched, requested, loaded,
                   reloads, newest>>

\* Mutant: the new fetcher starts without a guard.
pollerRollbackSeed_Never(ref) == 0

\* The guard a new fetcher for ref inherits from the stopped poller.
pollerRollbackSeed(ref) ==
    IF poller # NoPoller /\ poller.ref = ref THEN poller.guard ELSE 0

refuseEmptyPolicyReload(cfg, next) ==
    cfg.enabled /\ policies # NoArtifact /\ next = NoArtifact

\* loadAndHashPolicies: nothing while disabled, the directory, or an artifact.
Loadable(cfg, next) ==
    IF ~cfg.enabled THEN next = NoArtifact
    ELSE IF cfg.source = "local" THEN next \in {LocalPolicies, NoArtifact}
    ELSE next \in Artifacts /\ FetchFromOCI(cfg.ref, pollerRollbackSeed(cfg.ref), next)

Load(next) ==
    /\ reloadPc = "load"
    /\ Loadable(requested, next)
    /\ ~refuseEmptyPolicyReload(requested, next)
    /\ loaded' = next
    /\ reloadPc' = "publish"
    /\ UNCHANGED <<tag, config, policies, poller, attached, ppc, fetched, requested,
                   reloads, newest>>

\* Loading, validating or building the fetcher or the snapshot fails.
ReloadFails ==
    /\ reloadPc \in {"load", "publish"}
    /\ reloadPc' = "resume"
    /\ UNCHANGED <<tag, config, policies, poller, attached, ppc, fetched, requested, loaded,
                   reloads, newest>>

\* Mutant: a failed reload leaves the poller stopped.
resumePoller_Forget ==
    /\ reloadPc = "resume"
    /\ reloadPc' = "idle"
    /\ attached' = (poller # NoPoller)
    /\ UNCHANGED <<tag, config, policies, poller, ppc, fetched, requested, loaded,
                   reloads, newest>>

\* The paused poller runs again with its digest, time and guard.
resumePoller ==
    /\ reloadPc = "resume"
    /\ reloadPc' = "idle"
    /\ attached' = (poller # NoPoller)
    /\ ppc' = IF poller # NoPoller THEN "idle" ELSE "off"
    /\ UNCHANGED <<tag, config, policies, poller, fetched, requested, loaded, reloads, newest>>

\* The snapshot is published and, with a policy fetcher, a new poller started.
ReloadPublishes ==
    /\ reloadPc = "publish"
    /\ config' = requested
    /\ policies' = loaded
    /\ newest' = Applied(newest, loaded)
    /\ poller' = IF UsesOCI(requested)
                 THEN NewPoller(requested.ref,
                        SeedNewestCreated(pollerRollbackSeed(requested.ref), loaded.created), loaded)
                 ELSE NoPoller
    /\ attached' = UsesOCI(requested)
    /\ ppc' = IF UsesOCI(requested) THEN "idle" ELSE "off"
    /\ reloadPc' = "idle"
    /\ UNCHANGED <<tag, fetched, requested, loaded, reloads>>

-----------------------------------------------------------------------------
PollerStep == \/ PollUnchanged \/ PollChanged \/ FetchFails \/ FetchAlreadyApplied
              \/ FetchNew \/ onPolicyUpdate \/ onPolicyUpdateRejected \/ RecordApplied

ReloadStep == \/ PollerStopped \/ \E next \in Artifacts \cup {LocalPolicies, NoArtifact} : Load(next)
              \/ ReloadFails \/ resumePoller \/ ReloadPublishes

NextPoller == \/ \E r \in Refs, a \in Artifacts : MoveTag(r, a)
              \/ TickPoller
              \/ PollerStep
              \/ \E cfg \in Configs : ReloadBegins(cfg)
              \/ ReloadStep

SpecPoller == InitPoller /\ [][NextPoller]_varsPoller

\* The poll loop and a reload run on.  A registry that is asked again and again
\* answers sometimes, and so does the snapshot build.
FairPoller ==
    /\ SpecPoller
    /\ WF_varsPoller(ReloadStep)
    /\ WF_varsPoller(PollerStep)
    /\ SF_varsPoller(FetchNew) /\ SF_varsPoller(FetchAlreadyApplied) /\ SF_varsPoller(onPolicyUpdate)

-----------------------------------------------------------------------------
\* The type of every variable; the poller runs only when there is one.
TypeOKPoller ==
    /\ tag \in [Refs -> Artifacts]
    /\ config \in Configs /\ requested \in Configs
    /\ policies \in Artifacts \cup {LocalPolicies, NoArtifact}
    /\ loaded \in Artifacts \cup {LocalPolicies, NoArtifact}
    /\ fetched \in Artifacts \cup {NoArtifact}
    /\ poller \in {NoPoller} \cup Pollers
    /\ poller # NoPoller => poller.age <= MaxStaleness + 1
    /\ attached \in BOOLEAN /\ (attached => poller # NoPoller)
    /\ ppc \in {"off", "idle", "fetch", "apply", "record"}
    /\ reloadPc \in {"idle", "stopping", "load", "publish", "resume"}
    /\ reloads \in 0 .. MaxReloads
    /\ newest \in [Refs -> Nat]

\* Whether it is a poll or a reload that replaces an artifact by another one of
\* the same reference, the new one is not older and does not lack the creation
\* time the old one had (checkRollback, pollerRollbackSeed, stopPoller).
NotOlderStep ==
    policies \in Artifacts /\ policies' \in Artifacts /\ policies'.ref = policies.ref
        => checkRollback(policies', policies.created)

NotOlder == [][NotOlderStep]_varsPoller

\* Between polls, the poller's digest and guard are those of the policies in
\* force: a rejected artifact leaves no trace in either (fetchAndApply).
PollerMatchesPolicies ==
    ppc = "idle" =>
        /\ poller.digest = policies
        /\ poller.guard = IF policies = NoArtifact THEN 0 ELSE policies.created

\* Polls, reloads and rejections never take the policies back, nor leave the
\* poller's memory apart from them (NotOlder, PollerMatchesPolicies).
PoliciesOnlyAdvance == []PollerMatchesPolicies /\ NotOlder

\* An artifact that stays tagged and is acceptable is in force in the end,
\* whatever was rejected before and however many reloads failed (run, poll,
\* resumePoller).
Acceptable(a) == a.valid /\ checkRollback(a, newest[a.ref])

Follows(a) ==
    /\ UsesOCI(config) /\ config.ref = a.ref
    /\ tag[a.ref] = a /\ Acceptable(a)

Converges == \A a \in Artifacts : <>[]Follows(a) => <>(policies = a)

\* A reload with the reference unchanged carries the guard over: the policies in
\* force are never older than the newest artifact of the reference applied since
\* startup (rollback protection in docs/config.md).
NewestSinceStartup ==
    policies \in Artifacts => checkRollback(policies, newest[policies.ref])

\* Ready, with policiesStale: without a current poller nothing is stale.
Ready ==
    /\ config.enabled => policies # NoArtifact
    /\ ~(attached /\ MaxStaleness > 0 /\ poller.age > MaxStaleness)

\* Policies that were not confirmed current for longer than the maximum
\* staleness make the plugin report not ready (policiesStale).
StaleIsNotReady ==
    UsesOCI(config) /\ MaxStaleness > 0 /\ poller # NoPoller /\ poller.age > MaxStaleness
        => ~Ready
=============================================================================
