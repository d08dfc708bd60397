------------------------------ MODULE Remediation ------------------------------
(***************************************************************************)
(* Remediation of running containers: the state machine Verified ->        *)
(* Degraded -> Throttled that the continuous verifier drives, the resource *)
(* updates it sends to the runtime and commits afterwards, and everything  *)
(* that happens to a container in between: in-place resizes, removal, lost *)
(* connections, restarts of the plugin, pre-warming and reloads            *)
(* (internal/plugin/continuous_verifier.go, container_registry.go,         *)
(* prewarm.go and the hooks of plugin.go).                                 *)
(*                                                                         *)
(* The runtime is external: it holds the limits of a container, serialises *)
(* the updates of one container, and calls PostUpdateContainer after each  *)
(* of them. Image digests, metrics and logs are left out: every container  *)
(* here has a known digest.                                                *)
(***************************************************************************)
EXTENDS Throttle

CONSTANTS
    Containers,
    Scenarios,      \* what a behaviour may contain: see Scenario
    Configs,        \* the throttle percentages of the configuration files
    Modes,          \* the remediation modes of the configuration files
    NoResources     \* a nil *api.LinuxResources

consecutiveErrorThreshold == 3

StateVerified == "verified"

StateSkipped == "skipped"

StateDegraded == "degraded"

StateThrottled == "throttled"

VerificationState == {StateVerified, StateSkipped, StateDegraded, StateThrottled}

VARIABLES
    life,       \* runtime: "new", "up" or "gone"
    limits,     \* runtime: the limits in force
    asked,      \* runtime: the limits last requested by the container's owner
    annot,      \* runtime: the original resources annotation, or NoResources
    note,       \* runtime: a PostUpdateContainer call under way, or NoResources
    conn,       \* the NRI stub is set
    tracked,    \* containerRegistry: the ids with an entry
    cs,         \* containerRegistry: the entries
    mode,       \* remediationState.mode
    cfg,        \* remediationState.cfg: the throttle percentages
    scenario,   \* the scenario of this behaviour; never changes
    verdict,    \* what a complete verification of the image says now
    cpc,        \* the continuous verifier: "off", "idle", "verify", "commit"
    trigger,    \* runVerificationCycle: trigger
    cmode,      \* runVerificationCycle: mode
    todo,       \* runVerificationCycle: targets not verified yet
    pend,       \* pendingUpdate per container
    stopping    \* StopContinuousVerifier: "no", "wait" or "release"

runtimeVars == <<life, limits, asked, annot, note>>

registryVars == <<tracked, cs>>

worldVars == <<scenario, verdict>>

cycleVars == <<cpc, trigger, cmode, todo, pend>>

vars == <<runtimeVars, conn, registryVars, mode, cfg, worldVars, cycleVars, stopping>>

Triggers == {"timer", "feed", "policy_change"}

Faults == {"resize", "reconnect", "restart", "lostAnswer"}

AllLimits == [quota : OrNoLimit(Int), shares : OrNoLimit(Int), mem : OrNoLimit(Int)]

\* The containers there are, the limits they are created with or resized to,
\* what starts cycles, and which disturbances happen: in-place resizes, lost
\* connections, restarts of the plugin, and connections that break while an
\* update is answered.
Scenario == [containers : SUBSET Containers, resources : SUBSET AllLimits,
             triggers : SUBSET Triggers, faults : SUBSET Faults]

ASSUME ScenarioAssumption == Scenarios \subseteq Scenario

ContainerState ==
    [state : VerificationState, original : AllLimits \union {NoResources},
     recovered : BOOLEAN, hash : Triggers \union {"none", "prewarm"},
     cooled : BOOLEAN, errors : 0 .. consecutiveErrorThreshold, awaiting : BOOLEAN]

Entry(state, original, recovered, awaiting) ==
    [state |-> state, original |-> original, recovered |-> recovered, hash |-> "none",
     cooled |-> TRUE, errors |-> 0, awaiting |-> awaiting]

NoEntry == Entry(StateVerified, NoResources, FALSE, FALSE)

NoUpdate == [kind |-> "none", limits |-> NoResources]

\* A pending update carries its kind, which decides what commit records, and
\* the limits to set. The trigger hash that a throttle records is the cycle's.
PendingUpdate == {NoUpdate} \union [kind : {"throttle", "rollback", "release"}, limits : AllLimits]

Pending == {c \in Containers : pend[c].kind # "none"}

hasTrustedOriginals(e) == e.original # NoResources /\ ~e.recovered

Init == /\ life = [c \in Containers |-> "new"]
        /\ limits = [c \in Containers |-> NoResources]
        /\ asked = limits
        /\ annot = limits
        /\ note = limits
        /\ conn = FALSE
        /\ tracked = {}
        /\ cs = [c \in Containers |-> NoEntry]
        /\ mode \in Modes
        /\ cfg \in Configs
        /\ scenario \in Scenarios
        /\ verdict \in {v \in [Containers -> {"pass", "fail"}] :
                            \A c \in Containers \ scenario.containers : v[c] = "pass"}
        /\ cpc = IF mode = "disabled" THEN "off" ELSE "idle"
        /\ trigger = "timer"
        /\ cmode = "disabled"
        /\ todo = {}
        /\ pend = [c \in Containers |-> NoUpdate]
        /\ stopping = "no"

-----------------------------------------------------------------------------
(* The runtime and the hooks it calls.                                      *)

\* A container created while the plugin does not take part.
CreateUnseen(c, r) ==
    /\ ~conn
    /\ life[c] = "new"
    /\ life' = [life EXCEPT ![c] = "up"]
    /\ limits' = [limits EXCEPT ![c] = r]
    /\ asked' = [asked EXCEPT ![c] = r]
    /\ UNCHANGED <<annot, note, conn, registryVars, mode, cfg, worldVars, cycleVars, stopping>>

\* CreateContainer: an admitted container is tracked as verified and its
\* limits are recorded in the annotation.
admitVerified(c, r) ==
    /\ conn
    /\ life[c] = "new"
    /\ life' = [life EXCEPT ![c] = "up"]
    /\ limits' = [limits EXCEPT ![c] = r]
    /\ asked' = [asked EXCEPT ![c] = r]
    /\ annot' = [annot EXCEPT ![c] = IF OriginalResourcesAnnotation(r).ok THEN r ELSE NoResources]
    /\ tracked' = tracked \union {c}
    /\ cs' = [cs EXCEPT ![c] = Entry(StateVerified, r, FALSE, FALSE)]
    /\ UNCHANGED <<note, conn, mode, cfg, worldVars, cycleVars, stopping>>

\* CreateContainer without an image reference: admitted unverified, without
\* recorded limits.
admitWithoutDigest(c, r) ==
    /\ conn
    /\ life[c] = "new"
    /\ life' = [life EXCEPT ![c] = "up"]
    /\ limits' = [limits EXCEPT ![c] = r]
    /\ asked' = [asked EXCEPT ![c] = r]
    /\ tracked' = tracked \union {c}
    /\ cs' = [cs EXCEPT ![c] = Entry(StateSkipped, NoResources, FALSE, FALSE)]
    /\ UNCHANGED <<annot, note, conn, mode, cfg, worldVars, cycleVars, stopping>>

\* StopContainer and RemoveContainer.
untrackContainer(c) ==
    /\ conn
    /\ life[c] = "up"
    /\ life' = [life EXCEPT ![c] = "gone"]
    /\ note' = [note EXCEPT ![c] = NoResources]
    /\ tracked' = tracked \ {c}
    /\ cs' = [cs EXCEPT ![c] = NoEntry]
    /\ UNCHANGED <<limits, asked, annot, conn, mode, cfg, worldVars, cycleVars, stopping>>

\* A container ends while the plugin is not connected: Synchronize drops it.
RemoveUnseen(c) ==
    /\ ~conn
    /\ life[c] = "up"
    /\ life' = [life EXCEPT ![c] = "gone"]
    /\ UNCHANGED <<limits, asked, annot, note, conn, registryVars, mode, cfg, worldVars, cycleVars,
                   stopping>>

\* An in-place resize by the container's owner.
Resize(c, r) ==
    /\ "resize" \in scenario.faults
    /\ life[c] = "up"
    /\ note[c] = NoResources
    /\ r # limits[c]
    /\ limits' = [limits EXCEPT ![c] = r]
    /\ asked' = [asked EXCEPT ![c] = r]
    /\ note' = [note EXCEPT ![c] = IF conn THEN r ELSE NoResources]
    /\ UNCHANGED <<life, annot, conn, registryVars, mode, cfg, worldVars, cycleVars, stopping>>

\* recordResourceUpdate: the plugin's own throttle or rollback.
OwnUpdate(c) ==
    LET original == cs[c].original
    IN  \/ note[c] = original
        \/ original # NoResources /\ looksThrottled(note[c], original, cfg)

\* PostUpdateContainer for limits set by somebody else.
ResourcesRecorded(c) ==
    /\ note[c] # NoResources
    /\ c \in tracked
    /\ ~OwnUpdate(c)
    /\ cs' = [cs EXCEPT ![c].original = note[c],
                        ![c].recovered = FALSE,
                        ![c].state = IF @ = StateThrottled THEN StateDegraded ELSE @]
    /\ note' = [note EXCEPT ![c] = NoResources]
    /\ UNCHANGED <<life, limits, asked, annot, conn, tracked, mode, cfg, worldVars, cycleVars, stopping>>

\* PostUpdateContainer for the plugin's own update or an unknown container.
ResourcesIgnored(c) ==
    /\ note[c] # NoResources
    /\ c \notin tracked \/ OwnUpdate(c)
    /\ note' = [note EXCEPT ![c] = NoResources]
    /\ UNCHANGED <<life, limits, asked, annot, conn, registryVars, mode, cfg, worldVars, cycleVars,
                   stopping>>

Disconnect ==
    /\ "reconnect" \in scenario.faults
    /\ conn
    /\ conn' = FALSE
    /\ note' = [c \in Containers |-> NoResources]
    /\ UNCHANGED <<life, limits, asked, annot, registryVars, mode, cfg, worldVars, cycleVars, stopping>>

\* The process ends: everything it held in memory is gone, and a cycle with
\* it. The new process reads the configuration again.
Restart ==
    /\ "restart" \in scenario.faults
    /\ conn' = FALSE
    /\ note' = [c \in Containers |-> NoResources]
    /\ tracked' = {}
    /\ cs' = [c \in Containers |-> NoEntry]
    /\ cpc' = IF mode = "disabled" THEN "off" ELSE "idle"
    /\ todo' = {}
    /\ pend' = [c \in Containers |-> NoUpdate]
    /\ stopping' = "no"
    /\ UNCHANGED <<life, limits, asked, annot, mode, cfg, worldVars, trigger, cmode>>

\* Mutant: a recovered container always starts as verified.
Recovered_Verified(c) ==
    LET trusted == annot[c] # NoResources
    IN  Entry(StateVerified, IF trusted THEN annot[c] ELSE limits[c], ~trusted, TRUE)

\* recoverContainerState and recoveredOriginalResources: the originals come
\* from the annotation, or are the current limits, which are not trusted.
Recovered(c) ==
    LET trusted == annot[c] # NoResources
        original == IF trusted THEN annot[c] ELSE limits[c]
        state == IF trusted /\ looksThrottled(limits[c], original, cfg)
                 THEN StateThrottled ELSE StateVerified
    IN  Entry(state, original, ~trusted, TRUE)

\* Synchronize after a (re)connect: entries of containers that are gone are
\* dropped, containers that are already tracked keep their entry.
Synchronize ==
    LET active == {c \in Containers : life[c] = "up"}
    IN  /\ ~conn
        /\ conn' = TRUE
        /\ tracked' = active
        /\ cs' = [c \in Containers |->
                    IF c \notin active THEN NoEntry
                    ELSE IF c \in tracked THEN cs[c]
                    ELSE Recovered(c)]
        /\ UNCHANGED <<runtimeVars, mode, cfg, worldVars, cycleVars, stopping>>

\* What a complete verification says of an image changes: new attestations,
\* new vulnerabilities, new policies.
VerdictChanges(c) ==
    /\ verdict' = [verdict EXCEPT ![c] = IF @ = "pass" THEN "fail" ELSE "pass"]
    /\ UNCHANGED <<runtimeVars, conn, registryVars, mode, cfg, scenario, cycleVars, stopping>>

\* recordPrewarmResult for a container registered at Synchronize.
PrewarmResult(c) ==
    LET degrades == /\ mode # "disabled"
                    /\ verdict[c] = "fail"
                    /\ cs[c].state = StateVerified
    IN  /\ c \in tracked
        /\ cs[c].awaiting
        /\ cs' = [cs EXCEPT ![c].awaiting = FALSE,
                            ![c].state = IF degrades THEN StateDegraded ELSE @,
                            ![c].hash = IF degrades THEN "prewarm" ELSE @]
        /\ UNCHANGED <<runtimeVars, conn, tracked, mode, cfg, worldVars, cycleVars, stopping>>

-----------------------------------------------------------------------------
(* The continuous verifier.                                                 *)

\* runVerificationCycle. A feed cycle covers the containers whose packages
\* the feed names; any other cycle covers all of them.
CycleBegin(t, S) ==
    /\ cpc = "idle"
    /\ stopping = "no"
    /\ S # {}
    /\ S = tracked \/ (t = "feed" /\ S \subseteq tracked)
    /\ cpc' = "verify"
    /\ trigger' = t
    /\ cmode' = mode
    /\ todo' = S
    /\ UNCHANGED <<runtimeVars, conn, registryVars, mode, cfg, worldVars, pend, stopping>>

Reverify(c) == cpc = "verify" /\ c \in todo /\ todo' = todo \ {c}

\* The context is done: the result is dropped.
ReverifyCancelled(c) ==
    /\ Reverify(c)
    /\ stopping = "wait"
    /\ UNCHANGED <<runtimeVars, conn, registryVars, mode, cfg, worldVars, cpc, trigger, cmode, pend, stopping>>

\* The context is done between two batches: the updates of the earlier
\* batches are dropped as well.
CycleAbandoned ==
    /\ cpc = "verify"
    /\ todo # {}
    /\ stopping = "wait"
    /\ cpc' = "idle"
    /\ todo' = {}
    /\ pend' = [c \in Containers |-> NoUpdate]
    /\ UNCHANGED <<runtimeVars, conn, registryVars, mode, cfg, worldVars, trigger, cmode, stopping>>

\* The verification could not complete, or the container is no longer
\* tracked: nothing changes.
ReverifyIncomplete(c) ==
    /\ Reverify(c)
    /\ UNCHANGED <<runtimeVars, conn, registryVars, mode, cfg, worldVars, cpc, trigger, cmode, pend, stopping>>

\* handleReverifyError. The counter saturates: only the threshold matters.
ReverifyError(c) ==
    LET errors == Min({cs[c].errors + 1, consecutiveErrorThreshold})
    IN  /\ Reverify(c)
        /\ c \in tracked
        /\ cs' = [cs EXCEPT ![c].errors = errors,
                            ![c].state = IF /\ errors >= consecutiveErrorThreshold
                                            /\ @ \in {StateVerified, StateSkipped}
                                         THEN StateDegraded ELSE @]
        /\ UNCHANGED <<runtimeVars, conn, tracked, mode, cfg, worldVars, cpc, trigger, cmode, pend, stopping>>

\* applyStateTransition keeps a container throttled until the runtime has
\* confirmed the rollback.
RollsBack(e) == e.state = StateThrottled /\ hasTrustedOriginals(e)

\* Mutant: the container is verified as soon as its rollback is decided.
ReverifyPass_CommitEarly(c) ==
    /\ Reverify(c)
    /\ c \in tracked
    /\ verdict[c] = "pass"
    /\ cs' = [cs EXCEPT ![c].errors = 0, ![c].awaiting = FALSE, ![c].state = StateVerified]
    /\ pend' = [pend EXCEPT ![c] = IF RollsBack(cs[c])
                                   THEN [kind |-> "rollback", limits |-> restored(cs[c].original)]
                                   ELSE @]
    /\ UNCHANGED <<runtimeVars, conn, tracked, mode, cfg, worldVars, cpc, trigger, cmode, stopping>>

ReverifyPass(c) ==
    /\ Reverify(c)
    /\ c \in tracked
    /\ verdict[c] = "pass"
    /\ cs' = [cs EXCEPT ![c].errors = 0,
                        ![c].awaiting = FALSE,
                        ![c].state = IF RollsBack(cs[c]) THEN @ ELSE StateVerified]
    /\ pend' = [pend EXCEPT ![c] = IF RollsBack(cs[c])
                                   THEN [kind |-> "rollback", limits |-> restored(cs[c].original)]
                                   ELSE @]
    /\ UNCHANGED <<runtimeVars, conn, tracked, mode, cfg, worldVars, cpc, trigger, cmode, stopping>>

\* Mutant: the cooldown is not consulted.
shouldThrottle_NoCooldown(e) ==
    /\ cmode \in {"throttle", "evict"}
    /\ hasTrustedOriginals(e)
    /\ trigger = "timer" \/ e.hash # trigger

shouldThrottle(e) ==
    /\ cmode \in {"throttle", "evict"}
    /\ hasTrustedOriginals(e)
    /\ e.cooled
    /\ trigger = "timer" \/ e.hash # trigger

ReverifyFail(c) ==
    LET e == cs[c]
        degrades == e.state \in {StateVerified, StateSkipped}
    IN  /\ Reverify(c)
        /\ c \in tracked
        /\ verdict[c] = "fail"
        /\ cs' = [cs EXCEPT ![c].errors = 0,
                            ![c].awaiting = FALSE,
                            ![c].state = IF degrades THEN StateDegraded ELSE @,
                            ![c].hash = IF degrades THEN trigger ELSE @]
        /\ pend' = [pend EXCEPT ![c] =
                        IF e.state = StateDegraded /\ shouldThrottle(e)
                        THEN [kind |-> "throttle", limits |-> throttled(e.original, cfg)]
                        ELSE @]
        /\ UNCHANGED <<runtimeVars, conn, tracked, mode, cfg, worldVars, cpc, trigger, cmode, stopping>>

-----------------------------------------------------------------------------
(* applyUpdates: the updates are sent in one call, then committed one by    *)
(* one. The runtime tells the plugin of each update it applied.             *)

Sending == cpc = "verify" /\ todo = {} /\ Pending # {}

\* There is no stub, or the call fails: nothing is applied or committed.
UpdatesFailed ==
    /\ Sending
    /\ pend' = [c \in Containers |-> NoUpdate]
    /\ UNCHANGED <<runtimeVars, conn, registryVars, mode, cfg, worldVars, cpc, trigger, cmode, todo, stopping>>

Apply(S) ==
    /\ S \subseteq {c \in Pending : life[c] = "up" /\ note[c] = NoResources}
    /\ limits' = [c \in Containers |->
                    IF c \in S THEN Updated(limits[c], pend[c].limits) ELSE limits[c]]

\* The runtime applied the updates of S and reported the others as failed.
UpdatesApplied(S) ==
    /\ Sending
    /\ conn
    /\ Apply(S)
    /\ note' = [c \in Containers |-> IF c \in S THEN limits'[c] ELSE note[c]]
    /\ pend' = [c \in Containers |-> IF c \in S THEN pend[c] ELSE NoUpdate]
    /\ cpc' = "commit"
    /\ UNCHANGED <<life, asked, annot, conn, registryVars, mode, cfg, worldVars, trigger, cmode, todo, stopping>>

\* The connection breaks before the answer arrives: the call returns an
\* error although the runtime applied updates.
AnswerLost(S) ==
    /\ "lostAnswer" \in scenario.faults
    /\ Sending
    /\ conn
    /\ S # {}
    /\ Apply(S)
    /\ conn' = FALSE
    /\ note' = [c \in Containers |-> NoResources]
    /\ pend' = [c \in Containers |-> NoUpdate]
    /\ UNCHANGED <<life, asked, annot, registryVars, mode, cfg, worldVars, cpc, trigger, cmode, todo, stopping>>

\* What commit records.
Committed(e, kind) ==
    CASE kind = "throttle" -> [e EXCEPT !.state = StateThrottled, !.cooled = FALSE, !.hash = trigger]
      [] kind = "rollback" -> [e EXCEPT !.state = StateVerified]
      [] kind = "release"  -> [e EXCEPT !.state = StateDegraded]

Commit(c) ==
    /\ cpc = "commit"
    /\ c \in Pending
    /\ cs' = [cs EXCEPT ![c] = IF c \in tracked THEN Committed(@, pend[c].kind) ELSE @]
    /\ pend' = [pend EXCEPT ![c] = NoUpdate]
    /\ UNCHANGED <<runtimeVars, conn, tracked, mode, cfg, worldVars, cpc, trigger, cmode, todo, stopping>>

CycleEnd ==
    /\ cpc \in {"verify", "commit"}
    /\ todo = {}
    /\ Pending = {}
    /\ cpc' = IF stopping = "release" THEN "off" ELSE "idle"
    /\ stopping' = IF stopping = "release" THEN "no" ELSE stopping
    /\ UNCHANGED <<runtimeVars, conn, registryVars, mode, cfg, worldVars, trigger, cmode, todo, pend>>

\* The cooldown of a container elapses.
CooldownElapses(c) ==
    /\ ~cs[c].cooled
    /\ cs' = [cs EXCEPT ![c].cooled = TRUE]
    /\ UNCHANGED <<runtimeVars, conn, tracked, mode, cfg, worldVars, cycleVars, stopping>>

-----------------------------------------------------------------------------
(* Reloads (applyPluginSettings).                                           *)

\* Remediation stays or becomes enabled: a continuous verifier runs.
ReloadEnabled(m, f) ==
    /\ stopping = "no"
    /\ m # "disabled"
    /\ <<m, f>> # <<mode, cfg>>
    /\ mode' = m
    /\ cfg' = f
    /\ cpc' = IF cpc = "off" THEN "idle" ELSE cpc
    /\ UNCHANGED <<runtimeVars, conn, registryVars, worldVars, trigger, cmode, todo, pend, stopping>>

\* Remediation is disabled: StopContinuousVerifier cancels the run and waits.
ReloadDisabled(f) ==
    /\ stopping = "no"
    /\ mode # "disabled"
    /\ mode' = "disabled"
    /\ cfg' = f
    /\ stopping' = "wait"
    /\ UNCHANGED <<runtimeVars, conn, registryVars, worldVars, cycleVars>>

Releasable(c) ==
    /\ c \in tracked
    /\ cs[c].state = StateThrottled
    /\ hasTrustedOriginals(cs[c])

\* releaseThrottledContainers, once the run has returned.
releaseThrottledContainers ==
    /\ stopping = "wait"
    /\ cpc = "idle"
    /\ stopping' = "release"
    /\ cpc' = "verify"
    /\ pend' = [c \in Containers |->
                    IF Releasable(c)
                    THEN [kind |-> "release", limits |-> restored(cs[c].original)]
                    ELSE NoUpdate]
    /\ UNCHANGED <<runtimeVars, conn, registryVars, mode, cfg, worldVars, trigger, cmode, todo>>

-----------------------------------------------------------------------------
RuntimeStep ==
    \/ \E c \in scenario.containers, r \in scenario.resources :
            \/ CreateUnseen(c, r) \/ admitVerified(c, r) \/ admitWithoutDigest(c, r) \/ Resize(c, r)
    \/ \E c \in scenario.containers : untrackContainer(c) \/ RemoveUnseen(c) \/ VerdictChanges(c)
    \/ Disconnect \/ Restart

HookStep ==
    \/ Synchronize
    \/ \E c \in Containers : ResourcesRecorded(c) \/ ResourcesIgnored(c) \/ PrewarmResult(c)

ReverifyStep ==
    \E c \in Containers :
        \/ ReverifyCancelled(c) \/ ReverifyIncomplete(c) \/ ReverifyError(c)
        \/ ReverifyPass(c) \/ ReverifyFail(c)

ApplyStep ==
    \/ UpdatesFailed
    \/ \E S \in SUBSET Containers : UpdatesApplied(S) \/ AnswerLost(S)
    \/ \E c \in Containers : Commit(c)
    \/ CycleEnd

ReloadStep ==
    \/ \E m \in Modes, f \in Configs : ReloadEnabled(m, f)
    \/ \E f \in Configs : "disabled" \in Modes /\ ReloadDisabled(f)
    \/ releaseThrottledContainers

Next ==
    \/ RuntimeStep
    \/ HookStep
    \/ \E t \in scenario.triggers, S \in SUBSET Containers : CycleBegin(t, S)
    \/ ReverifyStep
    \/ CycleAbandoned
    \/ ApplyStep
    \/ \E c \in Containers : CooldownElapses(c)
    \/ ReloadStep

Spec == Init /\ [][Next]_vars

-----------------------------------------------------------------------------
(* Fairness. The ticker fires again and again, the loop and the hooks run   *)
(* until they return, and cooldowns elapse. A registry and a runtime that   *)
(* keep being asked eventually answer completely: outages end.              *)

FairSpec ==
    /\ Spec
    /\ WF_vars(CycleBegin("timer", tracked))
    /\ WF_vars(ReverifyStep \/ CycleAbandoned)
    /\ WF_vars(ApplyStep)
    /\ WF_vars(releaseThrottledContainers)
    /\ WF_vars(Synchronize)
    /\ \A c \in Containers :
        /\ WF_vars(ResourcesRecorded(c) \/ ResourcesIgnored(c))
        /\ WF_vars(CooldownElapses(c))
        /\ SF_vars(ReverifyPass(c) \/ ReverifyFail(c))
        /\ SF_vars(\E S \in SUBSET Containers : c \in S /\ UpdatesApplied(S))

-----------------------------------------------------------------------------
(* Properties.                                                              *)

TypeOK ==
    /\ life \in [Containers -> {"new", "up", "gone"}]
    /\ \A c \in Containers : {limits[c], asked[c], annot[c], note[c]} \subseteq AllLimits \union {NoResources}
    /\ conn \in BOOLEAN
    /\ tracked \subseteq Containers
    /\ \A c \in Containers : cs[c] \in ContainerState
    /\ mode \in Modes /\ cmode \in Modes \union {"disabled"}
    /\ cfg \in Configs
    /\ scenario \in Scenarios
    /\ cpc \in {"off", "idle", "verify", "commit"}
    /\ trigger \in scenario.triggers \union {"timer"}
    /\ todo \subseteq Containers
    /\ \A c \in Containers : pend[c] \in PendingUpdate
    /\ stopping \in {"no", "wait", "release"}

ThrottledForm(r) == {Updated(r, throttled(r, f)) : f \in Configs}

\* No update of the container is applied and not committed, or committed and
\* not reported.
Settled(c) ==
    /\ note[c] = NoResources
    /\ ~(cpc = "commit" /\ c \in Pending)

\* A container whose limits the plugin lowered is known as throttled and its
\* originals are known, so a passing verification rolls it back: no partial
\* failure, cancelled cycle, reload, reconnect or restart leaves a container
\* with lowered limits that the plugin takes for verified or degraded
\* (pendingUpdate commits only what the runtime applied, recoverContainerState
\* recognises what an earlier process did). It needs that the owner does not
\* resize containers and that the answers of the runtime arrive.
ThrottleIsKnown ==
    (scenario.faults \intersect {"resize", "lostAnswer"} = {}) =>
    \A c \in tracked :
        (life[c] = "up" /\ Settled(c) /\ limits[c] # asked[c]) =>
            /\ cs[c].state = StateThrottled
            /\ hasTrustedOriginals(cs[c])
            /\ restored(cs[c].original) = asked[c]

\* A container is throttled out of the degraded state only: an update that is
\* still under way when its container is recovered, released, resized or
\* synchronised again never takes a verified container to throttled
\* (applyStateTransition, commit of throttleUpdate).
DegradedBeforeThrottledStep ==
    \A c \in tracked \intersect tracked' :
        (cs'[c].state = StateThrottled /\ cs[c].state # StateThrottled) =>
            cs[c].state = StateDegraded

DegradedBeforeThrottled == [][DegradedBeforeThrottledStep]_vars

\* Two throttles of a container are a cooldown apart, also when the container
\* recovers, is released or is resized in between (cooldownElapsed reads what
\* the commit of the earlier throttle recorded).
ThrottlesAreSpacedStep ==
    \A c \in tracked :
        (cpc = "verify" /\ cpc' = "commit" /\ pend'[c].kind = "throttle") => cs[c].cooled

ThrottlesAreSpaced == [][ThrottlesAreSpacedStep]_vars

\* Escalation is gradual: degraded before throttled, and a cooldown between two
\* throttles (DegradedBeforeThrottled, ThrottlesAreSpaced).
EscalationIsGradual == DegradedBeforeThrottled /\ ThrottlesAreSpaced

\* A container that keeps passing gets its own limits back, although updates
\* fail, answers are late and cycles are incomplete (applyStateTransition
\* retries a rollback every cycle until it is committed).
PassingIsRestored ==
    \A c \in Containers :
        <>[](life[c] = "up" /\ verdict[c] = "pass") => <>[](life[c] = "up" => limits[c] = asked[c])

\* A container that keeps failing and whose originals are known is throttled
\* once the mode allows it (applyStateTransition escalates every cycle).
FailingIsThrottled ==
    \A c \in Containers :
        <>[](/\ life[c] = "up"
             /\ c \in tracked
             /\ verdict[c] = "fail"
             /\ hasTrustedOriginals(cs[c])
             /\ mode = "throttle") =>
            <>[](life[c] = "up" /\ limits[c] \in ThrottledForm(asked[c]))

\* What a container may use follows its verdict in the end (PassingIsRestored,
\* FailingIsThrottled).
LimitsFollowVerdicts == PassingIsRestored /\ FailingIsThrottled

-----------------------------------------------------------------------------
(* What the documentation and comments say and the code does not keep in    *)
(* every scenario; the README names the scenarios.                          *)

\* "Throttling relative to resources that may already be throttled would
\* stack limits and could never be rolled back correctly." (shouldThrottle):
\* the limits are ones an owner asked for or the throttled form of such limits.
NoStackedThrottle ==
    \A c \in Containers :
        life[c] = "up" =>
            limits[c] \in scenario.resources \union UNION {ThrottledForm(r) : r \in scenario.resources}

\* "A reload that disables remediation stops the continuous verifier and
\* restores the original limits of throttled containers."
\* (docs/operations.md, StopContinuousVerifier)
DisabledIsReleased ==
    cpc = "off" => \A c \in tracked : life[c] = "up" /\ Settled(c) => limits[c] = asked[c]

\* "When verification recovers, the container returns to Verified and its
\* original cgroup limits are restored." (docs/config.md, applyStateTransition)
VerifiedIsRestored ==
    \A c \in tracked :
        (life[c] = "up" /\ Settled(c) /\ cs[c].state = StateVerified /\ hasTrustedOriginals(cs[c])
            /\ ~cs[c].awaiting) => limits[c] = asked[c]

\* "Resources other than the plugin's own throttle or rollback become the
\* container's original resources, so throttling scales from the current
\* resources and a rollback does not undo the resize." (PostUpdateContainer)
RollbackKeepsResizeStep ==
    \A c \in Containers :
        (limits'[c] # limits[c] /\ pend[c].kind = "rollback") => limits'[c] = asked'[c]

RollbackKeepsResize == [][RollbackKeepsResizeStep]_vars

\* "After the first successful non-degraded re-verification, subsequent
\* throttle/recover cycles work normally." (docs/config.md,
\* applyStateTransition)
TrustedAfterPassStep ==
    \A c \in Containers :
        (ReverifyPass(c) /\ cs[c].original # NoResources) => hasTrustedOriginals(cs'[c])

TrustedAfterPass == [][TrustedAfterPassStep]_vars
=============================================================================
