------------------------- MODULE RemediationProofs --------------------------
(***************************************************************************)
(* Throttles are gradual and can be undone, for any number of containers,  *)
(* cycles and restarts. A container is throttled out of the degraded state *)
(* only, and not again before its cooldown is over, whatever               *)
(* notifications, failed updates, reloads and restarts come between the    *)
(* decision and its commit. And limits the plugin lowered are limits it    *)
(* knows how to restore: there is a lemma for each step that may change    *)
(* what is known of a container, and one that says the others leave it     *)
(* alone.                                                                  *)
(***************************************************************************)
EXTENDS Remediation, TLAPS

\* How long each prover may take for a step.
USE SMTT(30), ZenonT(20)

\* The fields of containerState.
EntryFields == {"state", "original", "recovered", "hash", "cooled", "errors", "awaiting"}

\* The shape of the state, as far as the proofs depend on it: containers are only
\* left to verify while a cycle verifies.
Shape ==
    /\ scenario \in Scenarios /\ cfg \in Configs
    /\ life \in [Containers -> {"new", "up", "gone"}]
    /\ DOMAIN limits = Containers /\ DOMAIN asked = Containers /\ DOMAIN annot = Containers
    /\ DOMAIN note = Containers /\ DOMAIN pend = Containers
    /\ \A c \in Containers : pend[c].kind \in {"none", "throttle", "rollback", "release"}
    /\ DOMAIN cs = Containers /\ \A c \in Containers : DOMAIN cs[c] = EntryFields
    /\ tracked \subseteq Containers
    /\ cpc \in {"off", "idle", "verify", "commit"}
    /\ todo \subseteq Containers /\ (cpc # "verify" => todo = {})

\* The containers and the resources of a scenario are those of the model.
LEMMA Named ==
    ASSUME Shape
    PROVE  /\ scenario.containers \subseteq Containers /\ scenario.resources \subseteq AllLimits
           /\ \A c \in scenario.containers : c \in Containers
BY ScenarioAssumption DEF Shape, Scenario

\* Init has the shape.
LEMMA ShapeStarts == Init => Shape
<1> SUFFICES ASSUME Init PROVE Shape
  OBVIOUS
<1>1. \A c \in Containers : cs[c] = NoEntry /\ DOMAIN cs[c] = EntryFields
  BY DEF Init, NoEntry, Entry, EntryFields
<1> QED BY <1>1 DEF Init, Shape, NoUpdate

\* Every step keeps the shape.
LEMMA ShapeStep == Shape /\ [Next]_vars => Shape'
<1> SUFFICES ASSUME Shape, [Next]_vars PROVE Shape'
  OBVIOUS
<1> USE Named DEF NoUpdate, runtimeVars, registryVars, worldVars, cycleVars
<1>1. ASSUME NEW c \in Containers, NEW r, CreateUnseen(c, r) PROVE Shape'
  BY <1>1 DEF CreateUnseen, Shape
<1>2. ASSUME NEW c \in Containers, NEW r, admitVerified(c, r) PROVE Shape'
  BY <1>2 DEF admitVerified, Shape, Entry, EntryFields
<1>3. ASSUME NEW c \in Containers, NEW r, admitWithoutDigest(c, r) PROVE Shape'
  BY <1>3 DEF admitWithoutDigest, Shape, Entry, EntryFields
<1>4. ASSUME NEW c \in Containers, NEW r, Resize(c, r) PROVE Shape'
  BY <1>4 DEF Resize, Shape
<1>5. ASSUME NEW c \in Containers, untrackContainer(c) PROVE Shape'
  BY <1>5 DEF untrackContainer, Shape, NoEntry, Entry, EntryFields
<1>6. ASSUME NEW c \in Containers, RemoveUnseen(c) PROVE Shape'
  BY <1>6 DEF RemoveUnseen, Shape
<1>7. ASSUME NEW c \in Containers, VerdictChanges(c) PROVE Shape'
  BY <1>7 DEF VerdictChanges, Shape
<1>8. CASE Disconnect
  BY <1>8 DEF Disconnect, Shape
<1>9. CASE Restart
  BY <1>9 DEF Restart, Shape, NoEntry, Entry, EntryFields
<1>10. CASE Synchronize
  BY <1>10 DEF Synchronize, Shape, NoEntry, Recovered, Entry, EntryFields
<1>11. ASSUME NEW c \in Containers, ResourcesRecorded(c) PROVE Shape'
  BY <1>11 DEF ResourcesRecorded, Shape
<1>12. ASSUME NEW c \in Containers, ResourcesIgnored(c) PROVE Shape'
  BY <1>12 DEF ResourcesIgnored, Shape
<1>13. ASSUME NEW c \in Containers, PrewarmResult(c) PROVE Shape'
  BY <1>13 DEF PrewarmResult, Shape
<1>14. ASSUME NEW t, NEW S \in SUBSET Containers, CycleBegin(t, S) PROVE Shape'
  BY <1>14 DEF CycleBegin, Shape
<1>15. ASSUME NEW c \in Containers, ReverifyCancelled(c) \/ ReverifyIncomplete(c) PROVE Shape'
  BY <1>15 DEF ReverifyCancelled, ReverifyIncomplete, Reverify, Shape
<1>16. ASSUME NEW c \in Containers, ReverifyError(c) PROVE Shape'
  BY <1>16 DEF ReverifyError, Reverify, Shape
<1>17. ASSUME NEW c \in Containers, ReverifyPass(c) PROVE Shape'
  BY <1>17 DEF ReverifyPass, Reverify, Shape
<1>18. ASSUME NEW c \in Containers, ReverifyFail(c) PROVE Shape'
  BY <1>18 DEF ReverifyFail, Reverify, Shape
<1>19. CASE CycleAbandoned
  BY <1>19 DEF CycleAbandoned, Shape
<1>20. CASE UpdatesFailed
  BY <1>20 DEF UpdatesFailed, Shape
<1>21. ASSUME NEW S \in SUBSET Containers, UpdatesApplied(S) PROVE Shape'
  BY <1>21 DEF UpdatesApplied, Apply, Sending, Shape
<1>22. ASSUME NEW S \in SUBSET Containers, AnswerLost(S) PROVE Shape'
  BY <1>22 DEF AnswerLost, Apply, Shape
<1>23. ASSUME NEW c \in Containers, Commit(c) PROVE Shape'
  BY <1>23 DEF Commit, Committed, Pending, Shape
<1>24. CASE CycleEnd
  BY <1>24 DEF CycleEnd, Shape
<1>25. ASSUME NEW c \in Containers, CooldownElapses(c) PROVE Shape'
  BY <1>25 DEF CooldownElapses, Shape
<1>26. ASSUME NEW m \in Modes, NEW f \in Configs, ReloadEnabled(m, f) PROVE Shape'
  BY <1>26 DEF ReloadEnabled, Shape
<1>27. ASSUME NEW f \in Configs, ReloadDisabled(f) PROVE Shape'
  BY <1>27 DEF ReloadDisabled, Shape
<1>28. CASE releaseThrottledContainers
  BY <1>28 DEF releaseThrottledContainers, Shape
<1>29. CASE UNCHANGED vars
  BY <1>29 DEF vars, Shape
<1> QED
  BY <1>1, <1>2, <1>3, <1>4, <1>5, <1>6, <1>7, <1>8, <1>9, <1>10, <1>11, <1>12, <1>13, <1>14, <1>15, <1>16,
     <1>17, <1>18, <1>19, <1>20, <1>21, <1>22, <1>23, <1>24, <1>25, <1>26, <1>27, <1>28, <1>29
     DEF Next, RuntimeStep, HookStep, ReverifyStep, ApplyStep, ReloadStep

\* How updates are ordered. One is only pending from the verification of its
\* container to its commit, never before the container exists; a pending throttle
\* means that the container is degraded, and, until the updates are sent, that its
\* cooldown has elapsed.
Orderly(c) ==
    /\ c \in tracked => life[c] # "new"
    /\ pend[c].kind # "none" =>
         /\ cpc \in {"verify", "commit"} /\ c \notin todo
         /\ life[c] # "new" /\ (c \in tracked \/ life[c] = "gone")
    /\ pend[c].kind = "throttle" /\ c \in tracked =>
         /\ cs[c].state = "degraded"
         /\ cpc = "verify" => cs[c].cooled
    /\ life[c] = "new" => note[c] = NoResources /\ annot[c] = NoResources

\* No update is pending at first.
LEMMA OrderlyStarts == Init => \A c \in Containers : Orderly(c)
<1> SUFFICES ASSUME Init, NEW c \in Containers PROVE Orderly(c)
  OBVIOUS
<1>1. tracked = {} /\ pend[c].kind = "none" /\ note[c] = NoResources /\ annot[c] = NoResources
  BY DEF Init, NoUpdate
<1> QED BY <1>1 DEF Orderly

\* Every step keeps the order.
LEMMA OrderlyStep ==
    ASSUME Shape, \A c \in Containers : Orderly(c), [Next]_vars, NEW c \in Containers
    PROVE  Orderly(c)'
<1> USE Named DEF Shape, Orderly, runtimeVars, registryVars, worldVars, cycleVars, StateVerified, StateDegraded,
                  StateSkipped, StateThrottled
<1>1. ASSUME NEW d \in Containers, NEW r, CreateUnseen(d, r) PROVE Orderly(c)'
  BY <1>1 DEF CreateUnseen
<1>2. ASSUME NEW d \in Containers, NEW r, admitVerified(d, r) PROVE Orderly(c)'
  BY <1>2 DEF admitVerified, Entry
<1>3. ASSUME NEW d \in Containers, NEW r, admitWithoutDigest(d, r) PROVE Orderly(c)'
  BY <1>3 DEF admitWithoutDigest, Entry
<1>4. ASSUME NEW d \in Containers, NEW r, Resize(d, r) PROVE Orderly(c)'
  BY <1>4 DEF Resize
<1>5. ASSUME NEW d \in Containers, untrackContainer(d) PROVE Orderly(c)'
  BY <1>5 DEF untrackContainer
<1>6. ASSUME NEW d \in Containers, RemoveUnseen(d) PROVE Orderly(c)'
  BY <1>6 DEF RemoveUnseen
<1>7. ASSUME NEW d \in Containers, VerdictChanges(d) PROVE Orderly(c)'
  BY <1>7 DEF VerdictChanges
<1>8. CASE Disconnect
  BY <1>8 DEF Disconnect
<1>9. CASE Restart
  BY <1>9 DEF Restart, NoUpdate
<1>10. CASE Synchronize
  BY <1>10 DEF Synchronize, Recovered, Entry
<1>11. ASSUME NEW d \in Containers, ResourcesRecorded(d) PROVE Orderly(c)'
  BY <1>11 DEF ResourcesRecorded, EntryFields
<1>12. ASSUME NEW d \in Containers, ResourcesIgnored(d) PROVE Orderly(c)'
  BY <1>12 DEF ResourcesIgnored
<1>13. ASSUME NEW d \in Containers, PrewarmResult(d) PROVE Orderly(c)'
  BY <1>13 DEF PrewarmResult, EntryFields
<1>14. ASSUME NEW t, NEW S \in SUBSET Containers, CycleBegin(t, S) PROVE Orderly(c)'
  BY <1>14 DEF CycleBegin
<1>15. ASSUME NEW d \in Containers, ReverifyCancelled(d) \/ ReverifyIncomplete(d) PROVE Orderly(c)'
  BY <1>15 DEF ReverifyCancelled, ReverifyIncomplete, Reverify
<1>16. ASSUME NEW d \in Containers, ReverifyError(d) PROVE Orderly(c)'
  BY <1>16 DEF ReverifyError, Reverify, EntryFields
<1>17. ASSUME NEW d \in Containers, ReverifyPass(d) PROVE Orderly(c)'
  BY <1>17 DEF ReverifyPass, Reverify, EntryFields
<1>18. ASSUME NEW d \in Containers, ReverifyFail(d) PROVE Orderly(c)'
  BY <1>18 DEF ReverifyFail, Reverify, shouldThrottle, EntryFields
<1>19. CASE CycleAbandoned
  BY <1>19 DEF CycleAbandoned, NoUpdate
<1>20. CASE UpdatesFailed
  BY <1>20 DEF UpdatesFailed, NoUpdate
<1>21. ASSUME NEW S \in SUBSET Containers, UpdatesApplied(S) PROVE Orderly(c)'
  BY <1>21 DEF UpdatesApplied, Apply, Sending, NoUpdate, Pending
<1>22. ASSUME NEW S \in SUBSET Containers, AnswerLost(S) PROVE Orderly(c)'
  BY <1>22 DEF AnswerLost, Apply, NoUpdate
<1>23. ASSUME NEW d \in Containers, Commit(d) PROVE Orderly(c)'
  BY <1>23 DEF Commit, Committed, Pending, NoUpdate, EntryFields
<1>24. CASE CycleEnd
  BY <1>24 DEF CycleEnd, Pending
<1>25. ASSUME NEW d \in Containers, CooldownElapses(d) PROVE Orderly(c)'
  BY <1>25 DEF CooldownElapses, EntryFields
<1>26. ASSUME NEW m \in Modes, NEW f \in Configs, ReloadEnabled(m, f) PROVE Orderly(c)'
  BY <1>26 DEF ReloadEnabled
<1>27. ASSUME NEW f \in Configs, ReloadDisabled(f) PROVE Orderly(c)'
  BY <1>27 DEF ReloadDisabled
<1>28. CASE releaseThrottledContainers
  BY <1>28 DEF releaseThrottledContainers, NoUpdate, Releasable
<1>29. CASE UNCHANGED vars
  BY <1>29 DEF vars
<1> QED
  BY <1>1, <1>2, <1>3, <1>4, <1>5, <1>6, <1>7, <1>8, <1>9, <1>10, <1>11, <1>12, <1>13, <1>14, <1>15,
     <1>16, <1>17, <1>18, <1>19, <1>20, <1>21, <1>22, <1>23, <1>24, <1>25, <1>26, <1>27, <1>28,
     <1>29
     DEF Next, RuntimeStep, HookStep, ReverifyStep, ApplyStep, ReloadStep

\* The inductive invariant of the order of updates.
OrderInv == Shape /\ \A c \in Containers : Orderly(c)

\* It holds in every reachable state.
LEMMA OrderHolds == Spec => []OrderInv
<1>1. Init => OrderInv
  BY ShapeStarts, OrderlyStarts DEF OrderInv
<1>2. OrderInv /\ [Next]_vars => OrderInv'
  <2> SUFFICES ASSUME OrderInv, [Next]_vars PROVE OrderInv'
    OBVIOUS
  <2>1. Shape'
    BY ShapeStep DEF OrderInv
  <2>2. \A c \in Containers : Orderly(c)'
    BY OrderlyStep DEF OrderInv
  <2> QED BY <2>1, <2>2 DEF OrderInv
<1> QED BY <1>1, <1>2, PTL DEF Spec

\* Only a commit makes a container throttled, and then it is degraded.
LEMMA ThrottlesDegraded == OrderInv /\ Next => DegradedBeforeThrottledStep
<1> SUFFICES ASSUME OrderInv, Next, NEW c \in tracked \intersect tracked',
                    cs'[c].state = StateThrottled, cs[c].state # StateThrottled
             PROVE  cs[c].state = StateDegraded
  BY DEF DegradedBeforeThrottledStep
<1> USE Named DEF OrderInv, Shape, Orderly, runtimeVars, registryVars, worldVars, cycleVars, StateVerified,
                  StateDegraded, StateSkipped, StateThrottled
<1>1. c \in Containers /\ cs'[c] # cs[c]
  OBVIOUS
<1>2. ASSUME NEW d \in Containers, NEW r, admitVerified(d, r) \/ admitWithoutDigest(d, r) PROVE FALSE
  BY <1>1, <1>2 DEF admitVerified, admitWithoutDigest
<1>3. ASSUME NEW d \in Containers, untrackContainer(d) PROVE FALSE
  BY <1>1, <1>3 DEF untrackContainer
<1>4. ASSUME Restart \/ Synchronize PROVE FALSE
  BY <1>1, <1>4 DEF Restart, Synchronize
<1>5. ASSUME NEW d \in Containers, ResourcesRecorded(d) PROVE FALSE
  BY <1>1, <1>5 DEF ResourcesRecorded, EntryFields
<1>6. ASSUME NEW d \in Containers, PrewarmResult(d) PROVE FALSE
  BY <1>1, <1>6 DEF PrewarmResult, EntryFields
<1>7. ASSUME NEW d \in Containers, ReverifyError(d) PROVE FALSE
  BY <1>1, <1>7 DEF ReverifyError, EntryFields
<1>8. ASSUME NEW d \in Containers, ReverifyPass(d) PROVE FALSE
  BY <1>1, <1>8 DEF ReverifyPass, EntryFields, RollsBack
<1>9. ASSUME NEW d \in Containers, ReverifyFail(d) PROVE FALSE
  BY <1>1, <1>9 DEF ReverifyFail, EntryFields
<1>10. ASSUME NEW d \in Containers, Commit(d) PROVE cs[c].state = "degraded"
  BY <1>1, <1>10 DEF Commit, Committed, Pending, EntryFields
<1>11. ASSUME NEW d \in Containers, CooldownElapses(d) PROVE FALSE
  BY <1>1, <1>11 DEF CooldownElapses, EntryFields
<1>12. ASSUME RuntimeStep PROVE FALSE
  BY <1>1, <1>2, <1>3, <1>4, <1>12
     DEF RuntimeStep, CreateUnseen, Resize, RemoveUnseen, VerdictChanges, Disconnect
<1>13. ASSUME HookStep PROVE FALSE
  BY <1>1, <1>4, <1>5, <1>6, <1>13 DEF HookStep, ResourcesIgnored
<1>14. ASSUME ReverifyStep PROVE FALSE
  BY <1>1, <1>7, <1>8, <1>9, <1>14 DEF ReverifyStep, ReverifyCancelled, ReverifyIncomplete
<1>15. ASSUME ApplyStep PROVE cs[c].state = "degraded"
  BY <1>1, <1>10, <1>15 DEF ApplyStep, UpdatesFailed, UpdatesApplied, AnswerLost, CycleEnd
<1>16. ASSUME ReloadStep PROVE FALSE
  BY <1>1, <1>16 DEF ReloadStep, ReloadEnabled, ReloadDisabled, releaseThrottledContainers
<1> QED
  BY <1>1, <1>11, <1>12, <1>13, <1>14, <1>15, <1>16 DEF Next, CycleBegin, CycleAbandoned

\* Only UpdatesApplied leads from verifying to committing.
LEMMA ThrottlesCooled == OrderInv /\ Next => ThrottlesAreSpacedStep
<1> SUFFICES ASSUME OrderInv, Next, NEW c \in tracked, cpc = "verify", cpc' = "commit",
                    pend'[c].kind = "throttle"
             PROVE  cs[c].cooled
  BY DEF ThrottlesAreSpacedStep
<1>1. PICK S \in SUBSET Containers : UpdatesApplied(S)
  <2>1. ~RuntimeStep
    BY DEF RuntimeStep, CreateUnseen, admitVerified, admitWithoutDigest, Resize, untrackContainer, RemoveUnseen,
           VerdictChanges, Disconnect, Restart, cycleVars
  <2>2. ~HookStep
    BY DEF HookStep, Synchronize, ResourcesRecorded, ResourcesIgnored, PrewarmResult, cycleVars
  <2>3. ~ReverifyStep
    BY DEF ReverifyStep, Reverify, ReverifyCancelled, ReverifyIncomplete, ReverifyError, ReverifyPass, ReverifyFail
  <2>4. ~ReloadStep
    BY DEF ReloadStep, ReloadEnabled, ReloadDisabled, releaseThrottledContainers, cycleVars
  <2>5. ApplyStep
    BY <2>1, <2>2, <2>3, <2>4 DEF Next, CycleBegin, CycleAbandoned, CooldownElapses, cycleVars
  <2> QED BY <2>5 DEF ApplyStep, UpdatesFailed, AnswerLost, Commit, CycleEnd, cycleVars
<1>2. pend[c].kind = "throttle" /\ c \in Containers
  BY <1>1 DEF UpdatesApplied, NoUpdate, OrderInv, Shape
<1> QED BY <1>2 DEF OrderInv, Orderly

\* A container is throttled out of the degraded state only, and two throttles
\* are a cooldown apart, whatever else happens to it while an update is under
\* way (applyStateTransition, commit of throttleUpdate, cooldownElapsed).
THEOREM ThrottlesAreGradual == Spec => EscalationIsGradual
<1>1. OrderInv /\ [Next]_vars => [DegradedBeforeThrottledStep]_vars /\ [ThrottlesAreSpacedStep]_vars
  BY ThrottlesDegraded, ThrottlesCooled
<1> QED BY <1>1, OrderHolds, PTL
           DEF Spec, EscalationIsGradual, DegradedBeforeThrottled, ThrottlesAreSpaced

-----------------------------------------------------------------------------
(* What is lowered can be restored *)

\* Reloads do not change the percentages of a throttle. Without this a restart
\* under other percentages does not recognise the limits the plugin lowered, which
\* is what the run on VerifiedIsRestored shows.
OnePercentage == \A f, g \in Configs : throttlePercents(f) = throttlePercents(g)

\* A configuration, all of which throttle alike.
AnyConfig == CHOOSE f \in Configs : TRUE

\* The limits of a throttled container.
Lowered(r) == Updated(r, throttled(r, AnyConfig))

\* The scenarios ThrottleIsKnown is about.
Calm == scenario.faults \intersect {"resize", "lostAnswer"} = {}

\* What the arguments below speak of, by name: the limits of a container, those it
\* asked for, those in its annotation and in the notification of an update, the kind
\* and the limits of its pending update, and the originals and the state recorded.
Limits(c) == limits[c]
Asked(c) == asked[c]
Annot(c) == annot[c]
Note(c) == note[c]
Kind(c) == pend[c].kind
Target(c) == pend[c].limits
Original(c) == cs[c].original
State(c) == cs[c].state

\* The limits of a running container are those it asked for or the lowered ones,
\* and the annotation records what lowered ones were.
LimitsKnown(c) ==
    /\ Asked(c) \in AllLimits
    /\ Limits(c) \in {Asked(c), Lowered(Asked(c))}
    /\ Annot(c) \in {NoResources, Asked(c)}
    /\ Limits(c) # Asked(c) => Annot(c) = Asked(c) /\ Annot(c) # NoResources

\* The originals of a tracked container can be relied on.
Trusted(c) == c \in tracked /\ hasTrustedOriginals(cs[c])

\* A container with lowered limits is throttled, or its throttle was sent and is
\* about to be committed.
Throttling(c) == State(c) = "throttled" \/ (cpc = "commit" /\ Kind(c) = "throttle")

\* What the plugin recorded of a running container.
EntryKnown(c) ==
    /\ Trusted(c) => Original(c) = Asked(c) /\ (Annot(c) = Asked(c) \/ Lowered(Asked(c)) = Asked(c))
    /\ c \in tracked /\ Limits(c) # Asked(c) => Trusted(c) /\ Throttling(c)
    /\ Note(c) # NoResources => Trusted(c) /\ Note(c) = Limits(c)

\* What a pending update does, and did once it was sent.
UpdateKnown(c) ==
    /\ Kind(c) # "none" => Trusted(c)
    /\ Kind(c) = "throttle" =>
         Target(c) = throttled(Asked(c), AnyConfig) /\ (cpc = "commit" => Limits(c) = Lowered(Asked(c)))
    /\ Kind(c) \in {"rollback", "release"} =>
         Target(c) = Asked(c) /\ (cpc = "commit" => Limits(c) = Asked(c))

\* What the plugin knows of a running container.
AllKnown(c) == LimitsKnown(c) /\ EntryKnown(c) /\ UpdateKnown(c)

\* It is known of every container that runs.
Known(c) == life[c] = "up" => AllKnown(c)

\* A step leaves the limits of a container alone.
SameLimits(c) == Limits(c)' = Limits(c) /\ Asked(c)' = Asked(c) /\ Annot(c)' = Annot(c)

\* A step leaves alone what is recorded of a container.
SameEntry(c) == (c \in tracked' <=> c \in tracked) /\ (Trusted(c)' <=> Trusted(c)) /\ Original(c)' = Original(c)

\* A step leaves the pending update of a container alone.
SameUpdate(c) == Kind(c)' = Kind(c) /\ Target(c)' = Target(c)

\* A step leaves what is known of a container alone, but for a notification, or an
\* update that was not sent, that it may drop.
Kept(c) ==
    /\ SameLimits(c) /\ SameEntry(c)
    /\ Note(c)' \in {Note(c), NoResources}
    /\ State(c) = "throttled" => State(c)' = "throttled"
    /\ \/ SameUpdate(c) /\ (Kind(c) = "none" \/ (cpc' = "commit" <=> cpc = "commit"))
       \/ Kind(c)' = "none" /\ cpc # "commit"

\* The same of the variables.
Undisturbed(c) ==
    /\ life'[c] = life[c] /\ limits'[c] = limits[c] /\ asked'[c] = asked[c] /\ annot'[c] = annot[c]
    /\ note'[c] \in {note[c], NoResources}
    /\ c \in tracked' <=> c \in tracked
    /\ cs'[c].original = cs[c].original /\ (cs'[c].recovered <=> cs[c].recovered)
    /\ cs[c].state = "throttled" => cs'[c].state = "throttled"
    /\ \/ pend'[c] = pend[c] /\ (pend[c].kind = "none" \/ (cpc' = "commit" <=> cpc = "commit"))
       \/ pend'[c].kind = "none" /\ cpc # "commit"

\* Every configuration throttles alike.
LEMMA Percentages ==
    ASSUME OnePercentage, NEW f \in Configs, NEW r PROVE throttled(r, f) = throttled(r, AnyConfig)
<1>1. AnyConfig \in Configs
  BY DEF AnyConfig
<1>2. throttlePercents(f) = throttlePercents(AnyConfig)
  BY <1>1 DEF OnePercentage
<1> QED BY <1>2 DEF throttled

\* Throttling twice is throttling once, the originals undo a throttle, a throttle
\* that changes something is recognised, and resources without an annotation have
\* nothing to throttle.
LEMMA LimitArithmetic ==
    ASSUME NEW r \in AllLimits
    PROVE  /\ Updated(Lowered(r), throttled(r, AnyConfig)) = Lowered(r)
           /\ Updated(Lowered(r), r) = r /\ Updated(r, r) = r
           /\ Lowered(r) # r => looksThrottled(Lowered(r), r, AnyConfig)
           /\ ~OriginalResourcesAnnotation(r).ok => Lowered(r) = r
<1> DEFINE t == throttled(r, AnyConfig)
           fields == {"quota", "shares", "mem"}
<1>1. DOMAIN r = fields /\ r = [l \in fields |-> r[l]]
  BY DEF AllLimits
<1>2. DOMAIN t = fields /\ \A l \in fields : r[l] = NoLimit => t[l] = NoLimit
  BY <1>1 DEF throttled, ScaledLimit, ScaledShares
<1>3. Lowered(r) = [l \in fields |-> IF t[l] = NoLimit THEN r[l] ELSE t[l]]
  BY <1>1 DEF Lowered, Updated
<1>4. DOMAIN Lowered(r) = fields /\ \A l \in fields : Lowered(r)[l] = IF t[l] = NoLimit THEN r[l] ELSE t[l]
  BY <1>3
<1> HIDE DEF t
<1>5. Updated(Lowered(r), t) = Lowered(r)
  BY <1>3, <1>4 DEF Updated
<1>6. Updated(Lowered(r), r) = r /\ Updated(r, r) = r
  BY <1>1, <1>2, <1>4 DEF Updated
<1>7. ASSUME Lowered(r) # r PROVE looksThrottled(Lowered(r), r, AnyConfig)
  <2>1. PICK l \in fields : Lowered(r)[l] # r[l]
    BY <1>1, <1>3, <1>7
  <2>2. t[l] # NoLimit /\ r[l] # t[l]
    BY <1>4, <2>1
  <2>3. \A k \in fields : t[k] # NoLimit => Lowered(r)[k] = t[k]
    BY <1>4
  <2> QED BY <1>2, <2>2, <2>3 DEF looksThrottled, t
<1>8. ASSUME ~OriginalResourcesAnnotation(r).ok PROVE Lowered(r) = r
  <2>1. \A l \in fields : r[l] = NoLimit
    BY <1>1, <1>8 DEF OriginalResourcesAnnotation
  <2> QED BY <1>1, <1>2, <1>3, <2>1
<1> QED BY <1>5, <1>6, <1>7, <1>8 DEF t

\* recoverContainerState recognises a throttle of any configuration.
LEMMA Recognised ==
    ASSUME OnePercentage, NEW r \in AllLimits, NEW f \in Configs, Lowered(r) # r
    PROVE  looksThrottled(Lowered(r), r, f)
<1>1. throttled(r, f) = throttled(r, AnyConfig)
  BY Percentages
<1>2. looksThrottled(Lowered(r), r, AnyConfig)
  BY LimitArithmetic
<1> QED BY <1>1, <1>2 DEF looksThrottled

\* What recoverContainerState makes of an annotation.
LEMMA RecoveredFacts ==
    ASSUME NEW c
    PROVE  /\ annot[c] = NoResources => Recovered(c).recovered
           /\ annot[c] # NoResources =>
                /\ ~Recovered(c).recovered /\ Recovered(c).original = annot[c]
                /\ looksThrottled(limits[c], annot[c], cfg) => Recovered(c).state = "throttled"
<1>1. CASE annot[c] = NoResources
  <2>1. Recovered(c).recovered = ~(annot[c] # NoResources)
    BY DEF Recovered, Entry
  <2> QED BY <1>1, <2>1
<1>2. CASE annot[c] # NoResources
  <2>1. Recovered(c).recovered = ~(annot[c] # NoResources)
    BY DEF Recovered, Entry
  <2>2. Recovered(c).original = annot[c]
    BY <1>2 DEF Recovered, Entry
  <2>3. looksThrottled(limits[c], annot[c], cfg) => Recovered(c).state = "throttled"
    BY <1>2 DEF Recovered, Entry, StateThrottled
  <2> QED BY <1>2, <2>1, <2>2, <2>3
<1> QED BY <1>1, <1>2

\* The parts of the state that a step leaves alone.
LEMMA UndisturbedIsKept == ASSUME NEW c, Undisturbed(c) PROVE Kept(c)
<1>1. SameLimits(c) /\ Note(c)' \in {Note(c), NoResources}
  BY DEF Undisturbed, SameLimits, Limits, Asked, Annot, Note
<1>2. SameEntry(c) /\ (State(c) = "throttled" => State(c)' = "throttled")
  BY DEF Undisturbed, SameEntry, Trusted, hasTrustedOriginals, Original, State
<1>3. \/ SameUpdate(c) /\ (Kind(c) = "none" \/ (cpc' = "commit" <=> cpc = "commit"))
      \/ Kind(c)' = "none" /\ cpc # "commit"
  BY DEF Undisturbed, SameUpdate, Kind, Target
<1> QED BY <1>1, <1>2, <1>3 DEF Kept

\* What is known of a container that is left alone stays known.
LEMMA KeptIsKnown == ASSUME NEW c, AllKnown(c), Kept(c) PROVE AllKnown(c)'
<1>1. LimitsKnown(c) /\ EntryKnown(c) /\ UpdateKnown(c)
  BY DEF AllKnown
<1>2. LimitsKnown(c)'
  BY <1>1 DEF LimitsKnown, Kept, SameLimits
<1>3. Limits(c) # Asked(c) /\ c \in tracked => Throttling(c)'
  BY <1>1 DEF EntryKnown, Throttling, Kept, SameUpdate
<1>4. EntryKnown(c)'
  BY <1>1, <1>3 DEF EntryKnown, Kept, SameLimits, SameEntry
<1>5. UpdateKnown(c)'
  BY <1>1 DEF UpdateKnown, Kept, SameLimits, SameEntry, SameUpdate
<1> QED BY <1>2, <1>4, <1>5 DEF AllKnown

\* The steps that may change what is known of a container.
Disturbed(c) ==
    \/ \E r \in AllLimits :
         CreateUnseen(c, r) \/ admitVerified(c, r) \/ admitWithoutDigest(c, r) \/ Resize(c, r)
    \/ untrackContainer(c) \/ RemoveUnseen(c) \/ ResourcesRecorded(c)
    \/ ReverifyPass(c) \/ ReverifyFail(c) \/ Commit(c)
    \/ \E S \in SUBSET Containers : UpdatesApplied(S) \/ AnswerLost(S)
    \/ Restart \/ Synchronize \/ releaseThrottledContainers

\* A step of another container leaves this one alone, and a step without a
\* container that only concerns the cycle leaves all of them alone.
LEMMA OthersUndisturbed ==
    ASSUME OrderInv, [Next]_vars, NEW c \in Containers
    PROVE  Undisturbed(c) \/ Disturbed(c)
<1>1. Shape /\ scenario.containers \subseteq Containers /\ scenario.resources \subseteq AllLimits
  BY Named DEF OrderInv
<1> USE <1>1 DEF Undisturbed, Shape, runtimeVars, registryVars, cycleVars
<1>2. ASSUME NEW d \in Containers \ {c}, NEW r,
             CreateUnseen(d, r) \/ admitVerified(d, r) \/ admitWithoutDigest(d, r) \/ Resize(d, r)
      PROVE  Undisturbed(c)
  BY <1>2, Zenon DEF CreateUnseen, admitVerified, admitWithoutDigest, Resize
<1>3. ASSUME NEW d \in Containers \ {c}, untrackContainer(d) \/ RemoveUnseen(d) \/ ResourcesRecorded(d)
      PROVE  Undisturbed(c)
  BY <1>3 DEF untrackContainer, RemoveUnseen, ResourcesRecorded
<1>4. ASSUME NEW d, VerdictChanges(d) \/ ResourcesIgnored(d) PROVE Undisturbed(c)
  BY <1>4 DEF VerdictChanges, ResourcesIgnored
<1>5. ASSUME NEW d \in Containers, PrewarmResult(d) \/ CooldownElapses(d) PROVE Undisturbed(c)
  BY <1>5 DEF PrewarmResult, CooldownElapses, EntryFields, StateVerified
<1>6. ASSUME NEW d \in Containers, ReverifyCancelled(d) \/ ReverifyIncomplete(d) PROVE Undisturbed(c)
  BY <1>6 DEF ReverifyCancelled, ReverifyIncomplete
<1>7. ASSUME NEW d \in Containers, ReverifyError(d) PROVE Undisturbed(c)
  BY <1>7 DEF ReverifyError, EntryFields, StateVerified, StateSkipped
<1>8. ASSUME NEW d \in Containers \ {c}, ReverifyPass(d) \/ ReverifyFail(d) \/ Commit(d)
      PROVE  Undisturbed(c)
  BY <1>8 DEF ReverifyPass, ReverifyFail, Commit
<1>9. Disconnect => Undisturbed(c)
  BY DEF Disconnect
<1>10. ASSUME NEW t, NEW S, CycleBegin(t, S) PROVE Undisturbed(c)
  BY <1>10 DEF CycleBegin
<1>11. CycleAbandoned \/ UpdatesFailed => Undisturbed(c)
  BY DEF CycleAbandoned, UpdatesFailed, Sending, NoUpdate
<1>12. CycleEnd => Undisturbed(c)
  BY DEF CycleEnd, Pending
<1>13. ASSUME NEW m, NEW f, ReloadEnabled(m, f) \/ ReloadDisabled(f) PROVE Undisturbed(c)
  BY <1>13 DEF ReloadEnabled, ReloadDisabled
<1>14. UNCHANGED vars => Undisturbed(c)
  BY DEF vars
<1> HIDE DEF Undisturbed, Shape
<1>15. CASE RuntimeStep
  <2>1. ASSUME NEW d \in scenario.containers, NEW r \in scenario.resources,
               CreateUnseen(d, r) \/ admitVerified(d, r) \/ admitWithoutDigest(d, r) \/ Resize(d, r)
        PROVE  Undisturbed(c) \/ Disturbed(c)
    BY <1>1, <1>2, <2>1 DEF Disturbed
  <2>2. ASSUME NEW d \in scenario.containers, untrackContainer(d) \/ RemoveUnseen(d)
        PROVE  Undisturbed(c) \/ Disturbed(c)
    BY <1>1, <1>3, <2>2 DEF Disturbed
  <2> QED BY <1>4, <1>9, <1>15, <2>1, <2>2 DEF RuntimeStep, Disturbed
<1>16. CASE HookStep
  <2>1. ASSUME NEW d \in Containers, ResourcesRecorded(d) PROVE Undisturbed(c) \/ Disturbed(c)
    BY <1>3, <2>1 DEF Disturbed
  <2> QED BY <1>4, <1>5, <1>16, <2>1 DEF HookStep, Disturbed
<1>17. ASSUME NEW d \in Containers, ReverifyPass(d) \/ ReverifyFail(d) \/ Commit(d)
       PROVE  Undisturbed(c) \/ Disturbed(c)
  BY <1>8, <1>17 DEF Disturbed
<1>18. CASE ReverifyStep
  BY <1>6, <1>7, <1>17, <1>18 DEF ReverifyStep
<1>19. CASE ApplyStep
  BY <1>11, <1>12, <1>17, <1>19 DEF ApplyStep, Disturbed
<1>20. CASE ReloadStep
  BY <1>13, <1>20 DEF ReloadStep, Disturbed
<1> QED
  BY <1>5, <1>10, <1>11, <1>14, <1>15, <1>16, <1>18, <1>19, <1>20 DEF Next

\* A container that is created has the limits it asked for.
LEMMA CreatedIsKnown ==
    ASSUME Shape, NEW c \in Containers, Orderly(c), NEW r \in AllLimits,
           CreateUnseen(c, r) \/ admitVerified(c, r) \/ admitWithoutDigest(c, r)
    PROVE  AllKnown(c)'
<1>1. /\ life[c] = "new" /\ limits'[c] = r /\ asked'[c] = r
      /\ UNCHANGED <<note, pend, cpc>>
  BY Zenon DEF CreateUnseen, admitVerified, admitWithoutDigest, Shape, cycleVars
<1>2. note[c] = NoResources /\ annot[c] = NoResources /\ c \notin tracked /\ pend[c].kind = "none"
  BY <1>1 DEF Orderly
<1>3. annot'[c] \in {NoResources, r}
  BY <1>2, Zenon DEF CreateUnseen, admitVerified, admitWithoutDigest, Shape
<1>4. ASSUME Trusted(c)' PROVE cs'[c].original = r /\ (annot'[c] = r \/ Lowered(r) = r)
  <2>1. admitVerified(c, r)
    BY <1>2, <1>4 DEF CreateUnseen, admitWithoutDigest, Shape, Trusted, hasTrustedOriginals, Entry, registryVars
  <2>2. annot'[c] = r \/ ~OriginalResourcesAnnotation(r).ok
    BY <2>1 DEF admitVerified, Shape
  <2>3. cs'[c].original = r
    BY <2>1 DEF admitVerified, Shape, Entry
  <2> QED BY <2>2, <2>3, LimitArithmetic
<1>5. /\ Limits(c)' = r /\ Asked(c)' = r /\ Annot(c)' \in {NoResources, r}
      /\ Note(c)' = NoResources /\ Kind(c)' = "none"
      /\ Trusted(c)' => Original(c)' = r /\ (Annot(c)' = r \/ Lowered(r) = r)
  BY <1>1, <1>2, <1>3, <1>4 DEF Limits, Asked, Annot, Note, Kind, Original
<1> QED BY <1>5 DEF AllKnown, LimitsKnown, EntryKnown, UpdateKnown

\* No notification of other limits arrives, so none is recorded.
LEMMA NoneIsRecorded ==
    ASSUME OnePercentage, Shape, NEW c \in Containers, AllKnown(c) PROVE ~ResourcesRecorded(c)
<1> SUFFICES ASSUME ResourcesRecorded(c) PROVE FALSE
  OBVIOUS
<1>1. Note(c) # NoResources /\ ~OwnUpdate(c)
  BY DEF ResourcesRecorded, Note
<1>2. Original(c) = Asked(c) /\ Note(c) = Limits(c) /\ Trusted(c)
  BY <1>1 DEF AllKnown, EntryKnown
<1>3. Asked(c) \in AllLimits /\ Limits(c) \in {Asked(c), Lowered(Asked(c))} /\ cfg \in Configs
  BY DEF AllKnown, LimitsKnown, Shape
<1>4. Note(c) = Original(c) \/ looksThrottled(Note(c), Original(c), cfg)
  BY <1>2, <1>3, Recognised
<1>5. Original(c) # NoResources
  BY <1>2 DEF Trusted, hasTrustedOriginals, Original
<1> QED BY <1>1, <1>4, <1>5 DEF OwnUpdate, Note, Original

\* A restart forgets the entries, not the limits and the annotation.
LEMMA RestartedIsKnown == ASSUME NEW c \in Containers, AllKnown(c), Restart PROVE AllKnown(c)'
<1>1. SameLimits(c) /\ c \notin tracked' /\ Note(c)' = NoResources /\ Kind(c)' = "none"
  BY DEF Restart, NoUpdate, SameLimits, Limits, Asked, Annot, Note, Kind
<1>2. ~Trusted(c)'
  BY <1>1 DEF Trusted
<1> QED BY <1>1, <1>2 DEF AllKnown, LimitsKnown, EntryKnown, UpdateKnown, SameLimits

\* Synchronize recovers from the annotation what was known of the container.
LEMMA SynchronizedIsKnown ==
    ASSUME OnePercentage, Shape, NEW c \in Containers, AllKnown(c), life[c] = "up", Synchronize
    PROVE  AllKnown(c)'
<1>1. SameLimits(c) /\ SameUpdate(c) /\ Note(c)' = Note(c) /\ cpc' = cpc /\ c \in tracked'
  BY DEF Synchronize, runtimeVars, cycleVars, SameLimits, SameUpdate, Limits, Asked, Annot, Note, Kind, Target
<1>2. LimitsKnown(c) /\ EntryKnown(c) /\ UpdateKnown(c)
  BY DEF AllKnown
<1>3. CASE c \in tracked
  <2>1. cs'[c] = cs[c]
    BY <1>3 DEF Synchronize
  <2>2. SameEntry(c) /\ State(c)' = State(c)
    BY <1>1, <1>3, <2>1 DEF SameEntry, Trusted, Original, State
  <2> QED BY <1>1, <2>2, KeptIsKnown DEF Kept
<1>4. CASE c \notin tracked
  <2>1. cs'[c] = Recovered(c)
    BY <1>4 DEF Synchronize
  <2>2. Note(c) = NoResources /\ Kind(c) = "none"
    BY <1>2, <1>4 DEF EntryKnown, UpdateKnown, Trusted
  <2>3. LimitsKnown(c)' /\ UpdateKnown(c)'
    BY <1>1, <1>2, <2>2 DEF LimitsKnown, UpdateKnown, SameLimits, SameUpdate
  <2>4. ASSUME Trusted(c)' PROVE Annot(c) = Asked(c) /\ Original(c)' = Asked(c)
    <3>1. ~Recovered(c).recovered
      BY <2>1, <2>4 DEF Trusted, hasTrustedOriginals
    <3>2. annot[c] # NoResources /\ Recovered(c).original = annot[c]
      BY <3>1, RecoveredFacts
    <3>3. Annot(c) # NoResources /\ Original(c)' = Annot(c)
      BY <2>1, <3>2 DEF Annot, Original
    <3> QED BY <1>2, <3>3 DEF LimitsKnown
  <2>5. ASSUME Limits(c) # Asked(c) PROVE Trusted(c)' /\ State(c)' = "throttled"
    <3>1. /\ Annot(c) # NoResources /\ Annot(c) = Asked(c) /\ Asked(c) \in AllLimits
          /\ Limits(c) = Lowered(Asked(c)) /\ cfg \in Configs
      BY <1>2, <2>5 DEF LimitsKnown, Shape
    <3>2. looksThrottled(Limits(c), Annot(c), cfg)
      BY <2>5, <3>1, Recognised
    <3>3. annot[c] # NoResources /\ looksThrottled(limits[c], annot[c], cfg)
      BY <3>1, <3>2 DEF Annot, Limits
    <3>4. ~Recovered(c).recovered /\ Recovered(c).original = annot[c] /\ Recovered(c).state = "throttled"
      BY <3>3, RecoveredFacts
    <3> QED BY <1>1, <2>1, <3>3, <3>4 DEF Trusted, hasTrustedOriginals, State
  <2>6. EntryKnown(c)'
    BY <1>1, <2>2, <2>4, <2>5 DEF EntryKnown, Throttling, SameLimits
  <2> QED BY <2>3, <2>6 DEF AllKnown
<1> QED BY <1>3, <1>4

\* A verification that passes rolls lowered limits back.
LEMMA PassedIsKnown ==
    ASSUME Shape, NEW c \in Containers, AllKnown(c), ReverifyPass(c)
    PROVE  AllKnown(c)'
<1>1. /\ cpc = "verify" /\ cpc' = cpc /\ c \in tracked /\ tracked' = tracked
      /\ cs'[c].original = cs[c].original /\ (cs'[c].recovered <=> cs[c].recovered)
  BY DEF ReverifyPass, Reverify, Shape, EntryFields
<1>2. SameLimits(c) /\ Note(c)' = Note(c)
  BY DEF ReverifyPass, runtimeVars, SameLimits, Limits, Asked, Annot, Note
<1>3. SameEntry(c)
  BY <1>1 DEF SameEntry, Trusted, hasTrustedOriginals, Original
<1>4. LimitsKnown(c) /\ EntryKnown(c) /\ UpdateKnown(c)
  BY DEF AllKnown
<1>5. LimitsKnown(c)'
  BY <1>2, <1>4 DEF LimitsKnown, SameLimits
<1>6. CASE RollsBack(cs[c])
  <2>1. Trusted(c) /\ Original(c) = Asked(c)
    BY <1>1, <1>4, <1>6 DEF RollsBack, Trusted, EntryKnown
  <2>2. cs'[c].state = cs[c].state /\ pend'[c].kind = "rollback" /\ pend'[c].limits = cs[c].original
    BY <1>6 DEF ReverifyPass, restored, Shape, EntryFields
  <2>3. State(c)' = State(c) /\ Kind(c)' = "rollback" /\ Target(c)' = Original(c)
    BY <2>2 DEF State, Kind, Target, Original
  <2>4. EntryKnown(c)'
    BY <1>1, <1>2, <1>3, <1>4, <2>3 DEF EntryKnown, Throttling, SameLimits, SameEntry
  <2>5. UpdateKnown(c)'
    BY <1>1, <1>2, <1>3, <2>1, <2>3 DEF UpdateKnown, SameLimits, SameEntry
  <2> QED BY <1>5, <2>4, <2>5 DEF AllKnown
<1>7. CASE ~RollsBack(cs[c])
  <2>1. Limits(c) = Asked(c)
    BY <1>1, <1>4, <1>7 DEF EntryKnown, RollsBack, Trusted, Throttling, State, StateThrottled
  <2>2. pend'[c] = pend[c]
    BY <1>7 DEF ReverifyPass, Shape
  <2>3. SameUpdate(c)
    BY <2>2 DEF SameUpdate, Kind, Target
  <2>4. EntryKnown(c)'
    BY <1>2, <1>3, <1>4, <2>1 DEF EntryKnown, SameLimits, SameEntry
  <2>5. UpdateKnown(c)'
    BY <1>1, <1>2, <1>3, <1>4, <2>3 DEF UpdateKnown, SameLimits, SameEntry, SameUpdate
  <2> QED BY <1>5, <2>4, <2>5 DEF AllKnown
<1> QED BY <1>6, <1>7

\* A verification that fails throttles what the container asked for.
LEMMA FailedIsKnown ==
    ASSUME OnePercentage, Shape, NEW c \in Containers, AllKnown(c), ReverifyFail(c)
    PROVE  AllKnown(c)'
<1>1. /\ cpc = "verify" /\ cpc' = cpc /\ c \in tracked /\ tracked' = tracked
      /\ cs'[c].original = cs[c].original /\ (cs'[c].recovered <=> cs[c].recovered)
      /\ cs[c].state = "throttled" => cs'[c].state = "throttled"
  BY DEF ReverifyFail, Reverify, Shape, EntryFields, StateVerified, StateSkipped
<1>2. SameLimits(c) /\ Note(c)' = Note(c)
  BY DEF ReverifyFail, runtimeVars, SameLimits, Limits, Asked, Annot, Note
<1>3. SameEntry(c) /\ (State(c) = "throttled" => State(c)' = "throttled")
  BY <1>1 DEF SameEntry, Trusted, hasTrustedOriginals, Original, State
<1>4. LimitsKnown(c) /\ EntryKnown(c) /\ UpdateKnown(c)
  BY DEF AllKnown
<1>5. CASE pend'[c] = pend[c]
  <2>1. SameUpdate(c)
    BY <1>5 DEF SameUpdate, Kind, Target
  <2> QED BY <1>1, <1>2, <1>3, <2>1, KeptIsKnown DEF Kept
<1>6. CASE pend'[c] # pend[c]
  <2>1. /\ hasTrustedOriginals(cs[c])
        /\ pend'[c].kind = "throttle" /\ pend'[c].limits = throttled(cs[c].original, cfg)
    BY <1>6 DEF ReverifyFail, Shape, shouldThrottle
  <2>2. Trusted(c) /\ Kind(c)' = "throttle" /\ Target(c)' = throttled(Original(c), cfg) /\ cfg \in Configs
    BY <1>1, <2>1 DEF Trusted, Kind, Target, Original, Shape
  <2>3. Target(c)' = throttled(Asked(c), AnyConfig)
    BY <1>4, <2>2, Percentages DEF EntryKnown
  <2>4. LimitsKnown(c)'
    BY <1>2, <1>4 DEF LimitsKnown, SameLimits
  <2>5. EntryKnown(c)'
    BY <1>1, <1>2, <1>3, <1>4 DEF EntryKnown, Throttling, SameLimits, SameEntry
  <2>6. UpdateKnown(c)'
    BY <1>1, <1>2, <1>3, <2>2, <2>3 DEF UpdateKnown, SameLimits, SameEntry
  <2> QED BY <2>4, <2>5, <2>6 DEF AllKnown
<1> QED BY <1>5, <1>6

\* A commit records the limits that were sent.
LEMMA CommittedIsKnown ==
    ASSUME Shape, NEW c \in Containers, AllKnown(c), Commit(c)
    PROVE  AllKnown(c)'
<1>1. /\ cpc = "commit" /\ cpc' = cpc /\ tracked' = tracked
      /\ pend[c].kind \in {"throttle", "rollback", "release"} /\ pend'[c].kind = "none"
  BY DEF Commit, Pending, Shape, NoUpdate
<1>2. SameLimits(c) /\ Note(c)' = Note(c) /\ Kind(c) \in {"throttle", "rollback", "release"} /\ Kind(c)' = "none"
  BY <1>1 DEF Commit, runtimeVars, SameLimits, Limits, Asked, Annot, Note, Kind
<1>3. LimitsKnown(c) /\ EntryKnown(c) /\ UpdateKnown(c)
  BY DEF AllKnown
<1>4. c \in tracked
  BY <1>2, <1>3 DEF UpdateKnown, Trusted
<1>5. cs'[c] = Committed(cs[c], pend[c].kind) /\ DOMAIN cs[c] = EntryFields
  BY <1>4 DEF Commit, Shape
<1>6. /\ cs'[c].original = cs[c].original /\ (cs'[c].recovered <=> cs[c].recovered)
      /\ pend[c].kind = "throttle" => cs'[c].state = "throttled"
  BY <1>1, <1>5 DEF Committed, EntryFields, StateThrottled
<1>7. SameEntry(c) /\ (Kind(c) = "throttle" => State(c)' = "throttled")
  BY <1>1, <1>6 DEF SameEntry, Trusted, hasTrustedOriginals, Original, Kind, State
<1>8. LimitsKnown(c)' /\ UpdateKnown(c)'
  BY <1>2, <1>3 DEF LimitsKnown, UpdateKnown, SameLimits
<1>9. Limits(c) # Asked(c) => State(c)' = "throttled"
  BY <1>1, <1>2, <1>3, <1>7 DEF UpdateKnown
<1>10. EntryKnown(c)'
  BY <1>2, <1>3, <1>7, <1>9 DEF EntryKnown, Throttling, SameLimits, SameEntry
<1> QED BY <1>8, <1>10 DEF AllKnown

\* The runtime sets the limits that the pending update has.
LEMMA AppliedIsKnown ==
    ASSUME Shape, NEW c \in Containers, AllKnown(c), NEW S \in SUBSET Containers, UpdatesApplied(S)
    PROVE  AllKnown(c)'
<1>1. /\ cpc = "verify" /\ cpc' = "commit"
      /\ Asked(c)' = Asked(c) /\ Annot(c)' = Annot(c) /\ SameEntry(c) /\ State(c)' = State(c)
  BY Zenon DEF UpdatesApplied, Sending, registryVars, Asked, Annot, SameEntry, Trusted, Original, State
<1>2. LimitsKnown(c) /\ EntryKnown(c) /\ UpdateKnown(c)
  BY DEF AllKnown
<1>3. CASE c \notin S
  <2>1. limits'[c] = limits[c] /\ note'[c] = note[c] /\ pend'[c].kind = "none"
    BY <1>3, Zenon DEF UpdatesApplied, Apply, NoUpdate
  <2>2. SameLimits(c) /\ Note(c)' = Note(c) /\ Kind(c)' = "none"
    BY <1>1, <2>1 DEF SameLimits, Limits, Note, Kind
  <2> QED BY <1>1, <2>2, KeptIsKnown DEF Kept
<1>4. CASE c \in S
  <2>1. /\ limits'[c] = Updated(limits[c], pend[c].limits) /\ note'[c] = limits'[c] /\ pend'[c] = pend[c]
        /\ pend[c].kind \in {"throttle", "rollback", "release"}
    BY <1>4 DEF UpdatesApplied, Apply, Pending, Shape
  <2>2. /\ Limits(c)' = Updated(Limits(c), Target(c)) /\ Note(c)' = Limits(c)' /\ SameUpdate(c)
        /\ Kind(c) \in {"throttle", "rollback", "release"}
    BY <2>1 DEF Limits, Target, Note, SameUpdate, Kind
  <2>3. /\ Trusted(c) /\ Asked(c) \in AllLimits /\ Limits(c) \in {Asked(c), Lowered(Asked(c))}
        /\ Original(c) = Asked(c) /\ (Annot(c) = Asked(c) \/ Lowered(Asked(c)) = Asked(c))
    BY <1>2, <2>2 DEF UpdateKnown, LimitsKnown, EntryKnown
  <2>4. CASE Kind(c) = "throttle"
    <3>1. Limits(c)' = Lowered(Asked(c))
      BY <1>2, <2>2, <2>3, <2>4, LimitArithmetic DEF UpdateKnown, Lowered
    <3>2. Asked(c) # NoResources
      BY <2>3 DEF Trusted, hasTrustedOriginals, Original
    <3>3. LimitsKnown(c)'
      BY <1>1, <1>2, <2>3, <3>1, <3>2 DEF LimitsKnown
    <3>4. EntryKnown(c)'
      BY <1>1, <2>2, <2>3, <2>4 DEF EntryKnown, Throttling, SameEntry, SameUpdate
    <3>5. UpdateKnown(c)'
      BY <1>1, <1>2, <2>2, <2>3, <2>4, <3>1 DEF UpdateKnown, SameEntry, SameUpdate
    <3> QED BY <3>3, <3>4, <3>5 DEF AllKnown
  <2>5. CASE Kind(c) # "throttle"
    <3>1. Target(c) = Asked(c) /\ Limits(c)' = Asked(c)
      BY <1>2, <2>2, <2>3, <2>5, LimitArithmetic DEF UpdateKnown
    <3>2. LimitsKnown(c)'
      BY <1>1, <1>2, <3>1 DEF LimitsKnown
    <3>3. EntryKnown(c)'
      BY <1>1, <2>2, <2>3, <3>1 DEF EntryKnown, SameEntry
    <3>4. UpdateKnown(c)'
      BY <1>1, <2>2, <2>3, <2>5, <3>1 DEF UpdateKnown, SameEntry, SameUpdate
    <3> QED BY <3>2, <3>3, <3>4 DEF AllKnown
  <2> QED BY <2>4, <2>5
<1> QED BY <1>3, <1>4

\* Releasing asks for the originals.
LEMMA ReleasedIsKnown ==
    ASSUME NEW c \in Containers, AllKnown(c), releaseThrottledContainers
    PROVE  AllKnown(c)'
<1>1. /\ cpc = "idle" /\ cpc' = "verify" /\ SameLimits(c) /\ Note(c)' = Note(c)
      /\ SameEntry(c) /\ State(c)' = State(c)
  BY DEF releaseThrottledContainers, runtimeVars, registryVars, SameLimits, Limits, Asked, Annot, Note, SameEntry,
         Trusted, Original, State
<1>2. LimitsKnown(c) /\ EntryKnown(c) /\ UpdateKnown(c)
  BY DEF AllKnown
<1>3. LimitsKnown(c)'
  BY <1>1, <1>2 DEF LimitsKnown, SameLimits
<1>4. EntryKnown(c)'
  BY <1>1, <1>2 DEF EntryKnown, Throttling, SameLimits, SameEntry
<1>5. CASE Releasable(c)
  <2>1. pend'[c].kind = "release" /\ pend'[c].limits = cs[c].original
    BY <1>5 DEF releaseThrottledContainers, restored
  <2>2. Kind(c)' = "release" /\ Target(c)' = Original(c)
    BY <2>1 DEF Kind, Target, Original
  <2>3. Trusted(c) /\ Original(c) = Asked(c)
    BY <1>2, <1>5 DEF Releasable, Trusted, EntryKnown
  <2>4. UpdateKnown(c)'
    BY <1>1, <2>2, <2>3 DEF UpdateKnown, SameLimits, SameEntry
  <2> QED BY <1>3, <1>4, <2>4 DEF AllKnown
<1>6. CASE ~Releasable(c)
  <2>1. pend'[c].kind = "none"
    BY <1>6 DEF releaseThrottledContainers, NoUpdate
  <2>2. UpdateKnown(c)'
    BY <2>1 DEF UpdateKnown, Kind
  <2> QED BY <1>3, <1>4, <2>2 DEF AllKnown
<1> QED BY <1>5, <1>6

\* Every step keeps what the plugin knows.
LEMMA KnownStep ==
    ASSUME OnePercentage, OrderInv, Calm, [Next]_vars, NEW c \in Containers, Known(c)
    PROVE  Known(c)'
<1>1. Shape /\ Orderly(c) /\ (life[c] = "up" => AllKnown(c))
  BY DEF OrderInv, Known
<1>2. ASSUME Undisturbed(c) PROVE Known(c)'
  <2>1. life'[c] = life[c]
    BY <1>2 DEF Undisturbed
  <2>2. Kept(c)
    BY <1>2, UndisturbedIsKept
  <2> QED BY <1>1, <2>1, <2>2, KeptIsKnown DEF Known
<1> SUFFICES ASSUME Disturbed(c), life'[c] = "up" PROVE AllKnown(c)'
  BY <1>2, OthersUndisturbed DEF Known
<1>3. ASSUME NEW r \in AllLimits, CreateUnseen(c, r) \/ admitVerified(c, r) \/ admitWithoutDigest(c, r)
      PROVE  AllKnown(c)'
  BY <1>1, <1>3, CreatedIsKnown
<1>4. ASSUME NEW r, Resize(c, r) PROVE FALSE
  BY <1>4 DEF Resize, Calm
<1>5. ASSUME NEW S, AnswerLost(S) PROVE FALSE
  BY <1>5 DEF AnswerLost, Calm
<1>6. ~untrackContainer(c) /\ ~RemoveUnseen(c)
  BY <1>1 DEF untrackContainer, RemoveUnseen, Shape
<1>7. ASSUME life' = life PROVE AllKnown(c) /\ life[c] = "up"
  BY <1>1, <1>7
<1>8. ResourcesRecorded(c) => AllKnown(c)'
  BY <1>1, <1>7, NoneIsRecorded, Zenon DEF ResourcesRecorded
<1>9. Restart => AllKnown(c)'
  BY <1>7, RestartedIsKnown, Zenon DEF Restart
<1>10. Synchronize => AllKnown(c)'
  BY <1>1, <1>7, SynchronizedIsKnown DEF Synchronize, runtimeVars
<1>11. ReverifyPass(c) => AllKnown(c)'
  BY <1>1, <1>7, PassedIsKnown, Zenon DEF ReverifyPass, runtimeVars
<1>12. ReverifyFail(c) => AllKnown(c)'
  BY <1>1, <1>7, FailedIsKnown, Zenon DEF ReverifyFail, runtimeVars
<1>13. Commit(c) => AllKnown(c)'
  BY <1>1, <1>7, CommittedIsKnown, Zenon DEF Commit, runtimeVars
<1>14. ASSUME NEW S \in SUBSET Containers, UpdatesApplied(S) PROVE AllKnown(c)'
  BY <1>1, <1>7, <1>14, AppliedIsKnown DEF UpdatesApplied
<1>15. releaseThrottledContainers => AllKnown(c)'
  BY <1>7, ReleasedIsKnown DEF releaseThrottledContainers, runtimeVars
<1> QED
  BY <1>3, <1>4, <1>5, <1>6, <1>8, <1>9, <1>10, <1>11, <1>12, <1>13, <1>14, <1>15 DEF Disturbed

\* The inductive invariant of ThrottleIsKnown.
KnownInv == OrderInv /\ (Calm => \A c \in Containers : Known(c))

\* It holds at first.
LEMMA KnownStarts == Init => KnownInv
<1> SUFFICES ASSUME Init PROVE KnownInv
  OBVIOUS
<1>1. OrderInv
  BY ShapeStarts, OrderlyStarts DEF OrderInv
<1>2. \A c \in Containers : Known(c)
  BY DEF Init, Known
<1> QED BY <1>1, <1>2 DEF KnownInv

\* The scenario of a behaviour never changes.
LEMMA ScenarioStays == [Next]_vars => scenario' = scenario
<1> USE DEF worldVars
<1>1. RuntimeStep => scenario' = scenario
  BY Zenon DEF RuntimeStep, CreateUnseen, admitVerified, admitWithoutDigest, Resize, untrackContainer, RemoveUnseen,
         VerdictChanges, Disconnect, Restart
<1>2. HookStep => scenario' = scenario
  BY Zenon DEF HookStep, Synchronize, ResourcesRecorded, ResourcesIgnored, PrewarmResult
<1>3. ReverifyStep => scenario' = scenario
  BY DEF ReverifyStep, ReverifyCancelled, ReverifyIncomplete, ReverifyError, ReverifyPass, ReverifyFail
<1>4. ApplyStep => scenario' = scenario
  BY Zenon DEF ApplyStep, UpdatesFailed, UpdatesApplied, AnswerLost, Commit, CycleEnd
<1>5. ReloadStep => scenario' = scenario
  BY DEF ReloadStep, ReloadEnabled, ReloadDisabled, releaseThrottledContainers
<1>6. UNCHANGED vars => scenario' = scenario
  BY DEF vars
<1> QED
  BY <1>1, <1>2, <1>3, <1>4, <1>5, <1>6 DEF Next, CycleBegin, CycleAbandoned, CooldownElapses

\* With percentages that do not change, a container whose limits the plugin
\* lowered is known as throttled and its originals are known, through partial
\* failures, cancelled cycles, reloads, lost connections and restarts
\* (pendingUpdate, recoverContainerState).
THEOREM ThrottlesAreKnown ==
    ASSUME OnePercentage PROVE Spec => []ThrottleIsKnown
<1>1. KnownInv /\ [Next]_vars => KnownInv'
  <2> SUFFICES ASSUME KnownInv, [Next]_vars PROVE KnownInv'
    OBVIOUS
  <2>1. OrderInv'
    BY ShapeStep, OrderlyStep DEF KnownInv, OrderInv
  <2>2. ASSUME Calm', NEW c \in Containers PROVE Known(c)'
    <3>1. Calm
      BY <2>2, ScenarioStays DEF Calm
    <3> QED BY <3>1, KnownStep DEF KnownInv
  <2> QED BY <2>1, <2>2 DEF KnownInv
<1>2. KnownInv => ThrottleIsKnown
  <2> SUFFICES ASSUME KnownInv, Calm, NEW c \in tracked, life[c] = "up", Settled(c), limits[c] # asked[c]
               PROVE  /\ cs[c].state = StateThrottled /\ hasTrustedOriginals(cs[c])
                      /\ restored(cs[c].original) = asked[c]
    BY DEF ThrottleIsKnown, Calm
  <2>1. c \in Containers /\ EntryKnown(c)
    BY DEF KnownInv, OrderInv, Shape, Known, AllKnown
  <2>2. ~(cpc = "commit" /\ Kind(c) = "throttle")
    BY <2>1 DEF Settled, Pending, Kind
  <2>3. Trusted(c) /\ State(c) = "throttled" /\ Original(c) = Asked(c)
    BY <2>1, <2>2 DEF EntryKnown, Throttling, Limits, Asked
  <2> QED BY <2>3 DEF Trusted, State, Original, Asked, restored, StateThrottled
<1> QED BY <1>1, <1>2, KnownStarts, PTL DEF Spec
=============================================================================
