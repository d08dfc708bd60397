---------------------------- MODULE ReloadProofs ----------------------------
(***************************************************************************)
(* What configurations that arrive while the daemon runs change. A runtime *)
(* that does not go back to an earlier configuration finds the one it      *)
(* passed last in force as soon as nothing is pending, and no admission of *)
(* a namespace it enforces is decided by an older one, for any number of   *)
(* Configure calls and any interleaving with the goroutines that apply     *)
(* them. The continuous verifier runs at most once, every uncancelled loop *)
(* can be stopped, and the release of throttled containers never overlaps  *)
(* the run that was stopped, for any number of runs and reloads. However   *)
(* polls, moving tags and failed reloads interleave, policies from a       *)
(* registry never go back to an older artifact of their reference.         *)
(***************************************************************************)
EXTENDS PolicyPoller, ContinuousRun, RuntimeConfig, TLAPS

-----------------------------------------------------------------------------
(* PolicyPoller *)

Sources == Artifacts \cup {LocalPolicies, NoArtifact}

\* The types that matter here; a tag holds an artifact of its reference.
PollerTypes ==
    /\ tag \in [Refs -> Artifacts] /\ \A r \in Refs : tag[r].ref = r
    /\ requested \in Configs
    /\ policies \in Sources /\ loaded \in Sources
    /\ poller \in {NoPoller} \cup Pollers
    /\ ppc \in {"off", "idle", "fetch", "apply", "record"}
    /\ reloadPc \in {"idle", "stopping", "load", "publish", "resume"}

\* The guard that protects an artifact in force.
GuardOf(p) == IF p = NoArtifact THEN 0 ELSE p.created

\* Without a poller no artifact is in force. What is in force is what the
\* poller remembers, also while it is paused, except between the publication of
\* what it fetched and the record of it.
PollerRemembers ==
    IF poller = NoPoller THEN ppc = "off" /\ policies \notin Artifacts
    ELSE /\ ppc # "record" => poller.digest = policies /\ poller.guard = GuardOf(policies)
         /\ policies # LocalPolicies
         /\ policies \in Artifacts => policies.ref = poller.ref

\* What the poller is about to publish or has just published.
FetchedFits ==
    ppc \in {"apply", "record"} =>
        /\ fetched \in Artifacts /\ fetched.ref = poller.ref
        /\ checkRollback(fetched, poller.guard)
        /\ ppc = "record" => policies = fetched

\* A reload loads and publishes while no poll is under way.
ReloadIsAlone == reloadPc \in {"load", "publish", "resume"} => ppc = "off"

\* What the reload is about to publish.
LoadedFits ==
    reloadPc = "publish" =>
        IF UsesOCI(requested)
        THEN /\ loaded \in Artifacts /\ loaded.ref = requested.ref
             /\ checkRollback(loaded, pollerRollbackSeed(requested.ref))
        ELSE loaded \notin Artifacts

PollerInv == PollerTypes /\ PollerRemembers /\ FetchedFits /\ ReloadIsAlone /\ LoadedFits

-----------------------------------------------------------------------------
\* The policies start without an artifact.
LEMMA PollerStarts == InitPoller => PollerInv
<1> SUFFICES ASSUME InitPoller PROVE PollerInv
  OBVIOUS
<1> USE PollerAssumption
<1>1. CASE UsesOCI(StartConfig)
  <2>1. /\ poller = NewPoller(StartConfig.ref, 0, NoArtifact) /\ policies = NoArtifact
        /\ StartConfig.ref \in Refs
    BY <1>1 DEF InitPoller
  <2>2. poller \in Pollers
    BY <2>1 DEF NewPoller, Pollers
  <2>3. poller # NoPoller /\ ppc = "idle" /\ reloadPc = "idle"
    BY <2>2 DEF InitPoller
  <2>4. PollerTypes
    BY <2>1, <2>2, <2>3 DEF InitPoller, PollerTypes, Sources
  <2>5. PollerRemembers
    BY <2>1, <2>3 DEF PollerRemembers, GuardOf, NewPoller
  <2> QED BY <2>3, <2>4, <2>5 DEF PollerInv, FetchedFits, ReloadIsAlone, LoadedFits
<1>2. CASE ~UsesOCI(StartConfig)
  <2>1. poller = NoPoller /\ policies = LocalPolicies /\ ppc = "off" /\ reloadPc = "idle"
    BY <1>2 DEF InitPoller
  <2> QED BY <2>1 DEF InitPoller, PollerInv, PollerTypes, Sources, PollerRemembers, FetchedFits, ReloadIsAlone, LoadedFits
<1> QED BY <1>1, <1>2

\* Refreshing the time of the last success, or letting it age, touches nothing
\* that matters.
LEMMA AgeStep ==
    ASSUME PollerInv, poller \in Pollers, NEW n \in Nat, poller' = [poller EXCEPT !.age = n]
    PROVE  /\ poller' \in Pollers /\ poller' # NoPoller
           /\ poller'.ref = poller.ref /\ poller'.guard = poller.guard /\ poller'.digest = poller.digest
BY PollerAssumption DEF Pollers

\* A guard that lets an artifact pass is not above its creation time.
LEMMA GuardRises ==
    ASSUME NEW a \in Artifacts, NEW guard \in Nat, checkRollback(a, guard)
    PROVE  SeedNewestCreated(guard, a.created) = GuardOf(a) /\ GuardOf(a) \in Nat
BY PollerAssumption DEF checkRollback, SeedNewestCreated, Larger, GuardOf

\* Every step keeps the invariant.
LEMMA PollerNext == PollerInv /\ [NextPoller]_varsPoller => PollerInv'
<1> SUFFICES ASSUME PollerInv, [NextPoller]_varsPoller PROVE PollerInv'
  OBVIOUS
<1> USE PollerAssumption
<1>a. ppc # "off" => poller \in Pollers /\ poller # NoPoller
  BY DEF PollerInv, PollerTypes, PollerRemembers
<1>1. ASSUME NEW r \in Refs, NEW a \in Artifacts, MoveTag(r, a) PROVE PollerInv'
  BY <1>1 DEF MoveTag, reloadVars, PollerInv, PollerTypes, PollerRemembers, FetchedFits, ReloadIsAlone,
              LoadedFits, pollerRollbackSeed
<1>2. ASSUME NEW n \in Nat, poller \in Pollers, poller' = [poller EXCEPT !.age = n],
             ppc' \in {ppc, "idle"}, ppc' # ppc => ppc = "fetch",
             UNCHANGED <<tag, config, policies, attached, fetched, reloadVars, newest>>
      PROVE  PollerInv'
  <2>1. /\ poller' \in Pollers /\ poller' # NoPoller /\ poller # NoPoller
        /\ poller'.ref = poller.ref /\ poller'.guard = poller.guard /\ poller'.digest = poller.digest
    BY <1>2, AgeStep
  <2>2. pollerRollbackSeed(requested.ref)' = pollerRollbackSeed(requested.ref)
    BY <1>2, <2>1 DEF pollerRollbackSeed, reloadVars
  <2>3. PollerTypes'
    BY <1>2, <2>1 DEF PollerInv, PollerTypes, reloadVars
  <2>4. PollerRemembers' /\ FetchedFits' /\ ReloadIsAlone' /\ LoadedFits'
    BY <1>2, <2>1, <2>2 DEF PollerInv, PollerRemembers, FetchedFits, ReloadIsAlone, LoadedFits, reloadVars
  <2> QED BY <2>3, <2>4 DEF PollerInv
<1>3. CASE TickPoller
  <2>1. poller \in Pollers /\ poller.age + 1 \in Nat
    BY <1>3 DEF TickPoller, PollerInv, PollerTypes, Pollers
  <2> QED BY <1>2, <1>3, <2>1 DEF TickPoller
<1>4. CASE PollUnchanged
  BY <1>2, <1>4, <1>a DEF PollUnchanged
<1>5. CASE PollChanged \/ FetchFails \/ onPolicyUpdateRejected
  BY <1>5 DEF PollChanged, FetchFails, onPolicyUpdateRejected, reloadVars, PollerInv, PollerTypes, PollerRemembers,
              FetchedFits, ReloadIsAlone, LoadedFits, pollerRollbackSeed
<1>6. CASE FetchAlreadyApplied
  BY <1>2, <1>6, <1>a DEF FetchAlreadyApplied
<1>7. CASE FetchNew
  <2>1. fetched' \in Artifacts /\ fetched' = tag[poller.ref] /\ checkRollback(fetched', poller.guard)
    BY <1>7 DEF FetchNew, FetchFromOCI
  <2>2. fetched'.ref = poller.ref
    BY <1>7, <1>a, <2>1 DEF FetchNew, Pollers, PollerInv, PollerTypes
  <2> QED BY <1>7, <2>1, <2>2
             DEF FetchNew, reloadVars, PollerInv, PollerTypes, PollerRemembers, FetchedFits, ReloadIsAlone, LoadedFits,
                 pollerRollbackSeed, checkRollback
<1>8. CASE onPolicyUpdate
  BY <1>8 DEF onPolicyUpdate, reloadVars, PollerInv, PollerTypes, Sources, PollerRemembers, FetchedFits, ReloadIsAlone,
              LoadedFits, pollerRollbackSeed
<1>9. CASE RecordApplied
  <2>1. /\ poller \in Pollers /\ poller # NoPoller /\ reloadPc \in {"idle", "stopping"}
        /\ fetched \in Artifacts /\ policies = fetched /\ fetched.ref = poller.ref
        /\ checkRollback(fetched, poller.guard)
    BY <1>9, <1>a DEF RecordApplied, PollerInv, PollerTypes, FetchedFits, ReloadIsAlone
  <2>2. SeedNewestCreated(poller.guard, fetched.created) = GuardOf(fetched) /\ GuardOf(fetched) \in Nat
    BY <2>1, GuardRises DEF Pollers
  <2>3. poller' = [poller EXCEPT !.guard = GuardOf(fetched), !.digest = fetched, !.age = 0]
    BY <1>9, <2>2 DEF RecordApplied
  <2>4. /\ poller' \in Pollers /\ poller'.guard = GuardOf(fetched) /\ poller'.digest = fetched
        /\ poller'.ref = poller.ref
    BY <2>1, <2>2, <2>3 DEF Pollers
  <2> QED BY <1>9, <2>1, <2>4
             DEF RecordApplied, reloadVars, PollerInv, PollerTypes, PollerRemembers, FetchedFits, ReloadIsAlone, LoadedFits
<1>10. ASSUME NEW cfg \in Configs, ReloadBegins(cfg) PROVE PollerInv'
  BY <1>10 DEF ReloadBegins, PollerInv, PollerTypes, PollerRemembers, FetchedFits, ReloadIsAlone, LoadedFits
<1>11. CASE PollerStopped
  BY <1>11 DEF PollerStopped, PollerInv, PollerTypes, PollerRemembers, FetchedFits, ReloadIsAlone, LoadedFits
<1>12. ASSUME NEW next \in Sources, Load(next) PROVE PollerInv'
  <2>1. IF UsesOCI(requested)
        THEN /\ next \in Artifacts /\ next.ref = requested.ref
             /\ checkRollback(next, pollerRollbackSeed(requested.ref))
        ELSE next \notin Artifacts
    BY <1>12 DEF Load, Loadable, FetchFromOCI, UsesOCI, PollerInv, PollerTypes
  <2> QED BY <1>12, <2>1 DEF Load, PollerInv, PollerTypes, PollerRemembers, FetchedFits, ReloadIsAlone, LoadedFits,
                             pollerRollbackSeed
<1>13. CASE ReloadFails
  BY <1>13 DEF ReloadFails, PollerInv, PollerTypes, PollerRemembers, FetchedFits, ReloadIsAlone, LoadedFits
<1>14. CASE resumePoller
  BY <1>14 DEF resumePoller, PollerInv, PollerTypes, PollerRemembers, FetchedFits, ReloadIsAlone, LoadedFits
<1>15. CASE ReloadPublishes
  <2>1. CASE UsesOCI(requested)
    <3>1. loaded \in Artifacts /\ loaded.ref = requested.ref /\ requested.ref \in Refs
      BY <1>15, <2>1 DEF ReloadPublishes, PollerInv, PollerTypes, LoadedFits
    <3>2. pollerRollbackSeed(requested.ref) \in Nat /\ checkRollback(loaded, pollerRollbackSeed(requested.ref))
      BY <1>15, <2>1 DEF ReloadPublishes, PollerInv, PollerTypes, LoadedFits, pollerRollbackSeed, Pollers
    <3>3. poller' = NewPoller(requested.ref, GuardOf(loaded), loaded) /\ GuardOf(loaded) \in Nat
      BY <1>15, <2>1, <3>1, <3>2, GuardRises DEF ReloadPublishes
    <3>4. /\ poller' \in Pollers /\ poller' # NoPoller /\ poller'.ref = requested.ref
          /\ poller'.guard = GuardOf(loaded) /\ poller'.digest = loaded
      BY <3>1, <3>3 DEF NewPoller, Pollers
    <3> QED BY <1>15, <2>1, <3>1, <3>4
               DEF ReloadPublishes, PollerInv, PollerTypes, PollerRemembers, FetchedFits, ReloadIsAlone, LoadedFits
  <2>2. CASE ~UsesOCI(requested)
    BY <1>15, <2>2 DEF ReloadPublishes, PollerInv, PollerTypes, PollerRemembers, FetchedFits, ReloadIsAlone, LoadedFits
  <2> QED BY <2>1, <2>2
<1>16. CASE UNCHANGED varsPoller
  BY <1>16 DEF varsPoller, reloadVars, PollerInv, PollerTypes, PollerRemembers, FetchedFits, ReloadIsAlone, LoadedFits,
               pollerRollbackSeed
<1> QED
  BY <1>1, <1>3, <1>4, <1>5, <1>6, <1>7, <1>8, <1>9, <1>10, <1>11, <1>12, <1>13, <1>14, <1>15, <1>16
     DEF NextPoller, PollerStep, ReloadStep, Sources

\* A step that replaces an artifact passed the rollback check against it: of a
\* poll with the guard of the poller, of a reload with the guard it inherits.
LEMMA StepIsNotOlder == PollerInv /\ NextPoller => NotOlderStep
<1> SUFFICES ASSUME PollerInv, NextPoller, policies \in Artifacts, policies' \in Artifacts,
                    policies'.ref = policies.ref
             PROVE  checkRollback(policies', policies.created)
  BY DEF NotOlderStep
<1> USE PollerAssumption
<1>1. poller # NoPoller /\ poller.ref = policies.ref
  BY DEF PollerInv, PollerRemembers
<1>2. ppc # "record" => poller.guard = policies.created
  BY DEF PollerInv, PollerRemembers, GuardOf
<1>3. CASE onPolicyUpdate
  BY <1>2, <1>3 DEF onPolicyUpdate, PollerInv, FetchedFits
<1>4. CASE ReloadPublishes
  <2>1. UsesOCI(requested) /\ loaded.ref = requested.ref /\ ppc = "off" /\ policies' = loaded
    BY <1>4 DEF ReloadPublishes, PollerInv, LoadedFits, ReloadIsAlone
  <2>2. pollerRollbackSeed(requested.ref) = policies.created
    BY <1>1, <1>2, <2>1 DEF pollerRollbackSeed
  <2> QED BY <1>4, <2>1, <2>2 DEF ReloadPublishes, PollerInv, LoadedFits
<1>5. CASE policies' = policies
  BY <1>5 DEF checkRollback
<1> QED
  BY <1>3, <1>4, <1>5
     DEF NextPoller, PollerStep, ReloadStep, MoveTag, TickPoller, PollUnchanged, PollChanged, FetchFails, FetchAlreadyApplied,
         FetchNew, onPolicyUpdateRejected, RecordApplied, ReloadBegins, PollerStopped, Load, ReloadFails, resumePoller

\* Polls, reloads and rejections never take policies back to an older artifact
\* of their reference, nor leave what the poller remembers apart from what is in
\* force (checkRollback, pollerRollbackSeed, fetchAndApply).
THEOREM PoliciesNeverGoBack == SpecPoller => PoliciesOnlyAdvance
<1>1. PollerInv => PollerMatchesPolicies
  BY DEF PollerInv, PollerRemembers, PollerMatchesPolicies, GuardOf
<1>2. PollerInv /\ [NextPoller]_varsPoller => [NotOlderStep]_varsPoller
  BY StepIsNotOlder
<1> QED BY <1>1, <1>2, PollerStarts, PollerNext, PTL DEF SpecPoller, PoliciesOnlyAdvance, NotOlder

-----------------------------------------------------------------------------
(* ContinuousRun *)

\* A run that is registered is in its loop, and the run that is waited for is
\* cancelled, past its registration and no longer registered.
RegisteredLoops == \A r \in Runs : stopRun = r => rpc[r] = "loop" /\ r \notin cancelled

WaitedIsCancelled ==
    target # NoRun => target \in cancelled /\ rpc[target] # "claimed"

ClaimedIsLive == \A r \in Runs : rpc[r] = "claimed" => r \notin cancelled

ActiveIsStarted == \A r \in Runs : Active(r) => started

RunInv ==
    /\ TypeOKRun
    /\ OneRun
    /\ ActiveIsStarted
    /\ ClaimedIsLive
    /\ RegisteredLoops
    /\ LoopIsStoppable
    /\ WaitedIsCancelled
    /\ ReleaseAfterRun

\* The initial state satisfies the inductive invariant.
LEMMA InitRunInv == InitRun => RunInv
BY RunsAssumption
   DEF InitRun, RunInv, TypeOKRun, OneRun, ActiveIsStarted, ClaimedIsLive, RegisteredLoops, LoopIsStoppable,
       WaitedIsCancelled, ReleaseAfterRun, Active, RunPhases

\* Every step preserves the inductive invariant: only a claim makes a run
\* active, and it needs the flag that every active run holds.
LEMMA NextRunInv == RunInv /\ [NextRun]_varsRun => RunInv'
<1>1. SUFFICES ASSUME RunInv, [NextRun]_varsRun PROVE RunInv'
  OBVIOUS
<1> USE RunsAssumption, <1>1
        DEF RunInv, TypeOKRun, OneRun, ActiveIsStarted, ClaimedIsLive, RegisteredLoops, LoopIsStoppable,
            WaitedIsCancelled, ReleaseAfterRun, Active, RunPhases
<1>2. ASSUME NEW r \in Runs, RunStarts(r) PROVE RunInv'
  <2>1. \A s \in Runs : ~Active(s)
    BY <1>2 DEF RunStarts, Claim
  <2>2. stopRun = NoRun
    BY <2>1
  <2> QED BY <1>2, <2>1, <2>2 DEF RunStarts, Claim
<1>3. ASSUME NEW r \in Runs, Register(r) PROVE RunInv'
  BY <1>3 DEF Register
<1>4. ASSUME NEW r \in Runs, FinishClears(r) PROVE RunInv'
  BY <1>4 DEF FinishClears
<1>5. ASSUME NEW r \in Runs, FinishFrees(r) PROVE RunInv'
  BY <1>5 DEF FinishFrees
<1>6. ASSUME NEW r \in Runs, FinishCloses(r) PROVE RunInv'
  BY <1>6 DEF FinishCloses
<1>7. CASE RunIgnored
  BY <1>7 DEF RunIgnored
<1>8. CASE ReloadEnables
  BY <1>8 DEF ReloadEnables
<1>9. CASE ReloadDisables
  BY <1>9 DEF ReloadDisables
<1>10. CASE StartIgnored
  BY <1>10 DEF StartIgnored
<1>11. ASSUME NEW r \in Runs, StartStarts(r) PROVE RunInv'
  <2>1. \A s \in Runs : ~Active(s)
    BY <1>11 DEF StartStarts, Claim
  <2>2. stopRun = NoRun
    BY <2>1
  <2> QED BY <1>11, <2>1, <2>2 DEF StartStarts, Claim
<1>12. CASE StopIgnored
  BY <1>12 DEF StopIgnored
<1>13. CASE StopCancels
  BY <1>13 DEF StopCancels
<1>14. CASE StopWaits
  BY <1>14 DEF StopWaits
<1>15. CASE StopReleases
  BY <1>15 DEF StopReleases
<1>16. CASE UNCHANGED varsRun
  BY <1>16 DEF varsRun
<1> QED
  BY <1>2, <1>3, <1>4, <1>5, <1>6, <1>7, <1>8, <1>9, <1>10, <1>11, <1>12, <1>13, <1>14, <1>15, <1>16
     DEF NextRun, RunStep, StartStep, StopStep

\* The inductive invariant holds throughout.
THEOREM ContinuousRunInv == SpecRun => []RunInv
BY InitRunInv, NextRunInv, PTL DEF SpecRun

\* Types, and that a run is waited for exactly while a stop is under way.
THEOREM ContinuousRunTypes == SpecRun => []TypeOKRun
<1>1. RunInv => TypeOKRun BY DEF RunInv
<1> QED BY <1>1, ContinuousRunInv, PTL

\* beginContinuousVerifier never lets two loops re-verify side by side.
THEOREM RunsAreExclusive == SpecRun => []OneRun
<1>1. RunInv => OneRun BY DEF RunInv
<1> QED BY <1>1, ContinuousRunInv, PTL

\* Every loop that is not cancelled is the one StopContinuousVerifier finds.
THEOREM LoopsAreStoppable == SpecRun => []LoopIsStoppable
<1>1. RunInv => LoopIsStoppable BY DEF RunInv
<1> QED BY <1>1, ContinuousRunInv, PTL

\* releaseThrottledContainers starts after the stopped run has returned.
THEOREM ReleaseIsExclusive == SpecRun => []ReleaseAfterRun
<1>1. RunInv => ReleaseAfterRun BY DEF RunInv
<1> QED BY <1>1, ContinuousRunInv, PTL

\* Reloads keep control of the runs they start and stop.
THEOREM ReloadsControlRuns == SpecRun => []RunsAreControlled
<1>1. OneRun /\ LoopIsStoppable /\ ReleaseAfterRun => RunsAreControlled BY DEF RunsAreControlled
<1> QED BY <1>1, RunsAreExclusive, LoopsAreStoppable, ReleaseIsExclusive, PTL

-----------------------------------------------------------------------------
(* RuntimeConfig *)

\* The call made its configuration pending at some time, and it is the last
\* one that did.
Swapped(c) == wpc[c] # "none"
Latest(c) == Swapped(c) /\ \A d \in Calls : Swapped(d) => d <= c

Holds(w) == wpc[w] \in {"applying", "cas", "store"}

\* The types, without that of the admission.
Types ==
    /\ seen \in 0 .. MaxCalls
    /\ val \in [Calls -> Config]
    /\ cpc \in {"idle", "load", "check", "swap"} /\ (cpc # "idle" => seen # 0)
    /\ last \in 0 .. MaxCalls /\ pending \in 0 .. MaxCalls /\ lastApplied \in 0 .. MaxCalls
    /\ enforcement \in [Calls -> SUBSET Namespaces]
    /\ superseded \subseteq Calls
    /\ wpc \in [Calls -> {"none", "try", "applying", "cas", "store", "backoff", "done"}]

\* The call in progress has not made its configuration pending yet.
SwappedAreSeen ==
    \A c \in Calls : Swapped(c) => c <= seen /\ (cpc # "idle" => c < seen)

\* Equal configurations are passed by calls that follow each other.
NoneReverts ==
    \A c, d, e \in Calls :
        c <= d /\ d <= e /\ e <= seen /\ val[c] = val[e] => val[d] = val[e]

\* What is pending is what was made pending last, its goroutine has not ended
\* and its superseded channel is open.
PendingIsLatest ==
    /\ pending # NoCall => Latest(pending) /\ wpc[pending] \in {"try", "applying", "cas", "backoff"}
    /\ \A w \in superseded : Swapped(w) /\ w # pending

\* mu: one goroutine applies at a time, and while it does something is pending.
OneHolds ==
    /\ \A v, w \in Calls : Holds(v) /\ Holds(w) => v = w
    /\ \A w \in Calls : wpc[w] \in {"applying", "cas"} => pending # NoCall

\* What has been applied is in force, until it is stored and after.
AppliedIsRunning ==
    /\ \A w \in Calls : wpc[w] = "cas" => running = val[w]
    /\ pending = NoCall => \A w \in Calls : Latest(w) => running = val[w]

\* The calls that returned since then passed the configuration of the last one
\* that was made pending.
LatestIsCurrent ==
    /\ \A w, c \in Calls :
         Latest(w) /\ w <= c /\ (c < seen \/ (c = seen /\ cpc = "idle")) => val[c] = val[w]
    /\ seen > 1 \/ (seen # 0 /\ cpc = "idle") => \E w \in Calls : Latest(w)

\* lastApplied, and what a Configure call read of it, was pending once.
LastIsSwapped ==
    /\ lastApplied # NoCall => Swapped(lastApplied)
    /\ last # NoCall => Swapped(last)

\* The namespaces denied while a configuration is pending include those it
\* enforces.
EnforcedIsDenied ==
    \A c \in Calls, ns \in Namespaces :
        Swapped(c) /\ EffectiveModeForNamespace(val[c], ns) = "enforce" => ns \in enforcement[c]

\* An admission that passed checkRuntimeConfigApplied for a namespace that is
\* enforced only meets the configuration of that time and later ones.
Meets(must) ==
    /\ \E c \in Calls : must <= c /\ c <= seen /\ running = val[c]
    /\ \A w \in Calls : wpc[w] = "applying" => must <= w
    /\ pending # NoCall => must <= pending

CheckedIsCovered ==
    adm.pc = "checked" =>
        /\ adm.ns \in Namespaces /\ adm.must \in 0 .. seen
        /\ adm.must # 0 /\ EffectiveModeForNamespace(val[adm.must], adm.ns) = "enforce" =>
             Meets(adm.must)

DecidedIsCovered == /\ adm.pc = "decided" => adm.must \in 0 .. seen
                    /\ EnforcedIsNotOlder

Queue == /\ Types /\ SwappedAreSeen /\ PendingIsLatest /\ OneHolds /\ LastIsSwapped

IInv == /\ Queue /\ NoneReverts /\ AppliedIsRunning /\ LatestIsCurrent /\ EnforcedIsDenied
        /\ CheckedIsCovered /\ DecidedIsCovered

-----------------------------------------------------------------------------
\* newRuntimeEnforcement covers a namespace the configuration enforces, whether
\* its policies could be loaded or not.
LEMMA EnforcementCovers ==
    ASSUME NEW cfg \in Config, NEW loadable \in BOOLEAN, NEW ns \in Namespaces,
           EffectiveModeForNamespace(cfg, ns) = "enforce"
    PROVE  ns \in newRuntimeEnforcement(cfg, loadable)
<1>1. cfg.verification \in {"disabled", "warn", "enforce"}
  BY DEF Config, Modes
<1>2. CASE cfg.verification = "disabled"
  BY <1>2 DEF EffectiveModeForNamespace
<1>3. CASE cfg.verification = "enforce"
  BY <1>3 DEF newRuntimeEnforcement
<1>4. CASE cfg.verification = "warn"
  <2>1. /\ policyForNamespace(cfg.policies, ns) # "none"
        /\ EffectiveMode(policyForNamespace(cfg.policies, ns), cfg.verification) = "enforce"
    BY <1>4 DEF EffectiveModeForNamespace
  <2>2. CASE cfg.oci \/ ~loadable
    BY <1>4, <2>2 DEF newRuntimeEnforcement
  <2>3. CASE ~(cfg.oci \/ ~loadable)
    BY <1>4, <2>1, <2>3 DEF newRuntimeEnforcement
  <2> QED BY <2>2, <2>3
<1> QED BY <1>1, <1>2, <1>3, <1>4

\* It is a set of namespaces.
LEMMA EnforcementType ==
    ASSUME NEW cfg \in Config, NEW loadable \in BOOLEAN
    PROVE  newRuntimeEnforcement(cfg, loadable) \in SUBSET Namespaces
<1>1. cfg.verification \in {"disabled", "warn", "enforce"}
  BY DEF Config, Modes
<1> QED BY <1>1 DEF newRuntimeEnforcement

\* The initial state satisfies the inductive invariant.
LEMMA InitIInv == Init => IInv
<1> SUFFICES ASSUME Init PROVE IInv
  OBVIOUS
<1>1. Queue
  BY ConfigAssumption
     DEF Init, Queue, Types, SwappedAreSeen, PendingIsLatest, OneHolds, LastIsSwapped, Swapped,
         Holds, Calls, NoCall
<1>2. NoneReverts /\ AppliedIsRunning /\ LatestIsCurrent /\ EnforcedIsDenied
  BY ConfigAssumption
     DEF Init, NoneReverts, AppliedIsRunning, LatestIsCurrent, EnforcedIsDenied, Latest, Swapped,
         Calls, NoCall
<1>3. CheckedIsCovered /\ DecidedIsCovered
  BY DEF Init, CheckedIsCovered, DecidedIsCovered, EnforcedIsNotOlder
<1> QED BY <1>1, <1>2, <1>3 DEF IInv

-----------------------------------------------------------------------------
\* A step of the goroutine of call w.
Worker(w) == \/ AttemptBegin(w) \/ ApplyFails(w) \/ ApplySucceeds(w)
             \/ Cas(w) \/ StoreLast(w) \/ Retry(w) \/ Superseded(w)

\* Every step preserves what relates the pending configuration, the goroutines
\* and the lock.
LEMMA QueueStep == Queue /\ [Next]_vars => Queue'
<1>1. SUFFICES ASSUME Queue, [Next]_vars PROVE Queue'
  OBVIOUS
<1> USE <1>1, ConfigAssumption
    DEF Queue, Types, SwappedAreSeen, PendingIsLatest, OneHolds, LastIsSwapped, Swapped, Latest,
        Holds, Calls, NoCall, configVars
<1>2. ASSUME NEW cfg \in Cfgs, Configure(cfg) PROVE Queue'
  BY <1>2 DEF Configure
<1>3. CASE AlreadyPending
  BY <1>3 DEF AlreadyPending
<1>4. CASE LoadLast
  BY <1>4 DEF LoadLast
<1>5. CASE CheckLast
  BY <1>5 DEF CheckLast
<1>6. ASSUME NEW loadable \in BOOLEAN, Swap(loadable) PROVE Queue'
  <2>1. newRuntimeEnforcement(val[seen], loadable) \in SUBSET Namespaces
    BY <1>6, EnforcementType DEF Swap
  <2> QED BY <1>6, <2>1 DEF Swap
<1>7. ASSUME NEW w \in Calls, AttemptBegin(w) PROVE Queue'
  BY <1>7 DEF AttemptBegin, Locked
<1>8. ASSUME NEW w \in Calls, ApplyFails(w) PROVE Queue'
  BY <1>8 DEF ApplyFails
<1>9. ASSUME NEW w \in Calls, ApplySucceeds(w) PROVE Queue'
  BY <1>9 DEF ApplySucceeds
<1>10. ASSUME NEW w \in Calls, Cas(w) PROVE Queue'
  <2>1. CASE pending = w
    <3>1. /\ wpc[w] = "cas" /\ pending' = NoCall /\ wpc' = [wpc EXCEPT ![w] = "store"]
          /\ UNCHANGED <<configVars, superseded, lastApplied>>
      BY <1>10, <2>1 DEF Cas
    <3>2. \A v \in Calls : v # w => wpc'[v] = wpc[v] /\ ~Holds(v)
      BY <3>1
    <3> QED BY <3>1, <3>2
  <2>2. CASE pending # w
    <3>1. /\ wpc[w] = "cas" /\ pending' = pending /\ wpc' = [wpc EXCEPT ![w] = "done"]
          /\ UNCHANGED <<configVars, superseded, lastApplied>>
      BY <1>10, <2>2 DEF Cas
    <3> QED BY <2>2, <3>1
  <2> QED BY <2>1, <2>2
<1>11. ASSUME NEW w \in Calls, StoreLast(w) PROVE Queue'
  BY <1>11 DEF StoreLast
<1>12. ASSUME NEW w \in Calls, Retry(w) PROVE Queue'
  BY <1>12 DEF Retry
<1>13. ASSUME NEW w \in Calls, Superseded(w) PROVE Queue'
  BY <1>13 DEF Superseded
<1>14. ASSUME NEW ns \in Namespaces, AdmissionBegins(ns) PROVE Queue'
  BY <1>14 DEF AdmissionBegins
<1>15. CASE AdmissionDecides
  BY <1>15 DEF AdmissionDecides
<1>16. CASE UNCHANGED vars
  BY <1>16 DEF vars
<1> QED
  BY <1>2, <1>3, <1>4, <1>5, <1>6, <1>7, <1>8, <1>9, <1>10, <1>11, <1>12, <1>13, <1>14, <1>15,
     <1>16 DEF Next

\* Goroutines and admissions change neither the calls nor which of them made
\* their configuration pending.
LEMMA CallsStay ==
    ASSUME Queue,
           \/ \E w \in Calls : Worker(w)
           \/ \E ns \in Namespaces : AdmissionBegins(ns)
           \/ AdmissionDecides
           \/ UNCHANGED vars
    PROVE  /\ UNCHANGED configVars
           /\ \A c \in Calls : Swapped(c)' <=> Swapped(c)
BY DEF Queue, Types, Swapped, Worker, AttemptBegin, ApplyFails, ApplySucceeds, Cas, StoreLast,
       Retry, Superseded, AdmissionBegins, AdmissionDecides, vars, configVars

\* Reading the pending and the last applied configuration changes neither.
LEMMA ReadsStay ==
    ASSUME Queue, AlreadyPending \/ LoadLast \/ CheckLast
    PROVE  /\ UNCHANGED <<seen, val, enforcement, pending, wpc, running, adm>>
           /\ cpc # "idle"
BY DEF AlreadyPending, LoadLast, CheckLast

-----------------------------------------------------------------------------
\* Without reverts, equal configurations stay next to each other.
LEMMA RevertsStep ==
    ASSUME Queue, NoneReverts, [Next]_vars, ~CanRevert
    PROVE  NoneReverts'
<1>1. ASSUME NEW cfg \in Cfgs, Configure(cfg) PROVE NoneReverts'
  <2>1. /\ seen \in 0 .. MaxCalls /\ seen' = seen + 1 /\ val \in [Calls -> Config]
        /\ val' = [val EXCEPT ![seen + 1] = cfg] /\ seen < MaxCalls /\ MaxCalls \in Nat
        /\ \A c \in 1 .. seen : val[c] = cfg => val[seen] = cfg
    BY <1>1, ConfigAssumption DEF Configure, Queue, Types
  <2>2. \A c \in Calls : val'[c] = IF c = seen + 1 THEN cfg ELSE val[c]
    BY <2>1
  <2>3. SUFFICES ASSUME NEW c \in Calls, NEW d \in Calls, NEW e \in Calls,
                        c <= d, d <= e, e <= seen + 1, val'[c] = val'[e]
                 PROVE  val'[d] = val'[e]
    BY <2>1 DEF NoneReverts
  <2>4. CASE e <= seen
    BY <2>1, <2>2, <2>3, <2>4 DEF NoneReverts, Calls
  <2>5. CASE e = seen + 1
    <3>1. CASE d = seen + 1
      BY <2>5, <3>1
    <3>2. CASE d # seen + 1
      <4>1. c <= seen /\ d <= seen /\ seen \in Calls
        BY <2>1, <2>3, <2>5, <3>2 DEF Calls
      <4>2. val[c] = cfg /\ val[seen] = cfg
        BY <2>1, <2>2, <2>3, <2>5, <4>1 DEF Calls
      <4>3. val[d] = val[seen]
        BY <2>1, <2>3, <4>1, <4>2 DEF NoneReverts
      <4> QED BY <2>1, <2>2, <2>5, <4>1, <4>2, <4>3 DEF Calls
    <3> QED BY <3>1, <3>2
  <2> QED BY <2>1, <2>3, <2>4, <2>5 DEF Calls
<1>2. CASE AlreadyPending \/ LoadLast \/ CheckLast
  BY <1>2, ReadsStay DEF NoneReverts
<1>3. ASSUME NEW loadable \in BOOLEAN, Swap(loadable) PROVE NoneReverts'
  BY <1>3 DEF Swap, NoneReverts
<1>4. CASE \/ \E w \in Calls : Worker(w)
           \/ \E ns \in Namespaces : AdmissionBegins(ns)
           \/ AdmissionDecides
           \/ UNCHANGED vars
  BY <1>4, CallsStay DEF NoneReverts, configVars
<1> QED BY <1>1, <1>2, <1>3, <1>4 DEF Next, Worker

\* Every step keeps the enforced namespaces of what is pending denied.
LEMMA EnforcedStep ==
    ASSUME Queue, EnforcedIsDenied, [Next]_vars
    PROVE  EnforcedIsDenied'
<1>1. ASSUME NEW cfg \in Cfgs, Configure(cfg) PROVE EnforcedIsDenied'
  BY <1>1, ConfigAssumption
     DEF Configure, Queue, Types, SwappedAreSeen, EnforcedIsDenied, Swapped, Calls
<1>2. CASE AlreadyPending \/ LoadLast \/ CheckLast
  BY <1>2, ReadsStay DEF EnforcedIsDenied, Swapped
<1>3. ASSUME NEW loadable \in BOOLEAN, Swap(loadable) PROVE EnforcedIsDenied'
  <2>1. /\ seen \in Calls /\ val' = val /\ wpc' = [wpc EXCEPT ![seen] = "try"]
        /\ val[seen] \in Config
        /\ enforcement' = [enforcement EXCEPT ![seen] = newRuntimeEnforcement(val[seen], loadable)]
    BY <1>3, ConfigAssumption DEF Swap, Queue, Types, Calls
  <2>2. SUFFICES ASSUME NEW c \in Calls, NEW ns \in Namespaces, Swapped(c)',
                        EffectiveModeForNamespace(val[c], ns) = "enforce"
                 PROVE  ns \in enforcement'[c]
    BY <2>1 DEF EnforcedIsDenied
  <2>3. CASE c = seen
    BY <2>1, <2>2, <2>3, EnforcementCovers DEF Queue, Types
  <2>4. CASE c # seen
    BY <2>1, <2>2, <2>4 DEF Queue, Types, EnforcedIsDenied, Swapped
  <2> QED BY <2>3, <2>4
<1>4. CASE \/ \E w \in Calls : Worker(w)
           \/ \E ns \in Namespaces : AdmissionBegins(ns)
           \/ AdmissionDecides
           \/ UNCHANGED vars
  BY <1>4, CallsStay DEF EnforcedIsDenied, configVars
<1> QED BY <1>1, <1>2, <1>3, <1>4 DEF Next, Worker

-----------------------------------------------------------------------------
\* The call that made its configuration pending last is unique.
LEMMA LatestIsUnique ==
    ASSUME NEW v \in Calls, NEW w \in Calls, Latest(v), Latest(w)
    PROVE  v = w
BY ConfigAssumption DEF Latest, Calls

\* Which call is the latest only depends on which calls are swapped.
LEMMA LatestStays ==
    ASSUME \A c \in Calls : Swapped(c)' <=> Swapped(c)
    PROVE  \A c \in Calls : Latest(c)' <=> Latest(c)
BY DEF Latest

\* Every step keeps the calls that returned in agreement with the latest one.
LEMMA LatestStep ==
    ASSUME Queue, NoneReverts, LatestIsCurrent, [Next]_vars
    PROVE  LatestIsCurrent'
<1>1. ASSUME NEW cfg \in Cfgs, Configure(cfg) PROVE LatestIsCurrent'
  <2>1. /\ seen \in 0 .. MaxCalls /\ seen' = seen + 1 /\ val \in [Calls -> Config]
        /\ val' = [val EXCEPT ![seen + 1] = cfg] /\ seen < MaxCalls /\ MaxCalls \in Nat
        /\ cpc = "idle" /\ cpc' = "load" /\ wpc' = wpc
    BY <1>1, ConfigAssumption DEF Configure, Queue, Types
  <2>2. \A c \in Calls : Latest(c)' <=> Latest(c)
    BY <2>1, LatestStays DEF Swapped
  <2>3. \A c \in Calls : Latest(c) => c <= seen
    BY DEF Queue, SwappedAreSeen, Latest
  <2>4. \A w, c \in Calls : Latest(w)' /\ w <= c /\ c < seen + 1 => val'[c] = val'[w]
    BY <2>1, <2>2, <2>3 DEF LatestIsCurrent, Calls
  <2>5. seen + 1 > 1 => \E w \in Calls : Latest(w)'
    BY <2>1, <2>2 DEF LatestIsCurrent
  <2> QED BY <2>1, <2>4, <2>5 DEF LatestIsCurrent
<1>2. CASE AlreadyPending
  <2>1. /\ UNCHANGED <<seen, val, wpc>> /\ cpc' = "idle" /\ pending # NoCall
        /\ val[pending] = val[seen] /\ pending \in Calls /\ Latest(pending)
    BY <1>2, ConfigAssumption
       DEF AlreadyPending, SameRaw, Queue, Types, PendingIsLatest, Calls, NoCall
  <2>2. \A c \in Calls : Latest(c)' <=> Latest(c)
    BY <2>1, LatestStays DEF Swapped
  <2>3. \A w \in Calls : Latest(w) => val[w] = val[seen]
    BY <2>1, LatestIsUnique
  <2> QED BY <2>1, <2>2, <2>3 DEF LatestIsCurrent
<1>3. CASE LoadLast
  <2>1. UNCHANGED <<seen, val, wpc>> /\ cpc' = "check" /\ cpc = "load"
    BY <1>3 DEF LoadLast
  <2>2. \A c \in Calls : Latest(c)' <=> Latest(c)
    BY <2>1, LatestStays DEF Swapped
  <2> QED BY <2>1, <2>2 DEF LatestIsCurrent
<1>4. CASE CheckLast
  <2>1. UNCHANGED <<seen, val, wpc>> /\ cpc = "check"
    BY <1>4 DEF CheckLast
  <2>2. \A c \in Calls : Latest(c)' <=> Latest(c)
    BY <2>1, LatestStays DEF Swapped
  <2>3. CASE Unchanged
    <3>1. /\ last \in Calls /\ seen \in Calls /\ val[last] = val[seen] /\ Swapped(last)
          /\ cpc' = "idle"
      BY <1>4, <2>1, <2>3, ConfigAssumption
         DEF CheckLast, Unchanged, SameRaw, Queue, Types, LastIsSwapped, Calls, NoCall
    <3>2. \A w \in Calls : Latest(w) => last <= w /\ w <= seen
      BY <3>1 DEF Latest, Queue, SwappedAreSeen
    <3>3. \A w \in Calls : Latest(w) => val[w] = val[seen]
      BY <3>1, <3>2, ConfigAssumption DEF NoneReverts, Calls
    <3>4. last < seen
      BY <2>1, <3>1 DEF Queue, SwappedAreSeen
    <3>5. seen > 1
      BY <3>1, <3>4, ConfigAssumption DEF Calls
    <3> QED BY <2>1, <2>2, <3>1, <3>3, <3>5 DEF LatestIsCurrent
  <2>4. CASE ~Unchanged
    <3>1. cpc' = "swap"
      BY <1>4, <2>4 DEF CheckLast
    <3> QED BY <2>1, <2>2, <3>1 DEF LatestIsCurrent
  <2> QED BY <2>3, <2>4
<1>5. ASSUME NEW loadable \in BOOLEAN, Swap(loadable) PROVE LatestIsCurrent'
  <2>1. /\ seen \in Calls /\ UNCHANGED <<seen, val>> /\ wpc' = [wpc EXCEPT ![seen] = "try"]
        /\ cpc = "swap"
    BY <1>5, ConfigAssumption DEF Swap, Queue, Types, Calls
  <2>2. \A c \in Calls : Swapped(c)' <=> Swapped(c) \/ c = seen
    BY <2>1 DEF Queue, Types, Swapped
  <2>3. \A c \in Calls : Swapped(c) => c <= seen
    BY DEF Queue, SwappedAreSeen
  <2>4. Latest(seen)'
    BY <2>1, <2>2, <2>3, ConfigAssumption DEF Latest, Calls
  <2>5. \A w \in Calls : Latest(w)' => seen <= w
    BY <2>1, <2>2 DEF Latest
  <2>6. \A w, c \in Calls : seen <= w /\ w <= c /\ c <= seen => c = w
    BY <2>1, ConfigAssumption DEF Calls
  <2>7. \A w, c \in Calls :
           Latest(w)' /\ w <= c /\ (c < seen \/ (c = seen /\ cpc' = "idle")) => val[c] = val[w]
    <3> SUFFICES ASSUME NEW w \in Calls, NEW c \in Calls, Latest(w)', w <= c, c < seen \/ c = seen
                 PROVE  c = w
      OBVIOUS
    <3>1. c <= seen
      BY <2>1, ConfigAssumption DEF Calls
    <3> QED BY <2>5, <2>6, <3>1
  <2> QED BY <2>1, <2>4, <2>7 DEF LatestIsCurrent
<1>6. CASE \/ \E w \in Calls : Worker(w)
           \/ \E ns \in Namespaces : AdmissionBegins(ns)
           \/ AdmissionDecides
           \/ UNCHANGED vars
  <2>1. \A c \in Calls : Latest(c)' <=> Latest(c)
    BY <1>6, CallsStay, LatestStays
  <2> QED BY <1>6, <2>1, CallsStay DEF LatestIsCurrent, configVars
<1> QED BY <1>1, <1>2, <1>3, <1>4, <1>5, <1>6 DEF Next, Worker

\* Every step keeps what has been applied in force.
LEMMA AppliedStep ==
    ASSUME Queue, AppliedIsRunning, [Next]_vars
    PROVE  AppliedIsRunning'
<1>1. ASSUME NEW cfg \in Cfgs, Configure(cfg) PROVE AppliedIsRunning'
  <2>1. /\ seen \in 0 .. MaxCalls /\ val \in [Calls -> Config]
        /\ val' = [val EXCEPT ![seen + 1] = cfg]
        /\ UNCHANGED <<wpc, pending, running>>
    BY <1>1 DEF Configure, Queue, Types
  <2>2. \A c \in Calls : Swapped(c) => val'[c] = val[c]
    BY <2>1, ConfigAssumption DEF Queue, SwappedAreSeen, Calls
  <2>3. \A c \in Calls : Latest(c)' <=> Latest(c)
    BY <2>1, LatestStays DEF Swapped
  <2> QED BY <2>1, <2>2, <2>3 DEF AppliedIsRunning, Latest, Swapped
<1>2. CASE AlreadyPending \/ LoadLast \/ CheckLast
  <2>1. \A c \in Calls : Latest(c)' <=> Latest(c)
    BY <1>2, ReadsStay, LatestStays DEF Swapped
  <2> QED BY <1>2, <2>1, ReadsStay DEF AppliedIsRunning
<1>3. ASSUME NEW loadable \in BOOLEAN, Swap(loadable) PROVE AppliedIsRunning'
  BY <1>3, ConfigAssumption DEF Swap, Queue, Types, AppliedIsRunning, Calls, NoCall
<1>4. ASSUME NEW w \in Calls, Worker(w) PROVE AppliedIsRunning'
  <2>1. \A c \in Calls : Latest(c)' <=> Latest(c)
    BY <1>4, CallsStay, LatestStays
  <2>2. val' = val
    BY <1>4, CallsStay DEF configVars
  <2>3. CASE ApplySucceeds(w)
    <3>1. /\ wpc[w] = "applying" /\ running' = val[w] /\ pending' = pending
          /\ wpc' = [wpc EXCEPT ![w] = "cas"] /\ pending # NoCall
      BY <2>3 DEF ApplySucceeds, Queue, OneHolds
    <3>2. \A v \in Calls : wpc'[v] = "cas" => v = w
      BY <3>1 DEF Queue, Types, OneHolds, Holds
    <3> QED BY <2>2, <3>1, <3>2 DEF AppliedIsRunning
  <2>4. CASE Cas(w)
    <3>1. /\ wpc[w] = "cas" /\ running' = running /\ running = val[w]
          /\ \A v \in Calls : wpc'[v] = "cas" => wpc[v] = "cas"
      BY <2>4 DEF Cas, Queue, Types, AppliedIsRunning
    <3>2. CASE pending = w
      <4>1. Latest(w)
        BY <3>2, ConfigAssumption DEF Queue, PendingIsLatest, Calls, NoCall
      <4> QED BY <2>1, <2>2, <3>1, <4>1, LatestIsUnique DEF AppliedIsRunning
    <3>3. CASE pending # w
      <4>1. pending' = pending
        BY <2>4, <3>3 DEF Cas
      <4> QED BY <2>1, <2>2, <3>1, <4>1 DEF AppliedIsRunning
    <3> QED BY <3>2, <3>3
  <2>5. CASE AttemptBegin(w) \/ ApplyFails(w) \/ StoreLast(w) \/ Retry(w) \/ Superseded(w)
    <3>1. /\ UNCHANGED <<running, pending>>
          /\ \A v \in Calls : wpc'[v] = "cas" => wpc[v] = "cas"
      BY <2>5 DEF AttemptBegin, ApplyFails, StoreLast, Retry, Superseded, Queue, Types
    <3> QED BY <2>1, <2>2, <3>1 DEF AppliedIsRunning
  <2> QED BY <1>4, <2>3, <2>4, <2>5 DEF Worker
<1>5. CASE \/ \E ns \in Namespaces : AdmissionBegins(ns)
           \/ AdmissionDecides
           \/ UNCHANGED vars
  <2>1. \A c \in Calls : Latest(c)' <=> Latest(c)
    BY <1>5, CallsStay, LatestStays
  <2>2. UNCHANGED <<val, wpc, running, pending>>
    BY <1>5 DEF AdmissionBegins, AdmissionDecides, vars, configVars
  <2> QED BY <2>1, <2>2 DEF AppliedIsRunning
<1> QED BY <1>1, <1>2, <1>3, <1>4, <1>5 DEF Next, Worker

-----------------------------------------------------------------------------
\* Once nothing is pending, the configuration in force is that of the last call.
LEMMA ReadyFollows ==
    ASSUME Queue, AppliedIsRunning, LatestIsCurrent
    PROVE  ReadyIsCurrent
<1> SUFFICES ASSUME cpc = "idle", pending = NoCall, seen # 0
             PROVE  running = val[seen]
  BY DEF ReadyIsCurrent
<1>1. PICK w \in Calls : Latest(w)
  BY DEF LatestIsCurrent
<1>2. seen \in Calls /\ w <= seen
  BY <1>1, ConfigAssumption DEF Queue, Types, SwappedAreSeen, Latest, Calls
<1>3. val[seen] = val[w]
  BY <1>1, <1>2 DEF LatestIsCurrent
<1> QED BY <1>1, <1>3 DEF AppliedIsRunning

\* An admission that passes checkRuntimeConfigApplied for an enforced namespace
\* does so when nothing is pending.
LEMMA PassesWhenApplied ==
    ASSUME IInv, NEW ns \in Namespaces, AdmissionBegins(ns), seen # 0,
           adm'.pc = "checked", EffectiveModeForNamespace(val[seen], ns) = "enforce"
    PROVE  pending = NoCall
<1>1. SUFFICES ASSUME pending # NoCall PROVE FALSE
  OBVIOUS
<1>2. /\ pending \in Calls /\ Latest(pending) /\ Swapped(pending) /\ seen \in Calls
      /\ pending <= seen /\ cpc = "idle"
  BY <1>1, ConfigAssumption
     DEF AdmissionBegins, IInv, Queue, Types, PendingIsLatest, SwappedAreSeen, Latest, Calls, NoCall
<1>3. val[seen] = val[pending]
  BY <1>2 DEF IInv, LatestIsCurrent
<1>4. ns \in enforcement[pending]
  BY <1>2, <1>3 DEF IInv, EnforcedIsDenied
<1>5. adm'.pc = "denied"
  BY <1>1, <1>4 DEF AdmissionBegins
<1> QED BY <1>5

\* A step that leaves the admission alone keeps it covered, if it keeps the
\* configurations passed so far and only brings later ones into force.
LEMMA CheckedStays ==
    ASSUME IInv, UNCHANGED adm, seen' \in Nat, seen <= seen',
           \A c \in Calls : c <= seen => val'[c] = val[c],
           NEW must \in Calls,
           must <= seen => (Meets(must) => Meets(must)')
    PROVE  adm.pc = "checked" /\ adm.must = must => CheckedIsCovered'
<1> SUFFICES ASSUME adm.pc = "checked", adm.must = must PROVE CheckedIsCovered'
  OBVIOUS
<1>1. adm.ns \in Namespaces /\ must <= seen /\ must \in 0 .. seen'
  BY ConfigAssumption DEF IInv, Queue, Types, CheckedIsCovered, Calls
<1>2. val'[must] = val[must]
  BY <1>1
<1> QED BY <1>1, <1>2 DEF IInv, CheckedIsCovered

\* Every step keeps the admission that passed the check covered.
LEMMA CheckedStep ==
    ASSUME IInv, [Next]_vars
    PROVE  CheckedIsCovered'
<1>0. /\ seen \in 0 .. MaxCalls /\ MaxCalls \in Nat /\ val \in [Calls -> Config]
      /\ wpc \in [Calls -> {"none", "try", "applying", "cas", "store", "backoff", "done"}]
  BY ConfigAssumption DEF IInv, Queue, Types
<1>1. ASSUME NEW ns \in Namespaces, AdmissionBegins(ns) PROVE CheckedIsCovered'
  <2>1. /\ adm'.must = seen /\ adm'.ns = ns /\ cpc = "idle"
        /\ UNCHANGED <<seen, val, running, wpc, pending>>
    BY <1>1 DEF AdmissionBegins, configVars
  <2>2. SUFFICES ASSUME adm'.pc = "checked", seen # 0,
                        EffectiveModeForNamespace(val[seen], ns) = "enforce"
                 PROVE  Meets(seen)'
    BY <1>0, <2>1 DEF CheckedIsCovered
  <2>3. pending = NoCall
    BY <1>1, <2>2, PassesWhenApplied
  <2>4. running = val[seen] /\ seen \in Calls
    BY <1>0, <2>1, <2>2, <2>3, ReadyFollows DEF IInv, ReadyIsCurrent, Calls
  <2>5. \A w \in Calls : wpc[w] # "applying"
    BY <2>3 DEF IInv, Queue, OneHolds
  <2> QED BY <1>0, <2>1, <2>3, <2>4, <2>5 DEF Meets, Calls
<1>2. CASE AdmissionDecides
  BY <1>2 DEF AdmissionDecides, CheckedIsCovered
<1>3. ASSUME UNCHANGED adm, seen' \in Nat, seen <= seen',
             \A c \in Calls : c <= seen => val'[c] = val[c],
             \A must \in Calls : must <= seen => (Meets(must) => Meets(must)')
      PROVE  CheckedIsCovered'
  <2>1. CASE adm.pc # "checked"
    BY <1>3, <2>1 DEF CheckedIsCovered
  <2>2. CASE adm.pc = "checked" /\ adm.must = 0
    BY <1>0, <1>3, <2>2 DEF IInv, CheckedIsCovered
  <2>3. CASE adm.pc = "checked" /\ adm.must # 0
    <3>1. adm.must \in Calls
      BY <1>0, <2>3 DEF IInv, CheckedIsCovered, Calls
    <3> QED BY <1>3, <2>3, <3>1, CheckedStays
  <2> QED BY <2>1, <2>2, <2>3
<1>4. ASSUME NEW cfg \in Cfgs, Configure(cfg) PROVE CheckedIsCovered'
  <2>1. /\ UNCHANGED <<adm, running, wpc, pending>> /\ seen' = seen + 1
        /\ val' = [val EXCEPT ![seen + 1] = cfg]
    BY <1>4 DEF Configure
  <2>2. \A c \in Calls : c <= seen => val'[c] = val[c]
    BY <1>0, <2>1 DEF Calls
  <2>3. \A must \in Calls : Meets(must) => Meets(must)'
    BY <1>0, <2>1, <2>2 DEF Meets, Calls
  <2> QED BY <1>0, <1>3, <2>1, <2>2, <2>3
<1>5. CASE AlreadyPending \/ LoadLast \/ CheckLast
  <2>1. \A must \in Calls : Meets(must) => Meets(must)'
    BY <1>5, ReadsStay DEF IInv, Meets
  <2> QED BY <1>0, <1>3, <1>5, <2>1, ReadsStay DEF IInv
<1>6. ASSUME NEW loadable \in BOOLEAN, Swap(loadable) PROVE CheckedIsCovered'
  <2>1. /\ UNCHANGED <<adm, running, val, seen>> /\ pending' = seen
        /\ wpc' = [wpc EXCEPT ![seen] = "try"]
    BY <1>6 DEF Swap
  <2>2. \A must \in Calls : must <= seen /\ Meets(must) => Meets(must)'
    BY <1>0, <2>1 DEF Meets
  <2> QED BY <1>0, <1>3, <2>1, <2>2
<1>7. ASSUME NEW w \in Calls, Worker(w) PROVE CheckedIsCovered'
  <2>1. UNCHANGED <<adm, val, seen>>
    BY <1>7 DEF Worker, AttemptBegin, ApplyFails, ApplySucceeds, Cas, StoreLast, Retry, Superseded,
                configVars
  <2>2. SUFFICES ASSUME NEW must \in Calls, Meets(must) PROVE Meets(must)'
    BY <1>0, <1>3, <2>1
  <2>3. CASE AttemptBegin(w)
    <3>1. /\ UNCHANGED <<running, pending>>
          /\ wpc' = [wpc EXCEPT ![w] = IF pending = w THEN "applying" ELSE "done"]
      BY <2>3 DEF AttemptBegin
    <3>2. \A v \in Calls : wpc'[v] = "applying" => wpc[v] = "applying" \/ v = pending
      BY <1>0, <3>1
    <3>3. \A v \in Calls : v = pending => pending # NoCall
      BY <1>0 DEF Calls, NoCall
    <3> QED BY <2>1, <2>2, <3>1, <3>2, <3>3 DEF Meets
  <2>4. CASE ApplySucceeds(w)
    <3>1. /\ wpc[w] = "applying" /\ running' = val[w] /\ pending' = pending
          /\ wpc' = [wpc EXCEPT ![w] = "cas"]
      BY <2>4 DEF ApplySucceeds
    <3>2. w <= seen /\ must <= w
      BY <2>2, <3>1 DEF IInv, Queue, SwappedAreSeen, Swapped, Meets
    <3>3. \A v \in Calls : wpc'[v] = "applying" => wpc[v] = "applying"
      BY <1>0, <3>1
    <3> QED BY <2>1, <2>2, <3>1, <3>2, <3>3 DEF Meets
  <2>5. CASE ApplyFails(w) \/ Cas(w) \/ StoreLast(w) \/ Retry(w) \/ Superseded(w)
    <3>1. /\ running' = running /\ (pending' = pending \/ pending' = NoCall)
          /\ \A v \in Calls : wpc'[v] = "applying" => wpc[v] = "applying"
      BY <1>0, <2>5 DEF ApplyFails, Cas, StoreLast, Retry, Superseded
    <3> QED BY <2>1, <2>2, <3>1 DEF Meets
  <2> QED BY <1>7, <2>3, <2>4, <2>5 DEF Worker
<1>8. CASE UNCHANGED vars
  BY <1>8 DEF vars, IInv, CheckedIsCovered, Meets
<1> QED BY <1>1, <1>2, <1>4, <1>5, <1>6, <1>7, <1>8 DEF Next, Worker

\* What an admission was decided by stays one of the configurations passed
\* since it began.
LEMMA DecidedStep ==
    ASSUME IInv, [Next]_vars
    PROVE  DecidedIsCovered'
<1>0. seen \in 0 .. MaxCalls /\ MaxCalls \in Nat /\ val \in [Calls -> Config]
  BY ConfigAssumption DEF IInv, Queue, Types
<1>1. CASE AdmissionDecides
  <2>1. /\ adm.pc = "checked" /\ adm'.must = adm.must /\ adm'.ns = adm.ns /\ adm'.by = running
        /\ UNCHANGED <<seen, val>>
    BY <1>1 DEF AdmissionDecides, configVars
  <2>2. adm.must \in 0 .. seen
    BY <2>1 DEF IInv, CheckedIsCovered
  <2>3. ASSUME adm.must # 0, EffectiveModeForNamespace(val[adm.must], adm.ns) = "enforce"
        PROVE  \E c \in adm.must .. seen : running = val[c]
    BY <1>0, <2>1, <2>2, <2>3 DEF IInv, CheckedIsCovered, Meets, Calls
  <2> QED BY <2>1, <2>2, <2>3 DEF DecidedIsCovered, EnforcedIsNotOlder
<1>2. ASSUME NEW ns \in Namespaces, AdmissionBegins(ns) PROVE DecidedIsCovered'
  <2>1. adm'.pc # "decided"
    BY <1>2 DEF AdmissionBegins
  <2> QED BY <2>1 DEF DecidedIsCovered, EnforcedIsNotOlder
<1>3. ASSUME UNCHANGED adm, seen' \in Nat, seen <= seen',
             \A c \in Calls : c <= seen => val'[c] = val[c]
      PROVE  DecidedIsCovered'
  <2>1. CASE adm.pc # "decided"
    BY <1>3, <2>1 DEF DecidedIsCovered, EnforcedIsNotOlder
  <2>2. CASE adm.pc = "decided"
    <3>1. adm.must \in 0 .. seen /\ adm.must \in 0 .. seen'
      BY <1>0, <1>3, <2>2 DEF IInv, DecidedIsCovered
    <3>2. adm.must # 0 => val'[adm.must] = val[adm.must]
      BY <1>0, <1>3, <3>1 DEF Calls
    <3>3. \A c \in adm.must .. seen : adm.must # 0 => c \in adm.must .. seen' /\ val'[c] = val[c]
      BY <1>0, <1>3, <3>1 DEF Calls
    <3> QED BY <1>3, <2>2, <3>1, <3>2, <3>3 DEF IInv, DecidedIsCovered, EnforcedIsNotOlder
  <2> QED BY <2>1, <2>2
<1>4. ASSUME NEW cfg \in Cfgs, Configure(cfg) PROVE DecidedIsCovered'
  <2>1. UNCHANGED adm /\ seen' = seen + 1 /\ val' = [val EXCEPT ![seen + 1] = cfg]
    BY <1>4 DEF Configure
  <2>2. \A c \in Calls : c <= seen => val'[c] = val[c]
    BY <1>0, <2>1 DEF Calls
  <2> QED BY <1>0, <1>3, <2>1, <2>2
<1>5. CASE \/ AlreadyPending \/ LoadLast \/ CheckLast \/ (\E loadable \in BOOLEAN : Swap(loadable))
           \/ (\E w \in Calls : Worker(w)) \/ UNCHANGED vars
  <2>1. UNCHANGED <<adm, seen, val>>
    BY <1>5 DEF AlreadyPending, LoadLast, CheckLast, Swap, Worker, AttemptBegin, ApplyFails,
                ApplySucceeds, Cas, StoreLast, Retry, Superseded, configVars, vars
  <2> QED BY <1>0, <1>3, <2>1
<1> QED BY <1>1, <1>2, <1>4, <1>5 DEF Next, Worker

-----------------------------------------------------------------------------
\* Every step preserves the inductive invariant, if the runtime does not revert.
LEMMA NextIInv == ~CanRevert => (IInv /\ [Next]_vars => IInv')
BY QueueStep, RevertsStep, EnforcedStep, LatestStep, AppliedStep, CheckedStep, DecidedStep DEF IInv

\* A plugin that reports ready has caught up with the runtime, and no admission
\* slips through between a Configure and the moment it is in force, as long as
\* the runtime does not go back to an earlier configuration.
THEOREM ConfigurationStaysCurrent ==
    ASSUME ~CanRevert
    PROVE  Spec => []ConfigurationIsCurrent
<1>1. IInv => ConfigurationIsCurrent
  BY ReadyFollows DEF IInv, DecidedIsCovered, ConfigurationIsCurrent
<1>2. IInv /\ [Next]_vars => IInv'
  BY NextIInv
<1> QED BY <1>1, <1>2, InitIInv, PTL DEF Spec
=============================================================================
