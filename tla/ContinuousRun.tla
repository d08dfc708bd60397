----------------------------- MODULE ContinuousRun -----------------------------
(***************************************************************************)
(* Starting and stopping the continuous verifier: beginContinuousVerifier  *)
(* with its finish function, StartContinuousVerifier and                   *)
(* StopContinuousVerifier (internal/plugin/continuous_verifier.go), called *)
(* by the reloads, one at a time, and RunContinuousVerifier, called once   *)
(* by the daemon at startup, next to the reloads (internal/daemon).        *)
(*                                                                         *)
(* A run is one successful begin. What a run does in its loop is the       *)
(* subject of Remediation.                                                 *)
(***************************************************************************)
EXTENDS Naturals, FiniteSets

CONSTANTS
    Runs,       \* names of runs; one that is done names a later run again
    NoRun,
    AtStartup   \* the daemon starts with remediation enabled

ASSUME RunsAssumption == NoRun \notin Runs /\ AtStartup \in BOOLEAN

VARIABLES
    started,    \* remediationState.started
    stopRun,    \* remediationState.stopRun and runDone: the registered run
    rpc,        \* per run: "claimed", "loop", "cleared", "closing", "done"
    cancelled,  \* the runs whose context is cancelled
    lpc,        \* the reload: "idle", "start", "stop", "wait", "release"
    target,     \* the run StopContinuousVerifier waits for
    enabled,    \* what the last reload asked for
    booted      \* RunContinuousVerifier has been called

varsRun == <<started, stopRun, rpc, cancelled, lpc, target, enabled, booted>>

RunPhases == {"claimed", "loop", "cleared", "closing", "done"}

InitRun == /\ started = FALSE
        /\ stopRun = NoRun
        /\ rpc = [r \in Runs |-> "done"]
        /\ cancelled = {}
        /\ lpc = "idle"
        /\ target = NoRun
        /\ enabled = AtStartup
        /\ booted = ~AtStartup

\* A run between its CompareAndSwap and the reset of started.
Active(r) == rpc[r] \in {"claimed", "loop", "cleared"}

-----------------------------------------------------------------------------
(* beginContinuousVerifier.                                                 *)

\* Mutant: the flag is read and written in two steps.
Claim_Unchecked(r) ==
    /\ rpc[r] = "done"
    /\ r # target
    /\ started' = TRUE
    /\ rpc' = [rpc EXCEPT ![r] = "claimed"]
    /\ cancelled' = cancelled \ {r}

\* started.CompareAndSwap(false, true) succeeds.
Claim(r) ==
    /\ rpc[r] = "done"
    /\ r # target
    /\ ~started
    /\ started' = TRUE
    /\ rpc' = [rpc EXCEPT ![r] = "claimed"]
    /\ cancelled' = cancelled \ {r}

\* RunContinuousVerifier at startup.
RunStarts(r) ==
    /\ ~booted
    /\ Claim(r)
    /\ booted' = TRUE
    /\ UNCHANGED <<stopRun, lpc, target, enabled>>

\* RunContinuousVerifier finds a run of a reload.
RunIgnored ==
    /\ ~booted
    /\ started
    /\ booted' = TRUE
    /\ UNCHANGED <<started, stopRun, rpc, cancelled, lpc, target, enabled>>

\* StartContinuousVerifier by a reload that enables remediation.
StartStarts(r) ==
    /\ lpc = "start"
    /\ Claim(r)
    /\ lpc' = "starting"
    /\ UNCHANGED <<stopRun, target, enabled, booted>>

StartIgnored ==
    /\ lpc = "start"
    /\ started
    /\ lpc' = "idle"
    /\ UNCHANGED <<started, stopRun, rpc, cancelled, target, enabled, booted>>

\* The run is registered under runMu and its loop starts.
Register(r) ==
    /\ rpc[r] = "claimed"
    /\ stopRun' = r
    /\ rpc' = [rpc EXCEPT ![r] = "loop"]
    /\ lpc' = IF lpc = "starting" THEN "idle" ELSE lpc
    /\ UNCHANGED <<started, cancelled, target, enabled, booted>>

-----------------------------------------------------------------------------
(* The loop ends because its context is cancelled, and finish runs.         *)

FinishClears(r) ==
    /\ rpc[r] = "loop"
    /\ r \in cancelled
    /\ stopRun' = IF stopRun = r THEN NoRun ELSE stopRun
    /\ rpc' = [rpc EXCEPT ![r] = "cleared"]
    /\ UNCHANGED <<started, cancelled, lpc, target, enabled, booted>>

FinishFrees(r) ==
    /\ rpc[r] = "cleared"
    /\ started' = FALSE
    /\ rpc' = [rpc EXCEPT ![r] = "closing"]
    /\ UNCHANGED <<stopRun, cancelled, lpc, target, enabled, booted>>

\* Mutant: done is only closed when the run was not stopped.
FinishCloses_Missing(r) ==
    /\ rpc[r] = "closing"
    /\ r \notin cancelled
    /\ rpc' = [rpc EXCEPT ![r] = "done"]
    /\ UNCHANGED <<started, stopRun, cancelled, lpc, target, enabled, booted>>

\* close(done)
FinishCloses(r) ==
    /\ rpc[r] = "closing"
    /\ rpc' = [rpc EXCEPT ![r] = "done"]
    /\ UNCHANGED <<started, stopRun, cancelled, lpc, target, enabled, booted>>

-----------------------------------------------------------------------------
(* Reloads, serialised by reloadMu, and StopContinuousVerifier.             *)

ReloadEnables ==
    /\ lpc = "idle"
    /\ enabled' = TRUE
    /\ lpc' = "start"
    /\ UNCHANGED <<started, stopRun, rpc, cancelled, target, booted>>

ReloadDisables ==
    /\ lpc = "idle"
    /\ enabled' = FALSE
    /\ lpc' = "stop"
    /\ UNCHANGED <<started, stopRun, rpc, cancelled, target, booted>>

StopIgnored ==
    /\ lpc = "stop"
    /\ stopRun = NoRun
    /\ lpc' = "idle"
    /\ UNCHANGED <<started, stopRun, rpc, cancelled, target, enabled, booted>>

\* The registered run is taken under runMu and cancelled.
StopCancels ==
    /\ lpc = "stop"
    /\ stopRun # NoRun
    /\ target' = stopRun
    /\ stopRun' = NoRun
    /\ cancelled' = cancelled \union {stopRun}
    /\ lpc' = "wait"
    /\ UNCHANGED <<started, rpc, enabled, booted>>

\* <-done
StopWaits ==
    /\ lpc = "wait"
    /\ rpc[target] = "done"
    /\ lpc' = "release"
    /\ UNCHANGED <<started, stopRun, rpc, cancelled, target, enabled, booted>>

\* releaseThrottledContainers returns.
StopReleases ==
    /\ lpc = "release"
    /\ lpc' = "idle"
    /\ target' = NoRun
    /\ UNCHANGED <<started, stopRun, rpc, cancelled, enabled, booted>>

-----------------------------------------------------------------------------
RunStep(r) ==
    \/ RunStarts(r)
    \/ Register(r)
    \/ FinishClears(r)
    \/ FinishFrees(r)
    \/ FinishCloses(r)

StartStep == StartIgnored \/ \E r \in Runs : StartStarts(r)

StopStep == StopIgnored \/ StopCancels \/ StopWaits \/ StopReleases

NextRun ==
    \/ \E r \in Runs : RunStep(r)
    \/ RunIgnored
    \/ ReloadEnables
    \/ ReloadDisables
    \/ StartStep
    \/ StopStep

SpecRun == InitRun /\ [][NextRun]_varsRun

\* Goroutines that can take a step take it; reloads come as they like.
FairRun ==
    /\ SpecRun
    /\ \A r \in Runs : WF_varsRun(RunStep(r))
    /\ WF_varsRun(RunIgnored)
    /\ WF_varsRun(StartStep)
    /\ WF_varsRun(StopStep)

-----------------------------------------------------------------------------
TypeOKRun ==
    /\ started \in BOOLEAN
    /\ stopRun \in Runs \union {NoRun}
    /\ rpc \in [Runs -> RunPhases]
    /\ cancelled \subseteq Runs
    /\ lpc \in {"idle", "start", "starting", "stop", "wait", "release"}
    /\ target \in Runs \union {NoRun}
    /\ target # NoRun <=> lpc \in {"wait", "release"}
    /\ enabled \in BOOLEAN
    /\ booted \in BOOLEAN

\* At most one loop re-verifies containers at any time, although a run can be
\* begun while the previous one is still finishing: two loops would both send
\* updates for the same container (started in beginContinuousVerifier).
OneRun == \A r, s \in Runs : Active(r) /\ Active(s) => r = s

\* A loop that nobody cancelled can be stopped: it is the registered run. A
\* run that ends never takes the registration of the run after it
\* (beginContinuousVerifier registers what finish clears).
LoopIsStoppable == \A r \in Runs : rpc[r] = "loop" /\ r \notin cancelled => stopRun = r

\* When StopContinuousVerifier releases the throttled containers, the run it
\* stopped has returned: the two never update containers side by side
\* (<-done before releaseThrottledContainers).
ReleaseAfterRun == lpc = "release" => rpc[target] = "done"

\* A reload that starts and stops runs while they begin and end never loses
\* control of them (OneRun, LoopIsStoppable, ReleaseAfterRun).
RunsAreControlled == OneRun /\ LoopIsStoppable /\ ReleaseAfterRun

\* StopContinuousVerifier returns: the run it waits for always ends, and a
\* reload is never stuck behind it.
ReloadsReturn == lpc # "idle" ~> lpc = "idle"

\* "The run is registered before its loop starts, so StopContinuousVerifier
\* stops a run that was just started." (beginContinuousVerifier): once a
\* reload that disables remediation has returned, no run is active.
DisabledIsStopped == (lpc = "idle" /\ ~enabled) => \A r \in Runs : ~Active(r)
=============================================================================
