---------------------------- MODULE RuntimeConfig ----------------------------
(***************************************************************************)
(* The configuration the container runtime passes in Configure             *)
(* (internal/plugin/runtime_config.go): every new one becomes the pending  *)
(* configuration, a goroutine of its own applies it with retries, and      *)
(* while it is pending CreateContainer denies the namespaces it may        *)
(* enforce.  The goroutine that applies one configuration outlives the     *)
(* Configure call and runs next to later Configure calls and admissions.   *)
(*                                                                         *)
(* Applying a configuration reloads the verifier (Verification models what *)
(* a reload does there); here it replaces the configuration in force.      *)
(***************************************************************************)
EXTENDS Naturals

CONSTANTS
    Cfgs,       \* the configurations the runtime may pass
    Startup,    \* the configuration the plugin starts with
    Namespaces,
    MaxCalls,   \* bound on the Configure calls
    CanRevert   \* whether the runtime may go back to an earlier configuration

\* A configuration: the global mode, whether its policies come from OCI, and
\* the modes of its policies by namespace, "default" for the policy without a
\* namespace.  "unset" is a policy without a mode, "none" no policy.
Modes == {"disabled", "warn", "enforce"}
Policies == [Namespaces \cup {"default"} -> Modes \cup {"unset", "none"}]
Config == [verification : Modes, oci : BOOLEAN, policies : Policies]

ASSUME ConfigAssumption ==
    /\ "default" \notin Namespaces
    /\ Cfgs \subseteq Config /\ Startup \in Config
    /\ MaxCalls \in Nat
    /\ CanRevert \in BOOLEAN

Calls == 1 .. MaxCalls
NoCall == 0

VARIABLES
    seen,        \* the number of Configure calls so far
    val,         \* the configuration each of them passed
    cpc,         \* the Configure call in progress: "idle", "load", "check", "swap"
    last,        \* its local: the call whose configuration was applied last
    enforcement, \* per call: the namespaces pendingRuntimeConfig.enforcement covers
    pending,     \* runtimeConfigState.pending
    superseded,  \* the calls whose superseded channel is closed
    lastApplied, \* runtimeConfigState.lastApplied: a call whose raw it holds
    failure,     \* runtimeConfigState.failure: the call whose apply failed
    wpc,         \* the goroutine of each call
    running,     \* the configuration in force in the verifier
    adm          \* an admission

vars == <<seen, val, cpc, last, enforcement, pending, superseded, lastApplied,
          failure, wpc, running, adm>>

configVars == <<seen, val, cpc, last, enforcement>>

Locked == \E w \in Calls : wpc[w] \in {"applying", "cas", "store"}

Init == /\ seen = 0
        /\ val = [c \in Calls |-> Startup]
        /\ cpc = "idle"
        /\ last = NoCall
        /\ enforcement = [c \in Calls |-> {}]
        /\ pending = NoCall
        /\ superseded = {}
        /\ lastApplied = NoCall
        /\ failure = NoCall
        /\ wpc = [c \in Calls |-> "none"]
        /\ running = Startup
        /\ adm = [pc |-> "idle"]

-----------------------------------------------------------------------------
(* The mode of a namespace.                                                 *)

policyForNamespace(pols, ns) ==
    IF pols[ns] # "none" THEN pols[ns] ELSE pols["default"]

EffectiveMode(mode, global) == IF mode = "unset" THEN global ELSE mode

\* The mode the verifier applies to a namespace once cfg is in force.
EffectiveModeForNamespace(cfg, ns) ==
    LET pol == policyForNamespace(cfg.policies, ns)
    IN  IF cfg.verification = "disabled" THEN "disabled"
        ELSE IF pol = "none" THEN cfg.verification
        ELSE EffectiveMode(pol, cfg.verification)

\* The namespaces e.enforces(ns) holds of: all of them, or, in warn mode with
\* local policies that could be loaded, those whose policy enforces.
newRuntimeEnforcement(cfg, loaded) ==
    CASE cfg.verification = "disabled" -> {}
      [] cfg.verification = "enforce" -> Namespaces
      [] cfg.verification = "warn" /\ (cfg.oci \/ ~loaded) -> Namespaces
      [] OTHER ->
         {ns \in Namespaces :
             LET pol == policyForNamespace(cfg.policies, ns)
             IN  pol # "none" /\ EffectiveMode(pol, cfg.verification) = "enforce"}

-----------------------------------------------------------------------------
(* Configure.  The calls come one after the other; one that has made its    *)
(* configuration pending only waits a moment for the first attempt, which   *)
(* changes nothing and is left out.                                         *)

Configure(cfg) ==
    /\ cpc = "idle"
    /\ seen < MaxCalls
    /\ ~CanRevert => \A c \in 1 .. seen : val[c] = cfg => val[seen] = cfg
    /\ seen' = seen + 1
    /\ val' = [val EXCEPT ![seen + 1] = cfg]
    /\ cpc' = "load"
    /\ UNCHANGED <<last, enforcement, pending, superseded, lastApplied, failure,
                   wpc, running, adm>>

SameRaw(c, d) == c # NoCall /\ val[c] = val[d]

\* The same configuration is already being applied.
AlreadyPending ==
    /\ cpc = "load"
    /\ SameRaw(pending, seen)
    /\ cpc' = "idle"
    /\ UNCHANGED <<seen, val, last, enforcement, pending, superseded, lastApplied,
                   failure, wpc, running, adm>>

\* lastApplied is read before pending is read again.
LoadLast ==
    /\ cpc = "load"
    /\ ~SameRaw(pending, seen)
    /\ last' = lastApplied
    /\ cpc' = "check"
    /\ UNCHANGED <<seen, val, enforcement, pending, superseded, lastApplied,
                   failure, wpc, running, adm>>

Unchanged == pending = NoCall /\ SameRaw(last, seen)

\* An unchanged configuration is kept.
CheckLast ==
    /\ cpc = "check"
    /\ cpc' = IF Unchanged THEN "idle" ELSE "swap"
    /\ UNCHANGED <<seen, val, last, enforcement, pending, superseded, lastApplied,
                   failure, wpc, running, adm>>

\* The configuration becomes pending in place of the one before, whose retries
\* stop, and its goroutine starts.  loaded: its local policies can be loaded.
Swap(loaded) ==
    /\ cpc = "swap"
    /\ enforcement' = [enforcement EXCEPT ![seen] = newRuntimeEnforcement(val[seen], loaded)]
    /\ pending' = seen
    /\ superseded' = superseded \cup ({pending} \ {NoCall})
    /\ failure' = NoCall
    /\ wpc' = [wpc EXCEPT ![seen] = "try"]
    /\ cpc' = "idle"
    /\ UNCHANGED <<seen, val, last, lastApplied, running, adm>>

-----------------------------------------------------------------------------
(* attemptRuntimeConfig and its retries, by the goroutine of call w.        *)

\* mu is taken; a superseded configuration is left to its successor.
AttemptBegin(w) ==
    /\ wpc[w] = "try"
    /\ ~Locked
    /\ wpc' = [wpc EXCEPT ![w] = IF pending = w THEN "applying" ELSE "done"]
    /\ UNCHANGED <<configVars, pending, superseded, lastApplied, failure, running, adm>>

\* Mutant: a failed apply is given up.
ApplyFails_GiveUp(w) ==
    /\ wpc[w] = "applying"
    /\ failure' = w
    /\ wpc' = [wpc EXCEPT ![w] = "done"]
    /\ UNCHANGED <<configVars, pending, superseded, lastApplied, running, adm>>

\* The apply fails, the configuration in force stays, and mu is released.
ApplyFails(w) ==
    /\ wpc[w] = "applying"
    /\ failure' = w
    /\ wpc' = [wpc EXCEPT ![w] = "backoff"]
    /\ UNCHANGED <<configVars, pending, superseded, lastApplied, running, adm>>

ApplySucceeds(w) ==
    /\ wpc[w] = "applying"
    /\ running' = val[w]
    /\ wpc' = [wpc EXCEPT ![w] = "cas"]
    /\ UNCHANGED <<configVars, pending, superseded, lastApplied, failure, adm>>

\* Mutant: pending is cleared whatever it holds by now.
Cas_Store(w) ==
    /\ wpc[w] = "cas"
    /\ pending' = NoCall
    /\ wpc' = [wpc EXCEPT ![w] = "store"]
    /\ UNCHANGED <<configVars, superseded, lastApplied, failure, running, adm>>

\* pending.CompareAndSwap(pending, nil); when it fails mu is released.
Cas(w) ==
    /\ wpc[w] = "cas"
    /\ \/ /\ pending = w
          /\ pending' = NoCall
          /\ wpc' = [wpc EXCEPT ![w] = "store"]
       \/ /\ pending # w
          /\ pending' = pending
          /\ wpc' = [wpc EXCEPT ![w] = "done"]
    /\ UNCHANGED <<configVars, superseded, lastApplied, failure, running, adm>>

\* failure and lastApplied are stored and mu is released.
StoreLast(w) ==
    /\ wpc[w] = "store"
    /\ failure' = NoCall
    /\ lastApplied' = w
    /\ wpc' = [wpc EXCEPT ![w] = "done"]
    /\ UNCHANGED <<configVars, pending, superseded, running, adm>>

\* The backoff elapses.
Retry(w) ==
    /\ wpc[w] = "backoff"
    /\ wpc' = [wpc EXCEPT ![w] = "try"]
    /\ UNCHANGED <<configVars, pending, superseded, lastApplied, failure, running, adm>>

\* A newer configuration ends the retries.
Superseded(w) ==
    /\ wpc[w] = "backoff"
    /\ w \in superseded
    /\ wpc' = [wpc EXCEPT ![w] = "done"]
    /\ UNCHANGED <<configVars, pending, superseded, lastApplied, failure, running, adm>>

-----------------------------------------------------------------------------
(* CreateContainer.  must is the last Configure that returned before it.    *)

\* checkRuntimeConfigApplied.
AdmissionBegins(ns) ==
    /\ adm.pc \in {"idle", "denied", "decided"}
    /\ cpc = "idle"
    /\ adm' = IF pending # NoCall /\ ns \in enforcement[pending]
              THEN [pc |-> "denied", ns |-> ns, must |-> seen]
              ELSE [pc |-> "checked", ns |-> ns, must |-> seen]
    /\ UNCHANGED <<configVars, pending, superseded, lastApplied, failure, wpc, running>>

\* Verify decides by the configuration in force then.
AdmissionDecides ==
    /\ adm.pc = "checked"
    /\ adm' = [pc |-> "decided", ns |-> adm.ns, must |-> adm.must, by |-> running]
    /\ UNCHANGED <<configVars, pending, superseded, lastApplied, failure, wpc, running>>

-----------------------------------------------------------------------------
Next == \/ \E cfg \in Cfgs : Configure(cfg)
        \/ AlreadyPending
        \/ LoadLast
        \/ CheckLast
        \/ \E loaded \in BOOLEAN : Swap(loaded)
        \/ \E w \in Calls : \/ AttemptBegin(w) \/ ApplyFails(w) \/ ApplySucceeds(w)
                            \/ Cas(w) \/ StoreLast(w) \/ Retry(w) \/ Superseded(w)
        \/ \E ns \in Namespaces : AdmissionBegins(ns)
        \/ AdmissionDecides

Spec == Init /\ [][Next]_vars

\* The goroutines and Configure run on; an apply that is tried again and again
\* succeeds sometimes.
FairSpec ==
    /\ Spec
    /\ WF_vars(AlreadyPending \/ LoadLast \/ CheckLast \/ Swap(TRUE))
    /\ \A w \in Calls :
        /\ SF_vars(AttemptBegin(w)) /\ SF_vars(ApplySucceeds(w))
        /\ WF_vars(Cas(w)) /\ WF_vars(StoreLast(w)) /\ WF_vars(Retry(w) \/ Superseded(w))

-----------------------------------------------------------------------------
\* The type of every variable.
TypeOK ==
    /\ seen \in 0 .. MaxCalls
    /\ val \in [Calls -> Config]
    /\ cpc \in {"idle", "load", "check", "swap"}
    /\ last \in 0 .. MaxCalls /\ pending \in 0 .. MaxCalls
    /\ lastApplied \in 0 .. MaxCalls /\ failure \in 0 .. MaxCalls
    /\ enforcement \in [Calls -> SUBSET Namespaces]
    /\ superseded \subseteq Calls
    /\ wpc \in [Calls -> {"none", "try", "applying", "cas", "store", "backoff", "done"}]
    /\ running \in Config
    /\ \/ adm = [pc |-> "idle"]
       \/ adm \in [pc : {"denied", "checked"}, ns : Namespaces, must : 0 .. MaxCalls]
       \/ adm \in [pc : {"decided"}, ns : Namespaces, must : 0 .. MaxCalls, by : Config]

\* When Configure has returned and nothing is pending, which is when the plugin
\* reports ready (VerifierReady), the configuration in force is the one the
\* runtime passed last.
ReadyIsCurrent ==
    cpc = "idle" /\ pending = NoCall /\ seen # 0 => running = val[seen]

\* An admission that begins after Configure returned with a configuration that
\* enforces its namespace is denied, or decided by that configuration or by one
\* passed later, never by an older one (checkRuntimeConfigApplied).
EnforcedIsNotOlder ==
    adm.pc = "decided" /\ adm.must # 0 =>
        \/ EffectiveModeForNamespace(val[adm.must], adm.ns) # "enforce"
        \/ \E c \in adm.must .. seen : adm.by = val[c]

\* Between a Configure and the moment its configuration is in force no admission
\* slips through on an older one, and a ready plugin has caught up
\* (ReadyIsCurrent, EnforcedIsNotOlder).
ConfigurationIsCurrent == ReadyIsCurrent /\ EnforcedIsNotOlder

\* The failure the plugin reports is that of the configuration it is applying
\* (runtimeConfigState.failure).
FailureIsPendings == failure # NoCall /\ pending # NoCall => failure = pending

\* Every pending configuration is applied or replaced, so the plugin becomes
\* ready again (applyRuntimeConfigWithRetry).
PendingEnds == \A c \in Calls : pending = c ~> pending # c
=============================================================================
