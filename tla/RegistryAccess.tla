--------------------------- MODULE RegistryAccess ---------------------------
(***************************************************************************)
(* How verifications reach a registry (internal/verifier/check.go and      *)
(* image.go): a request asks the host's circuit breaker for a permit,      *)
(* takes a slot of the per-host and then of the global semaphore, fetches, *)
(* reports the outcome to the breaker and, in its deferred calls, releases *)
(* the permit and the slots.  Each request runs once; requests run         *)
(* concurrently, and a request may be cancelled while it waits for a slot. *)
(*                                                                         *)
(* pc[r]:  "start"    runChecks has not asked the breaker yet              *)
(*         "lock"     Acquire read a breaker that was not closed and waits *)
(*                    for the write lock                                   *)
(*         "host", "global"  waiting for a semaphore                       *)
(*         "handback" a slot was refused; the permit is to be released     *)
(*         "fetch"    the fetch runs                                       *)
(*         "return"   outcome recorded (or lost in a panic); the deferred  *)
(*                    Release is next                                      *)
(*         "slots"    the deferred slot release is next                    *)
(*         "done"     finished, "refused" turned away by the breaker       *)
(***************************************************************************)
EXTENDS Breaker, FiniteSets

CONSTANTS Reqs, Hosts, HostOf,
          HostSlots,   \* maxConcurrentFetchesPerHost
          FetchSlots   \* maxConcurrentFetches

ASSUME RequestsAssumption == IsFiniteSet(Reqs)
ASSUME HostOfAssumption == HostOf \in [Reqs -> Hosts]
ASSUME SlotsAssumption == HostSlots \in Nat \ {0} /\ FetchSlots \in Nat \ {0}

VARIABLES breaker,  \* host -> circuit breaker
          pc, permit,
          hostSem,  \* host -> free slots of the host
          fetchSem  \* free global slots

vars == <<breaker, pc, permit, hostSem, fetchSem>>

PCs == {"start", "lock", "host", "global", "handback", "fetch", "return",
        "slots", "done", "refused"}

TypeOK ==
    /\ breaker \in [Hosts -> BreakerType]
    /\ pc \in [Reqs -> PCs]
    /\ permit \in [Reqs -> Nat]
    /\ hostSem \in [Hosts -> Nat]
    /\ fetchSem \in Nat

Init ==
    /\ breaker = [h \in Hosts |-> NewBreaker]
    /\ pc = [r \in Reqs |-> "start"]
    /\ permit = [r \in Reqs |-> NoProbe]
    /\ hostSem = [h \in Hosts |-> HostSlots]
    /\ fetchSem = FetchSlots

cb(r) == breaker[HostOf[r]]

Goto(r, label) == pc' = [pc EXCEPT ![r] = label]

SetBreaker(r, b) == breaker' = [breaker EXCEPT ![HostOf[r]] = b]

\* Acquire, read-locked: a closed breaker admits at once, any other state
\* sends the request to the write-locked slow path.
AcquireFast(r) ==
    /\ pc[r] = "start"
    /\ Goto(r, IF cb(r).state = circuitClosed THEN "host" ELSE "lock")
    /\ UNCHANGED <<breaker, permit, hostSem, fetchSem>>

\* Acquire, write-locked.
AcquireSlow(r) ==
    /\ pc[r] = "lock"
    /\ LET got == AcquireLocked(cb(r))
       IN  /\ SetBreaker(r, got.breaker)
           /\ permit' = [permit EXCEPT ![r] = got.permit]
           /\ Goto(r, IF got.allowed THEN "host" ELSE "refused")
    /\ UNCHANGED <<hostSem, fetchSem>>

TakeHostSlot(r) ==
    /\ pc[r] = "host"
    /\ hostSem[HostOf[r]] > 0
    /\ hostSem' = [hostSem EXCEPT ![HostOf[r]] = @ - 1]
    /\ Goto(r, "global")
    /\ UNCHANGED <<breaker, permit, fetchSem>>

TakeFetchSlot(r) ==
    /\ pc[r] = "global"
    /\ fetchSem > 0
    /\ fetchSem' = fetchSem - 1
    /\ Goto(r, "fetch")
    /\ UNCHANGED <<breaker, permit, hostSem>>

\* Mutant: the host slot is kept when the global slot is refused.
SlotRefused_KeepHostSlot(r) ==
    /\ pc[r] \in {"host", "global"}
    /\ Goto(r, "handback")
    /\ UNCHANGED <<breaker, permit, hostSem, fetchSem>>

\* The request's context ends while it waits for a slot.  A host slot that is
\* already held goes back before the permit does.
SlotRefused(r) ==
    /\ pc[r] \in {"host", "global"}
    /\ hostSem' = IF pc[r] = "global"
                  THEN [hostSem EXCEPT ![HostOf[r]] = @ + 1] ELSE hostSem
    /\ Goto(r, "handback")
    /\ UNCHANGED <<breaker, permit, fetchSem>>

\* Mutant: a request that got no slot keeps its permit.
HandBack_KeepPermit(r) ==
    /\ pc[r] = "handback"
    /\ Goto(r, "done")
    /\ UNCHANGED <<breaker, permit, hostSem, fetchSem>>

HandBack(r) ==
    /\ pc[r] = "handback"
    /\ SetBreaker(r, Release(cb(r), permit[r]))
    /\ Goto(r, "done")
    /\ UNCHANGED <<permit, hostSem, fetchSem>>

FetchSucceeded(r) ==
    /\ pc[r] = "fetch"
    /\ SetBreaker(r, Succeeded(cb(r), permit[r]))
    /\ Goto(r, "return")
    /\ UNCHANGED <<permit, hostSem, fetchSem>>

FetchFailed(r) ==
    /\ pc[r] = "fetch"
    /\ SetBreaker(r, Failed(cb(r), permit[r]))
    /\ Goto(r, "return")
    /\ UNCHANGED <<permit, hostSem, fetchSem>>

\* A panic between the acquisition and recordBreakerOutcome; the deferred
\* calls still run.
FetchPanics(r) ==
    /\ pc[r] = "fetch"
    /\ Goto(r, "return")
    /\ UNCHANGED <<breaker, permit, hostSem, fetchSem>>

\* Mutant: the deferred Release is missing.
DeferredRelease_Missing(r) ==
    /\ pc[r] = "return"
    /\ Goto(r, "slots")
    /\ UNCHANGED <<breaker, permit, hostSem, fetchSem>>

\* defer breaker.Release(permit), which was deferred last and so runs first.
DeferredRelease(r) ==
    /\ pc[r] = "return"
    /\ SetBreaker(r, Release(cb(r), permit[r]))
    /\ Goto(r, "slots")
    /\ UNCHANGED <<permit, hostSem, fetchSem>>

\* defer release().
ReleaseSlots(r) ==
    /\ pc[r] = "slots"
    /\ fetchSem' = fetchSem + 1
    /\ hostSem' = [hostSem EXCEPT ![HostOf[r]] = @ + 1]
    /\ Goto(r, "done")
    /\ UNCHANGED <<breaker, permit>>

Tick ==
    /\ breaker' = [h \in Hosts |-> Aged(breaker[h])]
    /\ UNCHANGED <<pc, permit, hostSem, fetchSem>>

\* The steps a request's goroutine always gets to take.
Progress(r) ==
    \/ AcquireFast(r) \/ AcquireSlow(r)
    \/ TakeHostSlot(r) \/ TakeFetchSlot(r)
    \/ HandBack(r) \/ DeferredRelease(r) \/ ReleaseSlots(r)
    \/ FetchSucceeded(r) \/ FetchFailed(r) \/ FetchPanics(r)

Next ==
    \/ Tick
    \/ \E r \in Reqs : Progress(r) \/ SlotRefused(r)

Spec == Init /\ [][Next]_vars

\* Every fetch ends (VerificationTimeout bounds its context) and goroutines
\* are scheduled; being cancelled and the passing of time are not forced.
FairSpec == Spec /\ \A r \in Reqs : WF_vars(Progress(r))

-----------------------------------------------------------------------------

\* A request that holds the outcome of a probe: admitted, not yet past the
\* deferred Release.
Admitted(r) == pc[r] \in {"host", "global", "handback", "fetch", "return"}

\* Permits never run ahead of the breaker that issued them, and a request that
\* has not been through the slow path carries none.
PermitsIssued ==
    \A r \in Reqs :
        /\ permit[r] <= cb(r).probe
        /\ pc[r] \in {"start", "lock"} => permit[r] = NoProbe

\* Half-open is never an orphan state: some request that is still running on
\* that host holds the current probe permit and will release it
\* (check.go, "must not leave the breaker half-open forever").
ProbeHeld ==
    \A h \in Hosts :
        breaker[h].state = circuitHalfOpen =>
            \E r \in Reqs : /\ HostOf[r] = h
                            /\ Admitted(r)
                            /\ IsProbe(breaker[h], permit[r])

\* No two requests of a host are ever given the same probe permit, so two
\* requests cannot both decide a half-open breaker.
ProbeUnique ==
    \A r, s \in Reqs :
        r # s /\ HostOf[r] = HostOf[s] /\ permit[r] # NoProbe
            => permit[r] # permit[s]

\* A breaker that turns requests away has counted Threshold failures in a row,
\* whichever way late outcomes, probes and releases interleave
\* (recordFailureLocked, Release).
OnlyTrippedRefuse == \A h \in Hosts : Tripped(breaker[h])

HoldsHostSlot(r) == pc[r] \in {"global", "fetch", "return", "slots"}
HoldsFetchSlot(r) == pc[r] \in {"fetch", "return", "slots"}

\* No path through runChecks (refusal, cancellation, failure, panic) leaks or
\* doubles a semaphore slot: free slots and holders always add up.
SlotsConserved ==
    /\ fetchSem + Cardinality({r \in Reqs : HoldsFetchSlot(r)}) = FetchSlots
    /\ \A h \in Hosts :
        hostSem[h] + Cardinality({r \in Reqs : HostOf[r] = h /\ HoldsHostSlot(r)})
            = HostSlots

ProbeDecides ==
    \A h \in Hosts :
        breaker[h].state = circuitHalfOpen /\ breaker'[h].state # circuitHalfOpen
            => \E r \in Reqs : /\ HostOf[r] = h
                               /\ IsProbe(breaker[h], permit[r])
                               /\ pc'[r] # pc[r]

\* While a breaker is half-open only a step of the request that holds the probe
\* moves it out of that state: a request admitted before the trip cannot
\* interfere (comment of Permit).
OnlyProbeDecides == [][ProbeDecides]_vars

\* A half-open breaker always gets its verdict: it closes or opens again, so
\* the registry is never shut out for good.
HalfOpenResolves ==
    \A h \in Hosts :
        breaker[h].state = circuitHalfOpen ~> breaker[h].state # circuitHalfOpen

\* Every verification that started ends, in spite of two semaphores taken one
\* after the other (acquireFetchSlots).
RequestsEnd == \A r \in Reqs : <>(pc[r] \in {"done", "refused"})

\* Nobody waits for ever on the fetch path: a half-open breaker gets its verdict
\* and a request gets its slots and gives them back (HalfOpenResolves,
\* RequestsEnd).
AccessResolves == HalfOpenResolves /\ RequestsEnd
=============================================================================
