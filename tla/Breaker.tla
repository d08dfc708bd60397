------------------------------ MODULE Breaker ------------------------------
(***************************************************************************)
(* The circuit breaker of internal/circuit/circuit.go as a value: a record *)
(* and one operator per method.  Every method of Breaker runs under cb.mu, *)
(* so a caller's step applies one of these operators atomically; the only  *)
(* method with two critical sections is Acquire (a read-locked fast path   *)
(* and a write-locked slow path), whose callers take them as two steps.    *)
(*                                                                         *)
(* "age" stands for time.Since(lastFailureTime), counted in ticks and      *)
(* saturated at Cooldown, since the code only compares it with cooldown.   *)
(***************************************************************************)
EXTENDS Naturals

CONSTANTS Threshold,  \* consecutive failures that open the breaker
          Cooldown    \* ticks an open breaker waits before it admits a probe

ASSUME ThresholdAssumption == Threshold \in Nat \ {0}
ASSUME CooldownAssumption == Cooldown \in Nat

circuitClosed == "closed"
circuitOpen == "open"
circuitHalfOpen == "half-open"

BreakerType ==
    [state : {circuitClosed, circuitOpen, circuitHalfOpen},
     consecutiveFailures : Nat, age : 0..Cooldown, probe : Nat]

NewBreaker ==
    [state |-> circuitClosed, consecutiveFailures |-> 0,
     age |-> Cooldown, probe |-> 0]

\* Permit{probe: 0}: the permit of every request that is not a probe.
NoProbe == 0

\* The write-locked part of Acquire: admitted, with which permit, and the
\* breaker it leaves behind.
AcquireLocked(cb) ==
    IF cb.state = circuitOpen /\ cb.age >= Cooldown
    THEN [allowed |-> TRUE, permit |-> cb.probe + 1,
          breaker |-> [cb EXCEPT !.state = circuitHalfOpen, !.probe = @ + 1]]
    ELSE [allowed |-> cb.state = circuitClosed, permit |-> NoProbe,
          breaker |-> cb]

IsProbe(cb, permit) == permit # NoProbe /\ permit = cb.probe

\* Mutant: every outcome decides, also while half-open.
decidesLocked_Always(cb, permit) == TRUE

decidesLocked(cb, permit) ==
    cb.state # circuitHalfOpen \/ IsProbe(cb, permit)

RecordSuccess(cb) ==
    [cb EXCEPT !.consecutiveFailures = 0, !.state = circuitClosed]

RecordFailure(cb) ==
    [cb EXCEPT !.consecutiveFailures = @ + 1,
               !.age = 0,
               !.state = IF cb.consecutiveFailures + 1 >= Threshold
                         THEN circuitOpen ELSE @]

Succeeded(cb, permit) ==
    IF decidesLocked(cb, permit) THEN RecordSuccess(cb) ELSE cb

Failed(cb, permit) ==
    IF decidesLocked(cb, permit) THEN RecordFailure(cb) ELSE cb

Release(cb, permit) ==
    IF cb.state = circuitHalfOpen /\ IsProbe(cb, permit)
    THEN [cb EXCEPT !.state = circuitOpen] ELSE cb

\* Time passes for a breaker.
Aged(cb) == [cb EXCEPT !.age = IF @ < Cooldown THEN @ + 1 ELSE @]

\* A breaker that is not closed has seen Threshold failures in a row.
Tripped(cb) ==
    cb.state # circuitClosed => cb.consecutiveFailures >= Threshold
=============================================================================
