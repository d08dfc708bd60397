------------------------------- MODULE Throttle -------------------------------
(***************************************************************************)
(* The resource limits the continuous verifier changes on a running        *)
(* container: how a throttle update is derived from the original limits,   *)
(* how a rollback restores them, how the plugin recognises its own         *)
(* throttle, and the annotation that carries the original limits over a    *)
(* restart (internal/plugin/continuous_verifier_throttle.go and            *)
(* container_registry.go).                                                 *)
(*                                                                         *)
(* Resources are abstracted to the three limits a throttle touches; every  *)
(* other field of api.LinuxResources is left alone by the code.            *)
(***************************************************************************)
EXTENDS Integers, FiniteSetsExt

CONSTANTS
    NoLimit,    \* a limit that is not set (a nil optional)
    IntMax      \* the largest int64; limits and products wrap beyond it

ASSUME LimitsAssumption == IntMax \in Nat \ {0} /\ NoLimit \notin Int

percentDivisor == 100

defaultThrottleCPUPercent == 10

defaultThrottleMemPercent == 100

minCPUQuotaMicros == 1000

minCPUShares == 2

minMemoryLimitBytes == 4 * 1024 * 1024

OrNoLimit(S) == S \union {NoLimit}

\* The value of an int64 product: two's complement around IntMax.
Wrap(x) == LET w == 2 * (IntMax + 1)
               r == x % w
           IN  IF r > IntMax THEN r - w ELSE r

\* Go's integer division truncates towards zero.
Quo(a, b) == IF a >= 0 THEN a \div b ELSE -((-a) \div b)

ScaledLimit(limit, pct, floor) ==
    IF limit = NoLimit THEN NoLimit
    ELSE Max({Quo(Wrap(limit * pct), percentDivisor), floor})

\* Shares are unsigned: the product wraps modulo 2 * (IntMax + 1).
ScaledShares(shares, pct) ==
    IF shares = NoLimit THEN NoLimit
    ELSE Max({((shares * pct) % (2 * (IntMax + 1))) \div percentDivisor, minCPUShares})

\* Mutant: a percentage above 100 is taken as it is.
throttlePercents_NoCap(cfg) ==
    [cpu |-> IF cfg.cpu <= 0 THEN defaultThrottleCPUPercent ELSE cfg.cpu,
     mem |-> IF cfg.mem <= 0 THEN defaultThrottleMemPercent ELSE cfg.mem]

\* The percentages in force: an unset (or negative) one falls back to its
\* default, and none exceeds 100.
throttlePercents(cfg) ==
    [cpu |-> Min({IF cfg.cpu <= 0 THEN defaultThrottleCPUPercent ELSE cfg.cpu, percentDivisor}),
     mem |-> Min({IF cfg.mem <= 0 THEN defaultThrottleMemPercent ELSE cfg.mem, percentDivisor})]

\* The limits of a throttle update. A limit that is NoLimit is not part of
\* the update.
throttled(original, cfg) ==
    LET p == throttlePercents(cfg)
    IN  [quota  |-> ScaledLimit(original.quota, p.cpu, minCPUQuotaMicros),
         shares |-> ScaledShares(original.shares, p.cpu),
         mem    |-> IF p.mem < percentDivisor
                    THEN ScaledLimit(original.mem, p.mem, minMemoryLimitBytes)
                    ELSE NoLimit]

\* The limits of a rollback: exactly the ones recorded.
restored(original) == original

\* What the runtime does with an update: the limits it carries replace the
\* container's, the others stay.
Updated(current, update) ==
    [l \in DOMAIN current |-> IF update[l] = NoLimit THEN current[l] ELSE update[l]]

\* The current limits are exactly what a throttle update would set, and at
\* least one of them differs from the original.
looksThrottled(current, original, cfg) ==
    LET t == throttled(original, cfg)
        compared == {l \in DOMAIN t : t[l] # NoLimit}
    IN  /\ \A l \in compared : current[l] = t[l]
        /\ \E l \in compared : original[l] # t[l]

\* The annotation written at creation. There is none when no limit is set.
OriginalResourcesAnnotation(res) ==
    IF \A l \in DOMAIN res : res[l] = NoLimit
    THEN [ok |-> FALSE, limits |-> res]
    ELSE [ok |-> TRUE, limits |-> res]
=============================================================================
