---------------------------- MODULE MCRemediation ----------------------------
(* Model values and small sets for checking Remediation.                     *)
EXTENDS Remediation, TLC

CONSTANTS c1, c2

MCIntMax == 99999999

MCOne == {c1}

MCTwo == {c1, c2}

\* A quota without shares and without a memory limit: 10 percent of neither
\* is the other, so limits cannot be mistaken for one another.
Quota(q) == [quota |-> q, shares |-> NoLimit, mem |-> NoLimit]

MCConfig == {[cpu |-> 10, mem |-> 100]}

MCThrottleOnly == {"throttle"}

MCModes == {"disabled", "throttle"}

S(containers, resources, triggers, faults) ==
    [containers |-> containers, resources |-> resources, triggers |-> triggers, faults |-> faults]

\* Two containers through lost connections and restarts.
Outages == S({c1, c2}, {Quota(100000)}, {"timer"}, {"reconnect", "restart"})

\* One container that is also resized, with updates whose answer is lost.
Races(c) == S({c}, {Quota(100000), Quota(300000)}, {"timer", "feed"}, {"resize", "restart", "lostAnswer"})

MCScenarios == {Outages, Races(c1), Races(c2)}

MCSymmetry == Permutations({c1, c2})

MCQuiet == {S({c1}, {Quota(100000)}, {"timer"}, {})}
=============================================================================
