--------------------------- MODULE MCVerification ---------------------------
(* Verification on small instances: calls and invalidations of one image.    *)
EXTENDS Verification, TLC

CONSTANTS c1, c2, i1, i2, k1

MCCalls == {c1, c2}
MCNoInvs == {}
MCInvs == {i1, i2}
MCKeys == {k1}
MCShards == {0}
MCKeyOf == [c \in Calls |-> k1]
MCHitsOf == [i \in Invs |-> {k1}]
MCShardOf == [k \in Keys |-> 0]
MCInvShardOf == [i \in Invs |-> 0]

\* Every call asks for the same key and may be an admission, and every invalidation
\* hits that key: calls, and invalidations, are interchangeable.
MCSymmetry == Permutations(Calls) \cup Permutations(Invs)
=============================================================================
