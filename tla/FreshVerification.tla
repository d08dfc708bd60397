-------------------------- MODULE FreshVerification --------------------------
(***************************************************************************)
(* What Verify promises its callers, whatever cache, shared flights and    *)
(* epochs are behind it: a call fails, or its answer was computed with the *)
(* policies that were published when it began and from attestations        *)
(* fetched after every invalidation that had returned by then.             *)
(***************************************************************************)
EXTENDS Naturals

CONSTANTS Calls, Invs, KeyOf, HitsOf, MaxReloads

VARIABLES gen, state, cgen, must, res, begun, finished

vars == <<gen, state, cgen, must, res, begun, finished>>

NoAnswer == [ok |-> FALSE, gen |-> 0, seen |-> {}, cut |-> FALSE]

Init ==
    /\ gen = 0
    /\ state = [c \in Calls |-> "idle"]
    /\ cgen = [c \in Calls |-> 0]
    /\ must = [c \in Calls |-> {}]
    /\ res = [c \in Calls |-> NoAnswer]
    /\ begun = {} /\ finished = {}

Publish ==
    /\ gen < MaxReloads
    /\ gen' = gen + 1
    /\ UNCHANGED <<state, cgen, must, res, begun, finished>>

InvalidateBegin(i) ==
    /\ i \notin begun
    /\ begun' = begun \cup {i}
    /\ UNCHANGED <<gen, state, cgen, must, res, finished>>

InvalidateEnd(i) ==
    /\ i \in begun \ finished
    /\ finished' = finished \cup {i}
    /\ UNCHANGED <<gen, state, cgen, must, res, begun>>

Begin(c) ==
    /\ state[c] = "idle"
    /\ state' = [state EXCEPT ![c] = "running"]
    /\ cgen' = [cgen EXCEPT ![c] = gen]
    /\ must' = [must EXCEPT ![c] = {i \in finished : KeyOf[c] \in HitsOf[i]}]
    /\ UNCHANGED <<gen, res, begun, finished>>

\* A fresh answer, from a verification nobody cut short.
Answer(c) ==
    /\ state[c] = "running"
    /\ state' = [state EXCEPT ![c] = "done"]
    /\ \E seen \in SUBSET begun :
          /\ must[c] \subseteq seen
          /\ res' = [res EXCEPT ![c] =
                        [ok |-> TRUE, gen |-> cgen[c], seen |-> seen, cut |-> FALSE]]
    /\ UNCHANGED <<gen, cgen, must, begun, finished>>

Fail(c) ==
    /\ state[c] = "running"
    /\ state' = [state EXCEPT ![c] = "done"]
    /\ res' = [res EXCEPT ![c] = NoAnswer]
    /\ UNCHANGED <<gen, cgen, must, begun, finished>>

Next ==
    \/ Publish
    \/ \E i \in Invs : InvalidateBegin(i) \/ InvalidateEnd(i)
    \/ \E c \in Calls : Begin(c) \/ Answer(c) \/ Fail(c)

Spec == Init /\ [][Next]_vars
==============================================================================
