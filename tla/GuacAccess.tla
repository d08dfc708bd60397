----------------------------- MODULE GuacAccess -----------------------------
(***************************************************************************)
(* The GUAC queries of internal/verifier/check_guac.go and the breaker     *)
(* they share.  Unlike the registry fetches they use the breaker without   *)
(* permits: Allow before a query, RecordFailure or RecordSuccess after it, *)
(* and nothing when the query ended with a local auth token error or a     *)
(* panic.  Each query runs once and puts one answer in its channel.        *)
(***************************************************************************)
EXTENDS Breaker

CONSTANT Queries

VARIABLES guacBreaker,
          pc,      \* "start", "lock" (slow path of Allow), "query", "done"
          probing  \* the queries that were admitted as a probe and still run

vars == <<guacBreaker, pc, probing>>

TypeOK ==
    /\ guacBreaker \in BreakerType
    /\ pc \in [Queries -> {"start", "lock", "query", "done"}]
    /\ probing \subseteq {q \in Queries : pc[q] = "query"}

Init ==
    /\ guacBreaker = NewBreaker
    /\ pc = [q \in Queries |-> "start"]
    /\ probing = {}

Goto(q, label) == pc' = [pc EXCEPT ![q] = label]

AllowFast(q) ==
    /\ pc[q] = "start"
    /\ Goto(q, IF guacBreaker.state = circuitClosed THEN "query" ELSE "lock")
    /\ UNCHANGED <<guacBreaker, probing>>

\* A query that is not admitted answers with the fallback at once.
AllowSlow(q) ==
    /\ pc[q] = "lock"
    /\ LET got == AcquireLocked(guacBreaker)
       IN  /\ guacBreaker' = got.breaker
           /\ Goto(q, IF got.allowed THEN "query" ELSE "done")
           /\ probing' = IF got.permit # NoProbe THEN probing \cup {q} ELSE probing

\* The query ends: the answer is sent and the breaker becomes b.
Answer(q, b) ==
    /\ pc[q] = "query"
    /\ guacBreaker' = b
    /\ Goto(q, "done")
    /\ probing' = probing \ {q}

QueryPassed(q) == Answer(q, RecordSuccess(guacBreaker))

QueryFailed(q) == Answer(q, RecordFailure(guacBreaker))

\* ErrGUACAuthError is not counted, and a panic is answered by the recover
\* handler: neither tells the breaker anything.
QueryUncounted(q) == Answer(q, guacBreaker)

Tick ==
    /\ guacBreaker' = Aged(guacBreaker)
    /\ UNCHANGED <<pc, probing>>

Progress(q) ==
    \/ AllowFast(q) \/ AllowSlow(q)
    \/ QueryPassed(q) \/ QueryFailed(q) \/ QueryUncounted(q)

Next == Tick \/ \E q \in Queries : Progress(q)

\* Queries are bounded by the verification's context, so they always answer.
Spec == Init /\ [][Next]_vars /\ \A q \in Queries : WF_vars(Progress(q))

-----------------------------------------------------------------------------

\* The breaker short-circuits "for a cooldown period before allowing a probe
\* request" (circuit.go:36-37): once the cooldown is over and no probe is
\* running, the next query is let through.
GuacProbesAfterCooldown ==
    guacBreaker.age >= Cooldown /\ probing = {}
        => AcquireLocked(guacBreaker).allowed
=============================================================================
