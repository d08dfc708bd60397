----------------------------- MODULE NRIConnection -----------------------------
(***************************************************************************)
(* The connection to the NRI runtime (internal/daemon/nri.go): runNRI makes*)
(* one attempt after the other; connectOnce and runStub take an attempt    *)
(* from dialling to its end.  Next to them run the stub's own goroutines:  *)
(* the Configure request of the runtime and the callback for a connection  *)
(* that closed, of the current attempt or of an earlier one.  Generations  *)
(* tell the two apart.                                                     *)
(*                                                                         *)
(* The stub and the runtime are external: Start returns once Configure has *)
(* returned, or fails before it; a connection that drops in between leaves *)
(* Start waiting with the stub's lock held, so that the close callback     *)
(* waits as well.                                                          *)
(***************************************************************************)
EXTENDS Naturals, FiniteSets

CONSTANTS
    MaxAttempts,     \* bound on the attempts
    maxAbandoned,    \* reconnectPolicy.maxAbandoned
    NoStub

Attempts == 1 .. MaxAttempts

ASSUME AttemptsAssumption ==
    /\ MaxAttempts \in Nat /\ maxAbandoned \in Nat \ {0}
    /\ NoStub \notin Attempts

VARIABLES
    main,        \* runNRI: "retry", "starting", "serving", "clear", "retire",
                 \* "stopped", "gaveup"
    cur,         \* the attempt it is at, 0 before the first
    timedOut,    \* the attempt ended with errNRIConfigureTimeout
    generation,  \* nriConnection.generation
    gen,         \* the generation of each attempt
    down,        \* nriConnection.disconnectedSince is set
    abandoned,   \* nriConnection.abandoned
    stub,        \* the stub published to the continuous verifier
    connected,   \* Plugin.connected
    link,        \* per attempt: "none", "open", "closed", "refused"
    cfg,         \* its Configure: "none", "checked", "done", "failed"
    closing,     \* its close callback: "none", "passed", "done"
    cancelled    \* the daemon's context is done

vars == <<main, cur, timedOut, generation, gen, down, abandoned, stub, connected,
          link, cfg, closing, cancelled>>

connVars == <<generation, gen, down, abandoned>>

Init == /\ main = "retry" /\ cur = 0 /\ timedOut = FALSE
        /\ generation = 0 /\ gen = [n \in Attempts |-> 0]
        /\ down = TRUE /\ abandoned = 0
        /\ stub = NoStub /\ connected = FALSE
        /\ link = [n \in Attempts |-> "none"]
        /\ cfg = [n \in Attempts |-> "none"]
        /\ closing = [n \in Attempts |-> "none"]
        /\ cancelled = FALSE

current(n) == generation = gen[n]

\* Start of attempt n is blocked, holding the lock of the stub.
StartBlocked(n) == link[n] \in {"open", "closed"} /\ cfg[n] \in {"none", "checked"}

\* Attempts left behind with a goroutine blocked in Start.
Leaked == {n \in Attempts : StartBlocked(n) /\ (n # cur \/ main \in {"retry", "stopped", "gaveup"})}

-----------------------------------------------------------------------------
(* runNRI, connectOnce and runStub.                                         *)

\* The next attempt: begin, and Start dials.  The backoff before it (at least
\* nriSocketPollInterval) is taken to be longer than what handleNRIClose does
\* after its generation check.
Begin(dialled) ==
    /\ main = "retry"
    /\ ~cancelled
    /\ cur < MaxAttempts
    /\ \A n \in Attempts : closing[n] # "passed"
    /\ cur' = cur + 1
    /\ generation' = generation + 1
    /\ gen' = [gen EXCEPT ![cur + 1] = generation + 1]
    /\ link' = [link EXCEPT ![cur + 1] = IF dialled THEN "open" ELSE "refused"]
    /\ timedOut' = FALSE
    /\ main' = "starting"
    /\ UNCHANGED <<down, abandoned, stub, connected, cfg, closing, cancelled>>

\* Start returned: the stub is published and the connection marked connected.
Started ==
    /\ main = "starting"
    /\ cfg[cur] = "done"
    /\ stub' = cur
    /\ down' = FALSE
    /\ main' = "serving"
    /\ UNCHANGED <<cur, timedOut, generation, gen, abandoned, connected, link, cfg, closing,
                   cancelled>>

\* Start returned an error.
StartFails ==
    /\ main = "starting"
    /\ link[cur] = "refused" \/ cfg[cur] = "failed"
    /\ main' = "clear"
    /\ UNCHANGED <<cur, timedOut, connVars, stub, connected, link, cfg, closing, cancelled>>

\* configureTimeout elapses first.
ConfigureTimeout ==
    /\ main = "starting"
    /\ timedOut' = TRUE
    /\ main' = "clear"
    /\ UNCHANGED <<cur, connVars, stub, connected, link, cfg, closing, cancelled>>

\* Wait returned.
WaitReturns ==
    /\ main = "serving"
    /\ link[cur] = "closed"
    /\ main' = "clear"
    /\ UNCHANGED <<cur, timedOut, connVars, stub, connected, link, cfg, closing, cancelled>>

\* Mutant: an attempt that waits for Configure does not look at the context.
Cancelled_ServingOnly ==
    /\ main = "serving"
    /\ cancelled
    /\ link' = [link EXCEPT ![cur] = IF @ = "open" THEN "closed" ELSE @]
    /\ main' = "clear"
    /\ UNCHANGED <<cur, timedOut, connVars, stub, connected, cfg, closing, cancelled>>

\* The context is done: the stub is stopped, in the background when Start may
\* be stuck.
Cancelled ==
    /\ main \in {"starting", "serving"}
    /\ cancelled
    /\ link' = [link EXCEPT ![cur] = IF @ = "open" /\ ~StartBlocked(cur) THEN "closed" ELSE @]
    /\ main' = "clear"
    /\ UNCHANGED <<cur, timedOut, connVars, stub, connected, cfg, closing, cancelled>>

Clear ==
    /\ main = "clear"
    /\ stub' = NoStub
    /\ connected' = FALSE
    /\ main' = "retire"
    /\ UNCHANGED <<cur, timedOut, connVars, link, cfg, closing, cancelled>>

\* What runNRI does when an attempt has ended.
AfterAttempt(left) ==
    IF left >= maxAbandoned THEN "gaveup" ELSE IF cancelled THEN "stopped" ELSE "retry"

\* markDisconnected and retire; a stuck attempt is counted and its connection
\* released.
Retire ==
    /\ main = "retire"
    /\ down' = (down \/ current(cur))
    /\ generation' = IF current(cur) THEN generation + 1 ELSE generation
    /\ abandoned' = IF timedOut THEN abandoned + 1 ELSE abandoned
    /\ link' = [link EXCEPT ![cur] = IF timedOut /\ @ = "open" THEN "closed" ELSE @]
    /\ main' = AfterAttempt(abandoned')
    /\ UNCHANGED <<cur, timedOut, gen, stub, connected, cfg, closing, cancelled>>

\* The backoff ends because the context is done.
RetryCancelled ==
    /\ main = "retry"
    /\ cancelled
    /\ main' = "stopped"
    /\ UNCHANGED <<cur, timedOut, connVars, stub, connected, link, cfg, closing, cancelled>>

-----------------------------------------------------------------------------
(* The stub's goroutines.                                                   *)

\* Configure of the runtime arrives and is checked.
ConfigureBegins(n) ==
    /\ link[n] = "open"
    /\ cfg[n] = "none"
    /\ cfg' = [cfg EXCEPT ![n] = IF current(n) THEN "checked" ELSE "failed"]
    /\ UNCHANGED <<main, cur, timedOut, connVars, stub, connected, link, closing, cancelled>>

\* Plugin.Configure marks the plugin connected, or fails.
ConfigureEnds(n, ok) ==
    /\ cfg[n] = "checked"
    /\ cfg' = [cfg EXCEPT ![n] = IF ok THEN "done" ELSE "failed"]
    /\ connected' = (connected \/ ok)
    /\ UNCHANGED <<main, cur, timedOut, connVars, stub, link, closing, cancelled>>

\* Mutant: the close of an earlier connection counts as well.
CloseBegins_AnyGeneration(n) ==
    /\ link[n] = "closed"
    /\ ~StartBlocked(n)
    /\ closing[n] = "none"
    /\ down' = TRUE
    /\ closing' = [closing EXCEPT ![n] = "passed"]
    /\ UNCHANGED <<main, cur, timedOut, generation, gen, abandoned, stub, connected, link, cfg,
                   cancelled>>

\* handleNRIClose: markDisconnected ignores all but the current generation.
CloseBegins(n) ==
    /\ link[n] = "closed"
    /\ ~StartBlocked(n)
    /\ closing[n] = "none"
    /\ down' = (down \/ current(n))
    /\ closing' = [closing EXCEPT ![n] = IF current(n) THEN "passed" ELSE "done"]
    /\ UNCHANGED <<main, cur, timedOut, generation, gen, abandoned, stub, connected, link, cfg,
                   cancelled>>

CloseEnds(n) ==
    /\ closing[n] = "passed"
    /\ closing' = [closing EXCEPT ![n] = "done"]
    /\ stub' = NoStub
    /\ connected' = FALSE
    /\ UNCHANGED <<main, cur, timedOut, connVars, link, cfg, cancelled>>

-----------------------------------------------------------------------------
(* The runtime and the daemon.                                              *)

LinkCloses(n) ==
    /\ link[n] = "open"
    /\ link' = [link EXCEPT ![n] = "closed"]
    /\ UNCHANGED <<main, cur, timedOut, connVars, stub, connected, cfg, closing, cancelled>>

Cancel ==
    /\ ~cancelled
    /\ cancelled' = TRUE
    /\ UNCHANGED <<main, cur, timedOut, connVars, stub, connected, link, cfg, closing>>

-----------------------------------------------------------------------------
MainStep == \/ Started \/ StartFails \/ WaitReturns \/ Cancelled \/ Clear
            \/ Retire \/ RetryCancelled

Next == \/ \E dialled \in BOOLEAN : Begin(dialled)
        \/ MainStep
        \/ ConfigureTimeout
        \/ \E n \in Attempts : \/ ConfigureBegins(n)
                               \/ \E ok \in BOOLEAN : ConfigureEnds(n, ok)
                               \/ CloseBegins(n) \/ CloseEnds(n) \/ LinkCloses(n)
        \/ Cancel

Spec == Init /\ [][Next]_vars

\* runNRI runs on; callbacks that passed their check end.
FairSpec == /\ Spec
            /\ WF_vars(MainStep)
            /\ \A n \in Attempts : WF_vars(CloseEnds(n))

-----------------------------------------------------------------------------
\* The type of every variable.
TypeOK ==
    /\ main \in {"retry", "starting", "serving", "clear", "retire", "stopped", "gaveup"}
    /\ cur \in 0 .. MaxAttempts /\ timedOut \in BOOLEAN /\ cancelled \in BOOLEAN
    /\ generation \in Nat /\ gen \in [Attempts -> Nat]
    /\ down \in BOOLEAN /\ connected \in BOOLEAN
    /\ abandoned \in 0 .. maxAbandoned
    /\ stub \in Attempts \cup {NoStub}
    /\ link \in [Attempts -> {"none", "open", "closed", "refused"}]
    /\ cfg \in [Attempts -> {"none", "checked", "done", "failed"}]
    /\ closing \in [Attempts -> {"none", "passed", "done"}]

\* While a connection serves, its stub is the published one, the plugin is
\* connected and the liveness probe sees it up, whatever callbacks of earlier
\* connections arrive (markDisconnected, handleNRIClose). Between attempts no
\* stub is published and the time of disconnection is set, so that the liveness
\* probe can fire (connectOnce, liveness).
ServingIsPublished ==
    /\ main = "serving" /\ link[cur] = "open" => stub = cur /\ connected /\ ~down
    /\ main \in {"retry", "stopped", "gaveup"} => down /\ stub = NoStub

\* Goroutines blocked in Start stay bounded (nriMaxAbandonedConnections).
LeaksBounded == Cardinality(Leaked) <= maxAbandoned

\* The connection the plugin shows is the one that serves, and the ones it gave
\* up are bounded (ServingIsPublished, LeaksBounded).
ConnectionIsSound == ServingIsPublished /\ LeaksBounded

\* Shutting down ends runNRI, a Start that is stuck included (runStub).
ShutdownEnds == cancelled ~> main \in {"stopped", "gaveup"}

\* A Configure of an attempt that was given up does not mark the plugin
\* connected (connectionHandler).
RetryIsDisconnected ==
    main = "retry" /\ (\A n \in Attempts : cfg[n] # "checked") => ~connected
=============================================================================
