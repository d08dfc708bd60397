----------------------------- MODULE TrustedRoot -----------------------------
(* The cache of one Sigstore trusted root (internal/attestation,            *)
(* fetcher_trustroot.go): verifications ask for the root, refreshes are     *)
(* shared between them, and the fetch from the TUF repository cannot be     *)
(* cancelled, so it may land long after the refresh that started it gave up.*)
(* A root is identified with the time its fetch completed.                  *)
EXTENDS Integers

CONSTANTS Gets,                     \* concurrent verifications
          trustedRootCacheTTL, trustedRootMaxStaleness,
          negativeCacheTTL, failedRootRetryInterval,
          MaxRootTime,              \* bound on the clock
          Never                     \* no time, no root, no result

\* The code has an hour and a day.
ASSUME RootAssumption ==
    /\ trustedRootCacheTTL \in Nat /\ trustedRootMaxStaleness \in Nat
    /\ trustedRootCacheTTL <= trustedRootMaxStaleness
    /\ Never \notin Int

VARIABLES clock,
          rootFetchedAt,   \* the cached root, or Never
          lastFetchErr,    \* when a refresh failed, or Never
          lastErr,         \* that failure left no root to return
          preSeeded,       \* a root was provisioned on disk
          pending,         \* the fetch a refresh waits for, its result once it landed
          fetching,        \* fetches of the TUF repository that are running
          refresh,         \* the shared refresh: "none", "begin" or "wait"
          gets             \* what each verification is doing, or its answer

varsRoot == <<clock, rootFetchedAt, lastFetchErr, lastErr, preSeeded,
              pending, fetching, refresh, gets>>

Age(t) == clock - t

Fresh == rootFetchedAt # Never /\ Age(rootFetchedAt) < trustedRootCacheTTL

Usable == rootFetchedAt # Never /\ Age(rootFetchedAt) <= trustedRootMaxStaleness

NoFetch == [state |-> "none"]

Doing(pc) == [pc |-> pc]

\* An answer, with what the property needs to know of the moment it is given.
AnswerWith(kind, root) ==
    [pc |-> "answered", kind |-> kind, root |-> root, usable |-> Usable, at |-> clock]

Answer(kind) == AnswerWith(kind, IF kind = "fetched" THEN rootFetchedAt ELSE Never)

\* cachedHit: a fresh root, or within the negative window the stale root
\* before the pre-seeded one.
cachedHit ==
    LET negative == lastFetchErr # Never /\ Age(lastFetchErr) < negativeCacheTTL
    IN  CASE Fresh -> "fetched"
          [] ~Fresh /\ negative /\ Usable -> "fetched"
          [] ~Fresh /\ negative /\ ~Usable /\ preSeeded -> "preSeeded"
          [] OTHER -> "none"

recentFailure == lastErr /\ Age(lastFetchErr) < failedRootRetryInterval

InitRoot ==
    /\ clock = 0 /\ rootFetchedAt = Never /\ lastFetchErr = Never /\ lastErr = FALSE
    /\ preSeeded \in BOOLEAN
    /\ pending = NoFetch /\ fetching = 0 /\ refresh = "none"
    /\ gets = [g \in Gets |-> Doing("idle")]

\* Time passes. The limits are minutes and hours, so a refresh receives a
\* result that has landed before the clock moves on.
RootTick ==
    /\ clock < MaxRootTime
    /\ ~(refresh = "wait" /\ pending.state = "landed")
    /\ clock' = clock + 1
    /\ UNCHANGED <<rootFetchedAt, lastFetchErr, lastErr, preSeeded, pending, fetching, refresh, gets>>

\* get, up to the decision to refresh; the lock is released before it joins.
Get(g) ==
    /\ gets[g].pc = "idle"
    /\ gets' = [gets EXCEPT ![g] = CASE cachedHit # "none" -> Answer(cachedHit)
                                     [] cachedHit = "none" /\ recentFailure -> Answer("failed")
                                     [] OTHER -> Doing("refresh")]
    /\ UNCHANGED <<clock, rootFetchedAt, lastFetchErr, lastErr, preSeeded, pending, fetching, refresh>>

\* The verification joins the shared refresh, or starts it.
Join(g) ==
    /\ gets[g].pc = "refresh"
    /\ gets' = [gets EXCEPT ![g] = Doing("waiting")]
    /\ refresh' = IF refresh = "none" THEN "begin" ELSE refresh
    /\ UNCHANGED <<clock, rootFetchedAt, lastFetchErr, lastErr, preSeeded, pending, fetching>>

\* The context of a verification is done while it waits; the refresh goes on.
GiveUp(g) ==
    /\ gets[g].pc \in {"refresh", "waiting"}
    /\ gets' = [gets EXCEPT ![g] = Answer("failed")]
    /\ UNCHANGED <<clock, rootFetchedAt, lastFetchErr, lastErr, preSeeded, pending, fetching, refresh>>

\* The answer was used; the verification may ask again for another image.
Use(g) ==
    /\ gets[g].pc = "answered"
    /\ gets' = [gets EXCEPT ![g] = Doing("idle")]
    /\ UNCHANGED <<clock, rootFetchedAt, lastFetchErr, lastErr, preSeeded, pending, fetching, refresh>>

\* Every waiting verification gets the result of the refresh.
Deliver(answer) ==
    /\ refresh' = "none"
    /\ gets' = [g \in Gets |-> IF gets[g].pc = "waiting" THEN answer ELSE gets[g]]

\* A fetched root is kept with the time its fetch completed.
StoreRoot(result) ==
    /\ rootFetchedAt' = result.fetchedAt
    /\ lastFetchErr' = Never /\ lastErr' = FALSE
    /\ Deliver(AnswerWith("fetched", result.fetchedAt))

\* handleRefreshError: the stale root within its limit, else the pre-seeded
\* one, else the failure is remembered.
handleRefreshError ==
    LET kind == IF Usable THEN "fetched" ELSE IF preSeeded THEN "preSeeded" ELSE "failed"
    IN  /\ lastFetchErr' = clock
        /\ lastErr' = (kind = "failed" \/ lastErr)
        /\ UNCHANGED rootFetchedAt
        /\ Deliver(Answer(kind))

\* Mutant: an outdated late root is used as if it had just been fetched.
LateRootIsFresh_Any(result) == result.ok

\* A late result is only used while the root in it is fresh.
LateRootIsFresh(result) == result.ok /\ Age(result.fetchedAt) < trustedRootCacheTTL

\* fetchWithDeadline waits for a fetch that is still running instead of
\* starting another one.
StartsFetch == pending.state # "running"

\* refreshRoot up to the point where it waits: another refresh may have
\* finished since, or a late result may be waiting.
BeginRefresh ==
    /\ refresh = "begin"
    /\ CASE Fresh ->
              /\ Deliver(Answer("fetched"))
              /\ UNCHANGED <<rootFetchedAt, lastFetchErr, lastErr, pending, fetching>>
         [] ~Fresh /\ pending.state = "landed" /\ LateRootIsFresh(pending) ->
              StoreRoot(pending) /\ pending' = NoFetch /\ UNCHANGED fetching
         [] OTHER ->
              /\ refresh' = "wait"
              /\ pending' = [state |-> "running"]
              /\ fetching' = IF StartsFetch THEN fetching + 1 ELSE fetching
              /\ UNCHANGED <<rootFetchedAt, lastFetchErr, lastErr, gets>>
    /\ UNCHANGED <<clock, preSeeded>>

\* The TUF client returns.
FetchLands ==
    /\ pending.state = "running"
    /\ fetching' = fetching - 1
    /\ \E ok \in BOOLEAN : pending' = [state |-> "landed", ok |-> ok, fetchedAt |-> clock]
    /\ UNCHANGED <<clock, rootFetchedAt, lastFetchErr, lastErr, preSeeded, refresh, gets>>

\* The refresh receives the result, whichever refresh started the fetch.
Receive ==
    /\ refresh = "wait" /\ pending.state = "landed"
    /\ IF pending.ok THEN StoreRoot(pending) ELSE handleRefreshError
    /\ pending' = NoFetch
    /\ UNCHANGED <<clock, preSeeded, fetching>>

\* The refresh gives up; its fetch keeps running in the background.
TimeOut ==
    /\ refresh = "wait"
    /\ handleRefreshError
    /\ UNCHANGED <<clock, preSeeded, pending, fetching>>

NextRoot ==
    \/ RootTick \/ BeginRefresh \/ FetchLands \/ Receive \/ TimeOut
    \/ \E g \in Gets : Get(g) \/ Join(g) \/ GiveUp(g) \/ Use(g)

SpecRoot == InitRoot /\ [][NextRoot]_varsRoot

-----------------------------------------------------------------------------
\* However many verifications ask and however often refreshes give up on a
\* stalled repository, a root source runs at most one fetch of it, the one it
\* still waits for (fetchWithDeadline).
OneRootFetch == fetching = IF pending.state = "running" THEN 1 ELSE 0

\* A root that is handed out was obtained from the repository no longer ago
\* than the staleness limit, counted from the end of its own fetch even when a
\* later refresh picked it up; and the pre-seeded root is never handed out
\* while such a root is cached, so verifications do not alternate between the
\* two (cachedHit, handleRefreshError, refreshRoot).
ServedRootIsCurrent ==
    \A g \in Gets :
        gets[g].pc = "answered" =>
            /\ gets[g].kind = "fetched" => gets[g].at - gets[g].root <= trustedRootMaxStaleness
            /\ gets[g].kind = "preSeeded" => ~gets[g].usable

\* Both: fetches do not pile up behind a stalled repository, and neither the
\* waiting nor a late result lets an outdated root be handed out.
RootIsCurrent == OneRootFetch /\ ServedRootIsCurrent
=============================================================================
