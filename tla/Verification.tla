---------------------------- MODULE Verification ----------------------------
(***************************************************************************)
(* The verifier's Verify, InvalidateCache, Reload and Stop                 *)
(* (internal/verifier/verifier.go, verifier_reload.go, snapshot.go) over   *)
(* its snapshots, the result cache of each snapshot generation and the     *)
(* shared singleflight group.                                              *)
(*                                                                         *)
(* A result is abstracted to where it comes from: the generation whose     *)
(* policies and settings it was computed with, the invalidations that had  *)
(* begun when its attestations were fetched, and whether Stop cut the      *)
(* computation short.  A reload that keeps the generation keeps the cache  *)
(* too and is not seen here.  What the checks compute, and the mode that   *)
(* turns a result or an error into an admission, is left to other modules. *)
(*                                                                         *)
(* A call of Verify is one-shot; the flight it may start is named after    *)
(* the call, its leader.  Cache keys stand for (digest, namespace, image,  *)
(* rule); an invalidation hits the keys of a digest and namespace.         *)
(***************************************************************************)
EXTENDS Naturals, FiniteSets

CONSTANTS Calls, Invs, Keys, Shards,
          KeyOf,       \* the cache key a call asks for
          HitsOf,      \* the keys an invalidation removes
          ShardOf,     \* the epoch shard of a key
          InvShardOf,  \* the epoch shard an invalidation advances
          Admissions,  \* the calls bound by the admission deadline
          MaxReloads,  \* bound on generation-changing reloads
          CanStop      \* whether Stop may be called

ASSUME KeysAssumption ==
    /\ KeyOf \in [Calls -> Keys]
    /\ HitsOf \in [Invs -> SUBSET Keys]
    /\ ShardOf \in [Keys -> Shards]
    /\ InvShardOf \in [Invs -> Shards]
ASSUME ShardAssumption ==  \* epochs are sharded by digest
    \A i \in Invs : \A k \in HitsOf[i] : ShardOf[k] = InvShardOf[i]
ASSUME BoundsAssumption ==
    MaxReloads \in Nat /\ CanStop \in BOOLEAN /\ Admissions \subseteq Calls

VARIABLES
    gen,        \* generation of the published snapshot
    reloading,  \* a Reload holds reloadMu
    cache,      \* generation -> key -> entry (Miss when absent)
    epoch,      \* generation -> shard -> invalidation epoch
    pc,         \* call -> where Verify is
    cgen,       \* call -> generation of the snapshot it loaded
    cepoch,     \* call -> epoch it read
    leader,     \* call -> the call whose flight it waits for
    res,        \* call -> what it returned
    fpc,        \* leader -> where its flight is
    fres,       \* leader -> the flight's result
    ipc, igen,  \* invalidation -> where it is, the generation it loaded
    iepoch,     \* invalidation -> the epoch it left behind
    spc,        \* where Stop is
    closed,     \* flightTracker.closed
    stopped,    \* Verifier.stopped
    stopCtx,    \* stopCtx is cancelled
    must        \* call -> the invalidations that had returned when it began

callVars == <<pc, cgen, cepoch, leader, res, must>>
flightVars == <<fpc, fres>>
invVars == <<ipc, igen, iepoch>>
stopVars == <<spc, closed, stopped, stopCtx>>
vars == <<gen, reloading, cache, epoch, callVars, flightVars, invVars, stopVars>>

Gens == 0..MaxReloads

Results == [ok : BOOLEAN, gen : Gens, seen : SUBSET Invs, cut : BOOLEAN]

\* No entry, or an error in place of a result.
Miss == [ok |-> FALSE, gen |-> 0, seen |-> {}, cut |-> FALSE]

CallLabels == {"idle", "lookup", "epoch", "check", "join", "wait", "done"}
FlightLabels == {"none", "begin", "recheck", "compute", "check", "store", "end",
                 "deliver", "over"}
StopLabels == {"run", "reject", "poller", "drain", "grace", "release", "stopped",
               "abandon", "forced"}

TypeOK ==
    /\ gen \in Gens
    /\ reloading \in BOOLEAN
    /\ cache \in [Gens -> [Keys -> Results]]
    /\ epoch \in [Gens -> [Shards -> Nat]]
    /\ pc \in [Calls -> CallLabels]
    /\ cgen \in [Calls -> Gens]
    /\ cepoch \in [Calls -> Nat]
    /\ leader \in [Calls -> Calls]
    /\ res \in [Calls -> Results]
    /\ fpc \in [Calls -> FlightLabels]
    /\ fres \in [Calls -> Results]
    /\ ipc \in [Invs -> {"idle", "loaded", "done"}]
    /\ igen \in [Invs -> Gens]
    /\ iepoch \in [Invs -> Nat]
    /\ spc \in StopLabels
    /\ closed \in BOOLEAN /\ stopped \in BOOLEAN /\ stopCtx \in BOOLEAN
    /\ must \in [Calls -> SUBSET Invs]

Init ==
    /\ gen = 0
    /\ reloading = FALSE
    /\ cache = [g \in Gens |-> [k \in Keys |-> Miss]]
    /\ epoch = [g \in Gens |-> [s \in Shards |-> 0]]
    /\ pc = [c \in Calls |-> "idle"]
    /\ cgen = [c \in Calls |-> 0]
    /\ cepoch = [c \in Calls |-> 0]
    /\ leader = [c \in Calls |-> c]
    /\ res = [c \in Calls |-> Miss]
    /\ fpc = [c \in Calls |-> "none"]
    /\ fres = [c \in Calls |-> Miss]
    /\ ipc = [i \in Invs |-> "idle"]
    /\ igen = [i \in Invs |-> 0]
    /\ iepoch = [i \in Invs |-> 0]
    /\ spc = "run"
    /\ closed = FALSE /\ stopped = FALSE /\ stopCtx = FALSE
    /\ must = [c \in Calls |-> {}]

Begun == {i \in Invs : ipc[i] # "idle"}
Finished == {i \in Invs : ipc[i] = "done"}

-----------------------------------------------------------------------------
(* Verify.                                                                  *)

\* Verify loads the snapshot, once, for the whole call.
CallStart(c) ==
    /\ pc[c] = "idle"
    /\ pc' = [pc EXCEPT ![c] = "lookup"]
    /\ cgen' = [cgen EXCEPT ![c] = gen]
    /\ must' = [must EXCEPT ![c] = {i \in Finished : KeyOf[c] \in HitsOf[i]}]
    /\ UNCHANGED <<gen, reloading, cache, epoch, cepoch, leader, res, flightVars,
                   invVars, stopVars>>

Return(c, r) ==
    /\ pc' = [pc EXCEPT ![c] = "done"]
    /\ res' = [res EXCEPT ![c] = r]

\* cache.Get, in the cache of the snapshot the call loaded.
Cached(c) == cache[cgen[c]][KeyOf[c]]

\* Mutant: the cache is that of the snapshot published by now.
LookupHit_NewSnapshot(c) ==
    /\ pc[c] = "lookup"
    /\ cache[gen][KeyOf[c]].ok
    /\ Return(c, cache[gen][KeyOf[c]])
    /\ UNCHANGED <<gen, reloading, cache, epoch, cgen, cepoch, leader, must,
                   flightVars, invVars, stopVars>>

\* cachedResult: a hit is the answer.
LookupHit(c) ==
    /\ pc[c] = "lookup"
    /\ Cached(c).ok
    /\ Return(c, Cached(c))
    /\ UNCHANGED <<gen, reloading, cache, epoch, cgen, cepoch, leader, must,
                   flightVars, invVars, stopVars>>

LookupMiss(c) ==
    /\ pc[c] = "lookup"
    /\ ~Cached(c).ok
    /\ pc' = [pc EXCEPT ![c] = "epoch"]
    /\ UNCHANGED <<gen, reloading, cache, epoch, cgen, cepoch, leader, res, must,
                   flightVars, invVars, stopVars>>

\* verifyOnce reads the epoch of the snapshot's cache before anything else.
ReadEpoch(c) ==
    /\ pc[c] = "epoch"
    /\ cepoch' = [cepoch EXCEPT ![c] = epoch[cgen[c]][ShardOf[KeyOf[c]]]]
    /\ pc' = [pc EXCEPT ![c] = "check"]
    /\ UNCHANGED <<gen, reloading, cache, epoch, cgen, leader, res, must,
                   flightVars, invVars, stopVars>>

\* Mutant: the flight key leaves out the epoch.
SameFlight_NoEpoch(c, l) == cgen[c] = cgen[l] /\ KeyOf[c] = KeyOf[l]

\* flightKey: generation, epoch and cache key.
SameFlight(c, l) ==
    cgen[c] = cgen[l] /\ cepoch[c] = cepoch[l] /\ KeyOf[c] = KeyOf[l]

\* The flight is registered in the singleflight group.
InFlight(l) == fpc[l] \notin {"none", "over"}

\* Counted by the flightTracker; its start time is in flightStarts.
Active == {l \in Calls : fpc[l] \in {"recheck", "compute", "check", "store", "end"}}

\* checkJoinable: an admission that would join a verification which has run for
\* the admission timeout fails instead.  How long it has run is left open.
NotJoinable(c) ==
    /\ pc[c] = "check"
    /\ c \in Admissions
    /\ \E l \in Active : SameFlight(c, l)
    /\ Return(c, Miss)
    /\ UNCHANGED <<gen, reloading, cache, epoch, cgen, cepoch, leader, must,
                   flightVars, invVars, stopVars>>

Joinable(c) ==
    /\ pc[c] = "check"
    /\ pc' = [pc EXCEPT ![c] = "join"]
    /\ UNCHANGED <<gen, reloading, cache, epoch, cgen, cepoch, leader, res, must,
                   flightVars, invVars, stopVars>>

\* inflight.DoChan: join the flight with this key ...
JoinFlight(c, l) ==
    /\ pc[c] = "join"
    /\ SameFlight(c, l) /\ InFlight(l)
    /\ pc' = [pc EXCEPT ![c] = "wait"]
    /\ leader' = [leader EXCEPT ![c] = l]
    /\ UNCHANGED <<gen, reloading, cache, epoch, cgen, cepoch, res, must,
                   flightVars, invVars, stopVars>>

\* ... or start one.
StartFlight(c) ==
    /\ pc[c] = "join"
    /\ \A l \in Calls : SameFlight(c, l) => ~InFlight(l)
    /\ pc' = [pc EXCEPT ![c] = "wait"]
    /\ leader' = [leader EXCEPT ![c] = c]
    /\ fpc' = [fpc EXCEPT ![c] = "begin"]
    /\ UNCHANGED <<gen, reloading, cache, epoch, cgen, cepoch, res, must, fres,
                   invVars, stopVars>>

\* The flight's result arrives.
Receive(c) ==
    /\ pc[c] = "wait"
    /\ fpc[leader[c]] = "over"
    /\ Return(c, fres[leader[c]])
    /\ UNCHANGED <<gen, reloading, cache, epoch, cgen, cepoch, leader, must,
                   flightVars, invVars, stopVars>>

\* The caller's context ends first; the flight goes on without it.
Interrupted(c) ==
    /\ pc[c] = "wait"
    /\ Return(c, Miss)
    /\ UNCHANGED <<gen, reloading, cache, epoch, cgen, cepoch, leader, must,
                   flightVars, invVars, stopVars>>

-----------------------------------------------------------------------------
(* The flight, with the leader's snapshot, epoch and key.                   *)

FlightTo(l, label, r) ==
    /\ fpc' = [fpc EXCEPT ![l] = label]
    /\ fres' = [fres EXCEPT ![l] = r]

\* flights.begin succeeds until the tracker is closed ...
FlightBegin(l) ==
    /\ fpc[l] = "begin" /\ ~closed
    /\ FlightTo(l, "recheck", Miss)
    /\ UNCHANGED <<gen, reloading, cache, epoch, callVars, invVars, stopVars>>

\* ... and then the flight fails.
FlightRejected(l) ==
    /\ fpc[l] = "begin" /\ closed
    /\ FlightTo(l, "deliver", Miss)
    /\ UNCHANGED <<gen, reloading, cache, epoch, callVars, invVars, stopVars>>

\* The second cache lookup.
RecheckHit(l) ==
    /\ fpc[l] = "recheck"
    /\ Cached(l).ok
    /\ FlightTo(l, "end", Cached(l))
    /\ UNCHANGED <<gen, reloading, cache, epoch, callVars, invVars, stopVars>>

\* The checks are run, on attestations fetched from now on.
Started(l) == [ok |-> FALSE, gen |-> cgen[l], seen |-> Begun, cut |-> FALSE]
RecheckMiss(l) ==
    /\ fpc[l] = "recheck"
    /\ ~Cached(l).ok
    /\ FlightTo(l, "compute", Started(l))
    /\ UNCHANGED <<gen, reloading, cache, epoch, callVars, invVars, stopVars>>

\* runChecksRecovered returns a result, however stopCtx cut it short ...
Computed(r) == [ok |-> TRUE, gen |-> r.gen, seen |-> r.seen, cut |-> stopCtx]
FlightComputed(l) ==
    /\ fpc[l] = "compute"
    /\ FlightTo(l, "check", Computed(fres[l]))
    /\ UNCHANGED <<gen, reloading, cache, epoch, callVars, invVars, stopVars>>

\* ... or an error after a panic.
FlightPanics(l) ==
    /\ fpc[l] = "compute"
    /\ FlightTo(l, "end", Miss)
    /\ UNCHANGED <<gen, reloading, cache, epoch, callVars, invVars, stopVars>>

\* "A cancelled verification did not evaluate the image."
FlightCancelled(l) ==
    /\ fpc[l] = "check" /\ stopCtx
    /\ FlightTo(l, "end", Miss)
    /\ UNCHANGED <<gen, reloading, cache, epoch, callVars, invVars, stopVars>>

\* Mutant: the result of a cancelled computation is kept.
FlightPassed_NoCheck(l) ==
    /\ fpc[l] = "check"
    /\ FlightTo(l, "store", fres[l])
    /\ UNCHANGED <<gen, reloading, cache, epoch, callVars, invVars, stopVars>>

FlightPassed(l) ==
    /\ fpc[l] = "check" /\ ~stopCtx
    /\ FlightTo(l, "store", fres[l])
    /\ UNCHANGED <<gen, reloading, cache, epoch, callVars, invVars, stopVars>>

\* SetWithTTLAtEpoch stores the result at an unchanged epoch ...
FlightStored(l) ==
    /\ fpc[l] = "store"
    /\ epoch[cgen[l]][ShardOf[KeyOf[l]]] = cepoch[l]
    /\ cache' = [cache EXCEPT ![cgen[l]][KeyOf[l]] = fres[l]]
    /\ FlightTo(l, "end", fres[l])
    /\ UNCHANGED <<gen, reloading, epoch, callVars, invVars, stopVars>>

\* ... and drops it when the epoch moved on or the TTL is zero.
FlightNotStored(l) ==
    /\ fpc[l] = "store"
    /\ FlightTo(l, "end", fres[l])
    /\ UNCHANGED <<gen, reloading, cache, epoch, callVars, invVars, stopVars>>

\* flights.end, deferred.
FlightEnd(l) ==
    /\ fpc[l] = "end"
    /\ FlightTo(l, "deliver", fres[l])
    /\ UNCHANGED <<gen, reloading, cache, epoch, callVars, invVars, stopVars>>

\* The group forgets the key and sends the result to everyone who joined.
FlightDeliver(l) ==
    /\ fpc[l] = "deliver"
    /\ FlightTo(l, "over", fres[l])
    /\ UNCHANGED <<gen, reloading, cache, epoch, callVars, invVars, stopVars>>

-----------------------------------------------------------------------------
(* The cache on its own, InvalidateCache, Reload and Stop.                  *)

\* An entry expires or is evicted.
Evict(g, k) ==
    /\ cache[g][k].ok
    /\ cache' = [cache EXCEPT ![g][k] = Miss]
    /\ UNCHANGED <<gen, reloading, epoch, callVars, flightVars, invVars, stopVars>>

\* InvalidateCache: v.snap() ...
InvLoad(i) ==
    /\ ipc[i] = "idle"
    /\ ipc' = [ipc EXCEPT ![i] = "loaded"]
    /\ igen' = [igen EXCEPT ![i] = gen]
    /\ UNCHANGED <<gen, reloading, cache, epoch, iepoch, callVars, flightVars, stopVars>>

\* ... .cache.DeleteAll(digest, namespace), which advances the shard's epoch.
InvDelete(i) ==
    /\ ipc[i] = "loaded"
    /\ ipc' = [ipc EXCEPT ![i] = "done"]
    /\ cache' = [cache EXCEPT ![igen[i]] =
                    [k \in Keys |-> IF k \in HitsOf[i] THEN Miss ELSE @[k]]]
    /\ epoch' = [epoch EXCEPT ![igen[i]][InvShardOf[i]] = @ + 1]
    /\ iepoch' = [iepoch EXCEPT ![i] = epoch[igen[i]][InvShardOf[i]] + 1]
    /\ UNCHANGED <<gen, reloading, igen, callVars, flightVars, stopVars>>

\* Mutant: a stopped verifier is reloaded.
ReloadBegin_AfterStop ==
    /\ ~reloading
    /\ gen < MaxReloads
    /\ reloading' = TRUE
    /\ UNCHANGED <<gen, cache, epoch, callVars, flightVars, invVars, stopVars>>

\* Reload takes reloadMu, unless the verifier was stopped, and pauses the poller.
ReloadBegin ==
    /\ ~reloading /\ ~stopped
    /\ gen < MaxReloads
    /\ reloading' = TRUE
    /\ UNCHANGED <<gen, cache, epoch, callVars, flightVars, invVars, stopVars>>

\* It publishes a snapshot of a new generation, with an empty cache of its own, and
\* starts the poller ...
Reloaded ==
    /\ reloading
    /\ reloading' = FALSE
    /\ gen' = gen + 1
    /\ UNCHANGED <<cache, epoch, callVars, flightVars, invVars, stopVars>>

\* ... or fails, or keeps the generation, and resumes the poller.
ReloadKept ==
    /\ reloading
    /\ reloading' = FALSE
    /\ UNCHANGED <<gen, cache, epoch, callVars, flightVars, invVars, stopVars>>

\* onPolicyUpdate: the poller publishes policies that differ, until it is stopped.
PolicyUpdate ==
    /\ ~reloading /\ spc \in {"run", "reject", "poller"}
    /\ gen < MaxReloads
    /\ gen' = gen + 1
    /\ UNCHANGED <<reloading, cache, epoch, callVars, flightVars, invVars, stopVars>>

\* Stop: reject new verifications before waiting for a running reload.
StopReject ==
    /\ CanStop /\ spc = "run"
    /\ spc' = "reject" /\ closed' = TRUE
    /\ UNCHANGED <<gen, reloading, cache, epoch, callVars, flightVars, invVars,
                   stopped, stopCtx>>

StopLocked ==
    /\ spc = "reject" /\ ~reloading
    /\ spc' = "poller" /\ stopped' = TRUE
    /\ UNCHANGED <<gen, reloading, cache, epoch, callVars, flightVars, invVars,
                   closed, stopCtx>>

StopPoller ==
    /\ spc = "poller"
    /\ spc' = "drain"
    /\ UNCHANGED <<gen, reloading, cache, epoch, callVars, flightVars, invVars,
                   closed, stopped, stopCtx>>

\* flights.wait returns when the last verification has ended ...
StopDrained ==
    /\ spc = "drain" /\ Active = {}
    /\ spc' = "release" /\ stopCtx' = TRUE
    /\ UNCHANGED <<gen, reloading, cache, epoch, callVars, flightVars, invVars,
                   closed, stopped>>

\* ... or when the caller's deadline is over: cancel them, wait again.
StopCancels ==
    /\ spc = "drain"
    /\ spc' = "grace" /\ stopCtx' = TRUE
    /\ UNCHANGED <<gen, reloading, cache, epoch, callVars, flightVars, invVars,
                   closed, stopped>>

\* The grace period ends.
StopGrace ==
    /\ spc = "grace"
    /\ spc' = IF Active = {} THEN "release" ELSE "abandon"
    /\ UNCHANGED <<gen, reloading, cache, epoch, callVars, flightVars, invVars,
                   closed, stopped, stopCtx>>

\* The snapshot's cache is stopped and its audit log, GUAC client and fetcher
\* closed, for good or under verifications that do not return.
StopRelease ==
    /\ spc \in {"release", "abandon"}
    /\ spc' = IF spc = "release" THEN "stopped" ELSE "forced"
    /\ UNCHANGED <<gen, reloading, cache, epoch, callVars, flightVars, invVars,
                   closed, stopped, stopCtx>>

CallStep(c) ==
    \/ LookupHit(c) \/ LookupMiss(c) \/ ReadEpoch(c) \/ NotJoinable(c) \/ Joinable(c)
    \/ \E l \in Calls : JoinFlight(c, l)
    \/ StartFlight(c) \/ Receive(c)

FlightStep(l) ==
    \/ FlightBegin(l) \/ FlightRejected(l) \/ RecheckHit(l) \/ RecheckMiss(l)
    \/ FlightComputed(l) \/ FlightPanics(l) \/ FlightCancelled(l) \/ FlightPassed(l)
    \/ FlightStored(l) \/ FlightNotStored(l) \/ FlightEnd(l) \/ FlightDeliver(l)

\* Mutant: reloadMu is not released.
ReloadEnd_KeepLock == reloading /\ UNCHANGED vars

ReloadEnd == Reloaded \/ ReloadKept

StopStep ==
    StopLocked \/ StopPoller \/ StopDrained \/ StopCancels \/ StopGrace \/ StopRelease

Next ==
    \/ \E c \in Calls : CallStart(c) \/ CallStep(c) \/ Interrupted(c) \/ FlightStep(c)
    \/ \E i \in Invs : InvLoad(i) \/ InvDelete(i)
    \/ \E g \in Gens, k \in Keys : Evict(g, k)
    \/ ReloadBegin \/ ReloadEnd \/ PolicyUpdate
    \/ StopReject \/ StopStep

Spec == Init /\ [][Next]_vars

\* Calls and flights are goroutines the scheduler runs, a computation ends at the
\* latest with the verification timeout, a reload ends, and Stop's two waits are
\* bounded by its caller's deadline and the grace period.  Stop gets reloadMu even
\* when reloads keep taking it: a sync.Mutex does not starve a waiter.
Fairness ==
    /\ \A c \in Calls : WF_vars(CallStep(c)) /\ WF_vars(FlightStep(c))
    /\ WF_vars(ReloadEnd) /\ SF_vars(StopLocked) /\ WF_vars(StopStep)

FairSpec == Spec /\ Fairness

-----------------------------------------------------------------------------
(* Properties.                                                              *)

\* A result returned by Verify was computed with the policies of the snapshot
\* the call loaded, from attestations fetched after every InvalidateCache of its
\* digest and namespace that had returned before the call began (verifyOnce:
\* "A request after InvalidateCache therefore never joins a verification that
\* started before").
Fresh ==
    \A c \in Calls : pc[c] = "done" /\ res[c].ok =>
        res[c].gen = cgen[c] /\ must[c] \subseteq res[c].seen

\* What a generation's cache holds was computed with that generation and after
\* every invalidation that has deleted the key from it (SetWithTTLAtEpoch: "such a
\* verification does not store its result").
CacheFresh ==
    \A g \in Gens, k \in Keys : cache[g][k].ok =>
        /\ cache[g][k].gen = g
        /\ \A i \in Finished : k \in HitsOf[i] /\ igen[i] <= g => i \in cache[g][k].seen

\* Neither an answer nor a cache entry is older than an invalidation or a reload
\* that came before it (Fresh, CacheFresh).
NothingStale == Fresh /\ CacheFresh

\* A verification cut short by Stop neither fills the cache nor answers anyone
\* (verifyOnce: "A cancelled verification did not evaluate the image").
NoCutResult ==
    /\ \A c \in Calls : pc[c] = "done" => ~res[c].cut
    /\ \A g \in Gens, k \in Keys : cache[g][k].ok => ~cache[g][k].cut

\* Of the calls that share a flight key at most one computes at a time, and the
\* snapshot's resources are released under a running verification only after the
\* drain and the grace period ran out (stop, flightTracker).
FlightsDrained ==
    /\ \A l, m \in Calls : l \in Active /\ m \in Active /\ SameFlight(l, m) => l = m
    /\ spc \in {"release", "stopped"} => Active = {}

\* Stop leaves nothing half done: a verification it cut short is not used, and
\* none runs on released resources (NoCutResult, FlightsDrained).
StopIsClean == NoCutResult /\ FlightsDrained

\* Once Stop has stopped the poller no snapshot is published any more, so the
\* snapshot it releases is the last one (Reload: "fails with ErrVerifierStopped
\* once the verifier was stopped").
NoPublishAfterStopStep ==
    spc \notin {"run", "reject", "poller"} => gen' = gen
NoPublishAfterStop == [][NoPublishAfterStopStep]_vars

\* Verify, InvalidateCache and the reloads implement FreshVerification: seen from
\* outside, a call begins, and then answers with a fresh result or fails.
CallState ==
    [c \in Calls |-> IF pc[c] \in {"idle", "done"} THEN pc[c] ELSE "running"]
Abstract == INSTANCE FreshVerification WITH
    state <- CallState, begun <- Begun, finished <- Finished
ImplementsFresh == Abstract!Spec

\* Every call of Verify that began returns.
CallsReturn == \A c \in Calls : pc[c] # "idle" ~> pc[c] = "done"

\* Stop returns, whatever the reloads and the verifications do.
StopReturns == spc # "run" ~> spc \in {"stopped", "forced"}

\* Neither a call of Verify nor Stop hangs (CallsReturn, StopReturns).
EverythingReturns == CallsReturn /\ StopReturns
=============================================================================
