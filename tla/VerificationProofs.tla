------------------------- MODULE VerificationProofs -------------------------
(***************************************************************************)
(* Verify never answers with a stale result, for any number of calls,      *)
(* invalidations, keys and reloads, and implements FreshVerification.      *)
(*                                                                         *)
(* The argument.  Order the invalidations of a key by the generation they  *)
(* loaded.  One that loaded an older generation than g had begun before    *)
(* anything was computed for g, so every result of g has seen it.  One     *)
(* that loaded g itself left an epoch behind in g's cache (iepoch); a      *)
(* flight that had begun computing before it read a smaller epoch, so it   *)
(* neither passes SetWithTTLAtEpoch nor shares a flight key with a call    *)
(* that began after it.                                                    *)
(***************************************************************************)
EXTENDS Verification, TLAPS

\* Invalidations of k that loaded an older generation are seen by a result of g.
SeesOlder(r, g, k) ==
    \A i \in Begun : k \in HitsOf[i] /\ igen[i] < g => i \in r.seen

\* A result of generation g for key k, as far as all its holders agree.
Sound(r, g, k) ==
    /\ r.gen = g
    /\ r.seen \subseteq Begun
    /\ SeesOlder(r, g, k)

GensInv ==
    /\ \A c \in Calls : cgen[c] <= gen
    /\ \A i \in Invs : igen[i] <= gen

EpochInv ==
    \A i \in Finished : iepoch[i] <= epoch[igen[i]][InvShardOf[i]]

CacheInv ==
    \A g \in Gens, k \in Keys : cache[g][k].ok =>
        /\ g <= gen
        /\ Sound(cache[g][k], g, k)
        /\ ~cache[g][k].cut
        /\ \A i \in Finished : k \in HitsOf[i] /\ igen[i] = g => i \in cache[g][k].seen

\* The flight of l holds what becomes, or is, its result.
Holding(l) ==
    fpc[l] \in {"compute", "check", "store"} \/ (fpc[l] # "none" /\ fres[l].ok)

FlightInv ==
    \A l \in Calls : Holding(l) =>
        /\ Sound(fres[l], cgen[l], KeyOf[l])
        /\ fres[l].cut => fpc[l] = "check" /\ stopCtx
        /\ \A i \in Finished : KeyOf[l] \in HitsOf[i] /\ igen[i] = cgen[l] =>
              i \in fres[l].seen \/ cepoch[l] < iepoch[i]

\* A flight answers with a result or with an error in the form of Miss.
FlightShape ==
    \A l \in Calls :
        /\ fpc[l] \in {"none", "begin", "recheck"} => fres[l] = Miss
        /\ fpc[l] \in {"check", "store"} => fres[l].ok
        /\ fpc[l] \in {"end", "deliver", "over"} => fres[l].ok \/ fres[l] = Miss

\* A call past its epoch read.
Read(c) == pc[c] \in {"check", "join", "wait"}

CallInv ==
    \A c \in Calls :
        /\ pc[c] = "idle" => must[c] = {}
        /\ \A i \in must[c] :
              /\ i \in Finished /\ KeyOf[c] \in HitsOf[i] /\ igen[i] <= cgen[c]
              /\ Read(c) /\ igen[i] = cgen[c] => iepoch[i] <= cepoch[c]
        /\ fpc[c] # "none" => pc[c] \in {"wait", "done"}
        /\ Read(c) \/ fpc[c] # "none" => cepoch[c] <= epoch[cgen[c]][ShardOf[KeyOf[c]]]
        /\ pc[c] = "wait" => SameFlight(c, leader[c]) /\ fpc[leader[c]] # "none"

AnswerInv ==
    \A c \in Calls :
        IF pc[c] = "done" /\ res[c].ok
        THEN /\ res[c].gen = cgen[c] /\ ~res[c].cut
             /\ must[c] \subseteq res[c].seen /\ res[c].seen \subseteq Begun
        ELSE res[c] = Miss

OneFlight ==
    \A l, m \in Calls : InFlight(l) /\ InFlight(m) /\ SameFlight(l, m) => l = m

StopInv ==
    /\ closed <=> spc # "run"
    /\ stopped <=> spc \notin {"run", "reject"}
    /\ stopped => ~reloading
    /\ spc \in {"release", "stopped"} => Active = {}
    /\ reloading => gen < MaxReloads

IInv ==
    /\ TypeOK /\ GensInv /\ EpochInv /\ CacheInv /\ FlightInv /\ FlightShape
    /\ CallInv /\ AnswerInv /\ OneFlight /\ StopInv

-----------------------------------------------------------------------------

\* An error in place of a result is a result record.
LEMMA MissType == Miss \in Results
  BY BoundsAssumption DEF Miss, Results, Gens

\* What a computation starts from and ends with are result records.
LEMMA ResultTypes ==
    ASSUME TypeOK, NEW l \in Calls
    PROVE  Started(l) \in Results /\ Computed(fres[l]) \in Results
  BY DEF TypeOK, Results, Started, Computed, Begun

\* Every action keeps the types.
LEMMA TypeStep == TypeOK /\ StopInv /\ [Next]_vars => TypeOK'
  <1> SUFFICES ASSUME TypeOK, StopInv, [Next]_vars PROVE TypeOK'
    OBVIOUS
  <1> USE KeysAssumption, BoundsAssumption, MissType DEF CallLabels, FlightLabels
  <1>1. ASSUME NEW c \in Calls, CallStart(c) PROVE TypeOK'
    BY <1>1 DEF TypeOK, CallStart, Finished, flightVars, invVars, stopVars
  <1>2. ASSUME NEW c \in Calls, LookupHit(c) PROVE TypeOK'
    BY <1>2 DEF TypeOK, LookupHit, Cached, Return, flightVars, invVars, stopVars
  <1>3. ASSUME NEW c \in Calls, LookupMiss(c) PROVE TypeOK'
    BY <1>3 DEF TypeOK, LookupMiss, flightVars, invVars, stopVars
  <1>4. ASSUME NEW c \in Calls, ReadEpoch(c) PROVE TypeOK'
    BY <1>4 DEF TypeOK, ReadEpoch, flightVars, invVars, stopVars
  <1>5. ASSUME NEW c \in Calls, NotJoinable(c) PROVE TypeOK'
    BY <1>5 DEF TypeOK, NotJoinable, Return, flightVars, invVars, stopVars
  <1>6. ASSUME NEW c \in Calls, Joinable(c) PROVE TypeOK'
    BY <1>6 DEF TypeOK, Joinable, flightVars, invVars, stopVars
  <1>7. ASSUME NEW c \in Calls, StartFlight(c) PROVE TypeOK'
    BY <1>7 DEF TypeOK, StartFlight, flightVars, invVars, stopVars
  <1>8. ASSUME NEW c \in Calls, Receive(c) PROVE TypeOK'
    BY <1>8 DEF TypeOK, Receive, Return, flightVars, invVars, stopVars
  <1>9. ASSUME NEW c \in Calls, Interrupted(c) PROVE TypeOK'
    BY <1>9 DEF TypeOK, Interrupted, Return, flightVars, invVars, stopVars
  <1>10. ASSUME NEW c \in Calls, NEW l \in Calls, JoinFlight(c, l) PROVE TypeOK'
    BY <1>10 DEF TypeOK, JoinFlight, flightVars, invVars, stopVars
  <1>11. ASSUME NEW l \in Calls, FlightBegin(l) PROVE TypeOK'
    BY <1>11 DEF TypeOK, FlightBegin, FlightTo, callVars, invVars, stopVars
  <1>12. ASSUME NEW l \in Calls, FlightRejected(l) PROVE TypeOK'
    BY <1>12 DEF TypeOK, FlightRejected, FlightTo, callVars, invVars, stopVars
  <1>13. ASSUME NEW l \in Calls, RecheckHit(l) PROVE TypeOK'
    BY <1>13 DEF TypeOK, RecheckHit, Cached, FlightTo, callVars, invVars, stopVars
  <1>14. ASSUME NEW l \in Calls, RecheckMiss(l) PROVE TypeOK'
    BY <1>14, ResultTypes DEF TypeOK, RecheckMiss, FlightTo, callVars, invVars, stopVars
  <1>15. ASSUME NEW l \in Calls, FlightComputed(l) PROVE TypeOK'
    BY <1>15, ResultTypes DEF TypeOK, FlightComputed, FlightTo, callVars, invVars, stopVars
  <1>16. ASSUME NEW l \in Calls, FlightPanics(l) PROVE TypeOK'
    BY <1>16 DEF TypeOK, FlightPanics, FlightTo, callVars, invVars, stopVars
  <1>17. ASSUME NEW l \in Calls, FlightCancelled(l) PROVE TypeOK'
    BY <1>17 DEF TypeOK, FlightCancelled, FlightTo, callVars, invVars, stopVars
  <1>18. ASSUME NEW l \in Calls, FlightPassed(l) PROVE TypeOK'
    BY <1>18 DEF TypeOK, FlightPassed, FlightTo, callVars, invVars, stopVars
  <1>19. ASSUME NEW l \in Calls, FlightStored(l) PROVE TypeOK'
    BY <1>19 DEF TypeOK, FlightStored, FlightTo, callVars, invVars, stopVars
  <1>20. ASSUME NEW l \in Calls, FlightNotStored(l) PROVE TypeOK'
    BY <1>20 DEF TypeOK, FlightNotStored, FlightTo, callVars, invVars, stopVars
  <1>21. ASSUME NEW l \in Calls, FlightEnd(l) PROVE TypeOK'
    BY <1>21 DEF TypeOK, FlightEnd, FlightTo, callVars, invVars, stopVars
  <1>22. ASSUME NEW l \in Calls, FlightDeliver(l) PROVE TypeOK'
    BY <1>22 DEF TypeOK, FlightDeliver, FlightTo, callVars, invVars, stopVars
  <1>23. ASSUME NEW i \in Invs, InvLoad(i) PROVE TypeOK'
    BY <1>23 DEF TypeOK, InvLoad, callVars, flightVars, stopVars
  <1>24. ASSUME NEW i \in Invs, InvDelete(i) PROVE TypeOK'
    BY <1>24 DEF TypeOK, InvDelete, callVars, flightVars, stopVars
  <1>25. ASSUME NEW g \in Gens, NEW k \in Keys, Evict(g, k) PROVE TypeOK'
    BY <1>25 DEF TypeOK, Evict, callVars, flightVars, invVars, stopVars
  <1>26. ASSUME ReloadBegin PROVE TypeOK'
    BY <1>26 DEF TypeOK, ReloadBegin, callVars, flightVars, invVars, stopVars
  <1>27. ASSUME Reloaded PROVE TypeOK'
    <2>1. gen + 1 \in Gens
      BY <1>27 DEF TypeOK, Reloaded, StopInv, Gens
    <2> QED
      BY <1>27, <2>1 DEF TypeOK, Reloaded, callVars, flightVars, invVars, stopVars
  <1>28. ASSUME ReloadKept PROVE TypeOK'
    BY <1>28 DEF TypeOK, ReloadKept, callVars, flightVars, invVars, stopVars
  <1>29. ASSUME PolicyUpdate PROVE TypeOK'
    BY <1>29 DEF TypeOK, PolicyUpdate, StopInv, Gens, callVars, flightVars, invVars, stopVars
  <1>30. ASSUME StopReject PROVE TypeOK'
    BY <1>30 DEF TypeOK, StopLabels, StopReject, callVars, flightVars, invVars
  <1>31. ASSUME StopLocked PROVE TypeOK'
    BY <1>31 DEF TypeOK, StopLabels, StopLocked, callVars, flightVars, invVars
  <1>32. ASSUME StopPoller PROVE TypeOK'
    BY <1>32 DEF TypeOK, StopLabels, StopPoller, callVars, flightVars, invVars
  <1>33. ASSUME StopDrained PROVE TypeOK'
    BY <1>33 DEF TypeOK, StopLabels, StopDrained, callVars, flightVars, invVars
  <1>34. ASSUME StopCancels PROVE TypeOK'
    BY <1>34 DEF TypeOK, StopLabels, StopCancels, callVars, flightVars, invVars
  <1>35. ASSUME StopGrace PROVE TypeOK'
    BY <1>35 DEF TypeOK, StopLabels, StopGrace, callVars, flightVars, invVars
  <1>36. ASSUME StopRelease PROVE TypeOK'
    BY <1>36 DEF TypeOK, StopLabels, StopRelease, callVars, flightVars, invVars
  <1>37. ASSUME UNCHANGED vars PROVE TypeOK'
    BY <1>37 DEF TypeOK, vars, callVars, flightVars, invVars, stopVars
  <1> QED
    BY <1>1, <1>2, <1>3, <1>4, <1>5, <1>6, <1>7, <1>8, <1>9, <1>10, <1>11,
       <1>12, <1>13, <1>14, <1>15, <1>16, <1>17, <1>18, <1>19, <1>20, <1>21,
       <1>22, <1>23, <1>24, <1>25, <1>26, <1>27, <1>28, <1>29, <1>30, <1>31,
       <1>32, <1>33, <1>34, <1>35, <1>36, <1>37
       DEF Next, CallStep, FlightStep, ReloadEnd, StopStep

-----------------------------------------------------------------------------
(* Which variables the actions of an actor leave alone.                     *)

InvStep(i) == InvLoad(i) \/ InvDelete(i)
PublishStep == ReloadBegin \/ ReloadEnd \/ PolicyUpdate
Stopping == StopReject \/ StopStep

\* The actors of Next.
LEMMA Actors ==
    ASSUME [Next]_vars
    PROVE  \/ \E c \in Calls : CallStart(c) \/ CallStep(c) \/ Interrupted(c)
           \/ \E l \in Calls : FlightStep(l)
           \/ \E i \in Invs : InvStep(i)
           \/ \E g \in Gens, k \in Keys : Evict(g, k)
           \/ PublishStep
           \/ Stopping
           \/ UNCHANGED vars
  BY DEF Next, InvStep, PublishStep, Stopping

\* A step of Verify before, beside or after its flight.
LEMMA CallFrame ==
    ASSUME NEW c \in Calls, CallStart(c) \/ CallStep(c) \/ Interrupted(c)
    PROVE  UNCHANGED <<gen, reloading, cache, epoch, fres, ipc, igen, iepoch, spc,
                       closed, stopped, stopCtx>>
  BY DEF CallStart, CallStep, LookupHit, LookupMiss, ReadEpoch, NotJoinable, Joinable,
         JoinFlight, StartFlight, Receive, Interrupted, flightVars, invVars, stopVars

\* A step of a flight.
LEMMA FlightFrame ==
    ASSUME NEW l \in Calls, FlightStep(l)
    PROVE  UNCHANGED <<gen, reloading, epoch, pc, cgen, cepoch, leader, res, must, ipc,
                       igen, iepoch, spc, closed, stopped, stopCtx>>
  BY DEF FlightStep, FlightBegin, FlightRejected, RecheckHit, RecheckMiss, FlightComputed,
         FlightPanics, FlightCancelled, FlightPassed, FlightStored, FlightNotStored,
         FlightEnd, FlightDeliver, callVars, invVars, stopVars

\* A step of InvalidateCache.
LEMMA InvFrame ==
    ASSUME NEW i \in Invs, InvStep(i)
    PROVE  UNCHANGED <<gen, reloading, pc, cgen, cepoch, leader, res, must, fpc, fres,
                       spc, closed, stopped, stopCtx>>
  BY DEF InvStep, InvLoad, InvDelete, callVars, flightVars, stopVars

\* An expiry or eviction.
LEMMA EvictFrame ==
    ASSUME NEW g \in Gens, NEW k \in Keys, Evict(g, k)
    PROVE  UNCHANGED <<gen, reloading, epoch, pc, cgen, cepoch, leader, res, must, fpc,
                       fres, ipc, igen, iepoch, spc, closed, stopped, stopCtx>>
  BY DEF Evict, callVars, flightVars, invVars, stopVars

\* A step of a reload or a policy update.
LEMMA PublishFrame ==
    ASSUME PublishStep
    PROVE  UNCHANGED <<cache, epoch, pc, cgen, cepoch, leader, res, must, fpc, fres, ipc,
                       igen, iepoch, spc, closed, stopped, stopCtx>>
  BY DEF PublishStep, ReloadBegin, ReloadEnd, Reloaded, ReloadKept, PolicyUpdate, callVars,
         flightVars, invVars, stopVars

\* A step of Stop.
LEMMA StopFrame ==
    ASSUME Stopping
    PROVE  UNCHANGED <<gen, reloading, cache, epoch, pc, cgen, cepoch, leader, res, must,
                       fpc, fres, ipc, igen, iepoch>>
  BY DEF Stopping, StopReject, StopStep, StopLocked, StopPoller, StopDrained, StopCancels,
         StopGrace, StopRelease, callVars, flightVars, invVars

\* A stuttering step.
LEMMA StutterFrame ==
    ASSUME UNCHANGED vars
    PROVE  UNCHANGED <<gen, reloading, cache, epoch, pc, cgen, cepoch, leader, res, must,
                       fpc, fres, ipc, igen, iepoch, spc, closed, stopped, stopCtx>>
  BY DEF vars, callVars, flightVars, invVars, stopVars

\* Generations only grow, and invalidations only begin and finish.
LEMMA Monotone ==
    ASSUME TypeOK, [Next]_vars
    PROVE  /\ gen' \in Nat /\ gen <= gen'
           /\ Begun \subseteq Begun' /\ Finished \subseteq Finished'
           /\ \A i \in Begun : igen'[i] = igen[i]
           /\ \A i \in Finished : iepoch'[i] = iepoch[i]
           /\ \A i \in Begun' \ Begun : igen'[i] = gen /\ gen' = gen
  <1>1. ASSUME NEW i \in Invs, InvStep(i)
        PROVE  /\ Begun \subseteq Begun' /\ Finished \subseteq Finished'
               /\ \A j \in Begun : igen'[j] = igen[j]
               /\ \A j \in Finished : iepoch'[j] = iepoch[j]
               /\ \A j \in Begun' \ Begun : igen'[j] = gen
    <2>1. CASE InvLoad(i)
      BY <2>1 DEF TypeOK, InvLoad, Begun, Finished
    <2>2. CASE InvDelete(i)
      BY <2>2 DEF TypeOK, InvDelete, Begun, Finished
    <2> QED
      BY <1>1, <2>1, <2>2 DEF InvStep
  <1>2. ASSUME UNCHANGED <<ipc, igen, iepoch>>
        PROVE  /\ Begun \subseteq Begun' /\ Finished \subseteq Finished'
               /\ \A j \in Begun : igen'[j] = igen[j]
               /\ \A j \in Finished : iepoch'[j] = iepoch[j]
               /\ Begun' = Begun
    BY <1>2 DEF Begun, Finished
  <1>3. ASSUME PublishStep PROVE gen' \in Nat /\ gen <= gen'
    BY <1>3 DEF PublishStep, TypeOK, Gens, ReloadBegin, ReloadEnd, Reloaded, ReloadKept,
               PolicyUpdate
  <1>4. gen \in Nat
    BY BoundsAssumption DEF TypeOK, Gens
  <1> QED
    BY <1>1, <1>2, <1>3, <1>4, Actors, CallFrame, FlightFrame, InvFrame, EvictFrame,
       PublishFrame, StopFrame, StutterFrame

-----------------------------------------------------------------------------
(* One lemma for each conjunct of the inductive invariant.                  *)

\* No call and no invalidation loaded a generation that is not published yet.
LEMMA GensStep == ASSUME TypeOK, GensInv, [Next]_vars PROVE GensInv'
  <1> USE BoundsAssumption
  <1>1. ASSUME NEW c \in Calls, CallStart(c) PROVE GensInv'
    BY <1>1 DEF GensInv, TypeOK, Gens, CallStart, invVars
  <1>2. ASSUME NEW i \in Invs, InvLoad(i) PROVE GensInv'
    BY <1>2 DEF GensInv, TypeOK, Gens, InvLoad, callVars
  <1>3. ASSUME UNCHANGED <<cgen, igen>> PROVE GensInv'
    <2>1. gen \in Nat /\ gen' \in Nat /\ gen <= gen'
      BY Monotone DEF TypeOK, Gens
    <2>2. /\ \A c \in Calls : cgen[c] \in Nat
          /\ \A i \in Invs : igen[i] \in Nat
      BY DEF TypeOK, Gens
    <2> QED
      BY <1>3, <2>1, <2>2 DEF GensInv
  <1>4. ASSUME NEW c \in Calls, CallStep(c) \/ Interrupted(c) PROVE UNCHANGED <<cgen, igen>>
    BY <1>4, CallFrame DEF CallStep, LookupHit, LookupMiss, ReadEpoch, NotJoinable,
                           Joinable, JoinFlight, StartFlight, Receive, Interrupted
  <1>5. ASSUME NEW i \in Invs, InvDelete(i) PROVE UNCHANGED <<cgen, igen>>
    BY <1>5 DEF InvDelete, callVars
  <1> QED
    BY <1>1, <1>2, <1>3, <1>4, <1>5, Actors, FlightFrame, EvictFrame, PublishFrame,
       StopFrame, StutterFrame DEF InvStep

\* The epoch an invalidation left behind is never above its shard's.
LEMMA EpochStep == ASSUME TypeOK, EpochInv, [Next]_vars PROVE EpochInv'
  <1> USE KeysAssumption
  <1>1. ASSUME NEW i \in Invs, InvLoad(i) PROVE EpochInv'
    BY <1>1 DEF EpochInv, TypeOK, InvLoad, Finished
  <1>2. ASSUME NEW i \in Invs, InvDelete(i) PROVE EpochInv'
    <2> SUFFICES ASSUME NEW j \in Finished'
                 PROVE  iepoch'[j] <= epoch'[igen'[j]][InvShardOf[j]]
      BY DEF EpochInv
    <2>1. j \in Invs /\ igen'[j] = igen[j] /\ igen[j] \in Gens /\ InvShardOf[j] \in Shards
      BY <1>2 DEF Finished, InvDelete, TypeOK
    <2>2. \A g \in Gens, s \in Shards :
             epoch[g][s] \in Nat /\ epoch'[g][s] \in Nat /\ epoch[g][s] <= epoch'[g][s]
      BY <1>2 DEF InvDelete, TypeOK
    <2>3. CASE j = i
      BY <1>2, <2>1, <2>2, <2>3 DEF InvDelete, TypeOK
    <2>4. CASE j # i
      <3>1. j \in Finished /\ iepoch'[j] = iepoch[j] /\ iepoch[j] \in Nat
        BY <1>2, <2>1, <2>4 DEF InvDelete, TypeOK, Finished
      <3>2. iepoch[j] <= epoch[igen[j]][InvShardOf[j]]
        BY <3>1 DEF EpochInv
      <3> QED
        BY <2>1, <2>2, <3>1, <3>2
    <2> QED
      BY <2>3, <2>4
  <1>3. ASSUME UNCHANGED <<ipc, igen, iepoch, epoch>> PROVE EpochInv'
    BY <1>3 DEF EpochInv, Finished
  <1> QED
    BY <1>1, <1>2, <1>3, Actors, CallFrame, FlightFrame, EvictFrame, PublishFrame,
       StopFrame, StutterFrame DEF InvStep

\* A flight that ends has a result or an error.
LEMMA ShapeStep == ASSUME TypeOK, FlightShape, CallInv, [Next]_vars PROVE FlightShape'
  <1>1. ASSUME NEW l \in Calls, NEW x, NEW r, FlightTo(l, x, r),
               x \in {"none", "begin", "recheck"} => r = Miss,
               x \in {"check", "store"} => r.ok,
               x \in {"end", "deliver", "over"} => r.ok \/ r = Miss
        PROVE  FlightShape'
    BY <1>1 DEF FlightTo, FlightShape, TypeOK
  <1>2. ASSUME NEW l \in Calls, FlightBegin(l) PROVE FlightShape'
    BY <1>1, <1>2 DEF FlightBegin
  <1>3. ASSUME NEW l \in Calls, FlightRejected(l) PROVE FlightShape'
    BY <1>1, <1>3 DEF FlightRejected
  <1>4. ASSUME NEW l \in Calls, RecheckHit(l) PROVE FlightShape'
    BY <1>1, <1>4 DEF RecheckHit
  <1>5. ASSUME NEW l \in Calls, RecheckMiss(l) PROVE FlightShape'
    BY <1>1, <1>5 DEF RecheckMiss
  <1>6. ASSUME NEW l \in Calls, FlightComputed(l) PROVE FlightShape'
    BY <1>1, <1>6 DEF FlightComputed, Computed
  <1>7. ASSUME NEW l \in Calls, FlightPanics(l) PROVE FlightShape'
    BY <1>1, <1>7 DEF FlightPanics
  <1>8. ASSUME NEW l \in Calls, FlightCancelled(l) PROVE FlightShape'
    BY <1>1, <1>8 DEF FlightCancelled
  <1>9. ASSUME NEW l \in Calls, FlightPassed(l) PROVE FlightShape'
    BY <1>1, <1>9 DEF FlightPassed, FlightShape
  <1>10. ASSUME NEW l \in Calls, FlightStored(l) PROVE FlightShape'
    BY <1>1, <1>10 DEF FlightStored, FlightShape
  <1>11. ASSUME NEW l \in Calls, FlightNotStored(l) PROVE FlightShape'
    BY <1>1, <1>11 DEF FlightNotStored, FlightShape
  <1>12. ASSUME NEW l \in Calls, FlightEnd(l) PROVE FlightShape'
    BY <1>1, <1>12 DEF FlightEnd, FlightShape
  <1>13. ASSUME NEW l \in Calls, FlightDeliver(l) PROVE FlightShape'
    BY <1>1, <1>13 DEF FlightDeliver, FlightShape
  <1>14. ASSUME NEW c \in Calls, StartFlight(c) PROVE FlightShape'
    BY <1>14 DEF StartFlight, FlightShape, CallInv, TypeOK
  <1>15. ASSUME UNCHANGED <<fpc, fres>> PROVE FlightShape'
    BY <1>15 DEF FlightShape
  <1>16. ASSUME NEW c \in Calls, CallStart(c) \/ CallStep(c) \/ Interrupted(c),
                ~StartFlight(c)
         PROVE  UNCHANGED <<fpc, fres>>
    BY <1>16, CallFrame
       DEF CallStart, CallStep, LookupHit, LookupMiss, ReadEpoch, NotJoinable, Joinable,
           JoinFlight, Receive, Interrupted, flightVars
  <1> QED
    BY <1>2, <1>3, <1>4, <1>5, <1>6, <1>7, <1>8, <1>9, <1>10, <1>11, <1>12, <1>13, <1>14,
       <1>15, <1>16, Actors, InvFrame, EvictFrame, PublishFrame, StopFrame, StutterFrame
       DEF FlightStep

\* The order of epochs and generations.
LEMMA NotBefore == \A a, b \in Nat : a <= b => ~(b < a)
  OBVIOUS

LEMMA NextIsLater == \A a, b \in Nat : a <= b => a < b + 1
  OBVIOUS

LEMMA LaterStill == \A a, b, c \in Nat : a <= b /\ b <= c => a <= c
  OBVIOUS

LEMMA SameOrLater == \A a, b \in Nat : a <= b => a = b \/ a < b
  OBVIOUS

\* A sound result stays sound: whoever begins to invalidate now loads a generation
\* that is not older.
LEMMA SoundStep ==
    ASSUME TypeOK, [Next]_vars, NEW r, NEW g \in Gens, g <= gen, NEW k, Sound(r, g, k)
    PROVE  Sound(r, g, k)'
  <1>1. r.seen \subseteq Begun'
    BY Monotone DEF Sound
  <1>2. ASSUME NEW i \in Begun', k \in HitsOf[i], igen'[i] < g PROVE i \in r.seen
    <2>1. i \in Begun
      <3> SUFFICES ASSUME i \notin Begun PROVE FALSE
        OBVIOUS
      <3>1. igen'[i] = gen
        BY Monotone
      <3>2. gen \in Nat /\ g \in Nat
        BY BoundsAssumption DEF TypeOK, Gens
      <3>3. g <= gen /\ gen < g
        BY <1>2, <3>1
      <3> QED
        BY ONLY <3>2, <3>3
    <2> QED
      BY <1>2, <2>1, Monotone DEF Sound, SeesOlder
  <1> QED
    BY <1>1, <1>2 DEF Sound, SeesOlder

\* The cache of a generation holds results of it that saw what has been deleted.
LEMMA CacheStep ==
    ASSUME TypeOK, GensInv, EpochInv, CacheInv, FlightInv, FlightShape, CallInv, [Next]_vars
    PROVE  CacheInv'
  <1> USE KeysAssumption, BoundsAssumption
  <1> SUFFICES ASSUME NEW g \in Gens, NEW k \in Keys, cache'[g][k].ok
               PROVE  /\ g <= gen'
                      /\ Sound(cache[g][k], g, k)'
                      /\ ~cache'[g][k].cut
                      /\ \A i \in Finished' :
                            k \in HitsOf[i] /\ igen'[i] = g => i \in cache'[g][k].seen
    BY DEF CacheInv
  <1>0. gen \in Nat /\ gen' \in Nat /\ gen <= gen' /\ g \in Nat
    <2>1. gen \in Nat /\ g \in Nat
      BY DEF TypeOK, Gens
    <2>2. gen' \in Nat /\ gen <= gen'
      BY Monotone
    <2> QED
      BY ONLY <2>1, <2>2
  <1>1. ASSUME cache'[g][k] = cache[g][k],
               \A i \in Finished' \ Finished : k \in HitsOf[i] => igen'[i] # g
        PROVE  /\ g <= gen'
               /\ Sound(cache[g][k], g, k)'
               /\ ~cache'[g][k].cut
               /\ \A i \in Finished' :
                     k \in HitsOf[i] /\ igen'[i] = g => i \in cache'[g][k].seen
    <2>1. /\ cache[g][k].ok /\ g <= gen /\ Sound(cache[g][k], g, k) /\ ~cache[g][k].cut
          /\ \A i \in Finished : k \in HitsOf[i] /\ igen[i] = g => i \in cache[g][k].seen
      BY <1>1 DEF CacheInv
    <2>2. g <= gen'
      BY <1>0, <2>1
    <2>3. Sound(cache[g][k], g, k)'
      BY <1>1, <2>1, SoundStep DEF Sound, SeesOlder
    <2>4. ASSUME NEW i \in Finished', k \in HitsOf[i], igen'[i] = g
          PROVE  i \in cache'[g][k].seen
      <3>1. i \in Finished /\ i \in Begun
        BY <1>1, <2>4 DEF Finished, Begun
      <3> QED
        BY <1>1, <2>1, <2>4, <3>1, Monotone
    <2> QED
      BY <1>1, <2>1, <2>2, <2>3, <2>4
  <1>2. ASSUME NEW l \in Calls, FlightStored(l)
        PROVE  /\ g <= gen'
               /\ Sound(cache[g][k], g, k)'
               /\ ~cache'[g][k].cut
               /\ \A i \in Finished' :
                     k \in HitsOf[i] /\ igen'[i] = g => i \in cache'[g][k].seen
    <2>0. UNCHANGED <<gen, ipc, igen, iepoch>> /\ cgen[l] \in Gens /\ KeyOf[l] \in Keys
      BY <1>2, FlightFrame DEF FlightStep, TypeOK
    <2>1. CASE g = cgen[l] /\ k = KeyOf[l]
      <3>1. cache'[g][k] = fres[l]
        BY <1>2, <2>0, <2>1 DEF FlightStored, TypeOK
      <3>2. /\ Sound(fres[l], g, k) /\ ~fres[l].cut
            /\ \A i \in Finished : k \in HitsOf[i] /\ igen[i] = g =>
                  i \in fres[l].seen \/ cepoch[l] < iepoch[i]
        BY <1>2, <2>1 DEF FlightStored, FlightInv, Holding
      <3>3. ASSUME NEW i \in Finished, k \in HitsOf[i], igen[i] = g PROVE i \in fres[l].seen
        <4>1. iepoch[i] <= epoch[g][ShardOf[k]]
          BY <3>3, ShardAssumption DEF EpochInv, Finished
        <4>2. epoch[g][ShardOf[k]] = cepoch[l]
          BY <1>2, <2>1 DEF FlightStored
        <4>3. iepoch[i] \in Nat /\ cepoch[l] \in Nat
          BY DEF TypeOK, Finished
        <4> QED
          BY <3>2, <3>3, <4>1, <4>2, <4>3
      <3>4. g <= gen'
        BY <2>0, <2>1 DEF GensInv
      <3> QED
        BY <2>0, <3>1, <3>2, <3>3, <3>4 DEF Sound, SeesOlder, Begun, Finished
    <2>2. CASE ~(g = cgen[l] /\ k = KeyOf[l])
      <3>1. cache'[g][k] = cache[g][k]
        BY <1>2, <2>0, <2>2 DEF FlightStored, TypeOK
      <3> QED
        BY <1>1, <2>0, <3>1 DEF Finished
    <2> QED
      BY <2>1, <2>2
  <1>3. ASSUME NEW i \in Invs, InvDelete(i)
        PROVE  /\ cache'[g][k] = cache[g][k]
               /\ \A j \in Finished' \ Finished : k \in HitsOf[j] => igen'[j] # g
    <2>1. igen[i] \in Gens /\ igen' = igen
      BY <1>3 DEF TypeOK, InvDelete
    <2>2. \A j \in Finished' \ Finished : j = i
      BY <1>3 DEF InvDelete, Finished, TypeOK
    <2>3. CASE g = igen[i]
      <3>1. cache'[g] = [q \in Keys |-> IF q \in HitsOf[i] THEN Miss ELSE cache[g][q]]
        BY <1>3, <2>1, <2>3 DEF InvDelete, TypeOK
      <3>2. cache'[g][k] = IF k \in HitsOf[i] THEN Miss ELSE cache[g][k]
        BY <3>1
      <3>3. ~Miss.ok
        BY DEF Miss
      <3>4. k \notin HitsOf[i]
        BY <3>2, <3>3
      <3> QED
        BY <2>2, <3>2, <3>4
    <2>4. CASE g # igen[i]
      BY <1>3, <2>1, <2>2, <2>4 DEF InvDelete, TypeOK
    <2> QED
      BY <2>3, <2>4
  <1>4. ASSUME NEW h \in Gens, NEW q \in Keys, Evict(h, q)
        PROVE  cache'[g][k] = cache[g][k] /\ Finished' = Finished
    <2>1. ~Miss.ok
      BY DEF Miss
    <2>2. ~(g = h /\ k = q)
      BY <1>4, <2>1 DEF Evict, TypeOK
    <2> QED
      BY <1>4, <2>2 DEF Evict, TypeOK, invVars, Finished
  <1>5. ASSUME NEW i \in Invs, InvLoad(i)
        PROVE  cache' = cache /\ Finished' \subseteq Finished
    BY <1>5 DEF InvLoad, Finished, TypeOK
  <1>6. ASSUME NEW l \in Calls, FlightStep(l), ~FlightStored(l)
        PROVE  cache' = cache /\ ipc' = ipc
    BY <1>6, FlightFrame
       DEF FlightStep, FlightBegin, FlightRejected, RecheckHit, RecheckMiss,
           FlightComputed, FlightPanics, FlightCancelled, FlightPassed, FlightNotStored,
           FlightEnd, FlightDeliver
  <1>7. ASSUME cache' = cache, ipc' = ipc
        PROVE  cache'[g][k] = cache[g][k] /\ Finished' = Finished
    BY <1>7 DEF Finished
  <1> QED
    BY <1>1, <1>2, <1>3, <1>4, <1>5, <1>6, <1>7, Actors, CallFrame, PublishFrame,
       StopFrame, StutterFrame DEF InvStep

\* What FlightInv says of one flight.
HoldsSound(l) ==
    /\ Sound(fres[l], cgen[l], KeyOf[l])
    /\ fres[l].cut => fpc[l] = "check" /\ stopCtx
    /\ \A i \in Finished : KeyOf[l] \in HitsOf[i] /\ igen[i] = cgen[l] =>
          i \in fres[l].seen \/ cepoch[l] < iepoch[i]

\* Results are sound from the moment their attestations are fetched, also while others
\* begin and finish invalidating.
LEMMA FlightsStep ==
    ASSUME TypeOK, GensInv, CacheInv, FlightInv, FlightShape, CallInv, [Next]_vars
    PROVE  FlightInv'
  <1> USE KeysAssumption, BoundsAssumption
  <1> SUFFICES ASSUME NEW l \in Calls, Holding(l)' PROVE HoldsSound(l)'
    BY DEF FlightInv, HoldsSound
  <1>0. cgen[l] \in Gens /\ cgen[l] <= gen /\ KeyOf[l] \in Keys /\ ~Miss.ok
    BY DEF TypeOK, GensInv, Miss
  <1>1. ASSUME fpc'[l] = fpc[l], fres'[l] = fres[l],
               fpc[l] # "none" => cgen'[l] = cgen[l] /\ cepoch'[l] = cepoch[l],
               stopCtx => stopCtx',
               \A i \in Finished' \ Finished : KeyOf[l] \in HitsOf[i] /\ igen'[i] = cgen[l] =>
                  cepoch[l] < iepoch'[i]
        PROVE  HoldsSound(l)'
    <2>1. fpc[l] # "none" /\ Holding(l) /\ HoldsSound(l)
      BY <1>1, <1>0 DEF Holding, FlightInv, FlightShape, HoldsSound
    <2>2. Sound(fres[l], cgen[l], KeyOf[l])'
      BY <1>0, <1>1, <2>1, SoundStep DEF Sound, SeesOlder, HoldsSound
    <2>3. ASSUME NEW i \in Finished', KeyOf[l] \in HitsOf[i], igen'[i] = cgen[l]
          PROVE  i \in fres[l].seen \/ cepoch[l] < iepoch'[i]
      <3>1. CASE i \in Finished
        <4>1. i \in Begun
          BY <3>1 DEF Finished, Begun
        <4> QED
          BY <2>1, <2>3, <3>1, <4>1, Monotone DEF HoldsSound
      <3>2. CASE i \notin Finished
        BY <1>1, <2>3, <3>2
      <3> QED
        BY <3>1, <3>2
    <2> QED
      BY <1>1, <2>1, <2>2, <2>3 DEF HoldsSound
  <1>2. ASSUME NEW m \in Calls, FlightStep(m)
        PROVE  HoldsSound(l)'
    <2>0. UNCHANGED <<gen, cgen, cepoch, ipc, igen, iepoch, stopCtx>>
      BY <1>2, FlightFrame
    <2>1. ASSUME m # l PROVE HoldsSound(l)'
      <3>1. fpc'[l] = fpc[l] /\ fres'[l] = fres[l]
        BY <1>2, <2>1
           DEF FlightStep, FlightBegin, FlightRejected, RecheckHit, RecheckMiss,
               FlightComputed, FlightPanics, FlightCancelled, FlightPassed, FlightStored,
               FlightNotStored, FlightEnd, FlightDeliver, FlightTo, TypeOK
      <3> QED
        BY <1>1, <2>0, <3>1 DEF Finished
    <2>2. ASSUME NEW x, NEW r, FlightTo(l, x, r), Sound(r, cgen[l], KeyOf[l]),
                 r.cut => x = "check" /\ stopCtx,
                 \A i \in Finished : KeyOf[l] \in HitsOf[i] /\ igen[i] = cgen[l] =>
                    i \in r.seen \/ cepoch[l] < iepoch[i]
          PROVE  HoldsSound(l)'
      <3>1. fpc'[l] = x /\ fres'[l] = r
        BY <2>2 DEF FlightTo, TypeOK
      <3> QED
        BY <2>0, <2>2, <3>1 DEF HoldsSound, Sound, SeesOlder, Begun, Finished
    <2>3. ASSUME NEW x, FlightTo(l, x, Miss), x \notin {"compute", "check", "store"}
          PROVE  FALSE
      <3>1. fpc'[l] = x /\ fres'[l] = Miss
        BY <2>3 DEF FlightTo, TypeOK
      <3> QED
        BY <1>0, <2>3, <3>1 DEF Holding
    <2>4. ASSUME FlightBegin(l) \/ FlightRejected(l) \/ FlightPanics(l) \/ FlightCancelled(l)
          PROVE  FALSE
      BY <2>3, <2>4 DEF FlightBegin, FlightRejected, FlightPanics, FlightCancelled
    <2>5. ASSUME RecheckHit(l) PROVE HoldsSound(l)'
      <3>1. Cached(l).ok /\ FlightTo(l, "end", Cached(l))
        BY <2>5 DEF RecheckHit
      <3>2. /\ Sound(Cached(l), cgen[l], KeyOf[l]) /\ ~Cached(l).cut
            /\ \A i \in Finished : KeyOf[l] \in HitsOf[i] /\ igen[i] = cgen[l] =>
                  i \in Cached(l).seen
        BY <1>0, <3>1 DEF Cached, CacheInv
      <3> QED
        BY <2>2, <3>1, <3>2
    <2>6. ASSUME RecheckMiss(l) PROVE HoldsSound(l)'
      <3>1. /\ Started(l).gen = cgen[l] /\ Started(l).seen = Begun /\ ~Started(l).cut
            /\ Finished \subseteq Begun
        BY DEF Started, Begun, Finished
      <3>2. Sound(Started(l), cgen[l], KeyOf[l])
        BY <3>1 DEF Sound, SeesOlder
      <3> QED
        BY <2>2, <2>6, <3>1, <3>2 DEF RecheckMiss
    <2>7. ASSUME FlightComputed(l) PROVE HoldsSound(l)'
      <3>1. /\ Computed(fres[l]).gen = fres[l].gen /\ Computed(fres[l]).seen = fres[l].seen
            /\ Computed(fres[l]).cut = stopCtx
        BY DEF Computed
      <3>2. HoldsSound(l)
        BY <2>7 DEF FlightComputed, FlightInv, Holding, HoldsSound
      <3>3. Sound(Computed(fres[l]), cgen[l], KeyOf[l])
        BY <3>1, <3>2 DEF Sound, SeesOlder, HoldsSound
      <3> QED
        BY <2>2, <2>7, <3>1, <3>2, <3>3 DEF FlightComputed, HoldsSound
    <2>8. ASSUME NEW x, FlightTo(l, x, fres[l]), Holding(l), fpc[l] = "check" => ~stopCtx
          PROVE  HoldsSound(l)'
      BY <2>2, <2>8 DEF FlightInv, HoldsSound
    <2>9. ASSUME FlightPassed(l) \/ FlightStored(l) \/ FlightNotStored(l) PROVE HoldsSound(l)'
      BY <2>8, <2>9 DEF FlightPassed, FlightStored, FlightNotStored, Holding
    <2>10. ASSUME FlightEnd(l) \/ FlightDeliver(l) PROVE HoldsSound(l)'
      <3>1. fres'[l] = fres[l] /\ fpc'[l] \in {"deliver", "over"}
        BY <2>10 DEF FlightEnd, FlightDeliver, FlightTo, TypeOK
      <3>2. Holding(l)
        BY <2>10, <3>1 DEF Holding, FlightEnd, FlightDeliver
      <3> QED
        BY <2>8, <2>10, <3>2 DEF FlightEnd, FlightDeliver
    <2> QED
      BY <1>2, <2>1, <2>4, <2>5, <2>6, <2>7, <2>9, <2>10 DEF FlightStep
  <1>3. ASSUME NEW i \in Invs, InvStep(i) PROVE HoldsSound(l)'
    <2>1. ASSUME InvDelete(i), igen[i] = cgen[l], KeyOf[l] \in HitsOf[i], fpc[l] # "none"
          PROVE  cepoch[l] < iepoch'[i]
      <3>1. cepoch[l] <= epoch[igen[i]][InvShardOf[i]]
        BY <2>1, ShardAssumption DEF CallInv
      <3>2. iepoch'[i] = epoch[igen[i]][InvShardOf[i]] + 1
        BY <2>1 DEF InvDelete, TypeOK
      <3>3. cepoch[l] \in Nat /\ epoch[igen[i]][InvShardOf[i]] \in Nat
        BY DEF TypeOK
      <3> QED
        BY ONLY <3>1, <3>2, <3>3, NextIsLater, Zenon
    <2>2. UNCHANGED <<fpc, fres, cgen, cepoch, stopCtx>>
      BY <1>3, InvFrame
    <2>3. \A j \in Finished' \ Finished : j = i /\ InvDelete(i) /\ igen'[i] = igen[i]
      BY <1>3 DEF InvStep, InvLoad, InvDelete, Finished, TypeOK
    <2>4. fpc[l] # "none"
      BY <1>0, <2>2 DEF Holding, FlightShape
    <2> QED
      BY <1>1, <2>1, <2>2, <2>3, <2>4
  <1>4. ASSUME NEW c \in Calls, CallStart(c) \/ CallStep(c) \/ Interrupted(c)
        PROVE  HoldsSound(l)'
    <2>0. UNCHANGED <<fres, ipc, stopCtx>>
      BY <1>4, CallFrame
    <2>1. fpc'[l] = fpc[l]
      <3>1. CASE StartFlight(c) /\ c = l
        <4>1. fpc[c] = "none" /\ fpc'[c] = "begin"
          BY <3>1 DEF StartFlight, CallInv, TypeOK
        <4>2. fres'[l] = Miss
          BY <2>0, <3>1, <4>1 DEF FlightShape
        <4> QED
          BY <1>0, <3>1, <4>1, <4>2 DEF Holding
      <3>2. CASE StartFlight(c) /\ c # l
        BY <3>2 DEF StartFlight, TypeOK
      <3>3. CASE ~StartFlight(c)
        BY <1>4, <3>3
           DEF CallStart, CallStep, LookupHit, LookupMiss, ReadEpoch, NotJoinable,
               Joinable, JoinFlight, Receive, Interrupted, flightVars
      <3> QED
        BY <3>1, <3>2, <3>3
    <2>2. fpc[l] # "none" => cgen'[l] = cgen[l] /\ cepoch'[l] = cepoch[l]
      <3>1. CASE CallStart(c)
        BY <3>1 DEF CallStart, CallInv, TypeOK
      <3>2. CASE ReadEpoch(c)
        BY <3>2 DEF ReadEpoch, CallInv, TypeOK
      <3>3. CASE ~CallStart(c) /\ ~ReadEpoch(c)
        BY <1>4, <3>3
           DEF CallStep, LookupHit, LookupMiss, NotJoinable, Joinable, JoinFlight,
               StartFlight, Receive, Interrupted
      <3> QED
        BY <3>1, <3>2, <3>3
    <2> QED
      BY <1>1, <2>0, <2>1, <2>2 DEF Finished
  <1>5. ASSUME Stopping PROVE HoldsSound(l)'
    <2>1. stopCtx => stopCtx'
      BY <1>5 DEF Stopping, StopReject, StopStep, StopLocked, StopPoller, StopDrained,
                  StopCancels, StopGrace, StopRelease
    <2> QED
      BY <1>1, <1>5, <2>1, StopFrame DEF Finished
  <1>6. ASSUME UNCHANGED <<fpc, fres, cgen, cepoch, stopCtx, ipc>> PROVE HoldsSound(l)'
    BY <1>1, <1>6 DEF Finished
  <1> QED
    BY <1>2, <1>3, <1>4, <1>5, <1>6, Actors, EvictFrame, PublishFrame, StutterFrame

\* What CallInv says of one call.
CallSound(c) ==
    /\ pc[c] = "idle" => must[c] = {}
    /\ \A i \in must[c] :
          /\ i \in Finished /\ KeyOf[c] \in HitsOf[i] /\ igen[i] <= cgen[c]
          /\ Read(c) /\ igen[i] = cgen[c] => iepoch[i] <= cepoch[c]
    /\ fpc[c] # "none" => pc[c] \in {"wait", "done"}
    /\ Read(c) \/ fpc[c] # "none" => cepoch[c] <= epoch[cgen[c]][ShardOf[KeyOf[c]]]
    /\ pc[c] = "wait" => SameFlight(c, leader[c]) /\ fpc[leader[c]] # "none"

\* A call waits for a flight of its own key, and the epoch it read is not older than
\* the invalidations it must see.
LEMMA CallsStep ==
    ASSUME TypeOK, GensInv, EpochInv, CallInv, [Next]_vars
    PROVE  CallInv'
  <1> USE KeysAssumption, BoundsAssumption
  <1> SUFFICES ASSUME NEW d \in Calls PROVE CallSound(d)'
    BY DEF CallInv, CallSound
  <1>0. CallSound(d) /\ leader[d] \in Calls /\ cgen[d] \in Gens /\ cepoch[d] \in Nat
    BY DEF CallInv, CallSound, TypeOK
  <1>1. /\ Finished \subseteq Finished'
        /\ \A i \in Finished : igen'[i] = igen[i] /\ iepoch'[i] = iepoch[i]
    <2>1. Finished \subseteq Begun
      BY DEF Finished, Begun
    <2> QED
      BY <2>1, Monotone
  <1>2. \A g \in Gens, s \in Shards :
           epoch[g][s] \in Nat /\ epoch'[g][s] \in Nat /\ epoch[g][s] <= epoch'[g][s]
    <2>1. ASSUME NEW i \in Invs, InvDelete(i)
          PROVE  \A g \in Gens, s \in Shards :
                    epoch[g][s] \in Nat /\ epoch'[g][s] \in Nat /\ epoch[g][s] <= epoch'[g][s]
      <3>1. epoch \in [Gens -> [Shards -> Nat]] /\ igen[i] \in Gens
        BY DEF TypeOK
      <3>2. epoch' = [epoch EXCEPT ![igen[i]][InvShardOf[i]] = @ + 1]
        BY <2>1 DEF InvDelete
      <3>3. \A g \in Gens, s \in Shards :
               epoch'[g][s] = IF g = igen[i] /\ s = InvShardOf[i] THEN epoch[g][s] + 1 ELSE epoch[g][s]
        BY ONLY <3>1, <3>2
      <3>4. \A g \in Gens, s \in Shards : epoch[g][s] \in Nat
        BY ONLY <3>1
      <3>5. \A a \in Nat : a + 1 \in Nat /\ a <= a + 1 /\ a <= a
        OBVIOUS
      <3>6. \A g \in Gens, s \in Shards : epoch'[g][s] \in {epoch[g][s], epoch[g][s] + 1}
        BY ONLY <3>3
      <3> QED
        BY ONLY <3>4, <3>5, <3>6, Zenon
    <2>2. ASSUME epoch' = epoch
          PROVE  \A g \in Gens, s \in Shards :
                    epoch[g][s] \in Nat /\ epoch'[g][s] \in Nat /\ epoch[g][s] <= epoch'[g][s]
      BY <2>2 DEF TypeOK
    <2>3. ASSUME NEW i \in Invs, InvLoad(i) PROVE epoch' = epoch
      BY <2>3 DEF InvLoad
    <2> QED
      BY <2>1, <2>2, <2>3, Actors, CallFrame, FlightFrame, EvictFrame, PublishFrame,
         StopFrame, StutterFrame DEF InvStep
  <1>3. \A l \in Calls : fpc[l] # "none" =>
           fpc'[l] # "none" /\ cgen'[l] = cgen[l] /\ cepoch'[l] = cepoch[l]
    <2>1. ASSUME NEW c \in Calls, CallStart(c)
          PROVE  \A l \in Calls : fpc[l] # "none" =>
                    fpc'[l] # "none" /\ cgen'[l] = cgen[l] /\ cepoch'[l] = cepoch[l]
      BY <2>1 DEF CallStart, CallInv, TypeOK, flightVars
    <2>2. ASSUME NEW c \in Calls, ReadEpoch(c)
          PROVE  \A l \in Calls : fpc[l] # "none" =>
                    fpc'[l] # "none" /\ cgen'[l] = cgen[l] /\ cepoch'[l] = cepoch[l]
      BY <2>2 DEF ReadEpoch, CallInv, TypeOK, flightVars
    <2>3. ASSUME NEW c \in Calls, StartFlight(c)
          PROVE  \A l \in Calls : fpc[l] # "none" =>
                    fpc'[l] # "none" /\ cgen'[l] = cgen[l] /\ cepoch'[l] = cepoch[l]
      BY <2>3 DEF StartFlight, TypeOK
    <2>4. ASSUME NEW c \in Calls, CallStep(c) \/ Interrupted(c), ~ReadEpoch(c), ~StartFlight(c)
          PROVE  UNCHANGED <<fpc, cgen, cepoch>>
      BY <2>4 DEF CallStep, LookupHit, LookupMiss, NotJoinable, Joinable, JoinFlight,
                  Receive, Interrupted, flightVars
    <2>5. ASSUME NEW m \in Calls, FlightStep(m)
          PROVE  \A l \in Calls : fpc[l] # "none" => fpc'[l] # "none"
      BY <2>5 DEF FlightStep, FlightBegin, FlightRejected, RecheckHit, RecheckMiss,
                  FlightComputed, FlightPanics, FlightCancelled, FlightPassed,
                  FlightStored, FlightNotStored, FlightEnd, FlightDeliver, FlightTo, TypeOK
    <2> QED
      BY <2>1, <2>2, <2>3, <2>4, <2>5, Actors, FlightFrame, InvFrame, EvictFrame,
         PublishFrame, StopFrame, StutterFrame
  <1>4. ASSUME pc'[d] = pc[d], must'[d] = must[d], cgen'[d] = cgen[d],
               cepoch'[d] = cepoch[d], leader'[d] = leader[d],
               fpc'[d] # "none" => fpc[d] # "none"
        PROVE  CallSound(d)'
    <2>1. \A i \in must[d] :
             /\ i \in Finished' /\ KeyOf[d] \in HitsOf[i] /\ igen'[i] <= cgen'[d]
             /\ Read(d)' /\ igen'[i] = cgen'[d] => iepoch'[i] <= cepoch'[d]
      BY <1>0, <1>1, <1>4 DEF CallSound, Read
    <2>2. Read(d)' \/ fpc'[d] # "none" => cepoch'[d] <= epoch'[cgen'[d]][ShardOf[KeyOf[d]]]
      <3>1. ShardOf[KeyOf[d]] \in Shards
        OBVIOUS
      <3>2. Read(d)' \/ fpc'[d] # "none" => cepoch[d] <= epoch[cgen[d]][ShardOf[KeyOf[d]]]
        BY <1>0, <1>4 DEF CallSound, Read
      <3>3. LET e == epoch[cgen[d]][ShardOf[KeyOf[d]]]
                f == epoch'[cgen[d]][ShardOf[KeyOf[d]]]
            IN  e \in Nat /\ f \in Nat /\ e <= f
        BY <1>0, <1>2, <3>1
      <3>4. cepoch[d] <= epoch[cgen[d]][ShardOf[KeyOf[d]]] =>
               cepoch[d] <= epoch'[cgen[d]][ShardOf[KeyOf[d]]]
        BY ONLY <1>0, <3>3, LaterStill
      <3> QED
        BY <1>4, <3>2, <3>4
    <2>3. pc'[d] = "wait" => SameFlight(d, leader[d])' /\ fpc'[leader'[d]] # "none"
      BY <1>0, <1>3, <1>4 DEF CallSound, SameFlight
    <2> QED
      BY <1>0, <1>4, <2>1, <2>2, <2>3 DEF CallSound
  <1>5. ASSUME NEW c \in Calls, CallStart(c) \/ CallStep(c) \/ Interrupted(c), c # d
        PROVE  CallSound(d)'
    BY <1>4, <1>5
       DEF CallStart, CallStep, LookupHit, LookupMiss, ReadEpoch, NotJoinable, Joinable,
           JoinFlight, StartFlight, Receive, Interrupted, Return, flightVars, TypeOK
  <1>6. ASSUME CallStart(d) PROVE CallSound(d)'
    <2>1. /\ pc'[d] = "lookup" /\ fpc'[d] = fpc[d] /\ fpc[d] = "none" /\ cgen'[d] = gen
          /\ must'[d] = {i \in Finished : KeyOf[d] \in HitsOf[i]}
      BY <1>0, <1>6 DEF CallStart, CallSound, TypeOK, flightVars
    <2>2. \A i \in must'[d] :
             i \in Finished' /\ KeyOf[d] \in HitsOf[i] /\ igen'[i] <= cgen'[d]
      BY <1>1, <2>1 DEF GensInv, Finished
    <2> QED
      BY <2>1, <2>2 DEF CallSound, Read
  <1>7. ASSUME ReadEpoch(d) PROVE CallSound(d)'
    <2>1. /\ pc[d] = "epoch" /\ pc'[d] = "check" /\ must' = must /\ cgen' = cgen /\ fpc' = fpc
          /\ epoch' = epoch /\ cepoch'[d] = epoch[cgen[d]][ShardOf[KeyOf[d]]]
      BY <1>7 DEF ReadEpoch, TypeOK, flightVars
    <2>2. ASSUME NEW i \in must[d]
          PROVE  /\ i \in Finished' /\ KeyOf[d] \in HitsOf[i] /\ igen'[i] <= cgen'[d]
                 /\ igen'[i] = cgen'[d] => iepoch'[i] <= cepoch'[d]
      <3>1. i \in Finished /\ i \in Invs /\ KeyOf[d] \in HitsOf[i] /\ igen[i] <= cgen[d]
        BY <1>0, <2>2 DEF CallSound, Finished
      <3>2. igen[i] = cgen[d] => iepoch[i] <= epoch[cgen[d]][ShardOf[KeyOf[d]]]
        BY <3>1, ShardAssumption DEF EpochInv
      <3> QED
        BY <1>1, <2>1, <3>1, <3>2
    <2>3. cepoch'[d] <= epoch'[cgen'[d]][ShardOf[KeyOf[d]]]
      BY <1>0, <1>2, <2>1
    <2> QED
      BY <1>0, <2>1, <2>2, <2>3 DEF CallSound
  <1>8. ASSUME CallStep(d) \/ Interrupted(d), ~ReadEpoch(d), pc'[d] # "wait"
        PROVE  CallSound(d)'
    <2>1. UNCHANGED <<must, cgen, cepoch, fpc, epoch, ipc, igen, iepoch>>
      BY <1>8, CallFrame DEF CallStep, LookupHit, LookupMiss, NotJoinable, Joinable,
            JoinFlight, StartFlight, Receive, Interrupted, Return, flightVars, TypeOK
    <2>2. /\ pc'[d] # "idle"
          /\ Read(d)' => Read(d)
          /\ fpc[d] # "none" => pc'[d] = "done"
      BY <1>0, <1>8 DEF CallStep, LookupHit, LookupMiss, NotJoinable, Joinable, JoinFlight,
            StartFlight, Receive, Interrupted, Return, Read, CallSound, TypeOK
    <2> QED
      BY <1>0, <1>8, <2>1, <2>2 DEF CallSound, Finished
  <1>9. ASSUME NEW l \in Calls, JoinFlight(d, l) PROVE CallSound(d)'
    <2>1. /\ pc[d] = "join" /\ pc'[d] = "wait" /\ leader'[d] = l /\ SameFlight(d, l)
          /\ fpc[l] # "none"
          /\ UNCHANGED <<must, cgen, cepoch, fpc, epoch, ipc, igen, iepoch>>
      BY <1>9 DEF JoinFlight, InFlight, TypeOK, flightVars, invVars
    <2> QED
      BY <1>0, <2>1 DEF CallSound, Read, SameFlight, Finished
  <1>10. ASSUME StartFlight(d) PROVE CallSound(d)'
    <2>1. /\ pc[d] = "join" /\ pc'[d] = "wait" /\ leader'[d] = d /\ fpc'[d] = "begin"
          /\ UNCHANGED <<must, cgen, cepoch, epoch, ipc, igen, iepoch>>
      BY <1>10 DEF StartFlight, TypeOK, invVars
    <2> QED
      BY <1>0, <2>1 DEF CallSound, Read, SameFlight, Finished
  <1>11. ASSUME NEW l \in Calls, FlightStep(l) PROVE CallSound(d)'
    <2>1. fpc'[d] # "none" => fpc[d] # "none"
      BY <1>11 DEF FlightStep, FlightBegin, FlightRejected, RecheckHit, RecheckMiss,
                  FlightComputed, FlightPanics, FlightCancelled, FlightPassed,
                  FlightStored, FlightNotStored, FlightEnd, FlightDeliver, FlightTo, TypeOK
    <2> QED
      BY <1>4, <1>11, <2>1, FlightFrame
  <1>12. ASSUME CallStep(d) \/ Interrupted(d) PROVE CallSound(d)'
    <2>1. CASE pc'[d] = "wait"
      <3>1. (\E l \in Calls : JoinFlight(d, l)) \/ StartFlight(d)
        BY <1>12, <2>1
           DEF CallStep, LookupHit, LookupMiss, ReadEpoch, NotJoinable, Joinable, Receive,
               Interrupted, Return, TypeOK
      <3> QED
        BY <1>9, <1>10, <3>1
    <2> QED
      BY <1>7, <1>8, <1>12, <2>1
  <1> QED
    BY <1>4, <1>5, <1>6, <1>11, <1>12, Actors, InvFrame, EvictFrame, PublishFrame,
       StopFrame, StutterFrame

\* A call that answers has a fresh answer.
LEMMA AnswerStep ==
    ASSUME TypeOK, CacheInv, FlightInv, FlightShape, CallInv, AnswerInv, [Next]_vars
    PROVE  AnswerInv'
  <1> USE KeysAssumption, BoundsAssumption
  <1> DEFINE Answered(r, c) ==
        /\ r.gen = cgen[c] /\ ~r.cut
        /\ must[c] \subseteq r.seen /\ r.seen \subseteq Begun
  <1>0. Begun \subseteq Begun'
    BY Monotone
  <1>1. ASSUME UNCHANGED <<pc, res, cgen, must>> PROVE AnswerInv'
    BY <1>0, <1>1 DEF AnswerInv
  <1>2. ASSUME NEW c \in Calls, pc[c] # "done", NEW x \in CallLabels, x # "done",
               pc' = [pc EXCEPT ![c] = x], res' = res,
               \A d \in Calls \ {c} : cgen'[d] = cgen[d] /\ must'[d] = must[d]
        PROVE  AnswerInv'
    BY <1>0, <1>2 DEF AnswerInv, TypeOK
  <1>3. ASSUME NEW c \in Calls, NEW r \in Results, pc[c] # "done",
               IF r.ok THEN Answered(r, c) ELSE r = Miss,
               Return(c, r), UNCHANGED <<cgen, must>>
        PROVE  AnswerInv'
    <2>1. ASSUME NEW d \in Calls, d # c PROVE pc'[d] = pc[d] /\ res'[d] = res[d]
      BY <1>3, <2>1 DEF Return, TypeOK
    <2>2. pc'[c] = "done" /\ res'[c] = r
      BY <1>3 DEF Return, TypeOK
    <2> QED
      BY <1>0, <1>3, <2>1, <2>2 DEF AnswerInv
  <1>4. ASSUME NEW c \in Calls, CallStart(c) PROVE AnswerInv'
    BY <1>2, <1>4 DEF CallStart, CallLabels, TypeOK
  <1>5. ASSUME NEW c \in Calls, LookupHit(c) PROVE AnswerInv'
    <2>1. Cached(c) \in Results /\ Cached(c).ok /\ cgen[c] \in Gens /\ KeyOf[c] \in Keys
      BY <1>5 DEF LookupHit, Cached, TypeOK
    <2>2. /\ Sound(Cached(c), cgen[c], KeyOf[c]) /\ ~Cached(c).cut
          /\ \A i \in Finished : KeyOf[c] \in HitsOf[i] /\ igen[i] = cgen[c] =>
                i \in Cached(c).seen
      BY <2>1 DEF Cached, CacheInv
    <2>3. ASSUME NEW i \in must[c] PROVE i \in Cached(c).seen
      <3>1. /\ i \in Finished /\ i \in Begun /\ i \in Invs
            /\ KeyOf[c] \in HitsOf[i] /\ igen[i] <= cgen[c]
        BY DEF CallInv, Finished, Begun
      <3>2. igen[i] = cgen[c] \/ igen[i] < cgen[c]
        BY <3>1 DEF TypeOK, Gens
      <3> QED
        BY <2>2, <3>1, <3>2 DEF Sound, SeesOlder
    <2>4. Answered(Cached(c), c)
      BY <2>2, <2>3 DEF Sound
    <2> QED
      BY <1>3, <1>5, <2>1, <2>4 DEF LookupHit
  <1>6. ASSUME NEW c \in Calls, Receive(c) PROVE AnswerInv'
    <2> DEFINE l == leader[c]
    <2>0. l \in Calls /\ fres[l] \in Results
      BY DEF TypeOK
    <2>1. ASSUME fres[l].ok PROVE Answered(fres[l], c)
      <3>1. /\ Sound(fres[l], cgen[l], KeyOf[l]) /\ ~fres[l].cut
            /\ \A i \in Finished : KeyOf[l] \in HitsOf[i] /\ igen[i] = cgen[l] =>
                  i \in fres[l].seen \/ cepoch[l] < iepoch[i]
        BY <1>6, <2>0, <2>1 DEF Receive, FlightInv, Holding
      <3>2. cgen[c] = cgen[l] /\ cepoch[c] = cepoch[l] /\ KeyOf[c] = KeyOf[l]
        BY <1>6 DEF Receive, CallInv, SameFlight
      <3>3. ASSUME NEW i \in must[c] PROVE i \in fres[l].seen
        <4>1. /\ i \in Finished /\ i \in Begun /\ i \in Invs
              /\ KeyOf[c] \in HitsOf[i] /\ igen[i] <= cgen[c]
              /\ igen[i] = cgen[c] => iepoch[i] <= cepoch[c]
          BY <1>6 DEF CallInv, Finished, Begun, Read, Receive
        <4>2. igen[i] = cgen[c] \/ igen[i] < cgen[c]
          <5>1. igen[i] \in Nat /\ cgen[c] \in Nat
            BY <4>1 DEF TypeOK, Gens
          <5> QED
            BY ONLY <4>1, <5>1, SameOrLater
        <4>3. iepoch[i] \in Nat /\ cepoch[c] \in Nat
          BY <4>1 DEF TypeOK
        <4>4. CASE igen[i] < cgen[c]
          BY <3>1, <3>2, <4>1, <4>4 DEF Sound, SeesOlder
        <4>5. CASE igen[i] = cgen[c]
          <5>1. i \in fres[l].seen \/ cepoch[l] < iepoch[i]
            BY <3>1, <3>2, <4>1, <4>5
          <5>2. ~(cepoch[l] < iepoch[i])
            BY ONLY <3>2, <4>1, <4>3, <4>5, NotBefore, Zenon
          <5> QED
            BY <5>1, <5>2
        <4> QED
          BY <4>2, <4>4, <4>5
      <3> QED
        BY <3>1, <3>2, <3>3 DEF Sound
    <2>2. fres[l].ok \/ fres[l] = Miss
      BY <1>6, <2>0 DEF Receive, FlightShape
    <2>3. ~Miss.ok
      BY DEF Miss
    <2> QED
      BY <1>3, <1>6, <2>0, <2>1, <2>2, <2>3 DEF Receive
  <1>7. ASSUME NEW c \in Calls, NotJoinable(c) \/ Interrupted(c) PROVE AnswerInv'
    <2>1. ~Miss.ok
      BY DEF Miss
    <2>2. pc[c] # "done" /\ Return(c, Miss) /\ UNCHANGED <<cgen, must>>
      BY <1>7 DEF NotJoinable, Interrupted
    <2> QED
      BY <1>3, <2>1, <2>2, MissType
  <1>8. ASSUME NEW c \in Calls,
               LookupMiss(c) \/ ReadEpoch(c) \/ Joinable(c) \/ StartFlight(c)
               \/ \E l \in Calls : JoinFlight(c, l)
        PROVE  AnswerInv'
    <2>1. pc[c] # "done" /\ UNCHANGED <<res, cgen, must>>
          /\ \E x \in CallLabels \ {"done"} : pc' = [pc EXCEPT ![c] = x]
      BY <1>8 DEF LookupMiss, ReadEpoch, Joinable, StartFlight, JoinFlight, CallLabels
    <2> QED
      BY <1>2, <2>1
  <1> QED
    BY <1>1, <1>4, <1>5, <1>6, <1>7, <1>8, Actors, FlightFrame, InvFrame, EvictFrame,
       PublishFrame, StopFrame, StutterFrame DEF CallStep

\* Two flights with one key never run side by side.
LEMMA OneFlightStep ==
    ASSUME TypeOK, CallInv, OneFlight, [Next]_vars PROVE OneFlight'
  <1>1. ASSUME \A l \in Calls : InFlight(l)' =>
                  InFlight(l) /\ cgen'[l] = cgen[l] /\ cepoch'[l] = cepoch[l]
        PROVE  OneFlight'
    BY <1>1 DEF OneFlight, SameFlight
  <1>2. ASSUME NEW c \in Calls, CallStart(c) \/ ReadEpoch(c) PROVE OneFlight'
    <2>1. fpc' = fpc /\ fpc[c] = "none"
      BY <1>2 DEF CallStart, ReadEpoch, CallInv, flightVars
    <2>2. \A l \in Calls \ {c} : cgen'[l] = cgen[l] /\ cepoch'[l] = cepoch[l]
      BY <1>2 DEF CallStart, ReadEpoch, TypeOK
    <2> QED
      BY <1>1, <2>1, <2>2 DEF InFlight
  <1>3. ASSUME NEW c \in Calls, StartFlight(c) PROVE OneFlight'
    <2>1. /\ \A l \in Calls : SameFlight(c, l) => ~InFlight(l)
          /\ \A l \in Calls \ {c} : fpc'[l] = fpc[l]
          /\ UNCHANGED <<cgen, cepoch>>
      BY <1>3 DEF StartFlight, TypeOK
    <2> QED
      BY <2>1 DEF OneFlight, SameFlight, InFlight
  <1>4. ASSUME NEW l \in Calls, FlightStep(l) PROVE OneFlight'
    <2>1. InFlight(l) /\ \A m \in Calls \ {l} : fpc'[m] = fpc[m]
      BY <1>4 DEF FlightStep, FlightBegin, FlightRejected, RecheckHit, RecheckMiss,
                  FlightComputed, FlightPanics, FlightCancelled, FlightPassed,
                  FlightStored, FlightNotStored, FlightEnd, FlightDeliver, FlightTo,
                  InFlight, TypeOK
    <2> QED
      BY <1>1, <1>4, <2>1, FlightFrame DEF InFlight
  <1>5. ASSUME UNCHANGED <<fpc, cgen, cepoch>> PROVE OneFlight'
    BY <1>1, <1>5 DEF InFlight
  <1>6. ASSUME NEW c \in Calls, CallStep(c) \/ Interrupted(c), ~ReadEpoch(c), ~StartFlight(c)
        PROVE  UNCHANGED <<fpc, cgen, cepoch>>
    BY <1>6 DEF CallStep, LookupHit, LookupMiss, NotJoinable, Joinable, JoinFlight,
                Receive, Interrupted, flightVars
  <1> QED
    BY <1>2, <1>3, <1>4, <1>5, <1>6, Actors, InvFrame, EvictFrame, PublishFrame,
       StopFrame, StutterFrame

\* Once the tracker is closed no verification begins.
LEMMA StopInvStep == ASSUME TypeOK, StopInv, [Next]_vars PROVE StopInv'
  <1>1. ASSUME NEW l \in Calls, FlightStep(l) PROVE StopInv'
    <2>1. closed => Active' \subseteq Active
      BY <1>1 DEF FlightStep, FlightBegin, FlightRejected, RecheckHit, RecheckMiss,
                  FlightComputed, FlightPanics, FlightCancelled, FlightPassed,
                  FlightStored, FlightNotStored, FlightEnd, FlightDeliver, FlightTo,
                  Active, TypeOK
    <2> QED
      BY <1>1, <2>1, FlightFrame DEF StopInv
  <1>2. ASSUME NEW c \in Calls, CallStart(c) \/ CallStep(c) \/ Interrupted(c) PROVE StopInv'
    <2>1. Active' \subseteq Active
      BY <1>2 DEF CallStart, CallStep, LookupHit, LookupMiss, ReadEpoch, NotJoinable,
                  Joinable, JoinFlight, StartFlight, Receive, Interrupted, flightVars,
                  Active, TypeOK
    <2> QED
      BY <1>2, <2>1, CallFrame DEF StopInv
  <1>3. ASSUME UNCHANGED <<gen, reloading, fpc, spc, closed, stopped>> PROVE StopInv'
    BY <1>3 DEF StopInv, Active
  <1>4. ASSUME ReloadBegin PROVE StopInv'
    BY <1>4 DEF ReloadBegin, StopInv, Active, stopVars, flightVars
  <1>5. ASSUME ReloadEnd PROVE StopInv'
    BY <1>5 DEF ReloadEnd, Reloaded, ReloadKept, StopInv, Active, stopVars, flightVars
  <1>6. ASSUME PolicyUpdate PROVE StopInv'
    BY <1>6 DEF PolicyUpdate, StopInv, Active, stopVars, flightVars
  <1>7. ASSUME Stopping PROVE StopInv'
    <2>0. UNCHANGED <<gen, reloading, fpc>> /\ Active' = Active
      BY <1>7, StopFrame DEF Active
    <2>1. CASE StopReject
      BY <2>0, <2>1 DEF StopReject, StopInv
    <2>2. CASE StopLocked
      BY <2>0, <2>2 DEF StopLocked, StopInv
    <2>3. CASE StopPoller
      BY <2>0, <2>3 DEF StopPoller, StopInv
    <2>4. CASE StopDrained
      BY <2>0, <2>4 DEF StopDrained, StopInv
    <2>5. CASE StopCancels
      BY <2>0, <2>5 DEF StopCancels, StopInv
    <2>6. CASE StopGrace
      BY <2>0, <2>6 DEF StopGrace, StopInv
    <2>7. CASE StopRelease
      BY <2>0, <2>7 DEF StopRelease, StopInv
    <2> QED
      BY <1>7, <2>1, <2>2, <2>3, <2>4, <2>5, <2>6, <2>7 DEF Stopping, StopStep
  <1> QED
    BY <1>1, <1>2, <1>3, <1>4, <1>5, <1>6, <1>7, Actors, InvFrame, EvictFrame,
       StutterFrame DEF PublishStep

-----------------------------------------------------------------------------

\* The invariant holds when the verifier has been created.
LEMMA InitInv == Init => IInv
  <1> SUFFICES ASSUME Init PROVE IInv
    OBVIOUS
  <1> USE KeysAssumption, BoundsAssumption, MissType
  <1>1. TypeOK
    <2>1. 0 \in Gens
      BY DEF Gens
    <2>2. cache \in [Gens -> [Keys -> Results]] /\ epoch \in [Gens -> [Shards -> Nat]]
      BY DEF Init
    <2>3. pc \in [Calls -> CallLabels] /\ fpc \in [Calls -> FlightLabels] /\ spc \in StopLabels
      BY DEF Init, CallLabels, FlightLabels, StopLabels
    <2> QED
      BY <2>1, <2>2, <2>3 DEF Init, TypeOK
  <1>2. ~Miss.ok /\ Begun = {} /\ Finished = {}
    BY DEF Miss, Init, Begun, Finished
  <1>3. GensInv
    BY DEF Init, GensInv
  <1>4. EpochInv
    BY <1>2 DEF EpochInv
  <1>5. CacheInv
    BY <1>2 DEF Init, CacheInv
  <1>6. FlightInv /\ FlightShape
    BY <1>2 DEF Init, FlightInv, FlightShape, Holding
  <1>7. CallInv
    BY DEF Init, CallInv, Read
  <1>8. AnswerInv
    BY <1>2 DEF Init, AnswerInv
  <1>9. OneFlight
    BY DEF Init, OneFlight, InFlight
  <1>10. StopInv
    BY DEF Init, StopInv
  <1> QED
    BY <1>1, <1>3, <1>4, <1>5, <1>6, <1>7, <1>8, <1>9, <1>10 DEF IInv

\* Every step keeps the invariant.
LEMMA NextInv == IInv /\ [Next]_vars => IInv'
  BY TypeStep, GensStep, EpochStep, CacheStep, FlightsStep, ShapeStep, CallsStep,
     AnswerStep, OneFlightStep, StopInvStep DEF IInv

\* The inductive invariant of the verifier.
THEOREM VerificationInv == Spec => []IInv
  BY InitInv, NextInv, PTL DEF Spec

\* Calls, flights, caches and Stop stay in their types, however many reloads,
\* invalidations and verifications interleave.
THEOREM VerificationTypes == Spec => []TypeOK
  <1>1. IInv => TypeOK
    BY DEF IInv
  <1> QED
    BY <1>1, VerificationInv, PTL

\* Verify answers with a result of the policies it loaded, computed from attestations
\* fetched after every InvalidateCache that returned before the call (Fresh).
THEOREM AnswersAreFresh == Spec => []Fresh
  <1>1. IInv => Fresh
    BY DEF IInv, AnswerInv, Fresh
  <1> QED
    BY <1>1, VerificationInv, PTL

\* The result cache never holds what an invalidation that has returned was meant to
\* remove, also when the result was computed while it ran (CacheFresh).
THEOREM CacheIsFresh == Spec => []CacheFresh
  <1>1. ASSUME IInv PROVE CacheFresh
    <2> SUFFICES ASSUME NEW g \in Gens, NEW k \in Keys, cache[g][k].ok
                 PROVE  /\ cache[g][k].gen = g
                        /\ \A i \in Finished : k \in HitsOf[i] /\ igen[i] <= g =>
                              i \in cache[g][k].seen
      BY DEF CacheFresh
    <2>1. /\ Sound(cache[g][k], g, k)
          /\ \A i \in Finished : k \in HitsOf[i] /\ igen[i] = g => i \in cache[g][k].seen
      BY <1>1 DEF IInv, CacheInv
    <2>2. ASSUME NEW i \in Finished, igen[i] <= g PROVE igen[i] = g \/ igen[i] < g
      BY <1>1, <2>2, BoundsAssumption DEF IInv, TypeOK, Gens, Finished
    <2>3. Finished \subseteq Begun
      BY DEF Finished, Begun
    <2> QED
      BY <2>1, <2>2, <2>3 DEF Sound, SeesOlder
  <1> QED
    BY <1>1, VerificationInv, PTL

\* A verification cancelled by Stop neither answers a call nor fills the cache
\* (NoCutResult).
THEOREM NoCancelledResults == Spec => []NoCutResult
  <1>1. ASSUME IInv PROVE NoCutResult
    <2>1. ~Miss.cut
      BY DEF Miss
    <2> QED
      BY <1>1, <2>1 DEF IInv, NoCutResult, AnswerInv, CacheInv
  <1> QED
    BY <1>1, VerificationInv, PTL

\* One flight for each flight key, and none is running when Stop releases the snapshot
\* without having waited in vain (FlightsDrained).
THEOREM StopDrainsFlights == Spec => []FlightsDrained
  <1>1. ASSUME IInv PROVE FlightsDrained
    <2>1. \A l \in Active : l \in Calls /\ InFlight(l)
      BY DEF Active, InFlight
    <2> QED
      BY <1>1, <2>1 DEF IInv, FlightsDrained, OneFlight, StopInv
  <1> QED
    BY <1>1, VerificationInv, PTL

\* However reloads, invalidations and verifications interleave, neither an answer nor
\* a cache entry is stale (NothingStale).
THEOREM StaleIsNeverUsed == Spec => []NothingStale
  <1>1. Fresh /\ CacheFresh => NothingStale
    BY DEF NothingStale
  <1> QED
    BY <1>1, AnswersAreFresh, CacheIsFresh, PTL

\* A Stop at any moment neither lets a cut verification count nor releases what one
\* still uses (StopIsClean).
THEOREM StopsAreClean == Spec => []StopIsClean
  <1>1. NoCutResult /\ FlightsDrained => StopIsClean
    BY DEF StopIsClean
  <1> QED
    BY <1>1, NoCancelledResults, StopDrainsFlights, PTL

\* After Stop has stopped the poller the snapshot is never replaced
\* (NoPublishAfterStop).
THEOREM StoppedForGood == Spec => NoPublishAfterStop
  <1>1. ASSUME IInv, [Next]_vars PROVE [NoPublishAfterStopStep]_vars
    <2>1. ASSUME PublishStep PROVE NoPublishAfterStopStep
      BY <1>1, <2>1 DEF IInv, StopInv, PublishStep, ReloadBegin, ReloadEnd, Reloaded,
                        ReloadKept, PolicyUpdate, NoPublishAfterStopStep
    <2> QED
      BY <1>1, <2>1, Actors, CallFrame, FlightFrame, InvFrame, EvictFrame, StopFrame,
         StutterFrame DEF NoPublishAfterStopStep
  <1> QED
    BY <1>1, VerificationInv, PTL DEF Spec, NoPublishAfterStop

-----------------------------------------------------------------------------
(* Refinement: every step is one of FreshVerification or changes nothing it  *)
(* shows.                                                                    *)

\* What the abstract specification shows is what it showed.
Shown == <<gen, pc, cgen, must, res, ipc>>

\* A verifier that has just been created is an abstract one.
LEMMA InitRefines == Init => Abstract!Init
<1> SUFFICES ASSUME Init PROVE Abstract!Init
  OBVIOUS
<1>1. /\ gen = 0
      /\ pc = [c \in Calls |-> "idle"] /\ ipc = [i \in Invs |-> "idle"]
      /\ cgen = [c \in Calls |-> 0] /\ must = [c \in Calls |-> {}]
      /\ res = [c \in Calls |-> Abstract!NoAnswer]
  BY DEF Init, Miss, Abstract!NoAnswer
<1>2. CallState = [c \in Calls |-> "idle"]
  BY <1>1 DEF CallState
<1>3. Begun = {} /\ Finished = {}
  BY <1>1 DEF Begun, Finished
<1> QED
  BY <1>1, <1>2, <1>3 DEF Abstract!Init

\* A step that changes nothing of what is shown stutters.
LEMMA HiddenStep == ASSUME UNCHANGED Shown PROVE UNCHANGED Abstract!vars
  BY DEF Shown, Abstract!vars, CallState, Begun, Finished

\* Where a call is, as shown, when its label becomes x.
LEMMA CallStateStep ==
    ASSUME TypeOK, NEW c \in Calls, NEW x, pc' = [pc EXCEPT ![c] = x]
    PROVE  CallState' =
             [CallState EXCEPT ![c] = IF x \in {"idle", "done"} THEN x ELSE "running"]
  BY DEF TypeOK, CallState

\* A call that returns answers afresh or fails.
LEMMA ReturnRefines ==
    ASSUME IInv, IInv', NEW c \in Calls, NEW r, pc[c] \notin {"idle", "done"}, Return(c, r),
           UNCHANGED <<gen, cgen, must, ipc>>
    PROVE  Abstract!Answer(c) \/ Abstract!Fail(c)
  <1>0. TypeOK /\ TypeOK' /\ AnswerInv'
    BY DEF IInv
  <1>1. /\ CallState[c] = "running"
        /\ CallState' = [CallState EXCEPT ![c] = "done"]
        /\ UNCHANGED <<gen, cgen, must, Begun, Finished>>
    BY <1>0, CallStateStep DEF CallState, Return, Begun, Finished
  <1>2. pc'[c] = "done" /\ res'[c] = r /\ res' = [res EXCEPT ![c] = r] /\ r \in Results
    BY <1>0 DEF Return, TypeOK
  <1>3. CASE r.ok
    <2>1. /\ r.gen = cgen[c] /\ ~r.cut
          /\ must[c] \subseteq r.seen /\ r.seen \subseteq Begun
      BY <1>0, <1>1, <1>2, <1>3 DEF AnswerInv
    <2>2. r = [ok |-> TRUE, gen |-> cgen[c], seen |-> r.seen, cut |-> FALSE]
      BY <1>2, <1>3, <2>1 DEF Results
    <2>3. \E seen \in SUBSET Begun :
             /\ must[c] \subseteq seen
             /\ res' = [res EXCEPT ![c] =
                          [ok |-> TRUE, gen |-> cgen[c], seen |-> seen, cut |-> FALSE]]
      BY <1>2, <2>1, <2>2
    <2> QED
      BY <1>1, <2>3 DEF Abstract!Answer
  <1>4. CASE ~r.ok
    <2>1. r = Miss
      BY <1>0, <1>2, <1>4 DEF AnswerInv
    <2> QED
      BY <1>1, <1>2, <2>1 DEF Abstract!Fail, Abstract!NoAnswer, Miss
  <1> QED
    BY <1>3, <1>4

\* A call that goes on inside stutters.
LEMMA RunningRefines ==
    ASSUME TypeOK, NEW c \in Calls, pc[c] \notin {"idle", "done"},
           NEW x, x \notin {"idle", "done"}, pc' = [pc EXCEPT ![c] = x],
           UNCHANGED <<gen, cgen, must, res, ipc>>
    PROVE  UNCHANGED Abstract!vars
  <1>1. CallState' = CallState
    BY DEF TypeOK, CallState
  <1> QED
    BY <1>1 DEF Abstract!vars, Begun, Finished

\* Every step of the verifier is an abstract step or a stutter.
LEMMA StepRefines ==
    ASSUME IInv, IInv', [Next]_vars PROVE [Abstract!Next]_(Abstract!vars)
  <1>0. TypeOK
    BY DEF IInv
  <1>1. ASSUME NEW c \in Calls, CallStart(c) PROVE Abstract!Begin(c)
    <2>1. CallState[c] = "idle" /\ UNCHANGED <<Begun, Finished>>
      BY <1>1 DEF CallStart, CallState, Begun, Finished, invVars
    <2>2. CallState' = [CallState EXCEPT ![c] = "running"]
      BY <1>0, <1>1 DEF CallStart, CallState, TypeOK
    <2> QED
      BY <1>1, <2>1, <2>2 DEF CallStart, Abstract!Begin
  <1>2. ASSUME NEW c \in Calls, CallStep(c) \/ Interrupted(c)
        PROVE  Abstract!Answer(c) \/ Abstract!Fail(c) \/ UNCHANGED Abstract!vars
    <2>0. gen' = gen /\ ipc' = ipc
      BY <1>2, CallFrame
    <2>1. ASSUME LookupHit(c) \/ NotJoinable(c) \/ Receive(c) \/ Interrupted(c)
          PROVE  Abstract!Answer(c) \/ Abstract!Fail(c)
      <3>1. pc[c] \notin {"idle", "done"} /\ UNCHANGED <<cgen, must>> /\ \E r : Return(c, r)
        BY <2>1 DEF LookupHit, NotJoinable, Receive, Interrupted
      <3> QED
        BY <2>0, <3>1, ReturnRefines
    <2>2. ASSUME LookupMiss(c) \/ ReadEpoch(c) \/ Joinable(c) \/ StartFlight(c)
                 \/ \E l \in Calls : JoinFlight(c, l)
          PROVE  UNCHANGED Abstract!vars
      <3>1. /\ pc[c] \notin {"idle", "done"} /\ UNCHANGED <<cgen, must, res>>
            /\ \E x : x \notin {"idle", "done"} /\ pc' = [pc EXCEPT ![c] = x]
        BY <2>2 DEF LookupMiss, ReadEpoch, Joinable, StartFlight, JoinFlight
      <3> QED
        BY <1>0, <2>0, <3>1, RunningRefines
    <2> QED
      BY <1>2, <2>1, <2>2 DEF CallStep
  <1>3. ASSUME NEW i \in Invs, InvLoad(i) PROVE Abstract!InvalidateBegin(i)
    <2>1. i \notin Begun /\ Begun' = Begun \cup {i} /\ Finished' = Finished
      BY <1>0, <1>3 DEF InvLoad, Begun, Finished, TypeOK
    <2> QED
      BY <1>3, <2>1 DEF InvLoad, Abstract!InvalidateBegin, CallState, callVars
  <1>4. ASSUME NEW i \in Invs, InvDelete(i) PROVE Abstract!InvalidateEnd(i)
    <2>1. i \in Begun \ Finished /\ Finished' = Finished \cup {i} /\ Begun' = Begun
      BY <1>0, <1>4 DEF InvDelete, Begun, Finished, TypeOK
    <2> QED
      BY <1>4, <2>1 DEF InvDelete, Abstract!InvalidateEnd, CallState, callVars
  <1>5. ASSUME PublishStep PROVE Abstract!Publish \/ UNCHANGED Abstract!vars
    <2>1. UNCHANGED <<CallState, cgen, must, res, Begun, Finished>>
      BY <1>5, PublishFrame DEF CallState, Begun, Finished
    <2>2. (gen < MaxReloads /\ gen' = gen + 1) \/ gen' = gen
      BY <1>5 DEF PublishStep, ReloadBegin, ReloadEnd, Reloaded, ReloadKept, PolicyUpdate,
                  IInv, StopInv
    <2> QED
      BY <2>1, <2>2 DEF Abstract!Publish, Abstract!vars
  <1>6. ASSUME NEW l \in Calls, FlightStep(l) PROVE UNCHANGED Abstract!vars
    BY <1>6, FlightFrame, HiddenStep DEF Shown
  <1>7. ASSUME NEW g \in Gens, NEW k \in Keys, Evict(g, k) PROVE UNCHANGED Abstract!vars
    BY <1>7, EvictFrame, HiddenStep DEF Shown
  <1>8. ASSUME Stopping PROVE UNCHANGED Abstract!vars
    BY <1>8, StopFrame, HiddenStep DEF Shown
  <1>9. ASSUME UNCHANGED vars PROVE UNCHANGED Abstract!vars
    BY <1>9, StutterFrame, HiddenStep DEF Shown
  <1> QED
    BY <1>1, <1>2, <1>3, <1>4, <1>5, <1>6, <1>7, <1>8, <1>9, Actors
       DEF InvStep, Abstract!Next

\* The verifier implements FreshVerification: behind the cache, the shared flights and
\* the reloads, every call answers afresh or fails (ImplementsFresh).
THEOREM VerificationImplements == Spec => ImplementsFresh
  <1>1. IInv /\ IInv' /\ [Next]_vars => [Abstract!Next]_(Abstract!vars)
    BY StepRefines
  <1> QED
    BY <1>1, InitRefines, VerificationInv, PTL DEF Spec, ImplementsFresh, Abstract!Spec
=============================================================================
