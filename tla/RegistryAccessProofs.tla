------------------------ MODULE RegistryAccessProofs ------------------------
(***************************************************************************)
(* The circuit breakers. However calls of Get overlap, the registry of     *)
(* breakers stays within its size and only drops an open breaker when it   *)
(* is the least recently used one. The promises of a breaker hold for      *)
(* every number of requests and hosts, every threshold, cooldown and       *)
(* number of slots: its operators are characterised once (BreakerTypes and *)
(* the four lemmas after it), and the invariance proof only uses those     *)
(* facts.                                                                  *)
(***************************************************************************)
EXTENDS BreakerRegistry, RegistryAccess, FiniteSetTheorems, TLAPS

-----------------------------------------------------------------------------
(* BreakerRegistry *)

\* Where a call of Get stands has the fields its next step reads.
GetterShape(g) ==
    LET c == getter[g]
    IN  /\ c.pc \in {"idle", "touch", "store", "missed", "closed", "oldest"}
        /\ c.pc = "idle" => c = Waiting
        /\ c.pc = "touch" => c.entry \in DOMAIN lastUsed
        /\ c.pc = "store" => c.entry \in DOMAIN lastUsed /\ c.use \in 1..uses
        /\ c.pc = "missed" => c.host \in BreakerHosts
        /\ c.pc = "closed" => /\ c = [pc |-> "closed", host |-> c.host, todo |-> c.todo]
                              /\ c.host \in BreakerHosts
        /\ c.pc = "oldest" => /\ c = [pc |-> "oldest", host |-> c.host, todo |-> c.todo,
                                      oldestHost |-> c.oldestHost, oldestUse |-> c.oldestUse]
                              /\ c.host \in BreakerHosts

\* The map, and the uses of its entries.
EntriesAreKnown ==
    /\ uses \in Nat
    /\ IsFiniteSet(DOMAIN breakers) /\ DOMAIN breakers \subseteq BreakerHosts
    /\ DOMAIN newestUse = DOMAIN lastUsed
    /\ \A h \in DOMAIN breakers : breakers[h] \in DOMAIN lastUsed
    /\ \A h, k \in DOMAIN breakers : breakers[h] = breakers[k] => h = k
    /\ \A e \in DOMAIN lastUsed :
         e \in 1..uses /\ lastUsed[e] \in 1..uses /\ newestUse[e] \in 1..uses /\ lastUsed[e] <= newestUse[e]

\* A use is counted once: no two entries or pending stores have the same one.
UsesAreUnique ==
    /\ \A e, f \in DOMAIN lastUsed : lastUsed[e] = lastUsed[f] => e = f
    /\ \A g \in Getters : getter[g].pc = "store" =>
         /\ \A e \in DOMAIN lastUsed : lastUsed[e] # getter[g].use
         /\ \A k \in Getters : getter[k].pc = "store" /\ getter[k].use = getter[g].use => k = g

\* What an eviction under way has seen of the breakers it looked at.
EvictionIsSound(g) ==
    LET c == getter[g]
        oldest == breakers[c.oldestHost]
    IN  /\ c.pc \in {"closed", "oldest"} => regLock = g /\ c.host \notin DOMAIN breakers
        /\ c.pc = "closed" => c.todo \subseteq DOMAIN breakers
        /\ c.pc = "oldest" => Full(breakers) /\ c.todo \subseteq DOMAIN breakers
        /\ c.pc = "oldest" /\ c.oldestHost = NoGetter => c.todo = DOMAIN breakers
        /\ c.pc = "oldest" /\ c.oldestHost # NoGetter =>
             /\ c.oldestHost \in DOMAIN breakers \ c.todo
             /\ c.oldestUse \in 1..newestUse[oldest]
             /\ \A k \in DOMAIN breakers \ c.todo :
                  k # c.oldestHost => newestUse[breakers[k]] > c.oldestUse
             /\ \A e \in DOMAIN lastUsed : lastUsed[e] = c.oldestUse => e = oldest
             /\ \A k \in Getters : getter[k].pc = "store" => getter[k].use # c.oldestUse

RegistryInv ==
    /\ getter = [g \in Getters |-> getter[g]]
    /\ \A g \in Getters : GetterShape(g) /\ EvictionIsSound(g)
    /\ EntriesAreKnown /\ UsesAreUnique /\ WithinCapacity

\* The larger of two numbers.
LEMMA MaxOfTwo ==
    ASSUME NEW a \in Int, NEW b \in Int
    PROVE  Max({a} \union {b}) = (IF b > a THEN b ELSE a) /\ Max({a} \union {}) = a
<1>1. ASSUME NEW S, NEW m \in S, S \subseteq Int, \A y \in S : m >= y
      PROVE  Max(S) = m
  <2>1. Max(S) \in S /\ \A y \in S : Max(S) >= y
    BY <1>1 DEF Max
  <2>2. Max(S) \in Int /\ m \in Int /\ m >= Max(S) /\ Max(S) >= m
    BY <1>1, <2>1
  <2> QED BY <2>2
<1>2. CASE b > a
  <2>1. b \in {a} \union {b} /\ {a} \union {b} \subseteq Int /\ \A y \in {a} \union {b} : b >= y
    BY <1>2
  <2>2. a \in {a} \union {} /\ {a} \union {} \subseteq Int /\ \A y \in {a} \union {} : a >= y
    OBVIOUS
  <2> QED BY <1>1, <1>2, <2>1, <2>2
<1>3. CASE ~(b > a)
  <2>1. a \in {a} \union {b} /\ {a} \union {b} \subseteq Int /\ \A y \in {a} \union {b} : a >= y
    BY <1>3
  <2>2. a \in {a} \union {} /\ {a} \union {} \subseteq Int /\ \A y \in {a} \union {} : a >= y
    OBVIOUS
  <2> QED BY <1>1, <1>3, <2>1, <2>2
<1> QED BY <1>2, <1>3

\* Storing a use that no entry has keeps the uses of the entries apart, and the
\* highest use of an entry never falls.
LEMMA StoreStep ==
    ASSUME EntriesAreKnown, uses' \in {uses, uses + 1},
           NEW entry, entry \in 1..uses', NEW use, use \in 1..uses', StoreUse(entry, use),
           \A e \in DOMAIN lastUsed : lastUsed[e] # use,
           \A e, f \in DOMAIN lastUsed : lastUsed[e] = lastUsed[f] => e = f
    PROVE  /\ DOMAIN lastUsed' = DOMAIN lastUsed \union {entry} /\ DOMAIN newestUse' = DOMAIN lastUsed'
           /\ \A e \in DOMAIN lastUsed' : lastUsed'[e] = IF e = entry THEN use ELSE lastUsed[e]
           /\ \A e \in DOMAIN lastUsed : newestUse'[e] \in Int /\ newestUse'[e] >= newestUse[e]
           /\ \A e \in DOMAIN lastUsed' : /\ e \in 1..uses' /\ lastUsed'[e] \in 1..uses'
                                           /\ newestUse'[e] \in 1..uses' /\ lastUsed'[e] <= newestUse'[e]
           /\ \A e, f \in DOMAIN lastUsed' : lastUsed'[e] = lastUsed'[f] => e = f
<1>1. /\ DOMAIN lastUsed' = DOMAIN lastUsed \union {entry} /\ DOMAIN newestUse' = DOMAIN lastUsed'
      /\ \A e \in DOMAIN lastUsed' : lastUsed'[e] = IF e = entry THEN use ELSE lastUsed[e]
      /\ \A e \in DOMAIN lastUsed \ {entry} : newestUse'[e] = newestUse[e]
      /\ entry \in DOMAIN newestUse => newestUse'[entry] = Max({use} \union {newestUse[entry]})
      /\ entry \notin DOMAIN newestUse => newestUse'[entry] = Max({use} \union {})
  BY DEF StoreUse
<1>2. /\ uses \in Nat /\ uses' \in Nat /\ use \in Int /\ DOMAIN newestUse = DOMAIN lastUsed
      /\ \A e \in DOMAIN lastUsed :
           e \in 1..uses /\ lastUsed[e] \in 1..uses /\ newestUse[e] \in 1..uses /\ lastUsed[e] <= newestUse[e]
  BY DEF EntriesAreKnown
<1>3. ASSUME entry \in DOMAIN lastUsed
      PROVE  newestUse'[entry] = IF newestUse[entry] > use THEN newestUse[entry] ELSE use
  <2>1. newestUse[entry] \in Int
    BY <1>2, <1>3
  <2>2. Max({use} \union {newestUse[entry]}) = IF newestUse[entry] > use THEN newestUse[entry] ELSE use
    BY ONLY <1>2, <2>1, MaxOfTwo
  <2> QED BY <1>1, <1>2, <1>3, <2>2
<1>4. ASSUME entry \notin DOMAIN lastUsed PROVE newestUse'[entry] = use
  BY <1>1, <1>2, <1>4, MaxOfTwo
<1>5. \A e \in DOMAIN lastUsed : newestUse'[e] \in Int /\ newestUse'[e] >= newestUse[e]
  BY <1>1, <1>2, <1>3
<1>6. newestUse'[entry] \in 1..uses' /\ use <= newestUse'[entry]
  BY <1>2, <1>3, <1>4
<1>7. ASSUME NEW e \in DOMAIN lastUsed'
      PROVE  /\ e \in 1..uses' /\ lastUsed'[e] \in 1..uses'
             /\ newestUse'[e] \in 1..uses' /\ lastUsed'[e] <= newestUse'[e]
  <2>1. CASE e = entry
    BY <1>1, <1>6, <2>1
  <2>2. CASE e # entry
    <3>1. e \in DOMAIN lastUsed /\ lastUsed'[e] = lastUsed[e] /\ newestUse'[e] = newestUse[e]
      BY <1>1, <2>2
    <3> QED BY <1>2, <3>1
  <2> QED BY <2>1, <2>2
<1>8. ASSUME NEW e \in DOMAIN lastUsed', NEW f \in DOMAIN lastUsed', lastUsed'[e] = lastUsed'[f]
      PROVE  e = f
  <2>1. CASE e = entry \/ f = entry
    BY <1>1, <1>8, <2>1
  <2>2. CASE e # entry /\ f # entry
    BY <1>1, <1>8, <2>2
  <2> QED BY <2>1, <2>2
<1> QED BY <1>1, <1>5, <1>7, <1>8

\* A step that only moves one call of Get, to a place outside an eviction, keeps
\* the invariant.
LEMMA MoveStep ==
    ASSUME RegistryInv, NEW g \in Getters, NEW c, getter' = [getter EXCEPT ![g] = c],
           UNCHANGED <<breakers, lastUsed, newestUse, uses, regLock>>,
           c.pc \in {"idle", "touch", "missed"}, c.pc = "idle" => c = Waiting,
           c.pc = "touch" => c.entry \in DOMAIN lastUsed, c.pc = "missed" => c.host \in BreakerHosts
    PROVE  RegistryInv'
<1>1. getter' = [k \in Getters |-> getter'[k]]
  BY DEF RegistryInv
<1>2. getter'[g] = c /\ \A k \in Getters \ {g} : getter'[k] = getter[k]
  BY DEF RegistryInv
<1>3. ASSUME NEW k \in Getters PROVE GetterShape(k)' /\ EvictionIsSound(k)'
  <2>1. CASE k = g
    BY <1>2, <2>1 DEF GetterShape, EvictionIsSound
  <2>2. CASE k # g
    <3>1. GetterShape(k) /\ EvictionIsSound(k) /\ getter'[k] = getter[k]
      BY <1>2, <2>2 DEF RegistryInv
    <3>2. GetterShape(k)'
      BY <3>1 DEF GetterShape
    <3>3. \A j \in Getters : getter'[j].pc = "store" => getter[j].pc = "store" /\ getter'[j] = getter[j]
      BY <1>2
    <3>4. EvictionIsSound(k)'
      BY <3>1, <3>3 DEF EvictionIsSound, Full
    <3> QED BY <3>2, <3>4
  <2> QED BY <2>1, <2>2
<1>4. EntriesAreKnown' /\ WithinCapacity'
  BY DEF RegistryInv, EntriesAreKnown, WithinCapacity
<1>5. UsesAreUnique'
  BY <1>2 DEF RegistryInv, UsesAreUnique
<1> QED BY <1>1, <1>3, <1>4, <1>5 DEF RegistryInv

\* A use is stored for an entry, and nobody else has that use.
StoresNewUse(g, entry, use) ==
    /\ uses' \in {uses, uses + 1} /\ entry \in 1..uses' /\ use \in 1..uses'
    /\ StoreUse(entry, use)
    /\ \A e \in DOMAIN lastUsed : lastUsed[e] # use
    /\ \A k \in Getters \ {g} : getter[k].pc = "store" => getter[k].use # use

\* The map afterwards is one of known entries, that one included.
MapsEntries(entry) ==
    /\ IsFiniteSet(DOMAIN breakers') /\ DOMAIN breakers' \subseteq BreakerHosts /\ WithinCapacity'
    /\ \A h \in DOMAIN breakers' : breakers'[h] \in DOMAIN lastUsed \union {entry}
    /\ \A h, k \in DOMAIN breakers' : breakers'[h] = breakers'[k] => h = k

\* An eviction of another call that goes on meanwhile keeps the lock and with it
\* the map, and has seen another use.
EvictionsGoOn(g, use) ==
    \A k \in Getters \ {g} :
        getter[k].pc \in {"closed", "oldest"} =>
            /\ breakers' = breakers /\ regLock' = regLock
            /\ getter[k].pc = "oldest" /\ getter[k].oldestHost # NoGetter => getter[k].oldestUse # use

\* Get returns after it stored a new use.
LEMMA UseStep ==
    ASSUME RegistryInv, NEW g \in Getters, getter' = [getter EXCEPT ![g] = Waiting],
           NEW entry, NEW use, StoresNewUse(g, entry, use), MapsEntries(entry), EvictionsGoOn(g, use)
    PROVE  RegistryInv'
<1>1. EntriesAreKnown /\ UsesAreUnique /\ getter' = [k \in Getters |-> getter'[k]]
  BY DEF RegistryInv
<1>2. getter'[g] = Waiting /\ \A k \in Getters \ {g} : getter'[k] = getter[k]
  BY DEF RegistryInv
<1>3. Waiting.pc = "idle"
  BY DEF Waiting
<1>4. /\ DOMAIN lastUsed' = DOMAIN lastUsed \union {entry} /\ DOMAIN newestUse' = DOMAIN lastUsed'
      /\ \A e \in DOMAIN lastUsed' : lastUsed'[e] = IF e = entry THEN use ELSE lastUsed[e]
      /\ \A e \in DOMAIN lastUsed : newestUse'[e] \in Int /\ newestUse'[e] >= newestUse[e]
      /\ \A e \in DOMAIN lastUsed' : /\ e \in 1..uses' /\ lastUsed'[e] \in 1..uses'
                                      /\ newestUse'[e] \in 1..uses' /\ lastUsed'[e] <= newestUse'[e]
      /\ \A e, f \in DOMAIN lastUsed' : lastUsed'[e] = lastUsed'[f] => e = f
  BY <1>1, StoreStep DEF UsesAreUnique, StoresNewUse
<1>5. uses \in Nat /\ uses' \in Nat /\ uses <= uses'
  BY <1>1 DEF EntriesAreKnown, StoresNewUse
<1>6. EntriesAreKnown'
  BY <1>4, <1>5 DEF EntriesAreKnown, MapsEntries
<1>7. UsesAreUnique'
  <2>1. ASSUME NEW k \in Getters, getter'[k].pc = "store"
        PROVE  /\ getter[k].pc = "store" /\ getter'[k] = getter[k]
               /\ \A e \in DOMAIN lastUsed' : lastUsed'[e] # getter'[k].use
    <3>1. k # g /\ getter'[k] = getter[k]
      BY <1>2, <1>3, <2>1
    <3>2. getter[k].use # use /\ \A e \in DOMAIN lastUsed : lastUsed[e] # getter[k].use
      BY <1>1, <2>1, <3>1 DEF UsesAreUnique, StoresNewUse
    <3> QED BY <1>4, <2>1, <3>1, <3>2
  <2>2. \A j, k \in Getters :
          getter'[j].pc = "store" /\ getter'[k].pc = "store" /\ getter'[j].use = getter'[k].use => j = k
    BY <1>1, <2>1 DEF UsesAreUnique
  <2> QED BY <1>4, <2>1, <2>2 DEF UsesAreUnique
<1>8. ASSUME NEW k \in Getters PROVE GetterShape(k)' /\ EvictionIsSound(k)'
  <2>1. CASE k = g
    BY <1>2, <1>3, <2>1 DEF GetterShape, EvictionIsSound
  <2>2. CASE k # g
    <3>1. GetterShape(k) /\ EvictionIsSound(k) /\ getter'[k] = getter[k]
      BY <1>2, <2>2 DEF RegistryInv
    <3>2. GetterShape(k)'
      BY <1>4, <1>5, <3>1 DEF GetterShape
    <3>3. CASE getter[k].pc \notin {"closed", "oldest"}
      BY <3>1, <3>2, <3>3 DEF EvictionIsSound
    <3>4. CASE getter[k].pc \in {"closed", "oldest"}
      <4>1. breakers' = breakers /\ regLock' = regLock
        BY <2>2, <3>4 DEF EvictionsGoOn
      <4>2. CASE getter[k].pc = "oldest" /\ getter[k].oldestHost # NoGetter
        <5> DEFINE c == getter[k]
                   oldest == breakers[c.oldestHost]
        <5>1. /\ c.oldestHost \in DOMAIN breakers \ c.todo /\ c.oldestUse \in 1..newestUse[oldest]
              /\ \A h \in DOMAIN breakers \ c.todo : h # c.oldestHost => newestUse[breakers[h]] > c.oldestUse
              /\ \A e \in DOMAIN lastUsed : lastUsed[e] = c.oldestUse => e = oldest
              /\ \A j \in Getters : getter[j].pc = "store" => getter[j].use # c.oldestUse
          BY <3>1, <4>2 DEF EvictionIsSound
        <5>2. \A h \in DOMAIN breakers : /\ newestUse'[breakers[h]] \in Int /\ newestUse[breakers[h]] \in Int
                                         /\ newestUse'[breakers[h]] >= newestUse[breakers[h]]
          BY <1>1, <1>4 DEF EntriesAreKnown
        <5>3. c.oldestUse \in 1..newestUse'[oldest]
          BY <5>1, <5>2
        <5>4. \A h \in DOMAIN breakers \ c.todo : h # c.oldestHost => newestUse'[breakers[h]] > c.oldestUse
          BY <5>1, <5>2
        <5>5. c.oldestUse # use
          BY <2>2, <4>2 DEF EvictionsGoOn
        <5>6. \A e \in DOMAIN lastUsed' : lastUsed'[e] = c.oldestUse => e = oldest
          BY <1>4, <5>1, <5>5
        <5>7. \A j \in Getters : getter'[j].pc = "store" => getter'[j].use # c.oldestUse
          BY <1>2, <1>3, <5>1
        <5>8. Full(breakers) /\ regLock = k /\ c.host \notin DOMAIN breakers /\ c.todo \subseteq DOMAIN breakers
          BY <3>1, <4>2 DEF EvictionIsSound
        <5> HIDE DEF c, oldest
        <5>9. /\ getter'[k] = c /\ breakers'[c.oldestHost] = oldest
              /\ c.pc = "oldest" /\ c.oldestHost # NoGetter /\ Full(breakers)'
          BY <3>1, <4>1, <4>2, <5>8 DEF c, oldest, Full
        <5> QED BY <3>2, <4>1, <5>1, <5>3, <5>4, <5>6, <5>7, <5>8, <5>9 DEF EvictionIsSound
      <4>3. CASE ~(getter[k].pc = "oldest" /\ getter[k].oldestHost # NoGetter)
        BY <3>1, <3>2, <4>1, <4>3 DEF EvictionIsSound, Full
      <4> QED BY <4>2, <4>3
    <3> QED BY <3>3, <3>4
  <2> QED BY <2>1, <2>2
<1> QED BY <1>1, <1>6, <1>7, <1>8 DEF RegistryInv, MapsEntries

\* Nobody evicts without the lock.
LEMMA EvictsAlone ==
    ASSUME RegistryInv, NEW g \in Getters, regLock \in {NoGetter, g}
    PROVE  \A k \in Getters \ {g} : getter[k].pc \notin {"closed", "oldest"}
BY RegistryAssumption DEF RegistryInv, EvictionIsSound

\* Get returns with a new entry, where there is room for it.
LEMMA CreateStep ==
    ASSUME RegistryInv, NEW g \in Getters, regLock \in {NoGetter, g}, NEW h \in BreakerHosts, NEW kept,
           DOMAIN kept \subseteq DOMAIN breakers, \A k \in DOMAIN kept : kept[k] = breakers[k],
           h \notin DOMAIN kept, Cardinality(DOMAIN kept) < maxBreakers, Used(uses + 1),
           breakers' = [k \in DOMAIN kept \union {h} |-> IF k = h THEN uses + 1 ELSE kept[k]],
           getter' = [getter EXCEPT ![g] = Waiting]
    PROVE  RegistryInv'
<1>1. EntriesAreKnown /\ UsesAreUnique
  BY DEF RegistryInv
<1>2. uses \in Nat /\ uses' = uses + 1 /\ StoreUse(uses + 1, uses + 1)
  BY <1>1 DEF EntriesAreKnown, Used
<1>3. \A e \in DOMAIN lastUsed : e # uses + 1 /\ lastUsed[e] # uses + 1
  BY <1>1, <1>2 DEF EntriesAreKnown
<1>4. \A k \in Getters : getter[k].pc = "store" => getter[k].use # uses + 1
  BY <1>2 DEF RegistryInv, GetterShape
<1>5. IsFiniteSet(DOMAIN kept) /\ DOMAIN breakers' = DOMAIN kept \union {h}
  BY <1>1, FS_Subset DEF EntriesAreKnown
<1>6. IsFiniteSet(DOMAIN breakers') /\ Cardinality(DOMAIN breakers') = Cardinality(DOMAIN kept) + 1
  BY <1>5, FS_AddElement
<1>7. Cardinality(DOMAIN kept) \in Nat
  BY <1>5, FS_CardinalityType
<1>8. WithinCapacity'
  BY <1>6, <1>7, RegistryAssumption DEF WithinCapacity
<1>9. DOMAIN breakers' \subseteq BreakerHosts
  BY <1>1, <1>5 DEF EntriesAreKnown
<1>10. \A k \in DOMAIN breakers' : /\ breakers'[k] \in DOMAIN lastUsed \union {uses + 1}
                                   /\ k # h => breakers'[k] = breakers[k] /\ k \in DOMAIN breakers
                                   /\ k = h => breakers'[k] = uses + 1
  BY <1>1 DEF EntriesAreKnown
<1>11. \A j, k \in DOMAIN breakers' : breakers'[j] = breakers'[k] => j = k
  BY <1>1, <1>3, <1>10 DEF EntriesAreKnown
<1>12. \A k \in Getters \ {g} : getter[k].pc \notin {"closed", "oldest"}
  BY EvictsAlone
<1>13. StoresNewUse(g, uses + 1, uses + 1)
  BY <1>2, <1>3, <1>4 DEF StoresNewUse
<1>14. MapsEntries(uses + 1)
  BY <1>6, <1>8, <1>9, <1>10, <1>11 DEF MapsEntries
<1>15. EvictionsGoOn(g, uses + 1)
  BY <1>12 DEF EvictionsGoOn
<1> QED BY <1>13, <1>14, <1>15, UseStep

\* Every step of Get, of the evictions and of the breakers keeps the invariant.
LEMMA RegistryStep == RegistryInv /\ [NextRegistry]_varsRegistry => RegistryInv'
<1> SUFFICES ASSUME RegistryInv, [NextRegistry]_varsRegistry PROVE RegistryInv'
  OBVIOUS
<1>0. /\ EntriesAreKnown /\ UsesAreUnique /\ WithinCapacity /\ getter = [g \in Getters |-> getter[g]]
      /\ \A g \in Getters : GetterShape(g) /\ EvictionIsSound(g)
  BY DEF RegistryInv
<1>1. ASSUME NEW g \in Getters, NEW h \in BreakerHosts, Look(g, h) PROVE RegistryInv'
  <2>1. CASE h \in DOMAIN breakers
    <3> DEFINE c == [pc |-> "touch", entry |-> breakers[h]]
    <3>1. c.pc = "touch" /\ c.entry \in DOMAIN lastUsed
      BY <1>0, <2>1 DEF EntriesAreKnown
    <3>2. getter' = [getter EXCEPT ![g] = c] /\ UNCHANGED <<breakers, lastUsed, newestUse, uses, regLock>>
      BY <1>1, <2>1 DEF Look
    <3> HIDE DEF c
    <3> QED BY <3>1, <3>2, MoveStep
  <2>2. CASE h \notin DOMAIN breakers
    <3> DEFINE c == [pc |-> "missed", host |-> h]
    <3>1. c.pc = "missed" /\ c.host \in BreakerHosts
      OBVIOUS
    <3>2. getter' = [getter EXCEPT ![g] = c] /\ UNCHANGED <<breakers, lastUsed, newestUse, uses, regLock>>
      BY <1>1, <2>2 DEF Look
    <3> HIDE DEF c
    <3> QED BY <3>1, <3>2, MoveStep
  <2> QED BY <2>1, <2>2
<1>2. ASSUME NEW g \in Getters, Touch(g) PROVE RegistryInv'
  <2> DEFINE c == [pc |-> "store", entry |-> getter[g].entry, use |-> uses + 1]
  <2>1. /\ uses' = uses + 1 /\ UNCHANGED <<breakers, lastUsed, newestUse, regLock>>
        /\ getter' = [getter EXCEPT ![g] = c] /\ getter[g].pc = "touch"
    BY <1>2 DEF Touch
  <2>2. c.pc = "store" /\ c.use = uses + 1 /\ c.entry \in DOMAIN lastUsed
    BY <1>0, <2>1 DEF GetterShape
  <2> HIDE DEF c
  <2>3. getter'[g] = c /\ \A k \in Getters \ {g} : getter'[k] = getter[k]
    BY <1>0, <2>1
  <2>4. uses \in Nat /\ uses' \in Nat /\ \A e \in DOMAIN lastUsed : lastUsed[e] \in 1..uses
    BY <1>0, <2>1 DEF EntriesAreKnown
  <2>5. EntriesAreKnown' /\ WithinCapacity'
    BY <1>0, <2>1 DEF EntriesAreKnown, WithinCapacity
  <2>6. \A k \in Getters : getter[k].pc = "store" => getter[k].use \in 1..uses
    BY <1>0 DEF GetterShape
  <2>7. UsesAreUnique'
    <3>1. \A e \in DOMAIN lastUsed : lastUsed[e] # uses + 1
      BY <2>4
    <3>2. \A k \in Getters \ {g} : getter'[k].pc = "store" => getter'[k].use # uses + 1
      BY <2>3, <2>4, <2>6
    <3> QED BY <1>0, <2>1, <2>2, <2>3, <3>1, <3>2 DEF UsesAreUnique
  <2>8. ASSUME NEW k \in Getters PROVE GetterShape(k)' /\ EvictionIsSound(k)'
    <3>1. CASE k = g
      BY <2>1, <2>2, <2>3, <2>4, <3>1 DEF GetterShape, EvictionIsSound
    <3>2. CASE k # g
      <4>1. GetterShape(k) /\ EvictionIsSound(k) /\ getter'[k] = getter[k]
        BY <1>0, <2>3, <3>2
      <4>2. GetterShape(k)'
        BY <2>1, <2>4, <4>1 DEF GetterShape
      <4>3. ASSUME getter[k].pc = "oldest", getter[k].oldestHost # NoGetter
            PROVE  getter[k].oldestUse # uses + 1
        <5>1. /\ getter[k].oldestUse \in 1..newestUse[breakers[getter[k].oldestHost]]
              /\ getter[k].oldestHost \in DOMAIN breakers
          BY <4>1, <4>3 DEF EvictionIsSound
        <5>2. newestUse[breakers[getter[k].oldestHost]] \in 1..uses
          BY <1>0, <5>1 DEF EntriesAreKnown
        <5> QED BY <2>4, <5>1, <5>2
      <4>4. EvictionIsSound(k)'
        BY <2>1, <2>2, <2>3, <4>1, <4>3 DEF EvictionIsSound, Full
      <4> QED BY <4>2, <4>4
    <3> QED BY <3>1, <3>2
  <2> QED BY <1>0, <2>1, <2>5, <2>7, <2>8 DEF RegistryInv
<1>3. ASSUME NEW g \in Getters, Touched(g) PROVE RegistryInv'
  <2> DEFINE entry == getter[g].entry
             use == getter[g].use
  <2>1. /\ getter[g].pc = "store" /\ StoreUse(entry, use) /\ UNCHANGED <<breakers, uses, regLock>>
        /\ getter' = [getter EXCEPT ![g] = Waiting]
    BY <1>3 DEF Touched
  <2>2. entry \in DOMAIN lastUsed /\ use \in 1..uses
    BY <1>0, <2>1 DEF GetterShape
  <2>3. entry \in 1..uses /\ uses' \in {uses, uses + 1}
    BY <1>0, <2>1, <2>2 DEF EntriesAreKnown
  <2>4. StoresNewUse(g, entry, use)
    BY <1>0, <2>1, <2>2, <2>3 DEF UsesAreUnique, StoresNewUse
  <2>5. EvictionsGoOn(g, use)
    BY <1>0, <2>1 DEF EvictionIsSound, EvictionsGoOn
  <2>6. MapsEntries(entry)
    BY <1>0, <2>1 DEF EntriesAreKnown, WithinCapacity, MapsEntries
  <2> HIDE DEF entry, use
  <2> QED BY <2>1, <2>4, <2>5, <2>6, UseStep
<1>4. ASSUME NEW g \in Getters, Lock(g) PROVE RegistryInv'
  <2> DEFINE h == getter[g].host
  <2>1. getter[g].pc = "missed" /\ regLock = NoGetter /\ h \in BreakerHosts
    BY <1>0, <1>4 DEF Lock, GetterShape
  <2>2. CASE h \in DOMAIN breakers
    <3>1. /\ Used(breakers[h]) /\ getter' = [getter EXCEPT ![g] = Waiting]
          /\ UNCHANGED <<breakers, regLock>>
      BY <1>4, <2>2 DEF Lock
    <3>2. uses \in Nat /\ uses' = uses + 1 /\ StoreUse(breakers[h], uses + 1)
      BY <1>0, <3>1 DEF EntriesAreKnown, Used
    <3>3. breakers[h] \in DOMAIN lastUsed /\ breakers[h] \in 1..uses'
      BY <1>0, <2>2, <3>2 DEF EntriesAreKnown
    <3>4. \A e \in DOMAIN lastUsed : lastUsed[e] # uses + 1
      BY <1>0, <3>2 DEF EntriesAreKnown
    <3>5. \A k \in Getters : getter[k].pc = "store" => getter[k].use # uses + 1
      BY <1>0, <3>2 DEF GetterShape
    <3>6. StoresNewUse(g, breakers[h], uses + 1)
      BY <3>2, <3>3, <3>4, <3>5 DEF StoresNewUse
    <3>7. MapsEntries(breakers[h])
      BY <1>0, <3>1 DEF EntriesAreKnown, WithinCapacity, MapsEntries
    <3>8. EvictionsGoOn(g, uses + 1)
      BY <2>1, EvictsAlone DEF EvictionsGoOn
    <3> QED BY <3>1, <3>6, <3>7, <3>8, UseStep
  <2>3. CASE h \notin DOMAIN breakers /\ Full(breakers)
    <3> DEFINE c == [pc |-> "closed", host |-> h, todo |-> DOMAIN breakers]
    <3>1. /\ regLock' = g /\ getter' = [getter EXCEPT ![g] = c]
          /\ UNCHANGED <<breakers, lastUsed, newestUse, uses>>
      BY <1>4, <2>3 DEF Lock
    <3>2. c.pc = "closed" /\ c.host = h /\ c.todo = DOMAIN breakers
      OBVIOUS
    <3>3. c = [pc |-> "closed", host |-> c.host, todo |-> c.todo]
      BY <3>2
    <3> HIDE DEF c
    <3>4. getter'[g] = c /\ \A k \in Getters \ {g} : getter'[k] = getter[k]
      BY <1>0, <3>1
    <3>5. EntriesAreKnown' /\ WithinCapacity'
      BY <1>0, <3>1 DEF EntriesAreKnown, WithinCapacity
    <3>6. UsesAreUnique'
      BY <1>0, <3>1, <3>2, <3>4 DEF UsesAreUnique
    <3>7. GetterShape(g)' /\ EvictionIsSound(g)'
      BY <2>1, <2>3, <3>1, <3>2, <3>3, <3>4 DEF GetterShape, EvictionIsSound
    <3>8. ASSUME NEW k \in Getters \ {g} PROVE GetterShape(k)' /\ EvictionIsSound(k)'
      <4>1. getter[k].pc \notin {"closed", "oldest"} /\ getter'[k] = getter[k]
        BY <2>1, <3>4, EvictsAlone
      <4>2. GetterShape(k)'
        BY <1>0, <3>1, <4>1 DEF GetterShape
      <4>3. EvictionIsSound(k)'
        BY <4>1 DEF EvictionIsSound
      <4> QED BY <4>2, <4>3
    <3> QED BY <1>0, <3>1, <3>5, <3>6, <3>7, <3>8 DEF RegistryInv
  <2>4. CASE h \notin DOMAIN breakers /\ ~Full(breakers)
    <3>1. Create(g, h)
      BY <1>4, <2>4 DEF Lock
    <3>2. Cardinality(DOMAIN breakers) \in Nat /\ Cardinality(DOMAIN breakers) < maxBreakers
      BY <1>0, <2>4, FS_CardinalityType, RegistryAssumption DEF EntriesAreKnown, Full
    <3>3. /\ breakers' = [k \in DOMAIN breakers \union {h} |-> IF k = h THEN uses + 1 ELSE breakers[k]]
          /\ Used(uses + 1) /\ getter' = [getter EXCEPT ![g] = Waiting]
      BY <3>1 DEF Create
    <3> HIDE DEF h
    <3> QED BY <2>1, <2>4, <3>2, <3>3, CreateStep
  <2> QED BY <2>2, <2>3, <2>4
<1>5. ASSUME NEW g \in Getters, NEW h \in BreakerHosts, evictClosedLocked(g, h) PROVE RegistryInv'
  <2> DEFINE c == [getter[g] EXCEPT !.todo = getter[g].todo \ {h}]
  <2>1. /\ getter[g].pc = "closed" /\ getter' = [getter EXCEPT ![g] = c]
        /\ breakers' = IF breakers[h] \in open THEN breakers ELSE Restrict(breakers, DOMAIN breakers \ {h})
        /\ UNCHANGED <<lastUsed, newestUse, uses, regLock>>
    BY <1>5 DEF evictClosedLocked
  <2>2. /\ getter[g] = [pc |-> "closed", host |-> getter[g].host, todo |-> getter[g].todo]
        /\ regLock = g /\ getter[g].host \in BreakerHosts /\ getter[g].host \notin DOMAIN breakers
        /\ getter[g].todo \subseteq DOMAIN breakers
    BY <1>0, <2>1 DEF GetterShape, EvictionIsSound
  <2>3. /\ c.pc = "closed" /\ c.host = getter[g].host /\ c.todo = getter[g].todo \ {h}
        /\ c = [pc |-> "closed", host |-> c.host, todo |-> c.todo]
    BY <2>2
  <2> HIDE DEF c
  <2>4. getter'[g] = c /\ \A k \in Getters \ {g} : getter'[k] = getter[k]
    BY <1>0, <2>1
  <2>5. /\ DOMAIN breakers' \in {DOMAIN breakers, DOMAIN breakers \ {h}}
        /\ \A k \in DOMAIN breakers' : k \in DOMAIN breakers /\ breakers'[k] = breakers[k]
    BY <2>1 DEF Restrict
  <2>6. /\ IsFiniteSet(DOMAIN breakers) /\ IsFiniteSet(DOMAIN breakers')
        /\ Cardinality(DOMAIN breakers') <= Cardinality(DOMAIN breakers)
    BY <1>0, <2>5, FS_Subset DEF EntriesAreKnown
  <2>7. Cardinality(DOMAIN breakers) \in Nat /\ Cardinality(DOMAIN breakers') \in Nat
    BY <2>6, FS_CardinalityType
  <2>8. WithinCapacity'
    BY <1>0, <2>6, <2>7, RegistryAssumption DEF WithinCapacity
  <2>9. EntriesAreKnown'
    BY <1>0, <2>1, <2>5, <2>6 DEF EntriesAreKnown
  <2>10. UsesAreUnique'
    BY <1>0, <2>1, <2>3, <2>4 DEF UsesAreUnique
  <2>11. c.todo \subseteq DOMAIN breakers'
    BY <2>2, <2>3, <2>5
  <2>12. GetterShape(g)' /\ EvictionIsSound(g)'
    BY <2>1, <2>2, <2>3, <2>4, <2>5, <2>11 DEF GetterShape, EvictionIsSound
  <2>13. ASSUME NEW k \in Getters \ {g} PROVE GetterShape(k)' /\ EvictionIsSound(k)'
    <3>1. getter[k].pc \notin {"closed", "oldest"} /\ getter'[k] = getter[k]
      BY <2>2, <2>4, EvictsAlone
    <3>2. GetterShape(k)'
      BY <1>0, <2>1, <3>1 DEF GetterShape
    <3>3. EvictionIsSound(k)'
      BY <3>1 DEF EvictionIsSound
    <3> QED BY <3>2, <3>3
  <2> QED BY <1>0, <2>1, <2>8, <2>9, <2>10, <2>12, <2>13 DEF RegistryInv
<1>6. ASSUME NEW g \in Getters, EvictedClosed(g) PROVE RegistryInv'
  <2> DEFINE h == getter[g].host
  <2>1. getter[g].pc = "closed" /\ regLock = g /\ h \in BreakerHosts /\ h \notin DOMAIN breakers
    BY <1>0, <1>6 DEF EvictedClosed, GetterShape, EvictionIsSound
  <2>2. CASE ~Full(breakers)
    <3>1. Create(g, h)
      BY <1>6, <2>2 DEF EvictedClosed
    <3>2. Cardinality(DOMAIN breakers) \in Nat /\ Cardinality(DOMAIN breakers) < maxBreakers
      BY <1>0, <2>2, FS_CardinalityType, RegistryAssumption DEF EntriesAreKnown, Full
    <3>3. /\ breakers' = [k \in DOMAIN breakers \union {h} |-> IF k = h THEN uses + 1 ELSE breakers[k]]
          /\ Used(uses + 1) /\ getter' = [getter EXCEPT ![g] = Waiting]
      BY <3>1 DEF Create
    <3> HIDE DEF h
    <3> QED BY <2>1, <3>2, <3>3, CreateStep
  <2>3. CASE Full(breakers)
    <3> DEFINE c == [pc |-> "oldest", host |-> h, todo |-> DOMAIN breakers,
                     oldestHost |-> NoGetter, oldestUse |-> 0]
    <3>1. getter' = [getter EXCEPT ![g] = c] /\ UNCHANGED <<breakers, lastUsed, newestUse, uses, regLock>>
      BY <1>6, <2>3 DEF EvictedClosed
    <3>2. /\ c.pc = "oldest" /\ c.host = h /\ c.todo = DOMAIN breakers /\ c.oldestHost = NoGetter
          /\ c = [pc |-> "oldest", host |-> c.host, todo |-> c.todo,
                  oldestHost |-> c.oldestHost, oldestUse |-> c.oldestUse]
      OBVIOUS
    <3> HIDE DEF c, h
    <3>3. getter'[g] = c /\ \A k \in Getters \ {g} : getter'[k] = getter[k]
      BY <1>0, <3>1
    <3>4. EntriesAreKnown' /\ WithinCapacity'
      BY <1>0, <3>1 DEF EntriesAreKnown, WithinCapacity
    <3>5. UsesAreUnique'
      BY <1>0, <3>1, <3>2, <3>3 DEF UsesAreUnique
    <3>6. Full(breakers)'
      BY <2>3, <3>1 DEF Full
    <3>7. GetterShape(g)' /\ EvictionIsSound(g)'
      BY <2>1, <3>1, <3>2, <3>3, <3>6 DEF GetterShape, EvictionIsSound
    <3>8. ASSUME NEW k \in Getters \ {g} PROVE GetterShape(k)' /\ EvictionIsSound(k)'
      <4>1. getter[k].pc \notin {"closed", "oldest"} /\ getter'[k] = getter[k]
        BY <2>1, <3>3, EvictsAlone
      <4>2. GetterShape(k)'
        BY <1>0, <3>1, <4>1 DEF GetterShape
      <4>3. EvictionIsSound(k)'
        BY <4>1 DEF EvictionIsSound
      <4> QED BY <4>2, <4>3
    <3> QED BY <1>0, <3>1, <3>4, <3>5, <3>7, <3>8 DEF RegistryInv
  <2> QED BY <2>2, <2>3
<1>7. ASSUME NEW g \in Getters, NEW h \in BreakerHosts, LoadUse(g, h) PROVE RegistryInv'
  <2> DEFINE b == getter[g]
             used == lastUsed[breakers[h]]
             older == b.oldestHost = NoGetter \/ used < b.oldestUse
             c == [pc |-> "oldest", host |-> b.host, todo |-> b.todo \ {h},
                   oldestHost |-> IF older THEN h ELSE b.oldestHost,
                   oldestUse |-> IF older THEN used ELSE b.oldestUse]
  <2>1. /\ b.pc = "oldest" /\ h \in b.todo /\ getter' = [getter EXCEPT ![g] = c]
        /\ UNCHANGED <<breakers, lastUsed, newestUse, uses, regLock>>
    BY <1>7 DEF LoadUse
  <2>2. /\ b = [pc |-> "oldest", host |-> b.host, todo |-> b.todo,
                oldestHost |-> b.oldestHost, oldestUse |-> b.oldestUse]
        /\ b.host \in BreakerHosts
    BY <1>0, <2>1 DEF GetterShape
  <2>3. /\ c.pc = "oldest" /\ c.host = b.host /\ c.todo = b.todo \ {h}
        /\ c.oldestHost = (IF older THEN h ELSE b.oldestHost)
        /\ c.oldestUse = (IF older THEN used ELSE b.oldestUse)
        /\ c = [pc |-> "oldest", host |-> c.host, todo |-> c.todo,
                oldestHost |-> c.oldestHost, oldestUse |-> c.oldestUse]
    OBVIOUS
  <2>4. /\ regLock = g /\ b.host \notin DOMAIN breakers /\ Full(breakers) /\ b.todo \subseteq DOMAIN breakers
        /\ b.oldestHost = NoGetter => b.todo = DOMAIN breakers
        /\ b.oldestHost # NoGetter =>
             /\ b.oldestHost \in DOMAIN breakers \ b.todo
             /\ b.oldestUse \in 1..newestUse[breakers[b.oldestHost]]
             /\ \A k \in DOMAIN breakers \ b.todo :
                  k # b.oldestHost => newestUse[breakers[k]] > b.oldestUse
             /\ \A e \in DOMAIN lastUsed : lastUsed[e] = b.oldestUse => e = breakers[b.oldestHost]
             /\ \A k \in Getters : getter[k].pc = "store" => getter[k].use # b.oldestUse
    BY <1>0, <2>1 DEF EvictionIsSound
  <2>5. /\ h \in DOMAIN breakers /\ breakers[h] \in DOMAIN lastUsed /\ used \in Int
        /\ used \in 1..newestUse[breakers[h]] /\ newestUse[breakers[h]] >= used
        /\ \A k \in DOMAIN breakers : /\ breakers[k] \in DOMAIN lastUsed /\ newestUse[breakers[k]] \in Int
                                      /\ k # h => breakers[k] # breakers[h]
    BY <1>0, <2>1, <2>4 DEF EntriesAreKnown
  <2>6. /\ \A e \in DOMAIN lastUsed : lastUsed[e] = used => e = breakers[h]
        /\ \A k \in Getters : getter[k].pc = "store" => getter[k].use # used
    BY <1>0, <2>5 DEF UsesAreUnique
  <2>7. NoGetter # h /\ NoGetter \notin DOMAIN breakers
    BY <1>0, RegistryAssumption DEF EntriesAreKnown
  <2> HIDE DEF b, c, used
  <2>8. /\ c.oldestHost \in DOMAIN breakers \ c.todo /\ c.oldestUse \in 1..newestUse[breakers[c.oldestHost]]
        /\ \A k \in DOMAIN breakers \ c.todo :
             k # c.oldestHost => newestUse[breakers[k]] > c.oldestUse
        /\ \A e \in DOMAIN lastUsed : lastUsed[e] = c.oldestUse => e = breakers[c.oldestHost]
        /\ \A k \in Getters : getter[k].pc = "store" => getter[k].use # c.oldestUse
    <3>1. CASE b.oldestHost = NoGetter
      <4>1. c.oldestHost = h /\ c.oldestUse = used /\ c.todo = DOMAIN breakers \ {h}
        BY <2>3, <2>4, <3>1
      <4> QED BY <2>5, <2>6, <4>1
    <3>2. CASE b.oldestHost # NoGetter /\ used < b.oldestUse
      <4>1. c.oldestHost = h /\ c.oldestUse = used /\ c.todo = b.todo \ {h}
        BY <2>3, <3>2
      <4>2. b.oldestUse \in Int /\ newestUse[breakers[b.oldestHost]] >= b.oldestUse
        BY <2>4, <2>5, <3>2
      <4>3. ASSUME NEW k \in DOMAIN breakers \ c.todo, k # h PROVE newestUse[breakers[k]] > used
        <5>1. k \in DOMAIN breakers \ b.todo
          BY <4>1, <4>3
        <5>2. newestUse[breakers[k]] >= b.oldestUse
          BY <2>4, <2>5, <3>2, <4>2, <5>1
        <5> QED BY <2>5, <3>2, <4>2, <5>1, <5>2
      <4> QED BY <2>5, <2>6, <4>1, <4>3
    <3>3. CASE b.oldestHost # NoGetter /\ ~(used < b.oldestUse)
      <4>1. c.oldestHost = b.oldestHost /\ c.oldestUse = b.oldestUse /\ c.todo = b.todo \ {h}
        BY <2>3, <3>3
      <4>2. b.oldestUse \in Int /\ b.oldestHost # h /\ b.oldestHost \in DOMAIN breakers
        BY <2>1, <2>4, <2>5, <3>3
      <4>3. used # b.oldestUse
        BY <2>4, <2>5, <3>3, <4>2 DEF used
      <4>4. newestUse[breakers[h]] > b.oldestUse
        BY <2>5, <3>3, <4>2, <4>3
      <4>5. ASSUME NEW k \in DOMAIN breakers \ c.todo, k # b.oldestHost
            PROVE  newestUse[breakers[k]] > b.oldestUse
        BY <2>4, <3>3, <4>1, <4>4, <4>5
      <4> QED BY <2>4, <3>3, <4>1, <4>2, <4>5
    <3> QED BY <3>1, <3>2, <3>3
  <2>9. getter'[g] = c /\ \A k \in Getters \ {g} : getter'[k] = getter[k]
    BY <1>0, <2>1
  <2>10. EntriesAreKnown' /\ WithinCapacity'
    BY <1>0, <2>1 DEF EntriesAreKnown, WithinCapacity
  <2>11. UsesAreUnique'
    BY <1>0, <2>1, <2>3, <2>9 DEF UsesAreUnique
  <2>12. Full(breakers)' /\ \A k \in Getters : getter'[k].pc = "store" => getter'[k].use # c.oldestUse
    BY <2>1, <2>3, <2>4, <2>8, <2>9 DEF Full
  <2>13. c.todo \subseteq DOMAIN breakers /\ c.oldestHost # NoGetter /\ c.host \in BreakerHosts
    BY <2>2, <2>3, <2>4, <2>7, <2>8
  <2>14. GetterShape(g)' /\ EvictionIsSound(g)'
    BY <2>1, <2>3, <2>4, <2>8, <2>9, <2>12, <2>13 DEF GetterShape, EvictionIsSound
  <2>15. ASSUME NEW k \in Getters \ {g} PROVE GetterShape(k)' /\ EvictionIsSound(k)'
    <3>1. getter[k].pc \notin {"closed", "oldest"} /\ getter'[k] = getter[k]
      BY <2>4, <2>9, EvictsAlone
    <3>2. GetterShape(k)'
      BY <1>0, <2>1, <3>1 DEF GetterShape
    <3>3. EvictionIsSound(k)'
      BY <3>1 DEF EvictionIsSound
    <3> QED BY <3>2, <3>3
  <2> QED BY <1>0, <2>1, <2>10, <2>11, <2>14, <2>15 DEF RegistryInv
<1>8. ASSUME NEW g \in Getters, evictLeastRecentlyUsedLocked(g) PROVE RegistryInv'
  <2> DEFINE h == getter[g].host
             oldest == getter[g].oldestHost
             kept == Restrict(breakers, DOMAIN breakers \ {oldest})
  <2>1. /\ getter[g].pc = "oldest" /\ getter[g].todo = {} /\ Used(uses + 1)
        /\ breakers' = [k \in DOMAIN kept \union {h} |-> IF k = h THEN uses + 1 ELSE kept[k]]
        /\ getter' = [getter EXCEPT ![g] = Waiting]
    BY <1>8 DEF evictLeastRecentlyUsedLocked
  <2>2. /\ regLock = g /\ h \in BreakerHosts /\ h \notin DOMAIN breakers /\ Full(breakers)
        /\ oldest = NoGetter => DOMAIN breakers = {}
        /\ oldest # NoGetter => oldest \in DOMAIN breakers
    BY <1>0, <2>1 DEF GetterShape, EvictionIsSound
  <2>3. /\ DOMAIN kept = DOMAIN breakers \ {oldest}
        /\ \A k \in DOMAIN kept : kept[k] = breakers[k]
    BY DEF Restrict
  <2>4. IsFiniteSet(DOMAIN breakers) /\ Cardinality(DOMAIN breakers) \in Nat
    BY <1>0, FS_CardinalityType DEF EntriesAreKnown
  <2>5. oldest \in DOMAIN breakers
    <3>1. DOMAIN breakers # {}
      BY <2>2, FS_EmptySet, RegistryAssumption DEF Full
    <3> QED BY <2>2, <3>1
  <2>6. Cardinality(DOMAIN kept) = Cardinality(DOMAIN breakers) - 1
    BY <2>3, <2>4, <2>5, FS_RemoveElement
  <2>7. Cardinality(DOMAIN kept) < maxBreakers
    BY <1>0, <2>4, <2>6, RegistryAssumption DEF WithinCapacity
  <2> HIDE DEF kept, h, oldest
  <2> QED BY <2>1, <2>2, <2>3, <2>7, CreateStep
<1>9. CASE UNCHANGED <<breakers, lastUsed, newestUse, uses, regLock, getter>>
  <2>1. EntriesAreKnown' /\ UsesAreUnique' /\ WithinCapacity'
    BY <1>0, <1>9 DEF EntriesAreKnown, UsesAreUnique, WithinCapacity
  <2>2. ASSUME NEW g \in Getters PROVE GetterShape(g)' /\ EvictionIsSound(g)'
    BY <1>0, <1>9 DEF GetterShape, EvictionIsSound, Full
  <2> QED BY <1>0, <1>9, <2>1, <2>2 DEF RegistryInv
<1>10. ASSUME NEW e \in 1..MaxUses, BreakerFlips(e) PROVE RegistryInv'
  BY <1>9, <1>10 DEF BreakerFlips
<1>11. CASE UNCHANGED varsRegistry
  BY <1>9, <1>11 DEF varsRegistry
<1> QED
  BY <1>1, <1>2, <1>3, <1>4, <1>5, <1>6, <1>7, <1>8, <1>10, <1>11 DEF NextRegistry

\* Get and the evictions keep the registry within maxBreakers, and an open
\* breaker only goes when it is the least recently used of a full registry, for
\* any number of hosts and of concurrent calls.
THEOREM OpenBreakersAreKept == SpecRegistry => TrippedIsKept
<1>1. InitRegistry => RegistryInv
  <2> SUFFICES ASSUME InitRegistry PROVE RegistryInv
    OBVIOUS
  <2>1. DOMAIN breakers = {} /\ DOMAIN lastUsed = {} /\ DOMAIN newestUse = {} /\ uses = 0
    BY DEF InitRegistry
  <2>2. IsFiniteSet({}) /\ Cardinality({}) = 0
    BY FS_EmptySet
  <2>3. EntriesAreKnown /\ WithinCapacity
    BY <2>1, <2>2, RegistryAssumption DEF EntriesAreKnown, WithinCapacity
  <2>4. \A g \in Getters : getter[g] = Waiting /\ getter[g].pc = "idle"
    BY DEF InitRegistry, Waiting
  <2>5. UsesAreUnique /\ \A g \in Getters : GetterShape(g) /\ EvictionIsSound(g)
    BY <2>1, <2>4 DEF UsesAreUnique, GetterShape, EvictionIsSound
  <2>6. getter = [g \in Getters |-> getter[g]]
    BY DEF InitRegistry
  <2> QED BY <2>3, <2>5, <2>6 DEF RegistryInv
<1>2. RegistryInv => WithinCapacity
  BY DEF RegistryInv
<1>3. RegistryInv /\ [NextRegistry]_varsRegistry => [EvictionIsEarned]_varsRegistry
  <2> SUFFICES ASSUME RegistryInv, NextRegistry, NEW h \in DOMAIN breakers,
                      breakers[h] \in open, breakers[h] \notin Range(breakers')
               PROVE  \E g \in Getters :
                        /\ regLock = g /\ Full(breakers) /\ getter[g].host # h
                        /\ getter[g].oldestUse \in 1 .. newestUse[breakers[h]]
                        /\ \A k \in DOMAIN breakers \ {h} : newestUse[breakers[k]] > getter[g].oldestUse
    BY DEF EvictionIsEarned
  <2>1. breakers' # breakers /\ ~(h \in DOMAIN breakers' /\ breakers'[h] = breakers[h])
    BY DEF Range
  <2>2. ASSUME NEW g \in Getters, NEW k \in BreakerHosts, evictClosedLocked(g, k) PROVE FALSE
    <3>1. (k # h /\ breakers' = Restrict(breakers, DOMAIN breakers \ {k})) \/ breakers' = breakers
      BY <2>1, <2>2 DEF evictClosedLocked
    <3> QED BY <2>1, <3>1 DEF Restrict
  <2>3. ASSUME NEW g \in Getters, NEW k, k \notin DOMAIN breakers, Create(g, k) PROVE FALSE
    BY <2>1, <2>3 DEF Create
  <2>4. ASSUME NEW g \in Getters, EvictedClosed(g) PROVE FALSE
    <3>1. getter[g].pc = "closed" /\ getter[g].host \notin DOMAIN breakers
      BY <2>4 DEF RegistryInv, EvictedClosed, EvictionIsSound
    <3> QED BY <2>1, <2>3, <2>4, <3>1 DEF EvictedClosed
  <2>5. ASSUME NEW g \in Getters, Lock(g) PROVE FALSE
    BY <2>1, <2>3, <2>5 DEF Lock
  <2>6. PICK g \in Getters : evictLeastRecentlyUsedLocked(g)
    BY <2>1, <2>2, <2>4, <2>5
       DEF NextRegistry, Look, LoadUse, Touch, Touched, BreakerFlips
  <2> DEFINE oldest == getter[g].oldestHost
  <2>7. getter[g].pc = "oldest" /\ getter[g].todo = {}
    BY <2>6 DEF evictLeastRecentlyUsedLocked
  <2>8. /\ regLock = g /\ Full(breakers) /\ getter[g].host \notin DOMAIN breakers
        /\ oldest # NoGetter
        /\ getter[g].oldestUse \in 1..newestUse[breakers[oldest]]
        /\ \A k \in DOMAIN breakers : k # oldest => newestUse[breakers[k]] > getter[g].oldestUse
    BY <2>7 DEF RegistryInv, EvictionIsSound
  <2>9. h = oldest
    <3>1. h # oldest => h \in DOMAIN breakers' /\ breakers'[h] = breakers[h]
      BY <2>6, <2>8 DEF evictLeastRecentlyUsedLocked, Restrict
    <3> QED BY <2>1, <3>1
  <2> QED BY <2>8, <2>9
<1> QED BY <1>1, <1>2, <1>3, RegistryStep, PTL DEF SpecRegistry, TrippedIsKept

-----------------------------------------------------------------------------
(* RegistryAccess *)

\* Every method of Breaker maps breakers to breakers.
LEMMA BreakerTypes ==
    ASSUME NEW b \in BreakerType, NEW p \in Nat
    PROVE  /\ AcquireLocked(b).breaker \in BreakerType
           /\ AcquireLocked(b).permit \in Nat
           /\ AcquireLocked(b).allowed \in BOOLEAN
           /\ Succeeded(b, p) \in BreakerType
           /\ Failed(b, p) \in BreakerType
           /\ Release(b, p) \in BreakerType
           /\ Aged(b) \in BreakerType
<1> USE ThresholdAssumption, CooldownAssumption
    DEF BreakerType, circuitClosed, circuitOpen, circuitHalfOpen
<1>1. /\ AcquireLocked(b).breaker \in BreakerType
      /\ AcquireLocked(b).permit \in Nat
      /\ AcquireLocked(b).allowed \in BOOLEAN
  <2>1. CASE b.state = circuitOpen /\ b.age >= Cooldown
    <3>1. b.probe + 1 \in Nat
      OBVIOUS
    <3>2. [b EXCEPT !.state = circuitHalfOpen, !.probe = b.probe + 1] \in BreakerType
      BY <3>1
    <3> QED BY <2>1, <3>1, <3>2 DEF AcquireLocked
  <2>2. CASE ~(b.state = circuitOpen /\ b.age >= Cooldown)
    BY <2>2 DEF AcquireLocked, NoProbe
  <2> QED BY <2>1, <2>2
<1>2. RecordSuccess(b) \in BreakerType
  BY DEF RecordSuccess
<1>6. RecordFailure(b) \in BreakerType
  <2>1. b.consecutiveFailures + 1 \in Nat /\ 0 \in 0..Cooldown
    OBVIOUS
  <2> DEFINE st == IF b.consecutiveFailures + 1 >= Threshold
                   THEN circuitOpen ELSE b.state
  <2>2. st \in {circuitClosed, circuitOpen, circuitHalfOpen}
    OBVIOUS
  <2> HIDE DEF st
  <2>3. [b EXCEPT !.consecutiveFailures = b.consecutiveFailures + 1, !.age = 0,
                  !.state = st] \in BreakerType
    BY <2>1, <2>2
  <2> QED BY <2>3 DEF RecordFailure, st
<1>3. Succeeded(b, p) \in BreakerType /\ Failed(b, p) \in BreakerType
  BY <1>2, <1>6 DEF Succeeded, Failed
<1>4. Release(b, p) \in BreakerType
  BY DEF Release
<1>5. Aged(b) \in BreakerType
  BY DEF Aged
<1> QED BY <1>1, <1>3, <1>4, <1>5

\* Acquire issues a probe permit exactly when it makes the breaker half-open,
\* and then the permit is new; otherwise it leaves the breaker alone.
LEMMA AcquireFacts ==
    ASSUME NEW b \in BreakerType
    PROVE  LET got == AcquireLocked(b)
           IN  \/ /\ got.allowed
                  /\ got.permit = b.probe + 1
                  /\ got.breaker.probe = b.probe + 1
                  /\ got.breaker.state = circuitHalfOpen
                  /\ b.state = circuitOpen
                  /\ got.breaker.consecutiveFailures = b.consecutiveFailures
               \/ got.permit = NoProbe /\ got.breaker = b
  BY DEF BreakerType, AcquireLocked, NoProbe,
         circuitClosed, circuitOpen, circuitHalfOpen

\* Reporting an outcome keeps the probe number; a half-open breaker stays as it
\* is unless the reporter is the probe, which always takes it out of half-open.
LEMMA OutcomeFacts ==
    ASSUME NEW b \in BreakerType, NEW p \in Nat, Tripped(b),
           NEW c \in {Succeeded(b, p), Failed(b, p)}
    PROVE  /\ c.probe = b.probe
           /\ Tripped(c)
           /\ c.state = circuitHalfOpen =>
                b.state = circuitHalfOpen /\ ~IsProbe(b, p)
           /\ b.state = circuitHalfOpen /\ ~IsProbe(b, p) => c = b
<1> USE ThresholdAssumption
    DEF BreakerType, circuitClosed, circuitOpen, circuitHalfOpen
<1>1. /\ RecordSuccess(b).probe = b.probe
      /\ RecordSuccess(b).state = circuitClosed
  BY DEF RecordSuccess
<1>2. /\ RecordFailure(b).probe = b.probe
      /\ RecordFailure(b).consecutiveFailures = b.consecutiveFailures + 1
      /\ RecordFailure(b).state =
           IF b.consecutiveFailures + 1 >= Threshold THEN circuitOpen ELSE b.state
  BY DEF RecordFailure
<1>3. CASE c = b /\ ~decidesLocked(b, p)
  BY <1>3 DEF decidesLocked
<1>4. CASE c = RecordSuccess(b) /\ decidesLocked(b, p)
  BY <1>1, <1>4 DEF Tripped, decidesLocked
<1>5. CASE c = RecordFailure(b) /\ decidesLocked(b, p)
  BY <1>2, <1>5 DEF Tripped, decidesLocked
<1> QED
  BY <1>3, <1>4, <1>5 DEF Succeeded, Failed

\* Release keeps the probe number and the count; it ends half-open for the
\* probe and changes nothing for anyone else.
LEMMA ReleaseFacts ==
    ASSUME NEW b \in BreakerType, NEW p \in Nat, Tripped(b)
    PROVE  /\ Release(b, p).probe = b.probe
           /\ Tripped(Release(b, p))
           /\ Release(b, p).state = circuitHalfOpen =>
                b.state = circuitHalfOpen /\ ~IsProbe(b, p)
           /\ ~IsProbe(b, p) => Release(b, p) = b
  BY DEF BreakerType, Release, IsProbe, NoProbe, Tripped,
         circuitClosed, circuitOpen, circuitHalfOpen

\* Time only changes the age.
LEMMA AgedFacts ==
    ASSUME NEW b \in BreakerType
    PROVE  /\ Aged(b).probe = b.probe
           /\ Aged(b).state = b.state
           /\ Aged(b).consecutiveFailures = b.consecutiveFailures
  BY DEF BreakerType, Aged

-----------------------------------------------------------------------------

\* The inductive invariant: the probe bookkeeping of all breakers.
BreakerInv ==
    TypeOK /\ PermitsIssued /\ ProbeUnique /\ ProbeHeld /\ OnlyTrippedRefuse

\* A step that changes one host's breaker, by an outcome or a release of the
\* request r, to a breaker that stays half-open only if it was and r is not the
\* probe, keeps the probe bookkeeping.
LEMMA ReportStep ==
    ASSUME BreakerInv, NEW r \in Reqs, NEW c \in BreakerType, NEW label \in PCs,
           pc[r] \in {"fetch", "handback", "return"},
           label \in {"return", "done", "slots"},
           pc' = [pc EXCEPT ![r] = label],
           breaker' = [breaker EXCEPT ![HostOf[r]] = c],
           UNCHANGED <<permit, hostSem, fetchSem>>,
           c.probe = cb(r).probe,
           Tripped(c),
           c.state = circuitHalfOpen =>
               cb(r).state = circuitHalfOpen /\ ~IsProbe(cb(r), permit[r])
    PROVE  BreakerInv'
<1>1. TypeOK'
  BY HostOfAssumption DEF BreakerInv, TypeOK
<1>2. PermitsIssued'
  BY HostOfAssumption DEF BreakerInv, TypeOK, PermitsIssued, cb, BreakerType
<1>3. ProbeUnique'
  BY DEF BreakerInv, ProbeUnique
<1>4. OnlyTrippedRefuse'
  BY HostOfAssumption DEF BreakerInv, TypeOK, OnlyTrippedRefuse
<1>5. ProbeHeld'
  <2> SUFFICES ASSUME NEW h \in Hosts, breaker'[h].state = circuitHalfOpen
               PROVE  \E s \in Reqs : /\ HostOf[s] = h
                                      /\ Admitted(s)'
                                      /\ IsProbe(breaker'[h], permit'[s])
    BY DEF ProbeHeld
  <2>1. breaker[h].state = circuitHalfOpen
    BY HostOfAssumption DEF BreakerInv, TypeOK, cb
  <2>2. PICK s \in Reqs : /\ HostOf[s] = h
                          /\ Admitted(s)
                          /\ IsProbe(breaker[h], permit[s])
    BY <2>1 DEF BreakerInv, ProbeHeld
  <2>3. s # r
    BY <2>2 DEF BreakerInv, TypeOK, cb
  <2>4. Admitted(s)'
    BY <2>2, <2>3 DEF BreakerInv, TypeOK, Admitted
  <2>5. breaker'[h].probe = breaker[h].probe
    BY HostOfAssumption DEF BreakerInv, TypeOK, cb
  <2> QED
    BY <2>2, <2>4, <2>5 DEF IsProbe
<1> QED
  BY <1>1, <1>2, <1>3, <1>4, <1>5 DEF BreakerInv

\* A step that moves only the program counter of a request (and slots), from
\* and to labels that are not in the way of ProbeHeld, keeps it too.
LEMMA QuietStep ==
    ASSUME BreakerInv, NEW r \in Reqs, NEW label \in PCs,
           Admitted(r) => label \in {"host", "global", "handback", "fetch", "return"},
           label \in {"start", "lock"} => permit[r] = NoProbe,
           pc' = [pc EXCEPT ![r] = label],
           hostSem' \in [Hosts -> Nat], fetchSem' \in Nat,
           UNCHANGED <<breaker, permit>>
    PROVE  BreakerInv'
<1>1. TypeOK'
  BY DEF BreakerInv, TypeOK
<1>2. PermitsIssued'
  BY DEF BreakerInv, TypeOK, PermitsIssued, cb
<1>3. ProbeUnique' /\ OnlyTrippedRefuse'
  BY DEF BreakerInv, ProbeUnique, OnlyTrippedRefuse
<1>4. ASSUME NEW s \in Reqs, Admitted(s) PROVE Admitted(s)'
  BY <1>4 DEF BreakerInv, TypeOK, Admitted
<1>5. ProbeHeld'
  BY <1>4 DEF BreakerInv, ProbeHeld
<1> QED
  BY <1>1, <1>2, <1>3, <1>5 DEF BreakerInv
-----------------------------------------------------------------------------

\* Initially every breaker is new and nobody has a permit.
LEMMA InitBreakerInv == Init => BreakerInv
  BY HostOfAssumption, SlotsAssumption, CooldownAssumption
     DEF Init, BreakerInv, TypeOK, PCs, PermitsIssued, ProbeUnique, ProbeHeld,
         OnlyTrippedRefuse, Tripped, NewBreaker, BreakerType, NoProbe, cb,
         circuitClosed, circuitOpen, circuitHalfOpen

\* Every step of a request, and time, keep the probe bookkeeping.
LEMMA NextBreakerInv == BreakerInv /\ [Next]_vars => BreakerInv'
<1> SUFFICES ASSUME BreakerInv, [Next]_vars PROVE BreakerInv'
  OBVIOUS
<1> USE HostOfAssumption
<1>t. TypeOK
  BY DEF BreakerInv
<1>b. ASSUME NEW r \in Reqs
      PROVE  cb(r) \in BreakerType /\ permit[r] \in Nat /\ Tripped(cb(r))
  BY DEF BreakerInv, TypeOK, cb, OnlyTrippedRefuse
<1>1. ASSUME NEW r \in Reqs, AcquireFast(r) PROVE BreakerInv'
  <2>1. permit[r] = NoProbe /\ ~Admitted(r)
    BY <1>1 DEF AcquireFast, BreakerInv, PermitsIssued, Admitted
  <2> DEFINE label == IF cb(r).state = circuitClosed THEN "host" ELSE "lock"
  <2>2. label \in PCs
    BY DEF PCs
  <2>3. pc' = [pc EXCEPT ![r] = label] /\ UNCHANGED <<breaker, permit, hostSem, fetchSem>>
    BY <1>1 DEF AcquireFast, Goto
  <2> HIDE DEF label
  <2> QED
    BY <1>t, <2>1, <2>2, <2>3, QuietStep DEF TypeOK
<1>2. ASSUME NEW r \in Reqs, AcquireSlow(r) PROVE BreakerInv'
  <2> DEFINE got == AcquireLocked(cb(r))
             label == IF got.allowed THEN "host" ELSE "refused"
  <2>1. /\ pc[r] = "lock"
        /\ breaker' = [breaker EXCEPT ![HostOf[r]] = got.breaker]
        /\ permit' = [permit EXCEPT ![r] = got.permit]
        /\ pc' = [pc EXCEPT ![r] = label]
        /\ UNCHANGED <<hostSem, fetchSem>>
    BY <1>2 DEF AcquireSlow, SetBreaker, Goto
  <2>2. /\ got.breaker \in BreakerType
        /\ got.permit \in Nat
    BY <1>b, BreakerTypes
  <2>3. label \in PCs
    BY DEF PCs
  <2>4. permit[r] = NoProbe /\ ~Admitted(r)
    BY <2>1 DEF BreakerInv, PermitsIssued, Admitted
  <2>5. \/ /\ label = "host"
           /\ got.permit = cb(r).probe + 1
           /\ got.breaker.probe = cb(r).probe + 1
           /\ got.breaker.state = circuitHalfOpen
           /\ cb(r).state = circuitOpen
           /\ got.breaker.consecutiveFailures = cb(r).consecutiveFailures
        \/ got.permit = NoProbe /\ got.breaker = cb(r)
    BY <1>b, AcquireFacts
  <2> HIDE DEF got, label
  <2>6. TypeOK'
    BY <1>t, <2>1, <2>2, <2>3 DEF TypeOK
  <2>7. CASE got.permit = NoProbe /\ got.breaker = cb(r)
    <3>1. breaker' = breaker /\ permit' = permit
      BY <1>t, <2>1, <2>4, <2>7 DEF TypeOK, cb
    <3>2. \A s \in Reqs : Admitted(s) => Admitted(s)'
      BY <1>t, <2>1, <2>4 DEF TypeOK, Admitted
    <3>3. PermitsIssued' /\ ProbeUnique' /\ OnlyTrippedRefuse'
      BY <1>t, <2>1, <2>3, <2>4, <3>1
         DEF BreakerInv, TypeOK, PermitsIssued, ProbeUnique, OnlyTrippedRefuse, cb
    <3>4. ProbeHeld'
      BY <3>1, <3>2 DEF BreakerInv, ProbeHeld
    <3> QED
      BY <2>6, <3>3, <3>4 DEF BreakerInv
  <2>8. CASE /\ label = "host"
             /\ got.permit = cb(r).probe + 1
             /\ got.breaker.probe = cb(r).probe + 1
             /\ got.breaker.state = circuitHalfOpen
             /\ cb(r).state = circuitOpen
             /\ got.breaker.consecutiveFailures = cb(r).consecutiveFailures
    <3>1. /\ breaker'[HostOf[r]] = got.breaker
          /\ \A h \in Hosts \ {HostOf[r]} : breaker'[h] = breaker[h]
          /\ permit'[r] = cb(r).probe + 1
          /\ \A s \in Reqs \ {r} : permit'[s] = permit[s]
          /\ pc'[r] = "host"
          /\ \A s \in Reqs \ {r} : pc'[s] = pc[s]
      BY <1>t, <2>1, <2>8 DEF TypeOK
    <3>2. \A s \in Reqs : HostOf[s] = HostOf[r] => permit[s] <= cb(r).probe
      BY DEF BreakerInv, PermitsIssued, cb
    <3>3. cb(r).probe \in Nat /\ \A s \in Reqs : permit[s] \in Nat
      BY <1>t, <1>b DEF TypeOK, BreakerType
    <3>4. PermitsIssued'
      BY <2>8, <3>1, <3>2, <3>3 DEF BreakerInv, PermitsIssued, cb
    <3>5. ProbeUnique'
      BY <3>1, <3>2, <3>3 DEF BreakerInv, ProbeUnique
    <3>6. OnlyTrippedRefuse'
      <4>1. cb(r).consecutiveFailures >= Threshold
        BY <1>b, <2>8 DEF Tripped, circuitClosed, circuitOpen
      <4> QED
        BY <2>8, <3>1, <4>1 DEF BreakerInv, OnlyTrippedRefuse, Tripped
    <3>7. ProbeHeld'
      <4> SUFFICES ASSUME NEW h \in Hosts, breaker'[h].state = circuitHalfOpen
                   PROVE  \E s \in Reqs : /\ HostOf[s] = h
                                          /\ Admitted(s)'
                                          /\ IsProbe(breaker'[h], permit'[s])
        BY DEF ProbeHeld
      <4>1. CASE h = HostOf[r]
        BY <2>8, <3>1, <3>3, <4>1 DEF Admitted, IsProbe, NoProbe
      <4>2. CASE h # HostOf[r]
        <5>1. PICK s \in Reqs : /\ HostOf[s] = h
                                /\ Admitted(s)
                                /\ IsProbe(breaker[h], permit[s])
          BY <3>1, <4>2 DEF BreakerInv, ProbeHeld
        <5>2. s # r
          BY <4>2, <5>1
        <5> QED
          BY <3>1, <4>2, <5>1, <5>2 DEF Admitted
      <4> QED
        BY <4>1, <4>2
    <3> QED
      BY <2>6, <3>4, <3>5, <3>6, <3>7 DEF BreakerInv
  <2> QED
    BY <2>5, <2>7, <2>8
<1>3. ASSUME NEW r \in Reqs, TakeHostSlot(r) PROVE BreakerInv'
  <2>1. hostSem[HostOf[r]] - 1 \in Nat /\ "global" \in PCs /\ Admitted(r)
    BY <1>t, <1>3 DEF TypeOK, TakeHostSlot, PCs, Admitted
  <2>2. hostSem' \in [Hosts -> Nat] /\ fetchSem' \in Nat
    BY <1>t, <1>3, <2>1 DEF TypeOK, TakeHostSlot
  <2> QED
    BY <1>3, <2>1, <2>2, QuietStep DEF TakeHostSlot, Goto
<1>4. ASSUME NEW r \in Reqs, TakeFetchSlot(r) PROVE BreakerInv'
  <2>1. fetchSem - 1 \in Nat /\ "fetch" \in PCs
    BY <1>t, <1>4 DEF TypeOK, TakeFetchSlot, PCs
  <2> QED
    BY <1>t, <1>4, <2>1, QuietStep DEF TypeOK, TakeFetchSlot, Goto
<1>5. ASSUME NEW r \in Reqs, SlotRefused(r) PROVE BreakerInv'
  <2>1. hostSem[HostOf[r]] + 1 \in Nat /\ "handback" \in PCs
    BY <1>t DEF TypeOK, PCs
  <2>2. hostSem' \in [Hosts -> Nat] /\ fetchSem' \in Nat
    BY <1>t, <1>5, <2>1 DEF TypeOK, SlotRefused
  <2> QED
    BY <1>5, <2>1, <2>2, QuietStep DEF SlotRefused, Goto
<1>6. ASSUME NEW r \in Reqs, HandBack(r) PROVE BreakerInv'
  <2>1. Release(cb(r), permit[r]) \in BreakerType /\ "done" \in PCs
    BY <1>b, BreakerTypes DEF PCs
  <2> QED
    BY <1>6, <1>b, <2>1, ReleaseFacts, ReportStep DEF HandBack, SetBreaker, Goto
<1>7. ASSUME NEW r \in Reqs, FetchSucceeded(r) PROVE BreakerInv'
  <2>1. Succeeded(cb(r), permit[r]) \in BreakerType /\ "return" \in PCs
    BY <1>b, BreakerTypes DEF PCs
  <2> QED
    BY <1>7, <1>b, <2>1, OutcomeFacts, ReportStep DEF FetchSucceeded, SetBreaker, Goto
<1>8. ASSUME NEW r \in Reqs, FetchFailed(r) PROVE BreakerInv'
  <2>1. Failed(cb(r), permit[r]) \in BreakerType /\ "return" \in PCs
    BY <1>b, BreakerTypes DEF PCs
  <2> QED
    BY <1>8, <1>b, <2>1, OutcomeFacts, ReportStep DEF FetchFailed, SetBreaker, Goto
<1>9. ASSUME NEW r \in Reqs, FetchPanics(r) PROVE BreakerInv'
  <2>1. "return" \in PCs
    BY DEF PCs
  <2> QED
    BY <1>t, <1>9, <2>1, QuietStep DEF TypeOK, FetchPanics, Goto
<1>10. ASSUME NEW r \in Reqs, DeferredRelease(r) PROVE BreakerInv'
  <2>1. Release(cb(r), permit[r]) \in BreakerType /\ "slots" \in PCs
    BY <1>b, BreakerTypes DEF PCs
  <2> QED
    BY <1>10, <1>b, <2>1, ReleaseFacts, ReportStep DEF DeferredRelease, SetBreaker, Goto
<1>11. ASSUME NEW r \in Reqs, ReleaseSlots(r) PROVE BreakerInv'
  <2>1. hostSem[HostOf[r]] + 1 \in Nat /\ "done" \in PCs /\ ~Admitted(r)
    BY <1>t, <1>11 DEF TypeOK, PCs, ReleaseSlots, Admitted
  <2>2. hostSem' \in [Hosts -> Nat] /\ fetchSem' \in Nat
    BY <1>t, <1>11, <2>1 DEF TypeOK, ReleaseSlots
  <2> QED
    BY <1>11, <2>1, <2>2, QuietStep DEF ReleaseSlots, Goto
<1>12. ASSUME Tick PROVE BreakerInv'
  <2>1. \A h \in Hosts : /\ breaker'[h] \in BreakerType
                         /\ breaker'[h].probe = breaker[h].probe
                         /\ breaker'[h].state = breaker[h].state
                         /\ breaker'[h].consecutiveFailures
                              = breaker[h].consecutiveFailures
    BY <1>t, <1>12, BreakerTypes, AgedFacts DEF Tick, TypeOK
  <2>2. UNCHANGED <<pc, permit, hostSem, fetchSem>>
    BY <1>12 DEF Tick
  <2>3. TypeOK'
    BY <1>t, <1>12, <2>1, <2>2 DEF TypeOK, Tick
  <2>4. PermitsIssued' /\ ProbeUnique'
    BY <2>1, <2>2 DEF BreakerInv, PermitsIssued, ProbeUnique, cb
  <2>5. OnlyTrippedRefuse'
    BY <2>1 DEF BreakerInv, OnlyTrippedRefuse, Tripped
  <2>6. ProbeHeld'
    BY <2>1, <2>2 DEF BreakerInv, ProbeHeld, IsProbe, Admitted
  <2> QED
    BY <2>3, <2>4, <2>5, <2>6 DEF BreakerInv
<1>13. CASE UNCHANGED vars
  BY <1>13 DEF vars, BreakerInv, TypeOK, PermitsIssued, ProbeUnique, ProbeHeld,
               OnlyTrippedRefuse, cb, Admitted
<1> QED
  BY <1>1, <1>2, <1>3, <1>4, <1>5, <1>6, <1>7, <1>8, <1>9, <1>10, <1>11, <1>12,
     <1>13 DEF Next, Progress

-----------------------------------------------------------------------------

\* The bookkeeping of probes and permits holds in every reachable state.
THEOREM BreakerSafety == Spec => []BreakerInv
  BY InitBreakerInv, NextBreakerInv, PTL DEF Spec

\* Values keep their types: permits and slots never go negative.
THEOREM RegistryAccessTypes == Spec => []TypeOK
<1>1. BreakerInv => TypeOK
  BY DEF BreakerInv
<1> QED
  BY BreakerSafety, <1>1, PTL

\* A half-open breaker always has a running request that holds its probe and
\* will hand it back, whatever is refused, cancelled, late or panicking.
THEOREM HalfOpenIsHeld == Spec => []ProbeHeld
<1>1. BreakerInv => ProbeHeld
  BY DEF BreakerInv
<1> QED
  BY BreakerSafety, <1>1, PTL

\* At most one request per host can decide a half-open breaker.
THEOREM ProbesAreUnique == Spec => []ProbeUnique
<1>1. BreakerInv => ProbeUnique
  BY DEF BreakerInv
<1> QED
  BY BreakerSafety, <1>1, PTL

\* Only a breaker with Threshold failures in a row turns requests away.
THEOREM RefusalsAreEarned == Spec => []OnlyTrippedRefuse
<1>1. BreakerInv => OnlyTrippedRefuse
  BY DEF BreakerInv
<1> QED
  BY BreakerSafety, <1>1, PTL

\* No step of another request, and no passing of time, takes a breaker out of
\* half-open: that is left to the request that holds the probe.
THEOREM ProbeDecidesAlone == Spec => OnlyProbeDecides
<1>1. BreakerInv /\ [Next]_vars => [ProbeDecides]_vars
  <2> SUFFICES ASSUME BreakerInv, Next, NEW h \in Hosts,
                      breaker[h].state = circuitHalfOpen,
                      breaker'[h].state # circuitHalfOpen
               PROVE  \E r \in Reqs : /\ HostOf[r] = h
                                      /\ IsProbe(breaker[h], permit[r])
                                      /\ pc'[r] # pc[r]
    BY DEF ProbeDecides
  <2> USE HostOfAssumption
  <2>t. TypeOK
    BY DEF BreakerInv
  <2>b. ASSUME NEW r \in Reqs
        PROVE  cb(r) \in BreakerType /\ permit[r] \in Nat /\ Tripped(cb(r))
    BY DEF BreakerInv, TypeOK, cb, OnlyTrippedRefuse
  <2>1. ~Tick
    BY <2>t, AgedFacts DEF Tick, TypeOK
  <2>2. PICK r \in Reqs : Progress(r) \/ SlotRefused(r)
    BY <2>1 DEF Next
  <2>3. ~AcquireSlow(r)
    <3> SUFFICES ASSUME AcquireSlow(r) PROVE FALSE
      OBVIOUS
    <3>1. breaker' = [breaker EXCEPT ![HostOf[r]] = AcquireLocked(cb(r)).breaker]
      BY DEF AcquireSlow, SetBreaker
    <3>2. cb(r).state = circuitHalfOpen => AcquireLocked(cb(r)).breaker = cb(r)
      BY <2>b, AcquireFacts DEF circuitOpen, circuitHalfOpen
    <3> QED
      BY <2>t, <3>1, <3>2 DEF TypeOK, cb
  <2>4. ASSUME HandBack(r) \/ DeferredRelease(r)
        PROVE  HostOf[r] = h /\ IsProbe(breaker[h], permit[r]) /\ pc'[r] # pc[r]
    <3>1. breaker' = [breaker EXCEPT ![HostOf[r]] = Release(cb(r), permit[r])]
      BY <2>4 DEF HandBack, DeferredRelease, SetBreaker
    <3>2. HostOf[r] = h /\ IsProbe(breaker[h], permit[r])
      BY <2>t, <2>b, <3>1, ReleaseFacts DEF TypeOK, cb
    <3> QED
      BY <2>t, <2>4, <3>2 DEF TypeOK, HandBack, DeferredRelease, Goto
  <2>5. ASSUME FetchSucceeded(r) \/ FetchFailed(r)
        PROVE  HostOf[r] = h /\ IsProbe(breaker[h], permit[r]) /\ pc'[r] # pc[r]
    <3>1. PICK c \in {Succeeded(cb(r), permit[r]), Failed(cb(r), permit[r])} :
             breaker' = [breaker EXCEPT ![HostOf[r]] = c]
      BY <2>5 DEF FetchSucceeded, FetchFailed, SetBreaker
    <3>2. HostOf[r] = h /\ IsProbe(breaker[h], permit[r])
      BY <2>t, <2>b, <3>1, OutcomeFacts DEF TypeOK, cb
    <3> QED
      BY <2>t, <2>5, <3>2 DEF TypeOK, FetchSucceeded, FetchFailed, Goto
  <2> QED
    BY <2>2, <2>3, <2>4, <2>5
       DEF Progress, AcquireFast, TakeHostSlot, TakeFetchSlot, SlotRefused,
           FetchPanics, ReleaseSlots
<1> QED
  BY BreakerSafety, <1>1, PTL DEF Spec, OnlyProbeDecides

-----------------------------------------------------------------------------
(* The semaphores *)

FetchHolders == {r \in Reqs : HoldsFetchSlot(r)}
HostHolders(h) == {r \in Reqs : HostOf[r] = h /\ HoldsHostSlot(r)}

FetchLabels == {"fetch", "return", "slots"}
HostLabels == FetchLabels \cup {"global"}

\* The holders are finitely many, and one more or one less counts as such.
LEMMA HoldersCount ==
    ASSUME NEW S \in SUBSET Reqs, NEW r \in Reqs
    PROVE  /\ Cardinality(S) \in Nat
           /\ r \notin S => Cardinality(S \cup {r}) = Cardinality(S) + 1
           /\ r \in S => Cardinality(S \ {r}) = Cardinality(S) - 1
<1>1. IsFiniteSet(S)
  BY RequestsAssumption, FS_Subset
<1>2. Cardinality(S) \in Nat
  BY <1>1, FS_CardinalityType
<1>3. ASSUME r \notin S PROVE Cardinality(S \cup {r}) = Cardinality(S) + 1
  BY <1>1, <1>3, FS_AddElement
<1>4. ASSUME r \in S PROVE Cardinality(S \ {r}) = Cardinality(S) - 1
  BY <1>1, <1>4, FS_RemoveElement
<1> QED BY <1>2, <1>3, <1>4

\* A request that moves joins or leaves the holders of its host's slots and of
\* the global ones, and nobody else does.
LEMMA HoldersMove ==
    ASSUME TypeOK, NEW r \in Reqs, NEW label, pc' = [pc EXCEPT ![r] = label]
    PROVE  /\ FetchHolders' = IF label \in FetchLabels THEN FetchHolders \cup {r} ELSE FetchHolders \ {r}
           /\ HostHolders(HostOf[r])' =
                IF label \in HostLabels THEN HostHolders(HostOf[r]) \cup {r}
                ELSE HostHolders(HostOf[r]) \ {r}
           /\ \A h \in Hosts \ {HostOf[r]} : HostHolders(h)' = HostHolders(h)
<1>1. pc'[r] = label /\ \A s \in Reqs : s # r => pc'[s] = pc[s]
  BY DEF TypeOK
<1>2. FetchHolders' = IF label \in FetchLabels THEN FetchHolders \cup {r} ELSE FetchHolders \ {r}
  BY <1>1 DEF FetchHolders, HoldsFetchSlot, FetchLabels
<1>3. HostHolders(HostOf[r])' =
        IF label \in HostLabels THEN HostHolders(HostOf[r]) \cup {r} ELSE HostHolders(HostOf[r]) \ {r}
  BY <1>1 DEF HostHolders, HoldsHostSlot, HostLabels, FetchLabels
<1>4. ASSUME NEW h \in Hosts \ {HostOf[r]} PROVE HostHolders(h)' = HostHolders(h)
  BY <1>1, <1>4 DEF HostHolders, HoldsHostSlot
<1> QED BY <1>2, <1>3, <1>4

\* What SlotsConserved says, for the sets of holders.
LEMMA SlotsByHolders ==
    SlotsConserved <=> /\ fetchSem + Cardinality(FetchHolders) = FetchSlots
                       /\ \A h \in Hosts : hostSem[h] + Cardinality(HostHolders(h)) = HostSlots
BY DEF SlotsConserved, FetchHolders, HostHolders

\* A step that takes or returns as many slots of each kind as its request comes
\* to hold more or less keeps the account.
LEMMA SlotsMove ==
    ASSUME TypeOK, SlotsConserved, NEW r \in Reqs, NEW label, pc' = [pc EXCEPT ![r] = label],
           fetchSem' = IF label \in FetchLabels
                       THEN IF pc[r] \in FetchLabels THEN fetchSem ELSE fetchSem - 1
                       ELSE IF pc[r] \in FetchLabels THEN fetchSem + 1 ELSE fetchSem,
           hostSem' = [hostSem EXCEPT ![HostOf[r]] =
                         IF label \in HostLabels
                         THEN IF pc[r] \in HostLabels THEN @ ELSE @ - 1
                         ELSE IF pc[r] \in HostLabels THEN @ + 1 ELSE @]
    PROVE  SlotsConserved'
<1> USE HostOfAssumption
<1> DEFINE F == FetchHolders
           H == HostHolders(HostOf[r])
<1>1. F \in SUBSET Reqs /\ H \in SUBSET Reqs
  BY DEF FetchHolders, HostHolders
<1>2. r \in F <=> pc[r] \in FetchLabels
  BY DEF FetchHolders, HoldsFetchSlot, FetchLabels
<1>3. r \in H <=> pc[r] \in HostLabels
  BY DEF HostHolders, HoldsHostSlot, HostLabels, FetchLabels
<1>4. fetchSem \in Nat /\ hostSem[HostOf[r]] \in Nat
  BY DEF TypeOK
<1>5. /\ F' = IF label \in FetchLabels THEN F \cup {r} ELSE F \ {r}
      /\ H' = IF label \in HostLabels THEN H \cup {r} ELSE H \ {r}
      /\ \A h \in Hosts \ {HostOf[r]} : HostHolders(h)' = HostHolders(h)
  BY HoldersMove
<1>6. fetchSem + Cardinality(F) = FetchSlots /\ hostSem[HostOf[r]] + Cardinality(H) = HostSlots
  BY SlotsByHolders
<1> HIDE DEF F, H
<1>7. fetchSem' + Cardinality(F') = FetchSlots
  <2>1. CASE r \in F <=> label \in FetchLabels
    <3>1. F' = F /\ fetchSem' = fetchSem
      BY <1>2, <1>5, <2>1
    <3> QED BY <1>6, <3>1
  <2>2. CASE r \notin F /\ label \in FetchLabels
    <3>1. F' = F \cup {r} /\ fetchSem' = fetchSem - 1
      BY <1>2, <1>5, <2>2
    <3>2. Cardinality(F) \in Nat /\ Cardinality(F \cup {r}) = Cardinality(F) + 1
      BY <1>1, <2>2, HoldersCount
    <3> QED BY <1>4, <1>6, <3>1, <3>2
  <2>3. CASE r \in F /\ label \notin FetchLabels
    <3>1. F' = F \ {r} /\ fetchSem' = fetchSem + 1
      BY <1>2, <1>5, <2>3
    <3>2. Cardinality(F) \in Nat /\ Cardinality(F \ {r}) = Cardinality(F) - 1
      BY <1>1, <2>3, HoldersCount
    <3> QED BY <1>4, <1>6, <3>1, <3>2
  <2> QED BY <2>1, <2>2, <2>3
<1>8. hostSem'[HostOf[r]] + Cardinality(H') = HostSlots
  <2>1. CASE r \in H <=> label \in HostLabels
    <3>1. H' = H /\ hostSem'[HostOf[r]] = hostSem[HostOf[r]]
      BY <1>3, <1>5, <2>1 DEF TypeOK
    <3> QED BY <1>6, <3>1
  <2>2. CASE r \notin H /\ label \in HostLabels
    <3>1. H' = H \cup {r} /\ hostSem'[HostOf[r]] = hostSem[HostOf[r]] - 1
      BY <1>3, <1>5, <2>2 DEF TypeOK
    <3>2. Cardinality(H) \in Nat /\ Cardinality(H \cup {r}) = Cardinality(H) + 1
      BY <1>1, <2>2, HoldersCount
    <3> QED BY <1>4, <1>6, <3>1, <3>2
  <2>3. CASE r \in H /\ label \notin HostLabels
    <3>1. H' = H \ {r} /\ hostSem'[HostOf[r]] = hostSem[HostOf[r]] + 1
      BY <1>3, <1>5, <2>3 DEF TypeOK
    <3>2. Cardinality(H) \in Nat /\ Cardinality(H \ {r}) = Cardinality(H) - 1
      BY <1>1, <2>3, HoldersCount
    <3> QED BY <1>4, <1>6, <3>1, <3>2
  <2> QED BY <2>1, <2>2, <2>3
<1>9. ASSUME NEW h \in Hosts \ {HostOf[r]}
      PROVE  hostSem'[h] + Cardinality(HostHolders(h)') = HostSlots
  <2>1. hostSem'[h] = hostSem[h]
    BY <1>9 DEF TypeOK
  <2> QED BY <1>5, <1>9, <2>1, SlotsByHolders
<1>10. fetchSem' + Cardinality(FetchHolders') = FetchSlots
  BY <1>7 DEF F
<1>11. \A h \in Hosts : hostSem'[h] + Cardinality(HostHolders(h)') = HostSlots
  BY <1>8, <1>9 DEF H
<1> QED BY <1>10, <1>11 DEF SlotsConserved, FetchHolders, HostHolders

\* Every way a request leaves a state returns the slots it stops holding.
LEMMA SlotsStep == TypeOK /\ SlotsConserved /\ [Next]_vars => SlotsConserved'
<1> SUFFICES ASSUME TypeOK, SlotsConserved, [Next]_vars PROVE SlotsConserved'
  OBVIOUS
<1> USE HostOfAssumption DEF Goto, FetchLabels, HostLabels
<1>0. \A r \in Reqs : hostSem = [hostSem EXCEPT ![HostOf[r]] = hostSem[HostOf[r]]]
  BY DEF TypeOK
<1>1. ASSUME NEW r \in Reqs, AcquireFast(r) PROVE SlotsConserved'
  BY <1>0, <1>1, SlotsMove DEF AcquireFast
<1>2. ASSUME NEW r \in Reqs, AcquireSlow(r) PROVE SlotsConserved'
  BY <1>0, <1>2, SlotsMove DEF AcquireSlow
<1>3. ASSUME NEW r \in Reqs, TakeHostSlot(r) PROVE SlotsConserved'
  BY <1>3, SlotsMove DEF TakeHostSlot
<1>4. ASSUME NEW r \in Reqs, TakeFetchSlot(r) PROVE SlotsConserved'
  BY <1>0, <1>4, SlotsMove DEF TakeFetchSlot
<1>5. ASSUME NEW r \in Reqs, SlotRefused(r) PROVE SlotsConserved'
  BY <1>0, <1>5, SlotsMove DEF SlotRefused
<1>6. ASSUME NEW r \in Reqs, HandBack(r) PROVE SlotsConserved'
  BY <1>0, <1>6, SlotsMove DEF HandBack
<1>7. ASSUME NEW r \in Reqs, FetchSucceeded(r) \/ FetchFailed(r) \/ FetchPanics(r) PROVE SlotsConserved'
  BY <1>0, <1>7, SlotsMove DEF FetchSucceeded, FetchFailed, FetchPanics
<1>8. ASSUME NEW r \in Reqs, DeferredRelease(r) PROVE SlotsConserved'
  BY <1>0, <1>8, SlotsMove DEF DeferredRelease
<1>9. ASSUME NEW r \in Reqs, ReleaseSlots(r) PROVE SlotsConserved'
  BY <1>9, SlotsMove DEF ReleaseSlots
<1>10. CASE Tick \/ UNCHANGED vars
  BY <1>10 DEF Tick, vars, SlotsConserved, HoldsFetchSlot, HoldsHostSlot
<1> QED
  BY <1>1, <1>2, <1>3, <1>4, <1>5, <1>6, <1>7, <1>8, <1>9, <1>10 DEF Next, Progress

\* Whatever is refused, cancelled, fails or panics, and however many requests run
\* at once, the free slots and the slots in use always add up to the limits of
\* acquireFetchSlots: none is leaked, none is returned twice.
THEOREM SlotsAreConserved == Spec => []SlotsConserved
<1>1. Init => SlotsConserved
  <2> SUFFICES ASSUME Init PROVE SlotsConserved
    OBVIOUS
  <2>1. FetchHolders = {} /\ \A h \in Hosts : HostHolders(h) = {}
    BY DEF Init, FetchHolders, HostHolders, HoldsFetchSlot, HoldsHostSlot
  <2>2. Cardinality({}) = 0
    BY FS_EmptySet
  <2> QED BY <2>1, <2>2, SlotsByHolders, SlotsAssumption DEF Init
<1>2. BreakerInv => TypeOK
  BY DEF BreakerInv
<1> QED BY <1>1, <1>2, BreakerSafety, SlotsStep, PTL DEF Spec
=============================================================================
