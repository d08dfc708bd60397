--------------------------- MODULE BreakerRegistry ---------------------------
(* The registry of circuit breakers (internal/circuit/circuit.go): Get by    *)
(* concurrent verifications, and the evictions of a full registry while      *)
(* breakers open and close. An entry is named by its first use, which no     *)
(* two entries share. Breaker has what a breaker does.                       *)
EXTENDS Integers, FiniteSetsExt, Functions

CONSTANTS BreakerHosts,
          Getters,      \* goroutines that call Get
          maxBreakers,
          MaxUses,      \* bound on the calls of Get
          NoGetter      \* the lock is free

ASSUME RegistryAssumption ==
    maxBreakers \in Nat \ {0} /\ NoGetter \notin Getters \union BreakerHosts

VARIABLES breakers,     \* Registry.breakers: the entry of each host in the map
          lastUsed,     \* registryEntry.lastUsed of every entry that was created
          newestUse,    \* the highest use stored in it so far
          open,         \* the entries whose breaker is not closed
          uses,         \* Registry.clock
          regLock,      \* who holds Registry.mu for writing
          getter        \* where each call of Get stands

varsRegistry == <<breakers, lastUsed, newestUse, open, uses, regLock, getter>>

Waiting == [pc |-> "idle"]

InitRegistry ==
    /\ breakers = <<>> /\ lastUsed = <<>> /\ newestUse = <<>> /\ open = {} /\ uses = 0
    /\ regLock = NoGetter
    /\ getter = [g \in Getters |-> Waiting]

Full(table) == Cardinality(DOMAIN table) >= maxBreakers

\* entry.lastUsed.Store(use), for an entry or for a new one.
StoreUse(entry, use) ==
    /\ lastUsed' = [e \in DOMAIN lastUsed \union {entry} |-> IF e = entry THEN use ELSE lastUsed[e]]
    /\ newestUse' = [e \in DOMAIN lastUsed' |->
                      IF e = entry THEN Max({use} \union (IF e \in DOMAIN newestUse THEN {newestUse[e]} ELSE {}))
                      ELSE newestUse[e]]

\* entry.lastUsed.Store(r.clock.Add(1)) under the write lock.
Used(entry) == uses' = uses + 1 /\ StoreUse(entry, uses + 1)

\* Get looks under the read lock; calls that will be counted bound the model.
Look(g, h) ==
    /\ getter[g] = Waiting /\ regLock = NoGetter
    /\ uses + Cardinality({k \in Getters : getter[k].pc \notin {"idle", "store"}}) < MaxUses
    /\ getter' = [getter EXCEPT ![g] = IF h \in DOMAIN breakers
                                       THEN [pc |-> "touch", entry |-> breakers[h]]
                                       ELSE [pc |-> "missed", host |-> h]]
    /\ UNCHANGED <<breakers, lastUsed, newestUse, open, uses, regLock>>

\* The use is counted after the lock was released,
Touch(g) ==
    /\ getter[g].pc = "touch"
    /\ uses' = uses + 1
    /\ getter' = [getter EXCEPT ![g] = [pc |-> "store", entry |-> @.entry, use |-> uses + 1]]
    /\ UNCHANGED <<breakers, lastUsed, newestUse, open, regLock>>

\* and stored, which may come after the store of a later use, and Get returns.
Touched(g) ==
    /\ getter[g].pc = "store"
    /\ StoreUse(getter[g].entry, getter[g].use)
    /\ getter' = [getter EXCEPT ![g] = Waiting]
    /\ UNCHANGED <<breakers, open, uses, regLock>>

\* A new entry for the host, and Get returns.
Create(g, h) ==
    /\ Used(uses + 1)
    /\ breakers' = [k \in DOMAIN breakers \union {h} |-> IF k = h THEN uses + 1 ELSE breakers[k]]
    /\ regLock' = NoGetter
    /\ getter' = [getter EXCEPT ![g] = Waiting]
    /\ UNCHANGED open

\* Mutant: Get does not look again once it has the lock.
Lock_Unchecked(g) ==
    LET h == getter[g].host
    IN  /\ getter[g].pc = "missed" /\ regLock = NoGetter
        /\ IF Full(breakers)
           THEN /\ regLock' = g
                /\ getter' = [getter EXCEPT ![g] = [pc |-> "closed", host |-> h,
                                                    todo |-> DOMAIN breakers]]
                /\ UNCHANGED <<breakers, lastUsed, newestUse, open, uses>>
           ELSE Create(g, h)

\* Under the write lock Get looks again, and makes room in a full registry.
Lock(g) ==
    LET h == getter[g].host
    IN  /\ getter[g].pc = "missed" /\ regLock = NoGetter
        /\ CASE h \in DOMAIN breakers ->
                  /\ Used(breakers[h])
                  /\ getter' = [getter EXCEPT ![g] = Waiting]
                  /\ UNCHANGED <<breakers, open, regLock>>
             [] h \notin DOMAIN breakers /\ Full(breakers) ->
                  /\ regLock' = g
                  /\ getter' = [getter EXCEPT ![g] = [pc |-> "closed", host |-> h,
                                                      todo |-> DOMAIN breakers]]
                  /\ UNCHANGED <<breakers, lastUsed, newestUse, open, uses>>
             [] OTHER -> Create(g, h)

\* evictClosedLocked looks at one breaker, under the lock of that breaker.
evictClosedLocked(g, h) ==
    /\ getter[g].pc = "closed" /\ h \in getter[g].todo
    /\ breakers' = IF breakers[h] \in open THEN breakers ELSE Restrict(breakers, DOMAIN breakers \ {h})
    /\ getter' = [getter EXCEPT ![g].todo = @ \ {h}]
    /\ UNCHANGED <<lastUsed, newestUse, open, uses, regLock>>

\* The registry has room, or the least recently used breaker has to go.
EvictedClosed(g) ==
    /\ getter[g].pc = "closed" /\ getter[g].todo = {}
    /\ IF Full(breakers)
       THEN /\ getter' = [getter EXCEPT ![g] = [pc |-> "oldest", host |-> getter[g].host,
                                                todo |-> DOMAIN breakers,
                                                oldestHost |-> NoGetter, oldestUse |-> 0]]
            /\ UNCHANGED <<breakers, lastUsed, newestUse, open, uses, regLock>>
       ELSE Create(g, getter[g].host)

\* evictLeastRecentlyUsedLocked loads the last use of one entry, which Get may
\* be changing.
LoadUse(g, h) ==
    LET used == lastUsed[breakers[h]]
        older == getter[g].oldestHost = NoGetter \/ used < getter[g].oldestUse
    IN  /\ getter[g].pc = "oldest" /\ h \in getter[g].todo
        /\ getter' = [getter EXCEPT ![g] = [pc |-> "oldest", host |-> @.host, todo |-> @.todo \ {h},
                                            oldestHost |-> IF older THEN h ELSE @.oldestHost,
                                            oldestUse |-> IF older THEN used ELSE @.oldestUse]]
        /\ UNCHANGED <<breakers, lastUsed, newestUse, open, uses, regLock>>

\* The oldest is deleted, and Get creates the breaker of its host.
evictLeastRecentlyUsedLocked(g) ==
    LET kept == Restrict(breakers, DOMAIN breakers \ {getter[g].oldestHost})
        h == getter[g].host
    IN  /\ getter[g].pc = "oldest" /\ getter[g].todo = {}
        /\ Used(uses + 1)
        /\ breakers' = [k \in DOMAIN kept \union {h} |-> IF k = h THEN uses + 1 ELSE kept[k]]
        /\ regLock' = NoGetter
        /\ getter' = [getter EXCEPT ![g] = Waiting]
        /\ UNCHANGED open

\* A request that got the breaker earlier opens or closes it.
BreakerFlips(e) ==
    /\ e \in Range(breakers)
    /\ open' = IF e \in open THEN open \ {e} ELSE open \union {e}
    /\ UNCHANGED <<breakers, lastUsed, newestUse, uses, regLock, getter>>

NextRegistry ==
    \/ \E g \in Getters, h \in BreakerHosts : Look(g, h) \/ evictClosedLocked(g, h) \/ LoadUse(g, h)
    \/ \E g \in Getters : Touch(g) \/ Touched(g) \/ Lock(g) \/ EvictedClosed(g) \/ evictLeastRecentlyUsedLocked(g)
    \/ \E e \in 1..MaxUses : BreakerFlips(e)

SpecRegistry == InitRegistry /\ [][NextRegistry]_varsRegistry

-----------------------------------------------------------------------------
\* An open breaker that is dropped was the least recently used one of a full
\* registry, as far as the eviction could see.
EvictionIsEarned ==
    \A h \in DOMAIN breakers :
        (breakers[h] \in open /\ breakers[h] \notin Range(breakers')) =>
            \E g \in Getters :
                /\ regLock = g /\ Full(breakers) /\ getter[g].host # h
                /\ getter[g].oldestUse \in 1 .. newestUse[breakers[h]]
                /\ \A k \in DOMAIN breakers \ {h} : newestUse[breakers[k]] > getter[g].oldestUse

WithinCapacity == Cardinality(DOMAIN breakers) <= maxBreakers

\* The registry stays within its capacity, and a host whose breaker is not
\* closed keeps it, whatever the calls of Get do to each other: it only loses it
\* in a full registry, to make room for another host, after every other breaker
\* was used later than a use of it that the eviction saw (Get,
\* evictLeastRecentlyUsedLocked).
TrippedIsKept == []WithinCapacity /\ [][EvictionIsEarned]_varsRegistry
=============================================================================
