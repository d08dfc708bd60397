----------------------------- MODULE ResultCache -----------------------------
(***************************************************************************)
(* The cache of verification results (internal/cache/cache.go): entries    *)
(* with an expiry, the expiry heap and the two indexes kept next to them,  *)
(* the capacity, and the invalidation epochs that keep a result computed   *)
(* before DeleteAll from being stored after it.                            *)
(*                                                                         *)
(* Every method is one critical section, except Get, which looks at an     *)
(* entry under the read lock and removes an expired one under the write    *)
(* lock, and a writer, which reads the epoch, computes a result and stores *)
(* it.  The heap is the set of its elements: container/heap pops one that  *)
(* expires first.  A namespace key is the sequence of its segments, which  *)
(* "\x00" separates in the code.                                           *)
(***************************************************************************)
EXTENDS Naturals, Sequences, FiniteSets

CONSTANTS
    Keys,       \* records [digest, namespace]
    Shard,      \* shardOf: the shard of each digest
    Namespaces, \* what DeleteAll is called with
    TTLs,       \* the times to live of the results, jitter included
    maxSize,
    Readers,    \* concurrent Gets
    Writers,    \* concurrent verifications that store a result
    MaxTime,    \* bound on the clock
    MaxEpoch,   \* bound on the invalidations of a shard (uint64 in the code)
    NoKey

Digests == {k.digest : k \in Keys}
Shards == {Shard[d] : d \in Digests}

ASSUME CacheAssumption ==
    /\ maxSize \in Nat \ {0} /\ MaxTime \in Nat \ {0} /\ MaxEpoch \in Nat
    /\ TTLs \subseteq Nat
    /\ IsFiniteSet(Keys)
    /\ DOMAIN Shard = Digests
    /\ NoKey \notin Keys

VARIABLES
    now,
    entries,      \* the entry of each key: [at, mark], or NoEntry
    heap,         \* the elements of expHeap: [key, at]
    heapIndex,    \* the keys of heapIndex
    digestIndex,  \* per digest: the keys of digestIndex
    epochs,       \* per shard
    gauge,
    stopped,
    reading,      \* per reader: the key whose entry it found expired, or NoKey
    writing,      \* per writer: [key, epoch, mark] of the result it computes
    marks         \* per key: how often it was invalidated

varsCache == <<now, entries, heap, heapIndex, digestIndex, epochs, gauge, stopped, reading,
          writing, marks>>

NoEntry == [at |-> 0, mark |-> 0]
Idle == [key |-> NoKey, epoch |-> 0, mark |-> 0]

Present == {k \in Keys : entries[k] # NoEntry}

InitCache ==
    /\ now = 1
    /\ entries = [k \in Keys |-> NoEntry]
    /\ heap = {}
    /\ heapIndex = {}
    /\ digestIndex = [d \in Digests |-> {}]
    /\ epochs = [s \in Shards |-> 0]
    /\ gauge = 0
    /\ stopped = FALSE
    /\ reading = [r \in Readers |-> NoKey]
    /\ writing = [w \in Writers |-> Idle]
    /\ marks = [k \in Keys |-> 0]

\* An entry expires once the clock is past its time.
Expired(at) == now > at

updateGaugeLocked(size) == IF stopped THEN gauge ELSE size

\* removeLocked of every key of a set: from the entries, the heap and the
\* indexes.
Remove(keys) ==
    /\ entries' = [k \in Keys |-> IF k \in keys THEN NoEntry ELSE entries[k]]
    /\ heap' = {e \in heap : e.key \notin keys}
    /\ heapIndex' = heapIndex \ keys
    /\ digestIndex' = [d \in Digests |-> digestIndex[d] \ keys]

-----------------------------------------------------------------------------
(* Get.                                                                     *)

\* A miss and a hit change nothing; an expired entry is left for the write lock.
GetExpired(r, k) ==
    /\ reading[r] = NoKey
    /\ k \in Present /\ Expired(entries[k].at)
    /\ reading' = [reading EXCEPT ![r] = k]
    /\ UNCHANGED <<now, entries, heap, heapIndex, digestIndex, epochs, gauge, stopped,
                   writing, marks>>

\* Under the write lock the entry is looked at again: it may be gone, or fresh.
GetKeeps(r) ==
    LET k == reading[r]
    IN  /\ k # NoKey
        /\ k \notin Present \/ ~Expired(entries[k].at)
        /\ reading' = [reading EXCEPT ![r] = NoKey]
        /\ UNCHANGED <<now, entries, heap, heapIndex, digestIndex, epochs, gauge, stopped,
                       writing, marks>>

\* Mutant: the entry is removed without being looked at again.
GetRemoves_Unchecked(r) ==
    LET k == reading[r]
    IN  /\ k # NoKey
        /\ Remove({k})
        /\ gauge' = updateGaugeLocked(Cardinality(Present \ {k}))
        /\ reading' = [reading EXCEPT ![r] = NoKey]
        /\ UNCHANGED <<now, epochs, stopped, writing, marks>>

GetRemoves(r) ==
    LET k == reading[r]
    IN  /\ k # NoKey
        /\ k \in Present /\ Expired(entries[k].at)
        /\ Remove({k})
        /\ gauge' = updateGaugeLocked(Cardinality(Present \ {k}))
        /\ reading' = [reading EXCEPT ![r] = NoKey]
        /\ UNCHANGED <<now, epochs, stopped, writing, marks>>

-----------------------------------------------------------------------------
(* Storing a result.                                                        *)

\* The writer reads the epoch and goes on to verify.
Epoch(w, k) ==
    /\ writing[w] = Idle
    /\ writing' = [writing EXCEPT ![w] = [key |-> k, epoch |-> epochs[Shard[k.digest]],
                                          mark |-> marks[k]]]
    /\ UNCHANGED <<now, entries, heap, heapIndex, digestIndex, epochs, gauge, stopped,
                   reading, marks>>

\* The verification ends without a result to store, with one that has no time to
\* live, or with one that is dropped since the epoch moved on.
NothingToStore(w) ==
    /\ writing[w] # Idle
    /\ writing' = [writing EXCEPT ![w] = Idle]
    /\ UNCHANGED <<now, entries, heap, heapIndex, digestIndex, epochs, gauge, stopped,
                   reading, marks>>

ExpiredKeys == {k \in Present : Expired(entries[k].at)}

\* The entries that expire first.
Soonest == {e.key : e \in {e \in heap : \A f \in heap : e.at <= f.at}}

\* What setLocked evicts to make room for k: nothing when it is present or
\* there is room, else what has expired, else one that expires first.
Evictions(k) ==
    IF k \in Present \/ Cardinality(Present) < maxSize THEN {{}}
    ELSE IF ExpiredKeys # {} THEN {ExpiredKeys}
    ELSE {{s} : s \in Soonest}

\* setLocked.
Store(k, at, mark, evicted) ==
    /\ entries' = [q \in Keys |-> IF q = k THEN [at |-> at, mark |-> mark]
                                  ELSE IF q \in evicted THEN NoEntry ELSE entries[q]]
    /\ heap' = {e \in heap : e.key \notin evicted \cup {k}} \cup {[key |-> k, at |-> at]}
    /\ heapIndex' = (heapIndex \ evicted) \cup {k}
    /\ digestIndex' = [d \in Digests |->
                          (digestIndex[d] \ evicted) \cup (IF d = k.digest THEN {k} ELSE {})]
    /\ gauge' = updateGaugeLocked(Cardinality((Present \ evicted) \cup {k}))

\* Mutant: the epoch is not looked at.
SetWithTTLAtEpoch_AnyEpoch(w, ttl) ==
    LET k == writing[w].key
    IN  /\ writing[w] # Idle
        /\ ttl > 0
        /\ \E evicted \in Evictions(k) : Store(k, now + ttl, writing[w].mark, evicted)
        /\ writing' = [writing EXCEPT ![w] = Idle]
        /\ UNCHANGED <<now, epochs, stopped, reading, marks>>

SetWithTTLAtEpoch(w, ttl) ==
    LET k == writing[w].key
    IN  /\ writing[w] # Idle
        /\ ttl > 0
        /\ epochs[Shard[k.digest]] = writing[w].epoch
        /\ \E evicted \in Evictions(k) : Store(k, now + ttl, writing[w].mark, evicted)
        /\ writing' = [writing EXCEPT ![w] = Idle]
        /\ UNCHANGED <<now, epochs, stopped, reading, marks>>

-----------------------------------------------------------------------------
(* DeleteAll, the background eviction and Stop.                             *)

\* The namespace, or an extension of it by whole segments.
namespaceKeyMatches(keyNamespace, namespace) ==
    /\ Len(namespace) <= Len(keyNamespace)
    /\ SubSeq(keyNamespace, 1, Len(namespace)) = namespace

DeleteAll(d, namespace) ==
    LET matching == {k \in Keys : k.digest = d /\ namespaceKeyMatches(k.namespace, namespace)}
        removed == matching \cap digestIndex[d]
    IN  /\ epochs[Shard[d]] < MaxEpoch
        /\ epochs' = [epochs EXCEPT ![Shard[d]] = @ + 1]
        /\ Remove(removed)
        /\ gauge' = IF removed = {} THEN gauge ELSE updateGaugeLocked(Cardinality(Present \ removed))
        /\ marks' = [k \in Keys |-> IF k \in matching THEN marks[k] + 1 ELSE marks[k]]
        /\ UNCHANGED <<now, stopped, reading, writing>>

\* The background goroutine, while the cache is not stopped.
evictExpiredLocked ==
    /\ ~stopped
    /\ ExpiredKeys # {}
    /\ Remove(ExpiredKeys)
    /\ gauge' = updateGaugeLocked(Cardinality(Present \ ExpiredKeys))
    /\ UNCHANGED <<now, epochs, stopped, reading, writing, marks>>

Stop ==
    /\ ~stopped
    /\ stopped' = TRUE
    /\ UNCHANGED <<now, entries, heap, heapIndex, digestIndex, epochs, gauge, reading,
                   writing, marks>>

Tick ==
    /\ now < MaxTime
    /\ now' = now + 1
    /\ UNCHANGED <<entries, heap, heapIndex, digestIndex, epochs, gauge, stopped, reading,
                   writing, marks>>

-----------------------------------------------------------------------------
NextCache ==
    \/ \E r \in Readers, k \in Keys : GetExpired(r, k)
    \/ \E r \in Readers : GetKeeps(r) \/ GetRemoves(r)
    \/ \E w \in Writers : \/ \E k \in Keys : Epoch(w, k)
                          \/ NothingToStore(w)
                          \/ \E ttl \in TTLs : SetWithTTLAtEpoch(w, ttl)
    \/ \E d \in Digests, n \in Namespaces : DeleteAll(d, n)
    \/ evictExpiredLocked
    \/ Stop
    \/ Tick

SpecCache == InitCache /\ [][NextCache]_varsCache

-----------------------------------------------------------------------------
\* The type of every variable.
TypeOKCache ==
    /\ now \in 1 .. MaxTime
    /\ entries \in [Keys -> [at : Nat, mark : Nat]]
    /\ heap \subseteq [key : Keys, at : Nat]
    /\ heapIndex \subseteq Keys
    /\ digestIndex \in [Digests -> SUBSET Keys]
    /\ epochs \in [Shards -> 0 .. MaxEpoch]
    /\ gauge \in 0 .. maxSize /\ stopped \in BOOLEAN
    /\ reading \in [Readers -> Keys \cup {NoKey}]
    /\ writing \in [Writers -> [key : Keys \cup {NoKey}, epoch : Nat, mark : Nat]]
    /\ marks \in [Keys -> Nat]

\* The heap, its index, the digest index and, until the cache is stopped, the
\* gauge describe the entries: no entry can escape eviction or DeleteAll, and
\* nothing is evicted twice (removeLocked, setLocked).
IndexesAgree ==
    /\ heap = {[key |-> k, at |-> entries[k].at] : k \in Present}
    /\ heapIndex = Present
    /\ \A d \in Digests : digestIndex[d] = {k \in Present : k.digest = d}
    /\ ~stopped => gauge = Cardinality(Present)

\* There are never more entries than the capacity (setLocked).
SizeBounded == Cardinality(Present) <= maxSize

\* A result is in the cache only if its key was not invalidated after the epoch
\* was read for it (Epoch, SetWithTTLAtEpoch, DeleteAll).
InvalidatedIsGone == \A k \in Present : entries[k].mark = marks[k]

\* All three: whatever writers, readers, evictions and invalidations do to each
\* other, the cache stays within its capacity, nothing in it escapes eviction or
\* invalidation, and nothing that was invalidated comes back (cache.go).
CacheIsSound == IndexesAgree /\ SizeBounded /\ InvalidatedIsGone

\* What a step takes out of the cache had expired, was invalidated, or was the
\* one that expires first in a full cache without expired entries: a Get or an
\* eviction that lost a race never takes a fresh entry (Get, setLocked).
Unexpired == Present \ ExpiredKeys

FreshIsKeptStep ==
    \A k \in Unexpired : entries'[k] = NoEntry =>
        \/ marks'[k] # marks[k]
        \/ /\ Cardinality(Present) = maxSize /\ ExpiredKeys = {}
           /\ \A q \in Present : entries[k].at <= entries[q].at

FreshIsKept == [][FreshIsKeptStep]_varsCache
=============================================================================
