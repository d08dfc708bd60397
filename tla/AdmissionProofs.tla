-------------------------- MODULE AdmissionProofs ---------------------------
(***************************************************************************)
(* The way of an admission. The result cache is characterised for any      *)
(* keys, shards, capacity and number of readers and writers: what Remove   *)
(* and Store do to the set of entries is stated once, and the invariance   *)
(* proofs use only that. Whatever reloads happen between the steps of an   *)
(* admission, a container is only admitted if the configuration in effect  *)
(* then admits it, and is tracked with the digest it runs. However         *)
(* refreshes of the trusted root overlap, time out and land late, no       *)
(* outdated root is handed out.                                            *)
(***************************************************************************)
EXTENDS Admission, TrustedRoot, ResultCache, FiniteSetTheorems, TLAPS

-----------------------------------------------------------------------------
(* The cache of results *)

\* The heap and the two indexes describe the entries.
Indexes ==
    /\ heap = {[key |-> k, at |-> entries[k].at] : k \in Present}
    /\ heapIndex = Present
    /\ digestIndex = [d \in Digests |-> {k \in Present : k.digest = d}]

\* What a writer that is not idle knows: if the epoch it read is still the
\* current one, its key was not invalidated since.
Knows(w) ==
    LET k == writing[w].key IN
    /\ k \in Keys
    /\ writing[w].epoch <= epochs[Shard[k.digest]]
    /\ writing[w].epoch = epochs[Shard[k.digest]] => writing[w].mark = marks[k]

WritersKnow == \A w \in Writers : writing[w] # Idle => Knows(w)

CacheInv ==
    /\ TypeOKCache
    /\ Indexes
    /\ ~stopped => gauge = Cardinality(Present)
    /\ SizeBounded
    /\ InvalidatedIsGone
    /\ WritersKnow

\* The digest of a key has an index, and a shard with an epoch.
LEMMA KeyShard ==
    ASSUME NEW k \in Keys PROVE k.digest \in Digests /\ Shard[k.digest] \in Shards
  BY DEF Digests, Shards

-----------------------------------------------------------------------------
\* The entries are finitely many, and taking some out leaves no more.
LEMMA PresentFinite ==
    ASSUME NEW S \in SUBSET Keys
    PROVE  /\ IsFiniteSet(Present) /\ Cardinality(Present) \in Nat
           /\ IsFiniteSet(Present \ S) /\ Cardinality(Present \ S) \in Nat
           /\ Cardinality(Present \ S) <= Cardinality(Present)
<1>1. IsFiniteSet(Present)
  BY CacheAssumption, FS_Subset DEF Present
<1>2. IsFiniteSet(Present \ S) /\ Cardinality(Present \ S) <= Cardinality(Present)
  BY <1>1, FS_Subset
<1> QED
  BY <1>1, <1>2, FS_CardinalityType

\* removeLocked takes the keys out of the entries, the heap and the indexes.
LEMMA RemoveFacts ==
    ASSUME TypeOKCache, Indexes, NEW S \in SUBSET Keys, Remove(S)
    PROVE  /\ entries' \in [Keys -> [at : Nat, mark : Nat]]
           /\ Present' = Present \ S
           /\ \A k \in Present' : entries'[k] = entries[k]
           /\ Indexes'
<1>0. NoEntry \in [at : Nat, mark : Nat]
  BY DEF NoEntry
<1>1. entries' \in [Keys -> [at : Nat, mark : Nat]]
  BY <1>0 DEF Remove, TypeOKCache
<1>2. Present' = Present \ S
  BY DEF Remove, TypeOKCache, Present
<1>3. \A k \in Present' : entries'[k] = entries[k]
  BY <1>2 DEF Remove, Present
<1>4. heap' = {[key |-> k, at |-> entries'[k].at] : k \in Present'}
  <2>1. heap' = {e \in {[key |-> k, at |-> entries[k].at] : k \in Present} : e.key \notin S}
    BY DEF Remove, Indexes
  <2> QED
    BY <2>1, <1>2, <1>3
<1>5. heapIndex' = Present'
  BY <1>2 DEF Remove, Indexes
<1>6. digestIndex' = [d \in Digests |-> {k \in Present' : k.digest = d}]
  BY <1>2 DEF Remove, Indexes
<1> QED
  BY <1>1, <1>2, <1>3, <1>4, <1>5, <1>6 DEF Indexes

\* setLocked takes the evicted keys out and puts the new one in, everywhere.
LEMMA StoreFacts ==
    ASSUME TypeOKCache, Indexes, NEW k \in Keys, NEW at \in Nat \ {0}, NEW mark \in Nat,
           NEW S \in SUBSET Keys, k \notin S, Store(k, at, mark, S)
    PROVE  /\ entries' \in [Keys -> [at : Nat, mark : Nat]]
           /\ Present' = (Present \ S) \cup {k}
           /\ entries'[k] = [at |-> at, mark |-> mark]
           /\ \A q \in Present' \ {k} : entries'[q] = entries[q]
           /\ Indexes'
<1>0. /\ NoEntry \in [at : Nat, mark : Nat]
      /\ [at |-> at, mark |-> mark] \in [at : Nat, mark : Nat]
      /\ [at |-> at, mark |-> mark] # NoEntry
  BY DEF NoEntry
<1>1. entries' \in [Keys -> [at : Nat, mark : Nat]]
  BY <1>0 DEF Store, TypeOKCache
<1>2. entries'[k] = [at |-> at, mark |-> mark]
  BY DEF Store
<1>3. Present' = (Present \ S) \cup {k}
  BY <1>0 DEF Store, Present
<1>4. \A q \in Present' \ {k} : entries'[q] = entries[q]
  BY <1>3 DEF Store, Present
<1>5. heap' = {[key |-> q, at |-> entries'[q].at] : q \in Present'}
  <2>1. heap' = {e \in {[key |-> q, at |-> entries[q].at] : q \in Present} :
                    e.key \notin S \cup {k}} \cup {[key |-> k, at |-> at]}
    BY DEF Store, Indexes
  <2> QED
    BY <2>1, <1>2, <1>3, <1>4
<1>6. heapIndex' = Present'
  BY <1>3 DEF Store, Indexes
<1>7. digestIndex' = [d \in Digests |-> {q \in Present' : q.digest = d}]
  BY <1>3 DEF Store, Indexes
<1> QED
  BY <1>1, <1>2, <1>3, <1>4, <1>5, <1>6, <1>7 DEF Indexes

\* Whatever setLocked evicts, there is room for the new key afterwards.
LEMMA EvictionsMakeRoom ==
    ASSUME TypeOKCache, Indexes, SizeBounded, NEW k \in Keys, NEW S \in Evictions(k)
    PROVE  /\ S \in SUBSET Keys
           /\ k \notin S
           /\ Cardinality((Present \ S) \cup {k}) \in 0 .. maxSize
<1> USE CacheAssumption
<1>1. CASE k \in Present
  <2>1. S = {} /\ (Present \ S) \cup {k} = Present
    BY <1>1 DEF Evictions
  <2> QED
    BY <2>1, PresentFinite DEF SizeBounded
<1>2. CASE k \notin Present /\ Cardinality(Present) < maxSize
  <2>1. S = {} /\ (Present \ S) \cup {k} = Present \cup {k}
    BY <1>2 DEF Evictions
  <2>2. Cardinality(Present \cup {k}) = Cardinality(Present) + 1
    BY Zenon, <1>2, PresentFinite, FS_AddElement
  <2> QED
    BY <2>1, <2>2, <1>2, PresentFinite
<1>3. CASE k \notin Present /\ ~(Cardinality(Present) < maxSize)
  <2>1. S \subseteq Present /\ S # {}
    <3>1. CASE ExpiredKeys # {}
      BY <3>1, <1>3 DEF Evictions, ExpiredKeys
    <3>2. CASE ExpiredKeys = {}
      <4>1. PICK s \in Soonest : S = {s}
        BY <3>2, <1>3 DEF Evictions
      <4>2. s \in Present
        BY <4>1 DEF Soonest, Indexes
      <4> QED
        BY <4>1, <4>2
    <3> QED
      BY <3>1, <3>2
  <2>2. S \in SUBSET Keys /\ k \notin S
    BY <2>1, <1>3 DEF Present
  <2>3. PICK s \in S : s \in Present
    BY <2>1
  <2>4. Cardinality(Present \ {s}) = Cardinality(Present) - 1
    BY Zenon, <2>3, PresentFinite, FS_RemoveElement
  <2>5. Cardinality(Present \ S) <= Cardinality(Present \ {s}) /\ Cardinality(Present \ S) \in Nat
    <3>1. Present \ S \subseteq Present \ {s}
      BY <2>3
    <3>2. IsFiniteSet(Present \ {s})
      BY Zenon, <2>2, <2>3, PresentFinite
    <3> QED
      BY Zenon, <3>1, <3>2, <2>2, FS_Subset, PresentFinite
  <2>6. Cardinality((Present \ S) \cup {k}) = Cardinality(Present \ S) + 1
    BY Zenon, <1>3, <2>2, PresentFinite, FS_AddElement
  <2>7. Cardinality(Present) \in Nat /\ Cardinality(Present) <= maxSize
    BY Zenon, PresentFinite DEF SizeBounded
  <2>8. Cardinality((Present \ S) \cup {k}) \in 0 .. maxSize
    BY <2>4, <2>5, <2>6, <2>7
  <2> QED
    BY <2>2, <2>8
<1> QED
  BY <1>1, <1>2, <1>3

-----------------------------------------------------------------------------
\* Initially the cache is empty and nobody writes.
LEMMA CacheInvStarts == InitCache => CacheInv
<1> SUFFICES ASSUME InitCache PROVE CacheInv
  OBVIOUS
<1> USE CacheAssumption
<1>1. Present = {}
  BY DEF InitCache, Present
<1>2. Cardinality(Present) = 0
  BY <1>1, FS_EmptySet
<1>3. TypeOKCache
  <2>1. NoEntry \in [at : Nat, mark : Nat]
    BY DEF NoEntry
  <2>2. Idle \in [key : Keys \cup {NoKey}, epoch : Nat, mark : Nat]
    BY DEF Idle
  <2>3. /\ entries \in [Keys -> [at : Nat, mark : Nat]]
        /\ writing \in [Writers -> [key : Keys \cup {NoKey}, epoch : Nat, mark : Nat]]
    BY <2>1, <2>2 DEF InitCache
  <2>4. now \in 1 .. MaxTime /\ gauge \in 0 .. maxSize
    BY DEF InitCache
  <2>5. heap \subseteq [key : Keys, at : Nat] /\ heapIndex \subseteq Keys /\ stopped \in BOOLEAN
    BY Zenon DEF InitCache
  <2>6. /\ digestIndex \in [Digests -> SUBSET Keys]
        /\ epochs \in [Shards -> 0 .. MaxEpoch]
        /\ reading \in [Readers -> Keys \cup {NoKey}]
        /\ marks \in [Keys -> Nat]
    BY DEF InitCache
  <2> QED
    BY <2>3, <2>4, <2>5, <2>6 DEF TypeOKCache
<1>4. Indexes
  BY <1>1 DEF InitCache, Indexes
<1>5. WritersKnow
  BY DEF InitCache, WritersKnow
<1> QED
  BY <1>1, <1>2, <1>3, <1>4, <1>5 DEF CacheInv, InitCache, SizeBounded, InvalidatedIsGone

\* A writer knows what it knew while nothing of it, the epochs and the
\* invalidations changes.
LEMMA KnowsFrame ==
    ASSUME NEW v, Knows(v), writing'[v] = writing[v], epochs' = epochs, marks' = marks
    PROVE  Knows(v)'
  BY DEF Knows

\* Writers that stay as they are, or end, know what they knew.
LEMMA WritersFrame ==
    ASSUME WritersKnow, epochs' = epochs, marks' = marks,
           \A v \in Writers : writing'[v] \in {writing[v], Idle}
    PROVE  WritersKnow'
<1> SUFFICES ASSUME NEW v \in Writers, writing'[v] # Idle PROVE Knows(v)'
  BY DEF WritersKnow, Idle
<1>1. writing'[v] = writing[v]
  OBVIOUS
<1>2. Knows(v)
  BY <1>1 DEF WritersKnow
<1> QED
  BY <1>1, <1>2, KnowsFrame

\* A step that only removes keys, without an invalidation, keeps the invariant.
LEMMA RemovalStep ==
    ASSUME CacheInv, NEW S \in SUBSET Keys, Remove(S),
           gauge' = updateGaugeLocked(Cardinality(Present \ S)),
           reading' \in [Readers -> Keys \cup {NoKey}],
           UNCHANGED <<now, epochs, stopped, writing, marks>>
    PROVE  CacheInv'
<1>1. /\ entries' \in [Keys -> [at : Nat, mark : Nat]]
      /\ Present' = Present \ S
      /\ \A k \in Present' : entries'[k] = entries[k]
      /\ Indexes'
  BY RemoveFacts DEF CacheInv
<1>2. /\ Cardinality(Present') \in 0 .. maxSize
      /\ gauge' \in 0 .. maxSize
      /\ ~stopped' => gauge' = Cardinality(Present')
  <2>1. Cardinality(Present \ S) \in Nat /\ Cardinality(Present \ S) <= maxSize
    BY PresentFinite, CacheAssumption DEF CacheInv, SizeBounded
  <2> QED
    BY <2>1, <1>1, CacheAssumption DEF CacheInv, TypeOKCache, updateGaugeLocked
<1>3. TypeOKCache'
  <2>1. heap' \subseteq [key : Keys, at : Nat] /\ heapIndex' \subseteq Keys
    BY <1>1 DEF Remove, CacheInv, TypeOKCache
  <2>2. digestIndex' \in [Digests -> SUBSET Keys]
    BY DEF Remove, CacheInv, TypeOKCache
  <2> QED
    BY <1>1, <1>2, <2>1, <2>2 DEF CacheInv, TypeOKCache
<1>4. InvalidatedIsGone'
  BY <1>1 DEF CacheInv, InvalidatedIsGone
<1>5. WritersKnow'
  BY WritersFrame DEF CacheInv
<1> QED
  BY <1>1, <1>2, <1>3, <1>4, <1>5, CacheAssumption DEF CacheInv, SizeBounded

\* A step that changes no entry keeps the invariant if it keeps the types and
\* what the writers know.
LEMMA QuietStep ==
    ASSUME CacheInv, TypeOKCache', WritersKnow',
           UNCHANGED <<entries, heap, heapIndex, digestIndex, gauge, marks>>,
           stopped => stopped'
    PROVE  CacheInv'
<1>1. Present' = Present
  BY DEF Present
<1> QED
  BY <1>1 DEF CacheInv, Indexes, SizeBounded, InvalidatedIsGone

\* Every step keeps the invariant.
LEMMA CacheInvStep == CacheInv /\ [NextCache]_varsCache => CacheInv'
<1> SUFFICES ASSUME CacheInv, [NextCache]_varsCache PROVE CacheInv'
  OBVIOUS
<1> USE CacheAssumption
<1>0. /\ writing \in [Writers -> [key : Keys \cup {NoKey}, epoch : Nat, mark : Nat]]
      /\ marks \in [Keys -> Nat]
      /\ epochs \in [Shards -> 0 .. MaxEpoch]
      /\ heap \subseteq [key : Keys, at : Nat]
  BY DEF CacheInv, TypeOKCache
<1>1. ASSUME NEW r \in Readers, NEW k \in Keys, GetExpired(r, k) PROVE CacheInv'
  <2>1. TypeOKCache'
    BY <1>1 DEF GetExpired, CacheInv, TypeOKCache
  <2>2. WritersKnow'
    BY <1>1, WritersFrame DEF GetExpired, CacheInv
  <2> QED
    BY <1>1, <2>1, <2>2, QuietStep DEF GetExpired
<1>2. ASSUME NEW r \in Readers, GetKeeps(r) PROVE CacheInv'
  <2>1. TypeOKCache'
    BY <1>2 DEF GetKeeps, CacheInv, TypeOKCache
  <2>2. WritersKnow'
    BY <1>2, WritersFrame DEF GetKeeps, CacheInv
  <2> QED
    BY <1>2, <2>1, <2>2, QuietStep DEF GetKeeps
<1>3. ASSUME NEW r \in Readers, GetRemoves(r) PROVE CacheInv'
  <2>1. {reading[r]} \in SUBSET Keys /\ reading' \in [Readers -> Keys \cup {NoKey}]
    BY <1>3 DEF GetRemoves, CacheInv, TypeOKCache
  <2> QED
    BY <1>3, <2>1, RemovalStep DEF GetRemoves
<1>4. ASSUME NEW w \in Writers, NEW k \in Keys, Epoch(w, k) PROVE CacheInv'
  <2>0. k.digest \in Digests /\ Shard[k.digest] \in Shards
    BY KeyShard
  <2>1. TypeOKCache'
    BY <1>4, <2>0 DEF Epoch, CacheInv, TypeOKCache
  <2>2. WritersKnow'
    <3>1. epochs' = epochs /\ marks' = marks
      BY <1>4 DEF Epoch
    <3>2. writing'[w] = [key |-> k, epoch |-> epochs[Shard[k.digest]], mark |-> marks[k]]
      BY <1>0, <1>4 DEF Epoch
    <3>3. epochs[Shard[k.digest]] \in Nat
      BY <1>0, <2>0
    <3>4. Knows(w)'
      BY <3>1, <3>2, <3>3 DEF Knows
    <3>5. ASSUME NEW v \in Writers, v # w, writing'[v] # Idle PROVE Knows(v)'
      <4>1. writing'[v] = writing[v]
        BY <1>0, <1>4, <3>5 DEF Epoch
      <4>2. Knows(v)
        BY <3>5, <4>1 DEF CacheInv, WritersKnow
      <4> QED
        BY <3>1, <4>1, <4>2, KnowsFrame
    <3> QED
      BY <3>4, <3>5 DEF WritersKnow, Idle
  <2> QED
    BY <1>4, <2>1, <2>2, QuietStep DEF Epoch
<1>5. ASSUME NEW w \in Writers, NothingToStore(w) PROVE CacheInv'
  <2>1. TypeOKCache'
    BY <1>5 DEF NothingToStore, CacheInv, TypeOKCache, Idle
  <2>2. WritersKnow'
    <3>1. \A v \in Writers : writing'[v] \in {writing[v], Idle}
      BY <1>0, <1>5 DEF NothingToStore
    <3> QED
      BY <1>5, <3>1, WritersFrame DEF NothingToStore, CacheInv
  <2> QED
    BY <1>5, <2>1, <2>2, QuietStep DEF NothingToStore
<1>6. ASSUME NEW w \in Writers, NEW ttl \in TTLs, SetWithTTLAtEpoch(w, ttl) PROVE CacheInv'
  <2> DEFINE k == writing[w].key
  <2>1. k \in Keys /\ writing[w].mark = marks[k] /\ writing[w].mark \in Nat
    BY <1>6 DEF SetWithTTLAtEpoch, CacheInv, WritersKnow, Knows, TypeOKCache
  <2>2. now + ttl \in Nat \ {0}
    BY <1>6 DEF SetWithTTLAtEpoch, CacheInv, TypeOKCache
  <2>3. PICK S \in Evictions(k) : Store(k, now + ttl, writing[w].mark, S)
    BY <1>6 DEF SetWithTTLAtEpoch
  <2>4. /\ S \in SUBSET Keys /\ k \notin S
        /\ Cardinality((Present \ S) \cup {k}) \in 0 .. maxSize
    BY <2>1, EvictionsMakeRoom DEF CacheInv
  <2>5. /\ entries' \in [Keys -> [at : Nat, mark : Nat]]
        /\ Present' = (Present \ S) \cup {k}
        /\ entries'[k] = [at |-> now + ttl, mark |-> writing[w].mark]
        /\ \A q \in Present' \ {k} : entries'[q] = entries[q]
        /\ Indexes'
    BY <2>1, <2>2, <2>3, <2>4, StoreFacts DEF CacheInv
  <2>6. /\ Cardinality(Present') \in 0 .. maxSize
        /\ gauge' \in 0 .. maxSize
        /\ ~stopped' => gauge' = Cardinality(Present')
    BY <1>6, <2>3, <2>4, <2>5 DEF SetWithTTLAtEpoch, Store, CacheInv, TypeOKCache, updateGaugeLocked
  <2>7. TypeOKCache'
    <3>1. heap' \subseteq [key : Keys, at : Nat]
      <4>1. heap' = {e \in heap : e.key \notin S \cup {k}} \cup {[key |-> k, at |-> now + ttl]}
        BY <2>3 DEF Store
      <4>2. [key |-> k, at |-> now + ttl] \in [key : Keys, at : Nat]
        BY <2>1, <2>2
      <4> QED
        BY <1>0, <4>1, <4>2
    <3>2. heapIndex' \subseteq Keys /\ digestIndex' \in [Digests -> SUBSET Keys]
      BY <2>1, <2>3 DEF Store, CacheInv, TypeOKCache
    <3>3. writing' \in [Writers -> [key : Keys \cup {NoKey}, epoch : Nat, mark : Nat]]
      BY <1>6 DEF SetWithTTLAtEpoch, Idle, CacheInv, TypeOKCache
    <3> QED
      BY <1>6, <2>5, <2>6, <3>1, <3>2, <3>3 DEF SetWithTTLAtEpoch, CacheInv, TypeOKCache
  <2>8. InvalidatedIsGone'
    <3>1. marks' = marks
      BY <1>6 DEF SetWithTTLAtEpoch
    <3>2. Present' = (Present \ S) \cup {k}
      BY <2>5
    <3> HIDE DEF k
    <3>3. entries'[k].mark = marks'[k]
      <4>1. entries'[k] = [at |-> now + ttl, mark |-> writing[w].mark]
        BY <2>5
      <4>2. entries'[k].mark = writing[w].mark
        BY ONLY <4>1
      <4> QED
        BY ONLY <2>1, <3>1, <4>2
    <3>4. ASSUME NEW q \in Present', q # k PROVE entries'[q].mark = marks'[q]
      <4>1. q \in Present
        BY <3>2, <3>4
      <4>2. entries'[q] = entries[q]
        BY <2>5, <3>4
      <4> QED
        BY <3>1, <4>1, <4>2 DEF CacheInv, InvalidatedIsGone
    <3> QED
      BY <3>3, <3>4 DEF InvalidatedIsGone
  <2>9. WritersKnow'
    <3>1. \A v \in Writers : writing'[v] \in {writing[v], Idle}
      BY <1>0, <1>6 DEF SetWithTTLAtEpoch
    <3> QED
      BY <1>6, <3>1, WritersFrame DEF SetWithTTLAtEpoch, CacheInv
  <2> QED
    BY <2>5, <2>6, <2>7, <2>8, <2>9 DEF CacheInv, SizeBounded
<1>7. ASSUME NEW d \in Digests, NEW n \in Namespaces, DeleteAll(d, n) PROVE CacheInv'
  <2> DEFINE matching == {k \in Keys : k.digest = d /\ namespaceKeyMatches(k.namespace, n)}
  <2> DEFINE removed == matching \cap digestIndex[d]
  <2>0. Shard[d] \in Shards
    BY DEF Shards
  <2>1. /\ Remove(removed)
        /\ removed \in SUBSET Keys
        /\ removed = matching \cap Present
    <3>1. Remove(removed)
      BY <1>7 DEF DeleteAll
    <3>2. digestIndex[d] = {k \in Present : k.digest = d}
      BY DEF CacheInv, Indexes
    <3> QED
      BY <3>1, <3>2
  <2>2. /\ entries' \in [Keys -> [at : Nat, mark : Nat]]
        /\ Present' = Present \ removed
        /\ \A k \in Present' : entries'[k] = entries[k]
        /\ Indexes'
    BY <2>1, RemoveFacts DEF CacheInv
  <2>3. /\ Cardinality(Present') \in 0 .. maxSize
        /\ gauge' \in 0 .. maxSize
        /\ ~stopped' => gauge' = Cardinality(Present')
    <3>1. Cardinality(Present \ removed) \in Nat /\ Cardinality(Present \ removed) <= maxSize
      BY <2>1, PresentFinite DEF CacheInv, SizeBounded
    <3>2. gauge' = IF removed = {} THEN gauge ELSE updateGaugeLocked(Cardinality(Present \ removed))
      BY <1>7 DEF DeleteAll
    <3>3. stopped' = stopped
      BY <1>7 DEF DeleteAll
    <3>4. removed = {} => Present' = Present
      BY <2>2
    <3>5. gauge \in 0 .. maxSize /\ (~stopped => gauge = Cardinality(Present))
      BY DEF CacheInv, TypeOKCache
    <3>6. Present' = Present \ removed
      BY <2>2
    <3> HIDE DEF removed
    <3>7. CASE removed = {}
      BY <3>1, <3>2, <3>3, <3>4, <3>5, <3>6, <3>7
    <3>8. CASE removed # {}
      BY <3>1, <3>2, <3>3, <3>5, <3>6, <3>8 DEF updateGaugeLocked
    <3> QED
      BY <3>7, <3>8
  <2>4. TypeOKCache'
    <3>1. heap' \subseteq [key : Keys, at : Nat] /\ heapIndex' \subseteq Keys
      BY <2>1 DEF Remove, CacheInv, TypeOKCache
    <3>2. digestIndex' \in [Digests -> SUBSET Keys]
      BY <2>1 DEF Remove, CacheInv, TypeOKCache
    <3>3. epochs' \in [Shards -> 0 .. MaxEpoch] /\ marks' \in [Keys -> Nat]
      <4>1. epochs[Shard[d]] < MaxEpoch /\ epochs' = [epochs EXCEPT ![Shard[d]] = @ + 1]
        BY <1>7 DEF DeleteAll
      <4>2. epochs[Shard[d]] + 1 \in 0 .. MaxEpoch
        BY <1>0, <2>0, <4>1
      <4>3. marks' \in [Keys -> Nat]
        BY <1>0, <1>7 DEF DeleteAll
      <4> QED
        BY Zenon, <1>0, <4>1, <4>2, <4>3
    <3> QED
      BY <1>7, <2>2, <2>3, <3>1, <3>2, <3>3 DEF DeleteAll, CacheInv, TypeOKCache
  <2>5. marks' = [k \in Keys |-> IF k \in matching THEN marks[k] + 1 ELSE marks[k]]
    BY <1>7 DEF DeleteAll
  <2>6. InvalidatedIsGone'
    <3>1. \A k \in Present' : k \in Keys /\ k \in Present /\ k \notin matching
      BY <2>1, <2>2 DEF Present
    <3> QED
      BY <2>2, <2>5, <3>1 DEF CacheInv, InvalidatedIsGone
  <2>7. WritersKnow'
    <3>0. writing' = writing
      BY <1>7 DEF DeleteAll
    <3> SUFFICES ASSUME NEW w \in Writers, writing[w] # Idle PROVE Knows(w)'
      BY <3>0 DEF WritersKnow, Idle
    <3> DEFINE k == writing[w].key
               e == writing[w].epoch
               E == epochs[Shard[k.digest]]
    <3>1. Knows(w)
      BY DEF CacheInv, WritersKnow
    <3>2. k \in Keys /\ e <= E /\ (e = E => writing[w].mark = marks[k])
      BY <3>1 DEF Knows
    <3>3. e \in Nat
      BY <1>0
    <3>4. Shard[k.digest] \in Shards
      BY <3>2, KeyShard
    <3>5. E \in Nat
      BY <1>0, <3>4
    <3>6. epochs' = [epochs EXCEPT ![Shard[d]] = @ + 1]
      BY <1>7 DEF DeleteAll
    <3>7. CASE Shard[k.digest] = Shard[d]
      <4>1. epochs'[Shard[k.digest]] = E + 1
        BY <1>0, <3>4, <3>6, <3>7
      <4>2. e <= E + 1 /\ e # E + 1
        <5> HIDE DEF e, E
        <5> QED
          BY <3>2, <3>3, <3>5
      <4> QED
        BY Zenon, <3>0, <3>2, <4>1, <4>2 DEF Knows
    <3>8. CASE Shard[k.digest] # Shard[d]
      <4>1. epochs'[Shard[k.digest]] = E
        BY <1>0, <3>4, <3>6, <3>8
      <4>2. k.digest # d
        BY <3>8
      <4>3. marks'[k] = marks[k]
        BY <2>5, <3>2, <4>2
      <4> QED
        BY <3>0, <3>2, <4>1, <4>3 DEF Knows
    <3> QED
      BY <3>7, <3>8
  <2>8. SizeBounded'
    BY ONLY <2>3, CacheAssumption DEF SizeBounded
  <2> QED
    BY ONLY <2>2, <2>3, <2>4, <2>6, <2>7, <2>8 DEF CacheInv
<1>8. CASE evictExpiredLocked
  <2>1. ExpiredKeys \in SUBSET Keys /\ reading' \in [Readers -> Keys \cup {NoKey}]
    BY <1>8 DEF evictExpiredLocked, ExpiredKeys, Present, CacheInv, TypeOKCache
  <2> QED
    BY <1>8, <2>1, RemovalStep DEF evictExpiredLocked
<1>9. CASE Stop
  <2>1. TypeOKCache'
    BY <1>9 DEF Stop, CacheInv, TypeOKCache
  <2>2. WritersKnow'
    BY <1>9, WritersFrame DEF Stop, CacheInv
  <2> QED
    BY <1>9, <2>1, <2>2, QuietStep DEF Stop
<1>10. CASE Tick
  <2>1. TypeOKCache'
    BY <1>10 DEF Tick, CacheInv, TypeOKCache
  <2>2. WritersKnow'
    BY <1>10, WritersFrame DEF Tick, CacheInv
  <2> QED
    BY <1>10, <2>1, <2>2, QuietStep DEF Tick
<1>11. CASE UNCHANGED varsCache
  <2>1. TypeOKCache'
    BY <1>11 DEF varsCache, CacheInv, TypeOKCache
  <2>2. WritersKnow'
    BY <1>11, WritersFrame DEF varsCache, CacheInv
  <2> QED
    BY <1>11, <2>1, <2>2, QuietStep DEF varsCache
<1> QED
  BY <1>1, <1>2, <1>3, <1>4, <1>5, <1>6, <1>7, <1>8, <1>9, <1>10, <1>11 DEF NextCache

-----------------------------------------------------------------------------
\* The inductive invariant holds throughout.
THEOREM ResultCacheInv == SpecCache => []CacheInv
BY CacheInvStarts, CacheInvStep, CacheAssumption, PTL DEF SpecCache

\* Entries, indexes, gauge and writers keep their types.
THEOREM ResultCacheTypes == SpecCache => []TypeOKCache
<1>1. CacheInv => TypeOKCache
  BY DEF CacheInv
<1> QED
  BY <1>1, ResultCacheInv, PTL

\* Heap, indexes and gauge always describe the entries (removeLocked, setLocked).
THEOREM CacheIndexesAgree == SpecCache => []IndexesAgree
<1>1. CacheInv => IndexesAgree
  BY DEF CacheInv, Indexes, IndexesAgree
<1> QED
  BY <1>1, ResultCacheInv, PTL

\* setLocked keeps the cache within its capacity.
THEOREM CacheIsBounded == SpecCache => []SizeBounded
<1>1. CacheInv => SizeBounded
  BY DEF CacheInv
<1> QED
  BY <1>1, ResultCacheInv, PTL

\* A result computed before DeleteAll of its key is not in the cache after it.
THEOREM InvalidationHolds == SpecCache => []InvalidatedIsGone
<1>1. CacheInv => InvalidatedIsGone
  BY DEF CacheInv
<1> QED
  BY <1>1, ResultCacheInv, PTL

\* The cache is sound in every reachable state, for any keys, capacity, readers
\* and writers (CacheIsSound).
THEOREM CacheSoundness == SpecCache => []CacheIsSound
<1>1. CacheInv => CacheIsSound
  BY DEF CacheInv, Indexes, IndexesAgree, CacheIsSound
<1> QED
  BY <1>1, ResultCacheInv, PTL

\* No step takes a fresh entry out of the cache, unless it was invalidated or
\* is the one that expires first in a full cache (Get, setLocked).
LEMMA StepKeepsFresh == CacheInv /\ NextCache => FreshIsKeptStep
<1> SUFFICES ASSUME CacheInv, NextCache, NEW q \in Unexpired, entries'[q] = NoEntry
             PROVE  \/ marks'[q] # marks[q]
                    \/ /\ Cardinality(Present) = maxSize /\ ExpiredKeys = {}
                       /\ \A p \in Present : entries[q].at <= entries[p].at
  BY DEF FreshIsKeptStep
<1>1. q \in Keys /\ q \in Present /\ q \notin ExpiredKeys /\ ~Expired(entries[q].at)
  BY DEF Unexpired, ExpiredKeys, Present
<1>2. entries' # entries
  BY <1>1 DEF Present
<1>3. ASSUME NEW S, Remove(S), S \subseteq ExpiredKeys PROVE FALSE
  <2>1. q \notin S /\ entries'[q] = entries[q]
    BY <1>1, <1>3 DEF Remove
  <2> QED BY <2>1, <1>1 DEF Present
<1>4. ASSUME NEW r \in Readers, GetRemoves(r) PROVE FALSE
  <2>1. {reading[r]} \subseteq ExpiredKeys /\ Remove({reading[r]})
    BY <1>4 DEF GetRemoves, ExpiredKeys
  <2> QED BY <1>3, <2>1
<1>5. ASSUME evictExpiredLocked PROVE FALSE
  BY <1>3, <1>5 DEF evictExpiredLocked
<1>6. ASSUME NEW w \in Writers, NEW ttl \in TTLs, SetWithTTLAtEpoch(w, ttl)
      PROVE  /\ Cardinality(Present) = maxSize /\ ExpiredKeys = {}
             /\ \A p \in Present : entries[q].at <= entries[p].at
  <2> DEFINE k == writing[w].key
  <2>1. PICK S \in Evictions(k) : Store(k, now + ttl, writing[w].mark, S)
    BY <1>6 DEF SetWithTTLAtEpoch
  <2>2. now + ttl # 0 /\ ttl > 0
    BY <1>6, CacheAssumption DEF SetWithTTLAtEpoch, CacheInv, TypeOKCache
  <2>3. q # k
    BY <1>1, <2>1, <2>2 DEF Store, NoEntry
  <2>4. q \in S
    BY <1>1, <2>1, <2>3 DEF Store, Present
  <2>5. /\ ~(k \in Present \/ Cardinality(Present) < maxSize)
        /\ ExpiredKeys = {} /\ S \in {{s} : s \in Soonest}
    BY <1>1, <2>1, <2>4 DEF Evictions
  <2>6. Cardinality(Present) = maxSize
    BY <2>5, PresentFinite, CacheAssumption DEF CacheInv, SizeBounded
  <2>7. q \in Soonest
    BY <2>4, <2>5
  <2>8. PICK e \in heap : e.key = q /\ \A f \in heap : e.at <= f.at
    BY <2>7 DEF Soonest
  <2>9. heap = {[key |-> p, at |-> entries[p].at] : p \in Present}
    BY DEF CacheInv, Indexes
  <2>10. e.at = entries[q].at
    BY <2>8, <2>9
  <2>11. ASSUME NEW p \in Present PROVE entries[q].at <= entries[p].at
    <3>1. [key |-> p, at |-> entries[p].at] \in heap
      BY <2>9
    <3> QED BY <2>8, <2>10, <3>1
  <2> QED BY <2>5, <2>6, <2>11
<1>7. ASSUME NEW d \in Digests, NEW n \in Namespaces, DeleteAll(d, n) PROVE marks'[q] # marks[q]
  <2> DEFINE matching == {k \in Keys : k.digest = d /\ namespaceKeyMatches(k.namespace, n)}
  <2>1. Remove(matching \cap digestIndex[d])
    BY <1>7 DEF DeleteAll
  <2>2. q \in matching
    BY <1>1, <2>1 DEF Remove, Present
  <2>3. marks' = [k \in Keys |-> IF k \in matching THEN marks[k] + 1 ELSE marks[k]]
    BY <1>7 DEF DeleteAll
  <2>4. marks[q] \in Nat
    BY <1>1 DEF CacheInv, TypeOKCache
  <2> HIDE DEF matching
  <2> QED BY <1>1, <2>2, <2>3, <2>4
<1> QED
  BY Zenon, <1>2, <1>4, <1>5, <1>6, <1>7
     DEF NextCache, GetExpired, GetKeeps, Epoch, NothingToStore, Stop, Tick

\* A Get or an eviction that lost a race never takes a fresh entry out of the
\* cache (Get, setLocked, evictExpiredLocked).
THEOREM FreshEntriesAreKept == SpecCache => FreshIsKept
<1>1. CacheInv /\ [NextCache]_varsCache => [FreshIsKeptStep]_varsCache
  BY StepKeepsFresh
<1> QED BY <1>1, ResultCacheInv, PTL DEF SpecCache, FreshIsKept

-----------------------------------------------------------------------------
(* Admission *)

\* What the admission has found out: the digest it looked up is one of the
\* outcomes of the lookup, and it only looks one up when the request has none.
LookedUp == \E r \in resolveImageDigests(ctr) :
                /\ r.digest # NoDigest
                /\ adm.digest = r.digest /\ adm.index = r.index /\ adm.unresolved = r.unresolved

AsRequested == /\ adm.digest = resolveContainerImage(ctr).digest
               /\ adm.index = NoDigest /\ adm.unresolved = FALSE

Failed == \E r \in resolveImageDigests(ctr) : r.digest = NoDigest

Progress ==
    LET image == resolveContainerImage(ctr)
    IN  /\ adm.pc \in {"verify", "resolve"} => image.ref
        /\ adm.pc = "verify" /\ image.digest # NoDigest => AsRequested
        /\ adm.pc = "verify" => AsRequested \/ LookedUp
        /\ adm.pc = "verify" /\ adm.resolved => LookedUp
        /\ adm.pc = "resolve" => image.digest = NoDigest /\ adm.resolved
        /\ adm.pc = "withoutDigest" => ~image.ref \/ (image.digest = NoDigest /\ Failed)

\* The admission is a record with the fields its next step updates.
AdmShape ==
    adm.pc # "begin" =>
        adm = [pc |-> adm.pc, digest |-> adm.digest, index |-> adm.index,
               unresolved |-> adm.unresolved, resolved |-> adm.resolved]

AdmInv == AdmShape /\ Progress /\ AdmittedByCurrentConfig /\ TrackedDigestIsRunning

\* Some lookup of a digest succeeds, and each that does gives the digest the
\* container runs or, without one, what the tag names now.
LEMMA Lookups ==
    /\ \E r \in resolveImageDigests(ctr) : r.digest # NoDigest
    /\ ctr.runtime # NoDigest =>
         \A r \in resolveImageDigests(ctr) :
            r.digest # NoDigest =>
                \/ r.unresolved = TRUE /\ r.digest = ctr.runtime
                \/ r.unresolved = FALSE /\ r.digest = Platform(ctr.runtime) /\ ctr.runtime # "split"
<1>1. CASE ctr.runtime = NoDigest
  <2>1. resolveImageDigests(ctr) =
          {Resolved(d, NoDigest, FALSE) : d \in {"manifest", "moved", NoDigest}}
    BY Zenon, <1>1, DigestAssumption DEF resolveImageDigests
  <2>2. Resolved("manifest", NoDigest, FALSE) \in resolveImageDigests(ctr)
    BY <2>1
  <2>3. Resolved("manifest", NoDigest, FALSE).digest # NoDigest
    BY DigestAssumption DEF Resolved
  <2> QED BY Zenon, <1>1, <2>2, <2>3
<1>2. CASE ctr.runtime # NoDigest /\ ctr.runtime = "split"
  <2>1. resolveImageDigests(ctr) =
          {Resolved(NoDigest, NoDigest, FALSE), Resolved("split", NoDigest, TRUE)}
    BY <1>2, DigestAssumption DEF resolveImageDigests
  <2> QED BY <1>2, <2>1 DEF Resolved
<1>3. CASE ctr.runtime # NoDigest /\ ctr.runtime # "split"
  <2>1. resolveImageDigests(ctr) =
          {Resolved(Platform(ctr.runtime), ctr.runtime, FALSE), Resolved(ctr.runtime, NoDigest, TRUE)}
    BY Zenon, <1>3 DEF resolveImageDigests
  <2> QED BY <1>3, <2>1 DEF Resolved
<1> QED BY Zenon, <1>1, <1>2, <1>3

\* A configuration that would not look the digest up does not need it either.
LEMMA NotNeeded ==
    ASSUME NEW c, ~ShouldVerify(c), NEW digest, NEW index
    PROVE  Verify(c, digest, index).allowed
BY DEF ShouldVerify, Verify, Skip, Enforced

\* A configuration that verifies an image and admits it without its digest
\* admits it with any digest.
LEMMA NeverNeeded ==
    ASSUME NEW c, Verify(c, NoDigest, NoDigest).allowed, NEW digest, NEW index
    PROVE  Verify(c, digest, index).allowed
BY DEF Verify, Skip, Enforced, allowlisted

\* What Verify allows at the end is what the configuration allows by itself.
LEMMA AllowedAlone ==
    ASSUME Progress, adm.pc = "verify", NEW c, Verify(c, adm.digest, adm.index).allowed
    PROVE  AdmitsAlone(c)
<1> DEFINE image == resolveContainerImage(ctr)
           looksUp == image.ref /\ digestNeeded(c, image)
           found == {r \in resolveImageDigests(ctr) : r.digest # NoDigest}
<1>1. image.ref
  BY DEF Progress
<1>2. CASE ~looksUp
  <2>1. CASE image.digest # NoDigest
    BY Zenon, <1>1, <1>2, <2>1 DEF Progress, AsRequested, AdmitsAlone
  <2>2. CASE image.digest = NoDigest
    <3>1. ~ShouldVerify(c)
      BY <1>1, <1>2, <2>2 DEF digestNeeded
    <3> QED BY Zenon, <1>1, <1>2, <3>1, NotNeeded DEF AdmitsAlone
  <2> QED BY <2>1, <2>2
<1>3. CASE looksUp
  <2>1. image.digest = NoDigest
    BY <1>3 DEF digestNeeded
  <2>2. CASE LookedUp
    BY <1>3, <2>2 DEF LookedUp, AdmitsAlone
  <2>3. CASE AsRequested
    <3>1. Verify(c, NoDigest, NoDigest).allowed
      BY <2>1, <2>3 DEF AsRequested
    <3>2. PICK r \in resolveImageDigests(ctr) : r.digest # NoDigest
      BY Lookups
    <3>3. Verify(c, r.digest, r.index).allowed
      BY <3>1, NeverNeeded
    <3> QED BY <1>3, <3>2, <3>3 DEF AdmitsAlone
  <2> QED BY <2>2, <2>3 DEF Progress
<1> QED BY <1>2, <1>3

\* So is what admitWithoutDigest skips.
LEMMA SkippedAlone ==
    ASSUME Progress, adm.pc = "withoutDigest", NEW c, EffectiveMode(c) # "enforce"
    PROVE  AdmitsAlone(c)
<1> DEFINE image == resolveContainerImage(ctr)
           looksUp == image.ref /\ digestNeeded(c, image)
           found == {r \in resolveImageDigests(ctr) : r.digest # NoDigest}
<1>1. CASE ~image.ref
  BY <1>1 DEF AdmitsAlone
<1>2. CASE image.ref
  <2>1. image.digest = NoDigest /\ Failed
    BY <1>2 DEF Progress
  <2>2. found # resolveImageDigests(ctr)
    BY <2>1 DEF Failed
  <2>3. CASE looksUp
    BY <2>2, <2>3 DEF AdmitsAlone
  <2>4. CASE ~looksUp
    <3>1. ~ShouldVerify(c)
      BY <1>2, <2>1, <2>4 DEF digestNeeded
    <3> QED BY Zenon, <1>2, <2>4, <3>1, NotNeeded DEF AdmitsAlone
  <2> QED BY <2>3, <2>4
<1> QED BY <1>1, <1>2

\* What a configuration admits by itself depends on the container and on what
\* verifying it says.
LEMMA AloneIsStable ==
    ASSUME conf' = conf, ctr' = ctr, verdicts' = verdicts, AdmitsAlone(conf)
    PROVE  AdmitsAlone(conf)'
<1>1. \A digest, index : Verify(conf, digest, index)' = Verify(conf, digest, index)
  BY DEF Verify
<1> QED BY Zenon, <1>1 DEF AdmitsAlone

\* Every step of the admission, and every reload between two of them, keeps
\* what it has found out valid.
LEMMA AdmStep == AdmInv /\ [NextAdm]_varsAdm => AdmInv'
<1>1. SUFFICES ASSUME AdmInv, [NextAdm]_varsAdm PROVE AdmInv'
  OBVIOUS
<1> DEFINE image == resolveContainerImage(ctr)
<1>2. CASE ReloadConf
  <2>1. adm' = adm /\ ctr' = ctr /\ adm.pc \notin {"admitted", "skipped", "rejected"}
    BY <1>2 DEF ReloadConf
  <2> QED BY <1>1, <2>1
             DEF AdmInv, AdmShape, Progress, AsRequested, LookedUp, Failed, AdmittedByCurrentConfig,
                 TrackedDigestIsRunning
<1>3. CASE BeginAdmission
  <2>1. ctr' = ctr
    BY <1>3 DEF BeginAdmission
  <2>2. /\ adm'.pc = IF ~image.ref THEN "withoutDigest"
                     ELSE IF digestNeeded(conf, image) THEN "resolve" ELSE "verify"
        /\ adm'.digest = image.digest /\ adm'.index = NoDigest /\ adm'.unresolved = FALSE
        /\ adm'.resolved = digestNeeded(conf, image)
        /\ AdmShape'
    BY <1>3 DEF BeginAdmission, AdmShape
  <2>3. Progress'
    BY Zenon, <2>1, <2>2 DEF Progress, AsRequested, LookedUp, Failed, digestNeeded
  <2> QED BY <2>2, <2>3 DEF AdmInv, AdmittedByCurrentConfig, TrackedDigestIsRunning
<1>4. CASE Resolve
  <2>1. adm.pc = "resolve" /\ ctr' = ctr
    BY <1>4 DEF Resolve
  <2>2. PICK r \in resolveImageDigests(ctr) :
          adm' = [adm EXCEPT !.pc = IF r.digest = NoDigest THEN "withoutDigest" ELSE "verify",
                             !.digest = r.digest, !.index = r.index, !.unresolved = r.unresolved]
    BY Zenon, <1>4 DEF Resolve
  <2>3. /\ adm'.pc = IF r.digest = NoDigest THEN "withoutDigest" ELSE "verify"
        /\ adm'.digest = r.digest /\ adm'.index = r.index /\ adm'.unresolved = r.unresolved
        /\ AdmShape'
    BY Zenon, <1>1, <2>1, <2>2 DEF AdmInv, AdmShape
  <2>4. image.ref /\ image.digest = NoDigest
    BY <1>1, <2>1 DEF AdmInv, Progress
  <2>5. CASE r.digest = NoDigest
    <3>1. Progress'
      BY <2>1, <2>3, <2>4, <2>5 DEF Progress, Failed
    <3> QED BY <2>3, <2>5, <3>1 DEF AdmInv, AdmittedByCurrentConfig, TrackedDigestIsRunning
  <2>6. CASE r.digest # NoDigest
    <3>1. LookedUp'
      BY <2>1, <2>3, <2>6 DEF LookedUp
    <3>2. Progress'
      BY <2>1, <2>3, <2>4, <2>6, <3>1 DEF Progress
    <3> QED BY Zenon, <2>3, <2>6, <3>2 DEF AdmInv, AdmittedByCurrentConfig, TrackedDigestIsRunning
  <2> QED BY <2>5, <2>6
<1>5. CASE VerifyImage
  <2> DEFINE result == Verify(conf, adm.digest, adm.index)
  <2>1. adm.pc = "verify" /\ ctr' = ctr /\ conf' = conf /\ verdicts' = verdicts
    BY <1>5 DEF VerifyImage
  <2>2. CASE result.err = "digestRequired" /\ ~adm.resolved
    <3>1. adm' = [adm EXCEPT !.pc = "resolve", !.resolved = TRUE]
      BY <1>5, <2>2 DEF VerifyImage
    <3>2. adm'.pc = "resolve" /\ adm'.resolved = TRUE /\ AdmShape'
      BY Zenon, <1>1, <2>1, <3>1 DEF AdmInv, AdmShape
    <3>3. adm.digest = NoDigest
      BY <2>2 DEF Verify, Skip, Enforced
    <3>4. image.ref /\ image.digest = NoDigest
      BY <1>1, <2>1, <3>3 DEF AdmInv, Progress, AsRequested
    <3>5. Progress'
      BY <2>1, <3>2, <3>4 DEF Progress
    <3> QED BY <3>2, <3>5 DEF AdmInv, AdmittedByCurrentConfig, TrackedDigestIsRunning
  <2>3. CASE ~(result.err = "digestRequired" /\ ~adm.resolved)
    <3>1. adm' = [adm EXCEPT !.pc = IF result.allowed THEN "admitted" ELSE "rejected",
                             !.unresolved = (adm.digest = NoDigest \/ @) /\ ctr.runtime # NoDigest]
      BY <1>5, <2>3 DEF VerifyImage
    <3>2. /\ adm'.pc = IF result.allowed THEN "admitted" ELSE "rejected"
          /\ adm'.unresolved = ((adm.digest = NoDigest \/ adm.unresolved) /\ ctr.runtime # NoDigest)
          /\ adm'.digest = adm.digest
          /\ AdmShape'
      BY Zenon, <1>1, <2>1, <3>1 DEF AdmInv, AdmShape
    <3>3. Progress'
      BY <3>2 DEF Progress
    <3>4. AdmittedByCurrentConfig'
      <4>1. SUFFICES ASSUME result.allowed PROVE AdmitsAlone(conf)'
        BY <3>2 DEF AdmittedByCurrentConfig
      <4>2. AdmitsAlone(conf)
        BY <1>1, <2>1, <4>1, AllowedAlone DEF AdmInv
      <4> QED BY <2>1, <4>2, AloneIsStable
    <3>5. TrackedDigestIsRunning'
      <4>1. SUFFICES ASSUME ctr.runtime # NoDigest, image.digest = NoDigest
                     PROVE  \/ adm'.unresolved /\ adm'.digest \in {NoDigest, ctr.runtime}
                            \/ /\ ~adm'.unresolved /\ adm'.digest = Platform(ctr.runtime)
                               /\ ctr.runtime # "split"
        BY <2>1 DEF TrackedDigestIsRunning
      <4>2. CASE AsRequested
        BY Zenon, <3>2, <4>1, <4>2 DEF AsRequested
      <4>3. CASE LookedUp
        BY Zenon, <3>2, <4>1, <4>3, Lookups DEF LookedUp
      <4> QED BY <1>1, <2>1, <4>2, <4>3 DEF AdmInv, Progress
    <3> QED BY <3>2, <3>3, <3>4, <3>5 DEF AdmInv
  <2> QED BY <2>2, <2>3
<1>6. CASE AdmitWithoutDigest
  <2>1. /\ adm.pc = "withoutDigest" /\ ctr' = ctr /\ conf' = conf /\ verdicts' = verdicts
        /\ adm' = [adm EXCEPT !.pc = IF EffectiveMode(conf) = "enforce" THEN "rejected" ELSE "skipped"]
    BY <1>6 DEF AdmitWithoutDigest
  <2>2. /\ adm'.pc = IF EffectiveMode(conf) = "enforce" THEN "rejected" ELSE "skipped"
        /\ AdmShape'
    BY <1>1, <2>1 DEF AdmInv, AdmShape
  <2>3. AdmittedByCurrentConfig'
    <3>1. SUFFICES ASSUME EffectiveMode(conf) # "enforce" PROVE AdmitsAlone(conf)'
      BY <2>2 DEF AdmittedByCurrentConfig
    <3>2. AdmitsAlone(conf)
      BY <1>1, <2>1, <3>1, SkippedAlone DEF AdmInv
    <3> QED BY <2>1, <3>2, AloneIsStable
  <2> QED BY <2>2, <2>3 DEF AdmInv, Progress, TrackedDigestIsRunning
<1>7. CASE UNCHANGED varsAdm
  <2>1. adm' = adm /\ ctr' = ctr /\ conf' = conf /\ verdicts' = verdicts
    BY <1>7 DEF varsAdm
  <2>2. AdmShape' /\ TrackedDigestIsRunning'
    BY <1>1, <2>1 DEF AdmInv, AdmShape, TrackedDigestIsRunning
  <2>3. Progress'
    BY Zenon, <1>1, <2>1 DEF AdmInv, Progress, AsRequested, LookedUp, Failed
  <2>4. AdmittedByCurrentConfig'
    BY <1>1, <2>1, AloneIsStable DEF AdmInv, AdmittedByCurrentConfig
  <2> QED BY <2>2, <2>3, <2>4 DEF AdmInv
<1> QED BY <1>1, <1>2, <1>3, <1>4, <1>5, <1>6, <1>7 DEF NextAdm

\* The inductive invariant of an admission holds whatever verifying says.
LEMMA AdmissionInv ==
    ASSUME NEW CONSTANT worlds
    PROVE  SpecAdm(worlds) => []AdmInv
<1>1. InitAdm(worlds) => AdmInv
  BY DEF InitAdm, AdmInv, AdmShape, Progress, AdmittedByCurrentConfig, TrackedDigestIsRunning
<1> QED BY <1>1, AdmStep, PTL DEF SpecAdm

\* What ShouldVerify saw before a reload never stands in for what Verify and
\* EffectiveModeForNamespace see after it, for any configurations and any
\* number of reloads.
THEOREM AdmissionFollowsConfig ==
    ASSUME NEW CONSTANT worlds
    PROVE  SpecAdm(worlds) => []AdmittedByCurrentConfig
<1>1. AdmInv => AdmittedByCurrentConfig BY DEF AdmInv
<1> QED BY <1>1, AdmissionInv, PTL

\* admitVerified hands the continuous verifier the digest the container runs,
\* or the runtime digest to resolve later.
THEOREM AdmissionTracksDigest ==
    ASSUME NEW CONSTANT worlds
    PROVE  SpecAdm(worlds) => []TrackedDigestIsRunning
<1>1. AdmInv => TrackedDigestIsRunning BY DEF AdmInv
<1> QED BY <1>1, AdmissionInv, PTL

-----------------------------------------------------------------------------
(* TrustedRoot *)

\* The types the ages are computed from.
RootTypes ==
    /\ clock \in Nat /\ rootFetchedAt \in Nat \cup {Never}
    /\ pending.state \in {"none", "running", "landed"}
    /\ pending.state = "landed" => pending.fetchedAt \in Nat
    /\ gets = [g \in Gets |-> gets[g]]

\* The result a refresh finds after waiting has just landed.
WaitedIsNew ==
    refresh = "wait" =>
        \/ pending.state = "running"
        \/ pending.state = "landed" /\ pending.fetchedAt = clock

RootInv == RootTypes /\ WaitedIsNew /\ RootIsCurrent

Sound(answer) ==
    answer.pc = "answered" =>
        /\ answer.kind = "fetched" => answer.at - answer.root <= trustedRootMaxStaleness
        /\ answer.kind = "preSeeded" => ~answer.usable

\* A root that is recent enough is a sound answer, so is a failure, and so is
\* the pre-seeded root while no fetched one is usable.
LEMMA SoundAnswers ==
    /\ \A root : clock - root <= trustedRootMaxStaleness => Sound(AnswerWith("fetched", root))
    /\ Sound(Answer("failed"))
    /\ ~Usable => Sound(Answer("preSeeded"))
BY DEF Sound, AnswerWith, Answer

\* The cached root is recent enough while it is fresh or usable.
LEMMA CachedIsSound ==
    ASSUME RootTypes, Fresh \/ Usable
    PROVE  Sound(Answer("fetched"))
<1>1. clock - rootFetchedAt <= trustedRootMaxStaleness
  BY RootAssumption DEF RootTypes, Fresh, Usable, Age
<1> QED BY <1>1, SoundAnswers DEF Answer

\* Delivering a sound answer keeps all answers sound.
LEMMA DeliverIsSound ==
    ASSUME ServedRootIsCurrent, NEW answer, Sound(answer), Deliver(answer)
    PROVE  ServedRootIsCurrent' /\ gets' = [g \in Gets |-> gets'[g]]
BY DEF ServedRootIsCurrent, Deliver, Sound

\* handleRefreshError answers with what is still sound.
LEMMA ErrorIsSound ==
    ASSUME RootTypes, ServedRootIsCurrent, handleRefreshError
    PROVE  /\ ServedRootIsCurrent' /\ gets' = [g \in Gets |-> gets'[g]]
           /\ rootFetchedAt' = rootFetchedAt /\ refresh' = "none"
<1> DEFINE kind == IF Usable THEN "fetched" ELSE IF preSeeded THEN "preSeeded" ELSE "failed"
<1>1. Sound(Answer(kind))
  BY SoundAnswers, CachedIsSound
<1>2. Deliver(Answer(kind)) /\ rootFetchedAt' = rootFetchedAt
  BY DEF handleRefreshError
<1>3. refresh' = "none"
  BY <1>2 DEF Deliver
<1> QED BY <1>1, <1>2, <1>3, DeliverIsSound

\* Every step preserves the inductive invariant of the root.
LEMMA RootStep == RootInv /\ [NextRoot]_varsRoot => RootInv'
<1>1. SUFFICES ASSUME RootInv, [NextRoot]_varsRoot PROVE RootInv'
  OBVIOUS
<1>2. RootTypes /\ WaitedIsNew /\ OneRootFetch /\ ServedRootIsCurrent
  BY <1>1 DEF RootInv, RootIsCurrent
<1>3. CASE RootTick
  <2>1. /\ UNCHANGED <<rootFetchedAt, pending, fetching, refresh, gets>>
        /\ clock' = clock + 1 /\ ~(refresh = "wait" /\ pending.state = "landed")
    BY <1>3 DEF RootTick
  <2> QED BY <1>2, <2>1
             DEF RootInv, RootIsCurrent, RootTypes, WaitedIsNew, OneRootFetch, ServedRootIsCurrent
<1>4. ASSUME NEW g \in Gets, NEW answer, Sound(answer), gets' = [gets EXCEPT ![g] = answer],
             UNCHANGED <<clock, rootFetchedAt, pending, fetching>>,
             refresh' = refresh \/ refresh' = "begin"
      PROVE  RootInv'
  <2>1. gets' = [h \in Gets |-> IF h = g THEN answer ELSE gets[h]]
    BY <1>2, <1>4 DEF RootTypes
  <2>2. ServedRootIsCurrent' /\ gets' = [h \in Gets |-> gets'[h]]
    BY Zenon, <1>2, <1>4, <2>1 DEF ServedRootIsCurrent, Sound
  <2> QED BY <1>2, <1>4, <2>2 DEF RootInv, RootIsCurrent, RootTypes, WaitedIsNew, OneRootFetch
<1>5. \A pc : pc # "answered" => Sound(Doing(pc))
  BY DEF Sound, Doing
<1>6. ASSUME NEW g \in Gets, Get(g) PROVE RootInv'
  <2>1. UNCHANGED <<clock, rootFetchedAt, pending, fetching, refresh>>
    BY <1>6 DEF Get
  <2>2. CASE cachedHit # "none"
    <3>1. gets' = [gets EXCEPT ![g] = Answer(cachedHit)]
      BY Zenon, <1>6, <2>2 DEF Get
    <3>2. \/ cachedHit = "fetched" /\ (Fresh \/ Usable)
          \/ cachedHit = "preSeeded" /\ ~Usable
      BY <2>2 DEF cachedHit
    <3>3. Sound(Answer(cachedHit))
      BY <1>2, <3>2, SoundAnswers, CachedIsSound
    <3> QED BY Zenon, <1>4, <2>1, <3>1, <3>3
  <2>3. CASE cachedHit = "none"
    <3>1. \/ gets' = [gets EXCEPT ![g] = Answer("failed")]
          \/ gets' = [gets EXCEPT ![g] = Doing("refresh")]
      BY Zenon, <1>6, <2>3 DEF Get
    <3> QED BY <1>4, <1>5, <2>1, <3>1, SoundAnswers
  <2> QED BY <2>2, <2>3
<1>7. ASSUME NEW g \in Gets, Join(g) PROVE RootInv'
  BY Zenon, <1>4, <1>5, <1>7 DEF Join
<1>8. ASSUME NEW g \in Gets, GiveUp(g) PROVE RootInv'
  BY Zenon, <1>4, <1>8, SoundAnswers DEF GiveUp
<1>9. ASSUME NEW g \in Gets, Use(g) PROVE RootInv'
  BY Zenon, <1>4, <1>5, <1>9 DEF Use
<1>10. CASE BeginRefresh
  <2>1. clock' = clock
    BY <1>10 DEF BeginRefresh
  <2>2. CASE Fresh
    <3>1. Deliver(Answer("fetched")) /\ UNCHANGED <<rootFetchedAt, pending, fetching>>
      BY <1>10, <2>2 DEF BeginRefresh
    <3>2. ServedRootIsCurrent' /\ gets' = [g \in Gets |-> gets'[g]]
      BY <1>2, <2>2, <3>1, CachedIsSound, DeliverIsSound
    <3> QED BY <1>2, <2>1, <3>1, <3>2
               DEF RootInv, RootIsCurrent, RootTypes, WaitedIsNew, OneRootFetch, Deliver
  <2>3. CASE ~Fresh /\ pending.state = "landed" /\ LateRootIsFresh(pending)
    <3>1. StoreRoot(pending) /\ pending' = NoFetch /\ fetching' = fetching
      BY <1>10, <2>3 DEF BeginRefresh
    <3>2. /\ rootFetchedAt' = pending.fetchedAt /\ pending.fetchedAt \in Nat
          /\ Deliver(AnswerWith("fetched", pending.fetchedAt))
      BY <1>2, <2>3, <3>1 DEF StoreRoot, RootTypes
    <3>3. clock - pending.fetchedAt <= trustedRootMaxStaleness
      BY <1>2, <2>3, <3>2, RootAssumption DEF LateRootIsFresh, Age, RootTypes
    <3>4. ServedRootIsCurrent' /\ gets' = [g \in Gets |-> gets'[g]]
      BY <1>2, <3>2, <3>3, SoundAnswers, DeliverIsSound
    <3> QED BY <1>2, <2>1, <2>3, <3>1, <3>2, <3>4
               DEF RootInv, RootIsCurrent, RootTypes, WaitedIsNew, OneRootFetch, Deliver, NoFetch
  <2>4. CASE ~Fresh /\ ~(pending.state = "landed" /\ LateRootIsFresh(pending))
    <3>1. /\ pending' = [state |-> "running"] /\ UNCHANGED <<rootFetchedAt, gets>>
          /\ fetching' = IF StartsFetch THEN fetching + 1 ELSE fetching
      BY <1>10, <2>4 DEF BeginRefresh
    <3> QED BY <1>2, <2>1, <3>1
               DEF RootInv, RootIsCurrent, RootTypes, WaitedIsNew, OneRootFetch, StartsFetch,
                   ServedRootIsCurrent
  <2> QED BY <2>2, <2>3, <2>4
<1>11. CASE FetchLands
  <2>1. PICK ok \in BOOLEAN : pending' = [state |-> "landed", ok |-> ok, fetchedAt |-> clock]
    BY <1>11 DEF FetchLands
  <2>2. /\ pending.state = "running" /\ fetching' = fetching - 1
        /\ UNCHANGED <<clock, rootFetchedAt, refresh, gets>>
    BY <1>11 DEF FetchLands
  <2> QED BY <1>2, <2>1, <2>2
             DEF RootInv, RootIsCurrent, RootTypes, WaitedIsNew, OneRootFetch, ServedRootIsCurrent
<1>12. CASE Receive
  <2>1. /\ refresh = "wait" /\ pending.state = "landed" /\ pending' = NoFetch
        /\ UNCHANGED <<clock, fetching>>
    BY <1>12 DEF Receive
  <2>2. pending.fetchedAt = clock
    BY <1>2, <2>1 DEF WaitedIsNew
  <2>3. CASE pending.ok
    <3>1. rootFetchedAt' = clock /\ Deliver(AnswerWith("fetched", clock))
      BY <1>12, <2>2, <2>3 DEF Receive, StoreRoot
    <3>2. clock - clock <= trustedRootMaxStaleness
      BY <1>2, RootAssumption DEF RootTypes
    <3>3. ServedRootIsCurrent' /\ gets' = [g \in Gets |-> gets'[g]]
      BY <1>2, <3>1, <3>2, SoundAnswers, DeliverIsSound
    <3> QED BY <1>2, <2>1, <3>1, <3>3
               DEF RootInv, RootIsCurrent, RootTypes, WaitedIsNew, OneRootFetch, Deliver, NoFetch
  <2>4. CASE ~pending.ok
    <3>1. handleRefreshError
      BY <1>12, <2>4 DEF Receive
    <3> QED BY <1>2, <2>1, <3>1, ErrorIsSound
               DEF RootInv, RootIsCurrent, RootTypes, WaitedIsNew, OneRootFetch, NoFetch
  <2> QED BY <2>3, <2>4
<1>13. CASE TimeOut
  <2>1. handleRefreshError /\ UNCHANGED <<clock, pending, fetching>>
    BY <1>13 DEF TimeOut
  <2> QED BY <1>2, <2>1, ErrorIsSound
             DEF RootInv, RootIsCurrent, RootTypes, WaitedIsNew, OneRootFetch
<1>14. CASE UNCHANGED varsRoot
  BY <1>2, <1>14
     DEF varsRoot, RootInv, RootIsCurrent, RootTypes, WaitedIsNew, OneRootFetch, ServedRootIsCurrent
<1> QED
  BY <1>1, <1>3, <1>6, <1>7, <1>8, <1>9, <1>10, <1>11, <1>12, <1>13, <1>14 DEF NextRoot

\* fetchWithDeadline runs one fetch at a time, and no root is handed out past
\* trustedRootMaxStaleness, for any number of verifications, any limits with
\* trustedRootCacheTTL within trustedRootMaxStaleness, and any delays.
THEOREM RootStaysCurrent == SpecRoot => []RootIsCurrent
<1>1. InitRoot => RootInv
  BY DEF InitRoot, RootInv, RootTypes, WaitedIsNew, RootIsCurrent, OneRootFetch, ServedRootIsCurrent,
         NoFetch, Doing
<1>2. RootInv => RootIsCurrent
  BY DEF RootInv
<1> QED BY <1>1, <1>2, RootStep, PTL DEF SpecRoot
=============================================================================
