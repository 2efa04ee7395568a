------------------------ MODULE InMemoryCache_proofs ------------------------
(***************************************************************************)
(* What InMemoryCache promises, for any keys, values and TTLs, any bound   *)
(* and any number of operations.                                           *)
(***************************************************************************)
EXTENDS InMemoryCache, FiniteSetTheorems, SequenceTheorems, TLAPS

(* The entries are in the order in which they were last used, so no two    *)
(* have the same key.                                                      *)
Ordered(s, u) ==
  \A i, j \in 1 .. Len(s) : i < j => u[s[i].key] < u[s[j].key]

(* An entry holds what was last stored under its key.                      *)
Current(s, w) ==
  \A i \in 1 .. Len(s) : /\ w[s[i].key].value = s[i].value
                         /\ w[s[i].key].expiresAt = s[i].expiresAt

Newer(k) == {j \in Keys : used[j] > used[k]}

(* A key in whose place others were kept.                                  *)
Displaced(k) ==
  /\ k \notin Stored
  /\ written[k].value # Null
  /\ now <= written[k].expiresAt

LruInv ==
  /\ TypeOK
  /\ Len(entries) <= MaxEntries
  /\ Ordered(entries, used)
  /\ Current(entries, written)
  /\ \A k \in Keys : used[k] <= ops
  /\ IsFiniteSet({k \in Keys : used[k] # 0})
  /\ \A k \in Keys : Displaced(k) => Cardinality(Newer(k)) >= MaxEntries

-----------------------------------------------------------------------------
LEMMA RemovedAt ==
  ASSUME NEW S, NEW s \in Seq(S), NEW p \in 1 .. Len(s)
  PROVE  /\ RemoveAt(s, p) \in Seq(S)
         /\ Len(RemoveAt(s, p)) = Len(s) - 1
         /\ \A j \in 1 .. Len(s) - 1 :
              RemoveAt(s, p)[j] = IF j < p THEN s[j] ELSE s[j + 1]
<1> DEFINE before == SubSeq(s, 1, p - 1)
           after  == SubSeq(s, p + 1, Len(s))
<1>1. /\ before \in Seq(S) /\ Len(before) = p - 1
      /\ \A i \in 1 .. p - 1 : before[i] = s[i]
  BY SubSeqProperties
<1>2. /\ after \in Seq(S) /\ Len(after) = Len(s) - p
      /\ \A i \in 1 .. Len(s) - p : after[i] = s[p + i]
  BY SubSeqProperties
<1> HIDE DEF before, after
<1>3. /\ before \o after \in Seq(S)
      /\ Len(before \o after) = Len(before) + Len(after)
      /\ \A i \in 1 .. Len(before) + Len(after) :
           (before \o after)[i] = IF i <= Len(before) THEN before[i]
                                 ELSE after[i - Len(before)]
  BY <1>1, <1>2, ConcatProperties
<1>4. ASSUME NEW j \in 1 .. Len(s) - 1
      PROVE  (before \o after)[j] = IF j < p THEN s[j] ELSE s[j + 1]
  <2>1. CASE j < p
    BY <1>1, <1>2, <1>3, <2>1
  <2>2. CASE ~(j < p)
    <3> DEFINE m == j - (p - 1)
    <3>1. m \in 1 .. Len(s) - p /\ p + m = j + 1
      BY <2>2
    <3>2. (before \o after)[j] = after[m]
      BY <1>1, <1>2, <1>3, <2>2
    <3> HIDE DEF m
    <3>3. after[m] = s[j + 1]
      BY <1>2, <3>1
    <3> QED BY <2>2, <3>2, <3>3
  <2> QED BY <2>1, <2>2
<1>5. Len(before \o after) = Len(s) - 1
  BY <1>1, <1>2, <1>3
<1>6. RemoveAt(s, p) = before \o after
  BY DEF RemoveAt, before, after
<1> QED BY <1>3, <1>4, <1>5, <1>6

(* What is left of the entries when one is taken out: all others, in order.*)
LEMMA WithoutKeeps ==
  ASSUME TypeOK, Ordered(entries, used), NEW k \in Keys
  PROVE  /\ Without(k) \in Seq(Entry)
         /\ Len(Without(k)) <= Len(entries)
         /\ k \in Stored => Len(Without(k)) = Len(entries) - 1
         /\ \A i \in 1 .. Len(Without(k)) :
              /\ Without(k)[i].key # k
              /\ \E j \in 1 .. Len(entries) : Without(k)[i] = entries[j]
         /\ \A j \in 1 .. Len(entries) : entries[j].key # k =>
              \E i \in 1 .. Len(Without(k)) : Without(k)[i] = entries[j]
         /\ Ordered(Without(k), used)
<1> DEFINE W == Without(k)
<1>1. entries \in Seq(Entry) /\ used \in [Keys -> Nat]
  BY DEF TypeOK
<1>2. CASE k \notin Stored
  <2>1. W = entries
    BY <1>2 DEF Without
  <2> QED BY <1>1, <1>2, <2>1 DEF Stored, Entry
<1>3. CASE k \in Stored
  <2> DEFINE p == Place(k)
  <2>1. p \in 1 .. Len(entries) /\ entries[p].key = k
    BY <1>1, <1>3 DEF Stored, Place
  <2>2. W = RemoveAt(entries, p)
    BY <1>3 DEF Without
  <2>3. /\ W \in Seq(Entry) /\ Len(W) = Len(entries) - 1
        /\ \A j \in 1 .. Len(entries) - 1 :
             W[j] = IF j < p THEN entries[j] ELSE entries[j + 1]
    <3> HIDE DEF p
    <3> QED BY <1>1, <2>1, <2>2, RemovedAt
  <2>4. \A j \in 1 .. Len(entries) : entries[j].key = k => j = p
    <3> HIDE DEF p
    <3> SUFFICES ASSUME NEW j \in 1 .. Len(entries), entries[j].key = k, j # p
                 PROVE  FALSE
      OBVIOUS
    <3>1. used[entries[j].key] = used[entries[p].key] /\ used[k] \in Nat
      BY <1>1, <2>1
    <3> QED BY <1>1, <2>1, <3>1 DEF Ordered
  <2> HIDE DEF p, W
  <2>5. ASSUME NEW i \in 1 .. Len(W)
        PROVE  /\ W[i].key # k
               /\ \E j \in 1 .. Len(entries) : W[i] = entries[j]
    <3> DEFINE j == IF i < p THEN i ELSE i + 1
    <3>1. j \in 1 .. Len(entries) /\ j # p /\ W[i] = entries[j]
      BY <1>1, <2>1, <2>3
    <3> QED BY <2>4, <3>1
  <2>6. ASSUME NEW j \in 1 .. Len(entries), entries[j].key # k
        PROVE  \E i \in 1 .. Len(W) : W[i] = entries[j]
    <3>1. CASE j < p
      BY <1>1, <2>1, <2>3, <3>1
    <3>2. CASE p < j
      <4>1. j - 1 \in 1 .. Len(W) /\ W[j - 1] = entries[j]
        BY <1>1, <2>1, <2>3, <3>2
      <4> QED BY <4>1
    <3> QED BY <1>1, <2>1, <2>6, <3>1, <3>2
  <2>7. Ordered(W, used)
    <3> SUFFICES ASSUME NEW i \in 1 .. Len(W), NEW j \in 1 .. Len(W), i < j
                 PROVE  used[W[i].key] < used[W[j].key]
      BY DEF Ordered
    <3>1. PICK m \in 1 .. Len(entries), n \in 1 .. Len(entries) :
             m < n /\ W[i] = entries[m] /\ W[j] = entries[n]
      <4> DEFINE m == IF i < p THEN i ELSE i + 1
                 n == IF j < p THEN j ELSE j + 1
      <4>1. m \in 1 .. Len(entries) /\ n \in 1 .. Len(entries) /\ m < n
        BY <1>1, <2>1, <2>3
      <4>2. W[i] = entries[m] /\ W[j] = entries[n]
        BY <1>1, <2>1, <2>3
      <4> QED BY <4>1, <4>2
    <3> QED BY <3>1 DEF Ordered
  <2> QED BY <2>3, <2>5, <2>6, <2>7, <1>1 DEF W
<1> QED BY <1>2, <1>3

(* A key that is used goes to the end of the order.                        *)
LEMMA AppendKeepsOrder ==
  ASSUME NEW W \in Seq(Entry), NEW e \in Entry,
         used \in [Keys -> Nat], ops \in Nat,
         \A k \in Keys : used[k] <= ops,
         Ordered(W, used),
         \A i \in 1 .. Len(W) : W[i].key # e.key
  PROVE  /\ Append(W, e) \in Seq(Entry)
         /\ Ordered(Append(W, e), [used EXCEPT ![e.key] = ops + 1])
<1> DEFINE u == [used EXCEPT ![e.key] = ops + 1]
           s == Append(W, e)
<1>1. /\ s \in Seq(Entry) /\ Len(s) = Len(W) + 1
      /\ \A i \in 1 .. Len(W) : s[i] = W[i]
      /\ s[Len(W) + 1] = e
  BY AppendProperties
<1>2. e.key \in Keys /\ \A i \in 1 .. Len(W) : W[i].key \in Keys
  <2>1. \A i \in 1 .. Len(W) : W[i] \in Entry
    BY ElementOfSeq
  <2> QED BY <2>1 DEF Entry
<1>3. \A i \in 1 .. Len(W) : u[W[i].key] = used[W[i].key] /\ u[e.key] = ops + 1
  BY <1>2
<1> HIDE DEF u, s
<1>4. ASSUME NEW i \in 1 .. Len(s), NEW j \in 1 .. Len(s), i < j
      PROVE  u[s[i].key] < u[s[j].key]
  <2>1. i \in 1 .. Len(W) /\ s[i] = W[i]
    BY <1>1, <1>4
  <2>2. CASE j \in 1 .. Len(W)
    BY <1>1, <1>3, <1>4, <2>1, <2>2 DEF Ordered
  <2>3. CASE j = Len(W) + 1
    <3>1. u[s[j].key] = ops + 1 /\ u[s[i].key] <= ops
      BY <1>1, <1>2, <1>3, <2>1, <2>3
    <3>2. u[s[i].key] \in Nat
      BY <1>2, <1>3, <2>1
    <3> QED BY <3>1, <3>2
  <2>4. j \in 1 .. Len(W) + 1
    BY <1>1
  <2> QED BY <2>2, <2>3, <2>4
<1> QED BY <1>1, <1>4 DEF Ordered, u, s

(* As many keys are stored as there are entries.                           *)
LEMMA KeysOfOrdered ==
  ASSUME NEW s \in Seq(Entry), NEW u \in [Keys -> Nat], Ordered(s, u)
  PROVE  /\ IsFiniteSet({s[i].key : i \in 1 .. Len(s)})
         /\ Cardinality({s[i].key : i \in 1 .. Len(s)}) = Len(s)
<1> DEFINE K == {s[i].key : i \in 1 .. Len(s)}
           f == [i \in 1 .. Len(s) |-> s[i].key]
<1>1. Len(s) \in Nat
  OBVIOUS
<1>2. ASSUME NEW i \in 1 .. Len(s) PROVE s[i].key \in Keys
  <2>1. s[i] \in Entry
    BY ElementOfSeq
  <2> QED BY <2>1 DEF Entry
<1>3. ASSUME NEW i \in 1 .. Len(s), NEW j \in 1 .. Len(s), s[i].key = s[j].key
      PROVE  i = j
  <2>1. u[s[i].key] \in Nat /\ u[s[i].key] = u[s[j].key]
    BY <1>2, <1>3
  <2>2. ~(i < j) /\ ~(j < i)
    BY <2>1 DEF Ordered
  <2> QED BY <2>2
<1>4. f \in Bijection(1 .. Len(s), K)
  BY <1>3 DEF Bijection, Injection, Surjection, IsInjective
<1>5. IsFiniteSet(1 .. Len(s)) /\ Cardinality(1 .. Len(s)) = Len(s)
  <2>1. 1 \in Int /\ Len(s) \in Int
    BY <1>1
  <2>2. /\ IsFiniteSet(1 .. Len(s))
        /\ Cardinality(1 .. Len(s)) = IF 1 > Len(s) THEN 0 ELSE Len(s) - 1 + 1
    BY <2>1, FS_Interval
  <2> QED BY <1>1, <2>2
<1> HIDE DEF K, f
<1>6. IsFiniteSet(K) /\ Cardinality(K) = Len(s)
  BY <1>4, <1>5, FS_Bijection DEF ExistsBijection
<1> QED BY <1>6 DEF K

Dropped(s) == IF Len(s) > MaxEntries THEN Len(s) - MaxEntries ELSE 0

(* The last MaxEntries entries stay.                                       *)
LEMMA EvictKeepsLast ==
  ASSUME NEW s \in Seq(Entry)
  PROVE  /\ Evict(s) \in Seq(Entry)
         /\ Len(Evict(s)) <= MaxEntries
         /\ Dropped(s) \in 0 .. Len(s)
         /\ Len(Evict(s)) = Len(s) - Dropped(s)
         /\ \A i \in 1 .. Len(Evict(s)) : Evict(s)[i] = s[Dropped(s) + i]
<1>0. Len(s) \in Nat /\ MaxEntries \in Nat \ {0}
  BY CacheAssumption
<1>1. CASE Len(s) > MaxEntries
  <2> DEFINE m == Len(s) - MaxEntries + 1
             t == SubSeq(s, m, Len(s))
  <2>1. m \in Int /\ Len(s) \in Int /\ \A i \in m .. Len(s) : s[i] \in Entry
    BY <1>0, <1>1
  <2>2. /\ t \in Seq(Entry)
        /\ Len(t) = IF m <= Len(s) THEN Len(s) - m + 1 ELSE 0
        /\ \A i \in 1 .. Len(s) - m + 1 : t[i] = s[m + i - 1]
    <3> HIDE DEF m
    <3> QED BY <2>1, SubSeqProperties
  <2>3. Evict(s) = t
    BY <1>1 DEF Evict
  <2> HIDE DEF t
  <2>4. Len(t) = MaxEntries
    BY <1>0, <1>1, <2>2
  <2>5. \A i \in 1 .. Len(t) : t[i] = s[(Len(s) - MaxEntries) + i]
    BY <1>0, <1>1, <2>2, <2>4
  <2>6. Dropped(s) = Len(s) - MaxEntries
    BY <1>1 DEF Dropped
  <2> QED BY <1>0, <1>1, <2>2, <2>3, <2>4, <2>5, <2>6
<1>2. CASE ~(Len(s) > MaxEntries)
  BY <1>0, <1>2 DEF Evict, Dropped
<1> QED BY <1>1, <1>2

-----------------------------------------------------------------------------
LEMMA InitLru == Init => LruInv
<1> SUFFICES ASSUME Init PROVE LruInv
  OBVIOUS
<1>1. TypeOK /\ Len(entries) = 0
  BY DEF Init, TypeOK
<1>2. {k \in Keys : used[k] # 0} = {}
  BY DEF Init
<1>3. IsFiniteSet({k \in Keys : used[k] # 0})
  BY <1>2, FS_EmptySet
<1>4. \A k \in Keys : ~Displaced(k)
  BY DEF Init, Displaced
<1>5. Ordered(entries, used) /\ Current(entries, written) /\ \A k \in Keys : used[k] <= ops
  BY <1>1 DEF Init, Ordered, Current
<1> QED BY <1>1, <1>3, <1>4, <1>5, CacheAssumption DEF LruInv

(* A key that is used is newer than any other.                             *)
LEMMA UseIsNewest ==
  ASSUME LruInv, NEW k \in Keys, used' = [used EXCEPT ![k] = ops + 1], ops' = ops + 1
  PROVE  /\ used' \in [Keys -> Nat]
         /\ \A j \in Keys : used'[j] <= ops'
         /\ IsFiniteSet({j \in Keys : used'[j] # 0})
         /\ \A j \in Keys : IsFiniteSet(Newer(j)')
         /\ \A j \in Keys \ {k} : Cardinality(Newer(j)) >= MaxEntries =>
                                   Cardinality(Newer(j)') >= MaxEntries
<1>1. used \in [Keys -> Nat] /\ ops \in Nat /\ \A j \in Keys : used[j] <= ops
  BY DEF LruInv, TypeOK
<1>2. used' \in [Keys -> Nat] /\ \A j \in Keys : used'[j] <= ops'
  BY <1>1
<1>3. IsFiniteSet({j \in Keys : used'[j] # 0})
  <2> DEFINE T == {j \in Keys : used[j] # 0}
  <2>1. IsFiniteSet(T \cup {k})
    BY FS_AddElement DEF LruInv
  <2>2. {j \in Keys : used'[j] # 0} \subseteq T \cup {k}
    BY <1>1
  <2> QED BY <2>1, <2>2, FS_Subset, Zenon
<1>4. ASSUME NEW j \in Keys PROVE IsFiniteSet(Newer(j)')
  <2>1. Newer(j)' \subseteq {i \in Keys : used'[i] # 0}
    BY <1>2 DEF Newer
  <2> QED BY <1>3, <2>1, FS_Subset, Zenon
<1>5. ASSUME NEW j \in Keys \ {k}, Cardinality(Newer(j)) >= MaxEntries
      PROVE  Cardinality(Newer(j)') >= MaxEntries
  <2>1. Newer(j) \subseteq Newer(j)'
    BY <1>1 DEF Newer
  <2>2. IsFiniteSet(Newer(j)')
    BY <1>4
  <2>3. IsFiniteSet(Newer(j)) /\ Cardinality(Newer(j)) <= Cardinality(Newer(j)')
    BY <2>1, <2>2, FS_Subset, Zenon
  <2>4. Cardinality(Newer(j)) \in Nat /\ Cardinality(Newer(j)') \in Nat
    BY <2>2, <2>3, FS_CardinalityType
  <2> QED BY <1>5, <2>3, <2>4, CacheAssumption
<1> QED BY <1>2, <1>3, <1>4, <1>5

LEMMA EntryOfStored ==
  ASSUME LruInv, NEW k \in Stored
  PROVE  /\ EntryOf(k) \in Entry /\ EntryOf(k).key = k
         /\ EntryOf(k).value = written[k].value
         /\ EntryOf(k).expiresAt = written[k].expiresAt
         /\ Place(k) \in 1 .. Len(entries)
<1>1. entries \in Seq(Entry) /\ Current(entries, written)
  BY DEF LruInv, TypeOK
<1>2. Place(k) \in 1 .. Len(entries) /\ entries[Place(k)].key = k
  BY <1>1 DEF Stored, Place
<1>3. entries[Place(k)] \in Entry
  BY <1>1, <1>2, ElementOfSeq
<1> HIDE DEF Place
<1> QED BY <1>1, <1>2, <1>3 DEF EntryOf, Current, Place

(* What is left of the entries is as current as it was.                    *)
LEMMA WithoutIsCurrent ==
  ASSUME LruInv, NEW k \in Keys
  PROVE  /\ Current(Without(k), written)
         /\ {Without(k)[i].key : i \in 1 .. Len(Without(k))} = Stored \ {k}
<1>1. TypeOK /\ Ordered(entries, used) /\ Current(entries, written) /\ entries \in Seq(Entry)
  BY DEF LruInv, TypeOK
<1> DEFINE W == Without(k)
<1>2. /\ \A i \in 1 .. Len(W) :
           W[i].key # k /\ \E j \in 1 .. Len(entries) : W[i] = entries[j]
      /\ \A j \in 1 .. Len(entries) : entries[j].key # k =>
           \E i \in 1 .. Len(W) : W[i] = entries[j]
  BY <1>1, WithoutKeeps
<1> HIDE DEF W
<1>3. Current(W, written)
  BY <1>1, <1>2 DEF Current
<1>4. Stored = {entries[j].key : j \in 1 .. Len(entries)}
  BY <1>1 DEF Stored
<1>5. {W[i].key : i \in 1 .. Len(W)} = Stored \ {k}
  BY <1>2, <1>4
<1> QED BY <1>3, <1>5 DEF W

-----------------------------------------------------------------------------
LEMMA MissStep ==
  ASSUME LruInv, NEW k \in Keys, Get(k), Miss(k)
  PROVE  LruInv'
<1>1. TypeOK'
  BY DEF LruInv, TypeOK, Get, Miss
<1>2. \A j \in Keys : /\ Displaced(j)' => Displaced(j)
                      /\ Newer(j)' = Newer(j)
  BY DEF Get, Miss, Displaced, Newer, Stored
<1>3. \A j \in Keys : used'[j] <= ops'
  BY DEF LruInv, TypeOK, Get, Miss
<1> QED BY <1>1, <1>2, <1>3 DEF LruInv, Get, Miss, Ordered, Current

LEMMA DropStep ==
  ASSUME LruInv, NEW k \in Keys, Get(k), DropExpired(k)
  PROVE  LruInv'
<1>1. entries' = Without(k) /\ UNCHANGED <<now, used, written>> /\ k \in Stored
  BY DEF Get, DropExpired
<1>2. /\ Without(k) \in Seq(Entry) /\ Len(Without(k)) <= Len(entries)
      /\ Ordered(Without(k), used)
  BY WithoutKeeps DEF LruInv
<1>3. /\ Current(Without(k), written)
      /\ {Without(k)[i].key : i \in 1 .. Len(Without(k))} = Stored \ {k}
  BY WithoutIsCurrent
<1>4. Stored' = Stored \ {k}
  <2> DEFINE W == Without(k)
  <2> HIDE DEF W
  <2>1. entries' = W /\ DOMAIN W = 1 .. Len(W)
    BY <1>1, <1>2 DEF W
  <2>2. Stored' = {W[i].key : i \in 1 .. Len(W)}
    BY <2>1 DEF Stored
  <2> QED BY <1>3, <2>2 DEF W
<1>5. TypeOK'
  BY <1>1, <1>2 DEF LruInv, TypeOK, Get, DropExpired
<1>6. ~Displaced(k)'
  <2>1. EntryOf(k).expiresAt = written[k].expiresAt /\ EntryOf(k) \in Entry
    BY <1>1, EntryOfStored
  <2>2. now > EntryOf(k).expiresAt
    BY DEF DropExpired, IsExpired
  <2> QED BY <1>1, <2>1, <2>2 DEF Displaced, LruInv, TypeOK, Entry
<1>7. \A j \in Keys : /\ Displaced(j)' => Displaced(j)
                      /\ Newer(j)' = Newer(j)
  BY <1>1, <1>4, <1>6 DEF Displaced, Newer
<1>8. \A j \in Keys : used'[j] <= ops'
  BY <1>1 DEF LruInv, TypeOK, Get
<1>9. Len(entries') <= MaxEntries
  <2>1. Len(entries) \in Nat /\ Len(Without(k)) \in Nat /\ MaxEntries \in Nat
    BY <1>2, CacheAssumption DEF LruInv, TypeOK
  <2> QED BY <1>1, <1>2, <2>1 DEF LruInv
<1> QED BY <1>1, <1>2, <1>3, <1>5, <1>7, <1>8, <1>9 DEF LruInv

(* Putting an entry at the end, where k is the key of the entry.           *)
(* The keys of a sequence of entries.                                      *)
KeysOf(s) == {s[i].key : i \in 1 .. Len(s)}

LEMMA PutLast ==
  ASSUME LruInv, NEW k \in Keys, NEW e \in Entry, e.key = k,
         NEW w \in [Keys -> [value : Values \cup {Null}, expiresAt : Nat]],
         w[k].value = e.value, w[k].expiresAt = e.expiresAt,
         \A j \in Keys \ {k} : w[j] = written[j]
  PROVE  LET s == Append(Without(k), e)
         IN /\ s \in Seq(Entry)
            /\ Len(s) = Len(Without(k)) + 1
            /\ s[Len(s)] = e
            /\ Ordered(s, [used EXCEPT ![k] = ops + 1])
            /\ Current(s, w)
            /\ KeysOf(s) = Stored \cup {k}
<1> DEFINE W == Without(k)
           s == Append(W, e)
<1>1. /\ W \in Seq(Entry) /\ Ordered(W, used)
      /\ \A i \in 1 .. Len(W) : W[i].key # k
  BY WithoutKeeps DEF LruInv
<1>2. Current(W, written) /\ {W[i].key : i \in 1 .. Len(W)} = Stored \ {k}
  BY WithoutIsCurrent
<1> HIDE DEF W
<1>3. s \in Seq(Entry) /\ Ordered(s, [used EXCEPT ![k] = ops + 1])
  BY <1>1, AppendKeepsOrder DEF LruInv, TypeOK
<1>4. /\ Len(s) = Len(W) + 1 /\ s[Len(s)] = e
      /\ \A i \in 1 .. Len(W) : s[i] = W[i]
  BY <1>1, AppendProperties
<1>5. Len(W) \in Nat /\ \A i \in 1 .. Len(W) : W[i].key \in Keys
  <2>1. \A i \in 1 .. Len(W) : W[i] \in Entry
    BY <1>1, ElementOfSeq
  <2> QED BY <1>1, <2>1 DEF Entry
<1> HIDE DEF s
<1>6. Current(s, w)
  <2> SUFFICES ASSUME NEW i \in 1 .. Len(s)
               PROVE  w[s[i].key].value = s[i].value /\ w[s[i].key].expiresAt = s[i].expiresAt
    BY DEF Current
  <2>1. CASE i \in 1 .. Len(W)
    BY <1>1, <1>2, <1>4, <1>5, <2>1 DEF Current
  <2>2. CASE i = Len(s)
    BY <1>4, <2>2
  <2> QED BY <1>4, <1>5, <2>1, <2>2
<1>7. {s[i].key : i \in 1 .. Len(s)} = Stored \cup {k}
  <2>1. Len(s) \in 1 .. Len(s) /\ \A i \in 1 .. Len(s) : i \in 1 .. Len(W) \/ i = Len(s)
    BY <1>4, <1>5
  <2>2. {s[i].key : i \in 1 .. Len(s)} = {W[i].key : i \in 1 .. Len(W)} \cup {k}
    BY <1>4, <1>5, <2>1
  <2> QED BY <1>2, <2>2
<1> QED BY <1>3, <1>4, <1>6, <1>7 DEF s, W, KeysOf

LEMMA HitStep ==
  ASSUME LruInv, NEW k \in Keys, Get(k), Hit(k)
  PROVE  LruInv'
<1> DEFINE s == Append(Without(k), EntryOf(k))
<1>1. /\ entries' = s /\ UNCHANGED <<now, written>> /\ k \in Stored
      /\ used' = [used EXCEPT ![k] = ops + 1] /\ ops' = ops + 1
  BY DEF Get, Hit
<1>2. /\ EntryOf(k) \in Entry /\ EntryOf(k).key = k
      /\ EntryOf(k).value = written[k].value
      /\ EntryOf(k).expiresAt = written[k].expiresAt
  BY <1>1, EntryOfStored
<1>3. /\ s \in Seq(Entry) /\ Len(s) = Len(Without(k)) + 1
      /\ Ordered(s, [used EXCEPT ![k] = ops + 1])
      /\ Current(s, written)
      /\ KeysOf(s) = Stored \cup {k}
  <2>1. written \in [Keys -> [value : Values \cup {Null}, expiresAt : Nat]]
    BY DEF LruInv, TypeOK
  <2> QED BY <1>2, <2>1, PutLast
<1> HIDE DEF s
<1>4. Stored' = Stored
  <2>1. entries' = s /\ DOMAIN s = 1 .. Len(s)
    BY <1>1, <1>3
  <2>2. Stored' = {s[i].key : i \in 1 .. Len(s)}
    BY <2>1 DEF Stored
  <2> QED BY <1>1, <1>3, <2>2 DEF KeysOf
<1>5. /\ used' \in [Keys -> Nat] /\ \A j \in Keys : used'[j] <= ops'
      /\ IsFiniteSet({j \in Keys : used'[j] # 0})
      /\ \A j \in Keys \ {k} : Cardinality(Newer(j)) >= MaxEntries =>
                                Cardinality(Newer(j)') >= MaxEntries
  BY <1>1, UseIsNewest
<1>6. Len(s) = Len(entries)
  <2>1. Len(Without(k)) = Len(entries) - 1 /\ Len(entries) \in Nat
    BY <1>1, WithoutKeeps DEF LruInv, TypeOK
  <2> QED BY <1>3, <2>1
<1>7. TypeOK'
  <2>1. got' \in [key : Keys, value : Values \cup {Null}]
    BY <1>2 DEF Hit, Entry
  <2> QED BY <1>1, <1>3, <1>5, <2>1 DEF LruInv, TypeOK
<1>8. \A j \in Keys : Displaced(j)' => Displaced(j) /\ j # k
  BY <1>1, <1>4 DEF Displaced
<1> QED BY <1>1, <1>3, <1>5, <1>6, <1>7, <1>8 DEF LruInv

LEMMA SetStep ==
  ASSUME LruInv, NEW k \in Keys, NEW v \in Values, NEW ttl \in Ttls, Set(k, v, ttl)
  PROVE  LruInv'
<1> DEFINE e == [key |-> k, value |-> v, expiresAt |-> Expiry(ttl)]
           s == Append(Without(k), e)
           d == Dropped(s)
<1>1. /\ entries' = Evict(s) /\ UNCHANGED now
      /\ used' = [used EXCEPT ![k] = ops + 1] /\ ops' = ops + 1
      /\ written' = [written EXCEPT ![k] = [value |-> v, expiresAt |-> Expiry(ttl)]]
      /\ UNCHANGED got
  BY DEF Set
<1>2. e \in Entry /\ e.key = k /\ Expiry(ttl) \in Nat
  BY CacheAssumption DEF Expiry, Entry, LruInv, TypeOK
<1>3. /\ written' \in [Keys -> [value : Values \cup {Null}, expiresAt : Nat]]
      /\ written'[k].value = e.value /\ written'[k].expiresAt = e.expiresAt
      /\ \A j \in Keys \ {k} : written'[j] = written[j]
  BY <1>1, <1>2 DEF LruInv, TypeOK
<1>4. /\ s \in Seq(Entry) /\ Len(s) = Len(Without(k)) + 1 /\ s[Len(s)] = e
      /\ Ordered(s, used')
      /\ Current(s, written')
      /\ KeysOf(s) = Stored \cup {k}
  <2>1. ASSUME NEW x \in Entry, x.key = k,
               NEW w \in [Keys -> [value : Values \cup {Null}, expiresAt : Nat]],
               w[k].value = x.value, w[k].expiresAt = x.expiresAt,
               \A j \in Keys \ {k} : w[j] = written[j]
        PROVE  /\ Append(Without(k), x) \in Seq(Entry)
               /\ Len(Append(Without(k), x)) = Len(Without(k)) + 1
               /\ Append(Without(k), x)[Len(Append(Without(k), x))] = x
               /\ Ordered(Append(Without(k), x), [used EXCEPT ![k] = ops + 1])
               /\ Current(Append(Without(k), x), w)
               /\ KeysOf(Append(Without(k), x)) = Stored \cup {k}
    BY <2>1, PutLast
  <2> HIDE DEF e
  <2> QED BY <1>1, <1>2, <1>3, <2>1
<1> HIDE DEF s, e
<1>5. /\ Evict(s) \in Seq(Entry) /\ Len(Evict(s)) <= MaxEntries
      /\ d \in 0 .. Len(s) /\ Len(Evict(s)) = Len(s) - d
      /\ \A i \in 1 .. Len(Evict(s)) : Evict(s)[i] = s[d + i]
  BY <1>4, EvictKeepsLast
<1>6. /\ Len(s) \in Nat /\ Len(s) >= 1 /\ MaxEntries \in Nat \ {0}
      /\ d > 0 => Len(Evict(s)) = MaxEntries
      /\ d < Len(s)
  <2>1. Len(s) \in Nat /\ Len(s) >= 1
    BY <1>4, WithoutKeeps DEF LruInv
  <2> QED BY <1>4, <1>5, <2>1, CacheAssumption DEF Dropped
<1>7. /\ used' \in [Keys -> Nat] /\ \A j \in Keys : used'[j] <= ops'
      /\ IsFiniteSet({j \in Keys : used'[j] # 0})
      /\ \A j \in Keys : IsFiniteSet(Newer(j)')
      /\ \A j \in Keys \ {k} : Cardinality(Newer(j)) >= MaxEntries =>
                                Cardinality(Newer(j)') >= MaxEntries
  BY <1>1, UseIsNewest
<1> HIDE DEF d
<1>8. Ordered(entries', used') /\ Current(entries', written')
  <2>1. \A i \in 1 .. Len(entries') : /\ d + i \in 1 .. Len(s)
                                     /\ entries'[i] = s[d + i]
    BY <1>1, <1>5, <1>6
  <2>2. \A i, j \in 1 .. Len(entries') : i < j => d + i < d + j
    BY <1>5
  <2> QED BY <1>4, <2>1, <2>2 DEF Ordered, Current
<1>9. Stored' = {entries'[i].key : i \in 1 .. Len(entries')}
  BY <1>1, <1>5 DEF Stored
<1>10. k \in Stored'
  <2>0. Len(s) - d \in 1 .. Len(entries') /\ d + (Len(s) - d) = Len(s)
    BY <1>1, <1>5, <1>6
  <2>1. Len(s) - d \in 1 .. Len(entries') /\ entries'[Len(s) - d] = s[Len(s)]
    BY <1>1, <1>5, <2>0
  <2> QED BY <1>2, <1>4, <1>9, <2>1
<1>11. TypeOK'
  BY <1>1, <1>3, <1>5, <1>7 DEF LruInv, TypeOK
<1>12. ASSUME NEW j \in Keys, Displaced(j)'
       PROVE  Cardinality(Newer(j)') >= MaxEntries
  <2>1. j # k /\ j \notin Stored'
    BY <1>10, <1>12 DEF Displaced
  <2>2. CASE j \notin Stored
    <3>1. Displaced(j)
      BY <1>1, <1>3, <1>12, <2>1, <2>2 DEF Displaced
    <3> QED BY <1>7, <2>1, <3>1 DEF LruInv
  <2>3. CASE j \in Stored
    <3>1. PICK i \in 1 .. Len(s) : s[i].key = j
      BY <1>4, <2>3 DEF KeysOf
    <3>2. i <= d
      <4> SUFFICES ASSUME i > d PROVE FALSE
        BY <1>5, <1>6
      <4>1. i - d \in 1 .. Len(entries') /\ d + (i - d) = i
        BY <1>1, <1>5, <1>6
      <4>2. entries'[i - d].key = j
        BY <1>1, <1>5, <3>1, <4>1
      <4> QED BY <1>9, <2>1, <4>1, <4>2
    <3>3. Stored' \subseteq Newer(j)'
      <4> SUFFICES ASSUME NEW m \in 1 .. Len(entries')
                   PROVE  entries'[m].key \in Newer(j)'
        BY <1>9
      <4>1. d + m \in 1 .. Len(s) /\ i < d + m /\ entries'[m] = s[d + m]
        BY <1>1, <1>5, <1>6, <3>2
      <4>2. used'[j] < used'[s[d + m].key]
        BY <1>4, <3>1, <4>1 DEF Ordered
      <4>3. s[d + m].key \in Keys
        <5>1. s[d + m] \in Entry
          BY <1>4, <4>1, ElementOfSeq
        <5> QED BY <5>1 DEF Entry
      <4> QED BY <1>7, <4>1, <4>2, <4>3 DEF Newer
    <3>4. Cardinality(Stored') = Len(entries')
      BY <1>1, <1>5, <1>7, <1>8, <1>9, KeysOfOrdered
    <3>5. Len(entries') = MaxEntries
      BY <1>1, <1>5, <1>6, <3>2
    <3>6. Cardinality(Stored') <= Cardinality(Newer(j)')
      BY <1>7, <3>3, FS_Subset
    <3>7. Cardinality(Newer(j)') \in Nat
      BY <1>7, FS_CardinalityType
    <3> QED BY <1>6, <3>4, <3>5, <3>6, <3>7
  <2> QED BY <2>2, <2>3
<1> QED BY <1>1, <1>5, <1>7, <1>8, <1>11, <1>12 DEF LruInv

LEMMA NextLru == LruInv /\ [Next]_vars => LruInv'
<1> SUFFICES ASSUME LruInv, [Next]_vars PROVE LruInv'
  OBVIOUS
<1>1. ASSUME NEW k \in Keys, Get(k) PROVE LruInv'
  BY <1>1, MissStep, DropStep, HitStep DEF Get
<1>2. ASSUME NEW k \in Keys, NEW v \in Values, NEW ttl \in Ttls, Set(k, v, ttl)
      PROVE  LruInv'
  BY <1>2, SetStep
<1>3. CASE Tick
  <2>1. TypeOK'
    BY <1>3 DEF Tick, LruInv, TypeOK
  <2>2. \A j \in Keys : /\ Displaced(j)' => Displaced(j)
                        /\ Newer(j)' = Newer(j)
    BY <1>3 DEF Tick, LruInv, TypeOK, Displaced, Newer, Stored
  <2> QED BY <1>3, <2>1, <2>2 DEF Tick, LruInv
<1>4. CASE UNCHANGED vars
  BY <1>4 DEF vars, LruInv, TypeOK, Displaced, Newer, Stored
<1> QED BY <1>1, <1>2, <1>3, <1>4 DEF Next

(* What is in the cache, and in which order.                               *)
THEOREM LruCorrect == Spec => []LruInv
  BY InitLru, NextLru, PTL DEF Spec

(* Never more than maxEntries entries, and never two for one key.          *)
THEOREM BoundedCorrect == Spec => []Bounded
<1>1. ASSUME LruInv PROVE Bounded
  <2>1. entries \in Seq(Entry) /\ used \in [Keys -> Nat] /\ Ordered(entries, used)
    BY <1>1 DEF LruInv, TypeOK
  <2>2. Stored = {entries[i].key : i \in 1 .. Len(entries)}
    BY <2>1 DEF Stored
  <2>3. Cardinality(Stored) = Len(entries)
    BY <2>1, <2>2, KeysOfOrdered
  <2> QED BY <1>1, <2>3 DEF Bounded, LruInv
<1> QED BY <1>1, LruCorrect, PTL

(* An entry goes before it expires only when maxEntries other keys have    *)
(* been stored or found since it was.                                      *)
THEOREM RecentlyUsedIsKeptCorrect == Spec => []RecentlyUsedIsKept
<1>1. ASSUME LruInv PROVE RecentlyUsedIsKept
  <2> SUFFICES ASSUME NEW k \in Keys, written[k].value # Null,
                      now <= written[k].expiresAt,
                      Cardinality(Newer(k)) < MaxEntries
               PROVE  \E e \in ToSet(entries) : /\ e.key = k
                                               /\ e.value = written[k].value
                                               /\ e.expiresAt = written[k].expiresAt
    BY DEF RecentlyUsedIsKept, Newer
  <2>1. entries \in Seq(Entry) /\ Current(entries, written)
    BY <1>1 DEF LruInv, TypeOK
  <2>2. Cardinality(Newer(k)) \in Nat
    <3>1. Newer(k) \subseteq {j \in Keys : used[j] # 0}
      BY <1>1 DEF Newer, LruInv, TypeOK
    <3> QED BY <1>1, <3>1, FS_Subset, FS_CardinalityType DEF LruInv
  <2>3. k \in Stored
    BY <1>1, <2>2, CacheAssumption DEF LruInv, Displaced
  <2>4. PICK i \in 1 .. Len(entries) : entries[i].key = k
    BY <2>1, <2>3 DEF Stored
  <2> QED BY <2>1, <2>4 DEF Current, ToSet
<1> QED BY <1>1, LruCorrect, PTL

(* get answers with what was last stored under the key, and never after it *)
(* has expired.                                                            *)
THEOREM AnswersAreCurrentCorrect == Spec => AnswersAreCurrent
<1>1. ASSUME LruInv, NEW k \in Keys, Get(k), got'.value # Null
      PROVE  got'.value = written[k].value /\ now <= written[k].expiresAt
  <2>1. Hit(k)
    BY <1>1 DEF Get, Miss, DropExpired
  <2>2. EntryOf(k).value = written[k].value /\ EntryOf(k).expiresAt = written[k].expiresAt
        /\ EntryOf(k) \in Entry
    BY <1>1, <2>1, EntryOfStored DEF Hit
  <2> QED BY <1>1, <2>1, <2>2 DEF Hit, IsExpired, Entry, LruInv, TypeOK
<1>2. LruInv => [\A k \in Keys : Get(k) /\ got'.value # Null =>
                   /\ got'.value = written[k].value
                   /\ now <= written[k].expiresAt]_vars
  BY <1>1
<1> QED BY <1>2, LruCorrect, PTL DEF AnswersAreCurrent
=============================================================================
