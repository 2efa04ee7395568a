--------------------------- MODULE InMemoryCache ---------------------------
(***************************************************************************)
(* The default Cache: a bounded LRU map with wall-clock expiry.  A         *)
(* JavaScript Map iterates in insertion order, so the entries are a        *)
(* sequence, the least recently used first.  get and set run without       *)
(* interruption (they are async, but await nothing).                       *)
(***************************************************************************)
EXTENDS Naturals, FiniteSets, SequencesExt

CONSTANTS
  Keys,
  Values,        \* byte strings
  Ttls,          \* the TTLs callers ask for, in clock ticks
  MaxEntries,
  Null,          \* what get answers on a miss
  Horizon,       \* bound: the clock stops here
  MaxOps         \* bound: so many operations are run

ASSUME CacheAssumption ==
  /\ MaxEntries \in Nat \ {0}
  /\ Ttls \subseteq Nat
  /\ Horizon \in Nat /\ MaxOps \in Nat
  /\ Null \notin Values

VARIABLES
  now,           \* Date.now()
  entries,       \* InMemoryCache.entries, oldest first
  ops,           \* history: operations so far
  used,          \* history: when each key was last stored or found
  written,       \* history: what was last stored under each key
  got            \* history: the key and answer of the last get

vars == <<now, entries, ops, used, written, got>>

Entry == [key : Keys, value : Values, expiresAt : Nat]

Stored  == {entries[i].key : i \in DOMAIN entries}
Place(k) == CHOOSE i \in DOMAIN entries : entries[i].key = k
EntryOf(k) == entries[Place(k)]

(* Map.delete: what is left is in the order it was in.                     *)
Without(k) == IF k \in Stored THEN RemoveAt(entries, Place(k)) ELSE entries

TypeOK ==
  /\ now \in Nat /\ ops \in Nat
  /\ entries \in Seq(Entry)
  /\ used \in [Keys -> Nat]
  /\ written \in [Keys -> [value : Values \cup {Null}, expiresAt : Nat]]
  /\ got \in [key : Keys, value : Values \cup {Null}]

Init ==
  /\ now = 0
  /\ entries = <<>>
  /\ ops = 0
  /\ used = [k \in Keys |-> 0]
  /\ written = [k \in Keys |-> [value |-> Null, expiresAt |-> 0]]
  /\ got \in [key : Keys, value : {Null}]

-----------------------------------------------------------------------------
IsExpired_Never(e) == FALSE
IsExpired(e) == now > e.expiresAt

Miss(k) ==
  /\ k \notin Stored
  /\ got' = [key |-> k, value |-> Null]
  /\ UNCHANGED <<entries, used>>

DropExpired(k) ==
  /\ k \in Stored
  /\ IsExpired(EntryOf(k))
  /\ entries' = Without(k)
  /\ got' = [key |-> k, value |-> Null]
  /\ UNCHANGED used

Hit_KeepsPlace(k) ==
  /\ k \in Stored
  /\ ~IsExpired(EntryOf(k))
  /\ got' = [key |-> k, value |-> EntryOf(k).value]
  /\ used' = [used EXCEPT ![k] = ops + 1]
  /\ UNCHANGED entries

Hit(k) ==
  /\ k \in Stored
  /\ ~IsExpired(EntryOf(k))
  /\ entries' = Append(Without(k), EntryOf(k))
  /\ got' = [key |-> k, value |-> EntryOf(k).value]
  /\ used' = [used EXCEPT ![k] = ops + 1]

Get(k) ==
  /\ ops < MaxOps
  /\ ops' = ops + 1
  /\ Miss(k) \/ DropExpired(k) \/ Hit(k)
  /\ UNCHANGED <<now, written>>

(* The loop at the end of set: the oldest entries go, whether they have    *)
(* expired or not, until the bound holds.                                  *)
Evict_OffByOne(s) ==
  IF Len(s) > MaxEntries + 1 THEN SubSeq(s, Len(s) - MaxEntries, Len(s)) ELSE s

Evict(s) ==
  IF Len(s) > MaxEntries THEN SubSeq(s, Len(s) - MaxEntries + 1, Len(s)) ELSE s

Expiry(ttl) == now + ttl

Set(k, v, ttl) ==
  /\ ops < MaxOps
  /\ ops' = ops + 1
  /\ entries' = Evict(Append(Without(k),
                  [key |-> k, value |-> v, expiresAt |-> Expiry(ttl)]))
  /\ written' = [written EXCEPT ![k] = [value |-> v, expiresAt |-> Expiry(ttl)]]
  /\ used' = [used EXCEPT ![k] = ops + 1]
  /\ UNCHANGED <<now, got>>

Tick ==
  /\ now < Horizon
  /\ now' = now + 1
  /\ UNCHANGED <<entries, ops, used, written, got>>

Next ==
  \/ \E k \in Keys : Get(k)
  \/ \E k \in Keys, v \in Values, ttl \in Ttls : Set(k, v, ttl)
  \/ Tick

Spec == Init /\ [][Next]_vars

-----------------------------------------------------------------------------
(* No key is held twice, and never more than maxEntries are held. *)
Bounded ==
  /\ Len(entries) <= MaxEntries
  /\ Cardinality(Stored) = Len(entries)

(* What LRU promises a caller: an entry that has not expired is still      *)
(* there, with the value last stored, as long as fewer than maxEntries     *)
(* other keys have been stored or found since it was.                      *)
RecentlyUsedIsKept ==
  \A k \in Keys :
    /\ written[k].value # Null
    /\ now <= written[k].expiresAt
    /\ Cardinality({j \in Keys : used[j] > used[k]}) < MaxEntries
    => \E e \in ToSet(entries) :
         /\ e.key = k
         /\ e.value = written[k].value
         /\ e.expiresAt = written[k].expiresAt

(* get never answers with a value that was overwritten, or that had        *)
(* expired when it answered.                                               *)
AnswersAreCurrent ==
  [][\A k \in Keys :
       Get(k) /\ got'.value # Null =>
         /\ got'.value = written[k].value
         /\ now <= written[k].expiresAt]_vars

=============================================================================
