------------------------------ MODULE KaiCache ------------------------------
(* One kai_cache (kai/cache/kai_cache.c).  Every operation holds the cache's    *)
(* lock from beginning to end, so each is one step; the hazard is in sequences  *)
(* of calls: the counter of insertions stands in for the number of entries and  *)
(* is not the same thing.  The policy and the callbacks on_evict and on_expire  *)
(* are never looked at or set by the code and are left out; entry_size is 0, as *)
(* every caller has it.                                                         *)
(* A key too long for an entry is stored cut to 63 characters and compared      *)
(* whole, so it is not found again (LongKeys); the keys here are such that none *)
(* is the first 63 characters of another, which would find that one's entry.    *)
EXTENDS Integers, Sequences, SequencesExt

CONSTANTS
  Keys,
  LongKeys,     \* keys cut off by strscpy(entry->key, key): never found again
  Values,
  MaxEntries,   \* max_entries
  Ttl,          \* default_ttl_ms
  Ttls,         \* the ttl_ms given to kai_cache_put_ex()
  Memory,       \* how many entries GFP_ATOMIC memory has room for
  MaxCount,     \* where the model stops counting insertions
  None

ASSUME KaiCacheAssumption ==
  /\ LongKeys \subseteq Keys /\ None \notin Values
  /\ MaxEntries \in Nat \ {0} /\ Ttl \in Nat /\ Ttls \subseteq Nat
  /\ MaxEntries <= Memory /\ Memory \in Nat
  /\ MaxCount \in Nat /\ MaxCount > MaxEntries
  \* lifetimes are 64 bits wide: one of them is the longest
  /\ \E t \in Ttls \cup {Ttl} : \A u \in Ttls \cup {Ttl} : u <= t

VARIABLES
  lru,       \* lru_list, the most recently used entry first
  inserts,   \* stats.inserts; below zero its 64 bits read as a huge number
  life,      \* the cache is "live", "destroyed" or "corrupt"
  call,      \* the call just made (read by the properties only)
  reset      \* kai_cache_reset_stats() has been called since the last flush

vars == <<lru, inserts, life, call, reset>>

MaxTtl == CHOOSE t \in Ttls \cup {Ttl} : \A u \in Ttls \cup {Ttl} : u <= t

(* age is the time since last_access_ns in milliseconds, up to MaxTtl + 1;      *)
(* valid is the flag KAI_CACHE_VALID.                                           *)
Entries == [key : Keys, value : Values, ttl : Ttls \cup {Ttl},
            age : 0..(MaxTtl + 1), valid : BOOLEAN]

TypeOK ==
  /\ lru \in Seq(Entries) /\ Len(lru) <= Memory
  /\ inserts \in (-Memory)..MaxCount
  /\ life \in {"live", "destroyed", "corrupt"}
  /\ call \in [op : {"none", "put", "get", "remove", "flush"},
               key : Keys \cup {None}, value : Values \cup {None}]
  /\ reset \in BOOLEAN

Call(op, k, v) == [op |-> op, key |-> k, value |-> v]
NoCall == Call("none", None, None)

(* kai_cache_create()                                                           *)
Init ==
  /\ lru = <<>> /\ inserts = 0 /\ life = "live"
  /\ call = NoCall
  /\ reset = FALSE

-----------------------------------------------------------------------------
(* kai_cache_entry_expired(): the age counts from the last access, so an entry  *)
(* that is used often enough never expires.                                     *)
Expired(e) == ~e.valid \/ e.age > e.ttl

\* Mutant: the lookup passes over entries that have expired.
FindFresh(k) ==
  IF k \in LongKeys THEN 0 ELSE SelectInSeq(lru, LAMBDA e : e.key = k /\ ~Expired(e))

(* find_entry(): the place of the key's entry, expired or not, 0 without one.   *)
Find(k) ==
  IF k \in LongKeys THEN 0 ELSE SelectInSeq(lru, LAMBDA e : e.key = k)

Held(k) == Find(k) # 0

NewEntry(k, v, t) == [key |-> k, value |-> v, ttl |-> t, age |-> 0, valid |-> TRUE]

\* Mutant: the entry is brought up to date where it is.
InPlace(i, e) == [lru EXCEPT ![i] = e]

(* list_move() to the head of lru_list                                          *)
ToFront(i, e) == <<e>> \o RemoveAt(lru, i)

-----------------------------------------------------------------------------
(* kai_cache_put_ex() and kai_cache_put(), once memory for the data is there.   *)

\* Mutant: an update renews the entry and forgets to store the new data.
RenewedEntry(i, v, t) == [lru[i] EXCEPT !.ttl = t, !.age = 0, !.valid = TRUE]

UpdatedEntry(i, v, t) ==
  [lru[i] EXCEPT !.value = v, !.ttl = t, !.age = 0, !.valid = TRUE]

Update(k, v, t) ==
  /\ Held(k) /\ inserts < MaxCount
  /\ lru' = ToFront(Find(k), UpdatedEntry(Find(k), v, t))
  /\ inserts' = inserts + 1
  /\ call' = Call("put", k, v)
  /\ UNCHANGED <<life, reset>>

\* Mutant: one entry too many before the first eviction.
FullLate == inserts < 0 \/ inserts > MaxEntries

(* stats.inserts >= max_entries, as unsigned numbers                            *)
Full == inserts < 0 \/ inserts >= MaxEntries

(* The entries left once a full cache has evicted the last of the list.         *)
Kept == IF Full THEN Front(lru) ELSE lru

Insert(k, v, t) ==
  /\ ~Held(k) /\ (Full => lru # <<>>)
  /\ Len(Kept) < Memory /\ inserts < MaxCount
  /\ lru' = <<NewEntry(k, v, t)>> \o Kept
  /\ inserts' = inserts + 1
  /\ call' = Call("put", k, v)
  /\ UNCHANGED <<life, reset>>

(* No memory for the entry: the victim is gone all the same.                    *)
InsertFails(k) ==
  /\ ~Held(k) /\ (Full => lru # <<>>)
  /\ lru' = Kept /\ call' = NoCall
  /\ UNCHANGED <<inserts, life, reset>>

(* list_last_entry() of an empty list is never NULL: the list head itself is    *)
(* unlinked and freed as if it were an entry.                                   *)
EvictFromEmpty(k) ==
  /\ ~Held(k) /\ Full /\ lru = <<>>
  /\ life' = "corrupt" /\ call' = NoCall
  /\ UNCHANGED <<lru, inserts, reset>>

-----------------------------------------------------------------------------
(* Lookups: kai_cache_get(), kai_cache_has() and kai_cache_get_copy().          *)

Hit(k) ==
  /\ Held(k) /\ ~Expired(lru[Find(k)])
  /\ call' = Call("get", k, lru[Find(k)].value)
  /\ lru' = ToFront(Find(k), [lru[Find(k)] EXCEPT !.age = 0])
  /\ UNCHANGED <<inserts, life, reset>>

Miss(k) ==
  /\ ~Held(k)
  /\ call' = Call("get", k, None)
  /\ UNCHANGED <<lru, inserts, life, reset>>

(* kai_cache_get() makes an expired entry invalid but leaves it where it is;    *)
(* kai_cache_get_copy() does not touch it.                                      *)
GetExpired(k) ==
  /\ Held(k) /\ Expired(lru[Find(k)])
  /\ call' = Call("get", k, None)
  /\ \/ lru' = [lru EXCEPT ![Find(k)].valid = FALSE]
     \/ UNCHANGED lru
  /\ UNCHANGED <<inserts, life, reset>>

-----------------------------------------------------------------------------
\* Mutant: the count goes down whether or not the key was there.
AnyKey(k) == TRUE

Removable(k) == Held(k)

(* kai_cache_remove()                                                           *)
RemoveKey(k) ==
  /\ Removable(k)
  /\ lru' = RemoveAt(lru, Find(k))
  /\ inserts' = inserts - 1 /\ call' = Call("remove", k, None)
  /\ UNCHANGED <<life, reset>>

(* kai_cache_flush()                                                            *)
Flush ==
  /\ lru' = <<>> /\ inserts' = 0 /\ reset' = FALSE
  /\ call' = Call("flush", None, None)
  /\ UNCHANGED life

(* kai_cache_flush_expired() takes the entries out but not off the count; the   *)
(* others stay in their order.                                                  *)
FlushExpired ==
  /\ LET fresh == {i \in DOMAIN lru : ~Expired(lru[i])}
     IN  \E place \in [1..Cardinality(fresh) -> fresh] :
           /\ \A i, j \in DOMAIN place : i < j => place[i] < place[j]
           /\ lru' = [i \in DOMAIN place |-> lru[place[i]]]
  /\ call' = NoCall
  /\ UNCHANGED <<inserts, life, reset>>

(* kai_cache_reset_stats()                                                      *)
ResetStats ==
  /\ inserts' = 0 /\ reset' = TRUE /\ call' = NoCall
  /\ UNCHANGED <<lru, life>>

(* kai_cache_destroy(); callers stop using the cache first.                     *)
Destroy ==
  /\ lru' = <<>> /\ life' = "destroyed" /\ call' = NoCall
  /\ UNCHANGED <<inserts, reset>>

Tick ==
  /\ lru' = [i \in DOMAIN lru |->
               [lru[i] EXCEPT !.age = IF @ <= MaxTtl THEN @ + 1 ELSE @]]
  /\ call' = NoCall
  /\ UNCHANGED <<inserts, life, reset>>

Put(k) ==
  \/ \E v \in Values, t \in Ttls \cup {Ttl} : Update(k, v, t) \/ Insert(k, v, t)
  \/ InsertFails(k) \/ EvictFromEmpty(k)

Lookup(k) == Hit(k) \/ Miss(k) \/ GetExpired(k)

Next ==
  /\ life = "live"
  /\ \/ \E k \in Keys : Lookup(k) \/ Put(k) \/ RemoveKey(k)
     \/ Flush \/ FlushExpired \/ ResetStats \/ Destroy \/ Tick

Spec == Init /\ [][Next]_vars

-----------------------------------------------------------------------------
(* Properties.                                                                  *)

(* The hash table and the list agree on one entry for a key, whatever state its *)
(* entry is in when it is put again; only keys that are cut off pile up.        *)
OneEntryPerKey ==
  \A i, j \in DOMAIN lru : lru[i].key = lru[j].key /\ i # j => lru[i].key \in LongKeys

(* The count of insertions is never below the number of entries, so the cache   *)
(* stays within max_entries for as long as its statistics are not reset.        *)
CapacityKept ==
  ~reset => inserts >= Len(lru) /\ Len(lru) <= MaxEntries

(* The list is in order of last use, so that what is evicted is the entry that  *)
(* has gone unused longest.                                                     *)
LruOrder == \A i, j \in DOMAIN lru : i < j => lru[i].age <= lru[j].age

(* What the hash table, the list and the counter that stands in for the fill    *)
(* level must agree on, over every sequence of operations: one entry for a key, *)
(* no more entries than the limit, and the list in order of use.                *)
ListKept == OneEntryPerKey /\ CapacityKept /\ LruOrder

(* The value a lookup of each key would find.                                   *)
Store == [k \in Keys |-> IF Held(k) /\ lru[Find(k)].valid THEN lru[Find(k)].value ELSE None]

(* A lookup finds the value put last or nothing, whatever has been updated,     *)
(* evicted or expired meanwhile, and nothing after a removal or a flush: the    *)
(* cache is a CacheStore.                                                       *)
Promise == INSTANCE CacheStore WITH store <- Store
Implements == Promise!Spec

=============================================================================
